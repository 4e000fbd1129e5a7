------------------------- MODULE SpawnProtocolProofs -------------------------
(***************************************************************************)
(* Proofs about SpawnProtocol, for requests, replies, limits and buffers   *)
(* of any size.                                                            *)
(***************************************************************************)
EXTENDS SpawnProtocol, TLAPS

\* Where the handler is in the frame it reads.
MotherPlace ==
    /\ m = "magic"  => up.got <= 4
    /\ m = "length" => 4 <= up.got /\ up.got <= 8
    /\ m = "body"   => /\ 8 <= up.got /\ up.got <= 8 + req.announced
                       /\ req.announced <= MaxMsgSize
    /\ m = "decode" => up.got = 8 + req.announced /\ req.announced <= MaxMsgSize
    /\ m = "spawn"  => WholeFrame

\* When there is a response, and what kind of one.
ResponsePlace ==
    /\ m \in MotherReading \cup {"decode", "spawn", "refuse"} => resp = None
    /\ m \in MotherWriting => resp # None
    /\ m = "writeLen" => down.sent <= 4
    /\ resp # None /\ resp.kind = "pid" => WholeFrame

\* How much of it the client has when she reports it.
ClientPlace ==
    /\ c = "write"    => down.got = 0
    /\ c = "readLen"  => down.got <= 4
    /\ c = "readBody" => resp # None /\ down.got <= 4 + Announced(resp)
    /\ c \in {"readLen", "readBody"} => up.sent = 8 + req.body

PInv == TypeOK /\ MotherPlace /\ ResponsePlace /\ ClientPlace

-----------------------------------------------------------------------------
(* The pieces of a transfer.                                               *)

\* A write puts in at least a byte, and no more than the frame and the buffer hold.
LEMMA WriteFacts ==
    ASSUME NEW d \in [sent : Nat, got : Nat], NEW size \in Int, NEW e \in Write(d, size),
           d.got <= d.sent
    PROVE  /\ e \in [sent : Nat, got : Nat]
           /\ e.got = d.got /\ e.sent > d.sent
           /\ e.sent <= size /\ e.sent <= e.got + Buffer
  <1>1. PICK k \in 1..Buffer : /\ d.sent + k <= size /\ d.sent + k <= d.got + Buffer
                               /\ e = [d EXCEPT !.sent = @ + k]
    BY DEF Write
  <1> QED  BY <1>1, SizesAssumption

\* A read takes out at least a byte, and no more than is there and was asked for.
LEMMA ReadFacts ==
    ASSUME NEW d \in [sent : Nat, got : Nat], NEW upto \in Int, NEW e \in Read(d, upto)
    PROVE  /\ e \in [sent : Nat, got : Nat]
           /\ e.sent = d.sent /\ e.got > d.got
           /\ e.got <= upto /\ e.got <= e.sent
  <1>1. PICK k \in 1..Buffer : /\ d.got + k <= upto /\ d.got + k <= d.sent
                               /\ e = [d EXCEPT !.got = @ + k]
    BY DEF Read
  <1> QED  BY <1>1, SizesAssumption

\* The fields of a request.
LEMMA RequestFacts ==
    ASSUME TypeOK
    PROVE  /\ req.magic \in BOOLEAN /\ req.json \in BOOLEAN
           /\ req.announced \in Nat /\ req.body \in Nat
  BY RequestsAssumption DEF TypeOK

\* The fields of a response; its length field holds no more than its length.
LEMMA ResponseFacts ==
    ASSUME TypeOK, resp # None
    PROVE  /\ resp.kind \in {"pid", "error"} /\ resp.body \in Nat
           /\ Announced(resp) \in Nat
  <1>1. resp.kind \in {"pid", "error"} /\ resp.body \in Nat
    BY RepliesAssumption DEF TypeOK
  <1>2. Width \in Nat /\ Width > 0
    BY SizesAssumption
  <1> QED  BY <1>1, <1>2, SMT DEF Announced

-----------------------------------------------------------------------------
LEMMA PInvInit == Init => PInv
  <1> SUFFICES ASSUME Init PROVE PInv
    OBVIOUS
  <1> USE DEF Init
  <1>1. TypeOK
    <2>1. 0 <= 8 + req.body
      BY RequestsAssumption
    <2> QED  BY <2>1, SizesAssumption DEF TypeOK, MotherReading
  <1>2. MotherPlace /\ ResponsePlace /\ ClientPlace
    BY DEF MotherPlace, ResponsePlace, ClientPlace, MotherWriting
  <1> QED  BY <1>1, <1>2 DEF PInv

LEMMA PInvStep == PInv /\ [Next]_vars => PInv'
  <1> SUFFICES ASSUME PInv, [Next]_vars PROVE PInv'
    OBVIOUS
  <1> USE DEF PInv, MotherReading, MotherWriting, MotherEnded, ClientEnded
  <1>a. /\ req.magic \in BOOLEAN /\ req.json \in BOOLEAN
        /\ req.announced \in Nat /\ req.body \in Nat
    BY RequestFacts
  <1>b. Buffer \in Nat /\ Buffer > 0 /\ MaxMsgSize \in Nat
    BY SizesAssumption
  <1>c. resp # None => /\ resp.kind \in {"pid", "error"} /\ resp.body \in Nat
                       /\ Announced(resp) \in Nat
    BY ResponseFacts
  <1>d. /\ up \in [sent : Nat, got : Nat] /\ down \in [sent : Nat, got : Nat]
        /\ up.got <= up.sent /\ down.got <= down.sent
    BY DEF TypeOK
  <1>1. CASE ClientWrite
    <2>1. /\ up' \in [sent : Nat, got : Nat] /\ up'.got = up.got /\ up'.sent > up.sent
          /\ up'.sent <= 8 + req.body /\ up'.sent <= up'.got + Buffer
      BY <1>1, <1>a, <1>d, WriteFacts DEF ClientWrite
    <2>2. TypeOK'
      BY <1>1, <2>1, <1>d DEF ClientWrite, TypeOK
    <2>3. MotherPlace' /\ ResponsePlace' /\ ClientPlace'
      BY <1>1, <2>1 DEF ClientWrite, MotherPlace, ResponsePlace, ClientPlace, WholeFrame
    <2> QED  BY <2>2, <2>3
  <1>2. CASE ClientWritten \/ ClientBroken \/ ClientEof \/ ClientDeadline \/ StrayLeaves
    <2>1. TypeOK'
      BY <1>2 DEF ClientWritten, ClientBroken, ClientEof, ClientDeadline, StrayLeaves, TypeOK
    <2>2. MotherPlace' /\ ResponsePlace'
      BY <1>2 DEF ClientWritten, ClientBroken, ClientEof, ClientDeadline, StrayLeaves,
                  MotherPlace, ResponsePlace, WholeFrame
    <2>3. ClientPlace'
      BY <1>2 DEF ClientWritten, ClientBroken, ClientEof, ClientDeadline, StrayLeaves, ClientPlace
    <2> QED  BY <2>1, <2>2, <2>3
  <1>3. CASE ClientRead
    <2>1. ClientReadUpTo \in Int
      BY <1>3, <1>c DEF ClientRead, ClientReadUpTo, ClientPlace
    <2>2. /\ down' \in [sent : Nat, got : Nat] /\ down'.sent = down.sent
          /\ down'.got > down.got /\ down'.got <= ClientReadUpTo /\ down'.got <= down'.sent
      BY <1>3, <1>d, <2>1, ReadFacts DEF ClientRead
    <2>3. TypeOK'
      BY <1>3, <2>2, <1>b, <1>d DEF ClientRead, TypeOK
    <2>4. MotherPlace' /\ ResponsePlace' /\ ClientPlace'
      BY <1>3, <2>2 DEF ClientRead, ClientReadUpTo, MotherPlace, ResponsePlace, ClientPlace,
                        WholeFrame
    <2> QED  BY <2>3, <2>4
  <1>4. CASE ClientLength \/ ClientDecode
    <2>1. resp # None
      BY <1>4, <1>d DEF ClientLength, ClientDecode, TypeOK, ClientPlace
    <2>2. TypeOK'
      BY <1>4, <2>1, <1>c DEF ClientLength, ClientDecode, TypeOK
    <2>3. MotherPlace' /\ ResponsePlace'
      BY <1>4 DEF ClientLength, ClientDecode, MotherPlace, ResponsePlace, WholeFrame
    <2>4. ClientPlace'
      BY <1>4, <2>1, <1>c DEF ClientLength, ClientDecode, ClientPlace
    <2> QED  BY <2>2, <2>3, <2>4
  <1>5. CASE MotherRead
    <2>1. /\ MotherReadUpTo \in Int
          /\ m = "magic" => MotherReadUpTo = 4
          /\ m = "length" => MotherReadUpTo = 8
          /\ m = "body" => MotherReadUpTo = 8 + req.announced
      BY <1>5, <1>a DEF MotherRead, MotherReadUpTo
    <2>2. /\ up' \in [sent : Nat, got : Nat] /\ up'.sent = up.sent
          /\ up'.got > up.got /\ up'.got <= MotherReadUpTo /\ up'.got <= up'.sent
      BY <1>5, <1>d, <2>1, ReadFacts DEF MotherRead
    <2>3. TypeOK'
      BY <1>5, <2>2, <1>a, <1>b, <1>d DEF MotherRead, TypeOK
    <2>4. resp = None
      BY <1>5 DEF MotherRead, ResponsePlace
    <2>5. MotherPlace' /\ ResponsePlace' /\ ClientPlace'
      BY <1>5, <2>1, <2>2, <2>4, <1>d
         DEF MotherRead, MotherPlace, ResponsePlace, ClientPlace
    <2> QED  BY <2>3, <2>5
  <1>6. CASE MotherMagic \/ MotherLength \/ MotherBody \/ MotherDecode \/ MotherEof
    <2>1. resp = None
      BY <1>6 DEF MotherMagic, MotherLength, MotherBody, MotherDecode, MotherEof, ResponsePlace
    <2>2. TypeOK'
      BY <1>6 DEF MotherMagic, MotherLength, MotherBody, MotherDecode, MotherEof, TypeOK
    <2>3. MotherPlace'
      <3>1. CASE MotherMagic
        BY <3>1 DEF MotherMagic, MotherPlace
      <3>2. CASE MotherLength
        BY <3>2, <1>a, <1>b DEF MotherLength, MotherPlace
      <3>3. CASE MotherBody
        BY <3>3 DEF MotherBody, MotherReadUpTo, MotherPlace
      <3>4. CASE MotherDecode
        BY <3>4 DEF MotherDecode, MotherPlace, WholeFrame
      <3>5. CASE MotherEof
        BY <3>5 DEF MotherEof, MotherPlace
      <3> QED  BY <1>6, <3>1, <3>2, <3>3, <3>4, <3>5
    <2>4. ResponsePlace' /\ ClientPlace'
      BY <1>6, <2>1 DEF MotherMagic, MotherLength, MotherBody, MotherDecode, MotherEof,
                        ResponsePlace, ClientPlace
    <2> QED  BY <2>2, <2>3, <2>4
  <1>7. CASE Refuse \/ Spawn
    <2>1. /\ resp = None /\ down.sent = 0 /\ m' = "writeLen"
          /\ UNCHANGED <<req, c, up, down>>
      BY <1>7, <1>d DEF Refuse, Spawn, ResponsePlace, TypeOK
    <2>2. /\ resp' \in [kind : {"pid", "error"}, body : Replies]
          /\ resp'.kind = "pid" => WholeFrame
      BY <1>7 DEF Refuse, Spawn, MotherPlace
    <2>3. resp' # None /\ resp'.body \in Nat
      BY <2>2, NoneAssumption, RepliesAssumption
    <2>4. TypeOK'
      BY <2>1, <2>2, <2>3 DEF TypeOK
    <2>5. MotherPlace' /\ ResponsePlace' /\ ClientPlace'
      BY <2>1, <2>2, <2>3 DEF MotherPlace, ResponsePlace, ClientPlace, WholeFrame
    <2> QED  BY <2>4, <2>5
  <1>8. CASE MotherWrite
    <2>1. resp # None
      BY <1>8 DEF MotherWrite, ResponsePlace
    <2>2. /\ MotherWriteTo \in Int /\ MotherWriteTo <= 4 + resp.body
          /\ m = "writeLen" => MotherWriteTo = 4
      BY <2>1, <1>c DEF MotherWriteTo
    <2>3. /\ down' \in [sent : Nat, got : Nat] /\ down'.got = down.got
          /\ down'.sent > down.sent /\ down'.sent <= MotherWriteTo
          /\ down'.sent <= down'.got + Buffer
      BY <1>8, <1>d, <2>2, WriteFacts DEF MotherWrite
    <2>4. TypeOK'
      BY <1>8, <2>1, <2>2, <2>3, <1>c, <1>d DEF MotherWrite, TypeOK
    <2>5. MotherPlace' /\ ResponsePlace' /\ ClientPlace'
      BY <1>8, <2>2, <2>3 DEF MotherWrite, MotherPlace, ResponsePlace, ClientPlace, WholeFrame
    <2> QED  BY <2>4, <2>5
  <1>9. CASE MotherWritten \/ MotherBroken \/ MotherKilled
    <2>1. TypeOK'
      BY <1>9 DEF MotherWritten, MotherBroken, MotherKilled, TypeOK
    <2>2. MotherPlace' /\ ResponsePlace' /\ ClientPlace'
      BY <1>9 DEF MotherWritten, MotherBroken, MotherKilled, MotherPlace, ResponsePlace,
                  ClientPlace, WholeFrame
    <2> QED  BY <2>1, <2>2
  <1>10. CASE UNCHANGED vars
    BY <1>10 DEF vars, TypeOK, MotherPlace, ResponsePlace, ClientPlace, WholeFrame
  <1> QED
    BY <1>1, <1>2, <1>3, <1>4, <1>5, <1>6, <1>7, <1>8, <1>9, <1>10
       DEF Next, ClientStep, MotherStep, Ended

-----------------------------------------------------------------------------
LEMMA PInvHolds == Spec => []PInv
  <1>1. Init => PInv
    BY PInvInit
  <1>2. PInv /\ [Next]_vars => PInv'
    BY PInvStep
  <1> QED  BY <1>1, <1>2, PTL DEF Spec

\* Neither side reads what the other has not written, or writes past its frame, and
\* neither buffer overflows: of a connection as protocol.go uses it, for every size.
THEOREM ProtocolTypeCorrect == Spec => []TypeOK
  <1>1. PInv => TypeOK
    BY DEF PInv
  <1> QED  BY <1>1, PInvHolds, PTL

\* A worker is only started for a whole frame within the limit, and for one of
\* cmd/spawn only when that has written all of it.
THEOREM OnlyWholeRequests == Spec => []WholeRequest
  <1>1. PInv => WholeRequest
    <2> SUFFICES ASSUME PInv, Acted PROVE WholeRequest
      BY DEF WholeRequest
    <2>1. WholeFrame
      BY DEF PInv, MotherPlace, ResponsePlace, Acted
    <2>2. ASSUME BySpawn PROVE up.sent = 8 + req.body
      <3>1. req.json = (req.announced = req.body)
        BY <2>2 DEF BySpawn, RequestFrame, Decodes
      <3>2. up.got = 8 + req.body
        BY <2>1, <3>1 DEF WholeFrame
      <3>3. /\ up.got \in Nat /\ up.sent \in Nat /\ req.body \in Nat
            /\ up.got <= up.sent /\ up.sent <= 8 + req.body
        BY RequestFacts DEF PInv, TypeOK
      <3> QED  BY <3>2, <3>3
    <2> QED  BY <2>1, <2>2 DEF WholeRequest
  <1> QED  BY <1>1, PInvHolds, PTL

-----------------------------------------------------------------------------
(* SpawnProtocol implements SpawnExchange.                                 *)

Request == IF resp = None THEN "awaited" ELSE IF WholeFrame THEN "handed" ELSE "refused"
Answer  == IF resp # None /\ down.sent = 4 + resp.body THEN resp.kind ELSE None
Outcome == IF c \in ClientEnded THEN c ELSE "waiting"

\* The mapped request depends on the response and on the bytes the mother has read.
LEMMA SameRequest ==
    ASSUME UNCHANGED <<req, resp>>, up'.got = up.got
    PROVE  Request' = Request
  BY DEF Request, WholeFrame

LEMMA ExchangeInit == Init => Exchange!Init
  <1> SUFFICES ASSUME Init PROVE Exchange!Init
    OBVIOUS
  <1> QED  BY DEF Init, Exchange!Init, ClientEnded

LEMMA ExchangeStep == PInv /\ [Next]_vars => [Exchange!Next]_Exchange!vars
  <1> SUFFICES ASSUME PInv, [Next]_vars PROVE [Exchange!Next]_Exchange!vars
    OBVIOUS
  <1> USE DEF PInv, MotherReading, MotherWriting, MotherEnded
  <1>0. /\ Exchange!Receive <=> (/\ Outcome = "waiting" /\ Answer # None
                                 /\ Outcome' = Answer
                                 /\ Request' = Request /\ Answer' = Answer)
        /\ Exchange!Fail <=> (/\ Outcome = "waiting" /\ Outcome' = "failed"
                              /\ Request' = Request /\ Answer' = Answer)
        /\ Exchange!HandOver <=> (/\ Request = "awaited" /\ Request' = "handed"
                                  /\ Answer' = Answer /\ Outcome' = Outcome)
        /\ Exchange!Refuse <=> (/\ Request = "awaited" /\ Request' = "refused"
                                /\ Answer' = Answer /\ Outcome' = Outcome)
        /\ Exchange!Answer <=>
             (/\ Request # "awaited" /\ Answer = None
              /\ Answer' \in (IF Request = "handed" THEN {"pid", "error"} ELSE {"error"})
              /\ Request' = Request /\ Outcome' = Outcome)
        /\ UNCHANGED Exchange!vars <=>
             (Request' = Request /\ Answer' = Answer /\ Outcome' = Outcome)
    BY DEF Exchange!Receive, Exchange!Fail, Exchange!HandOver, Exchange!Refuse,
           Exchange!Answer, Exchange!vars, Request, Answer, Outcome
  <1>a. resp # None => /\ resp.kind \in {"pid", "error"} /\ resp.body \in Nat
                       /\ Announced(resp) \in Nat
    BY ResponseFacts
  <1>b. /\ up \in [sent : Nat, got : Nat] /\ down \in [sent : Nat, got : Nat]
        /\ down.got <= down.sent
        /\ down.sent <= IF resp = None THEN 0 ELSE 4 + resp.body
    BY DEF TypeOK
  <1>1. CASE UNCHANGED <<resp, req, down, c>> /\ up'.got = up.got
    <2>1. Request' = Request /\ Answer' = Answer /\ Outcome' = Outcome
      BY <1>1, SameRequest DEF Answer, Outcome
    <2> QED  BY <2>1, <1>0
  <1>2. CASE UNCHANGED <<resp, req, up, down>> /\ c \notin ClientEnded
             /\ c' \in {"readLen", "readBody", "failed"}
    <2>1. Request' = Request /\ Answer' = Answer /\ Outcome = "waiting"
      BY <1>2, SameRequest DEF Answer, Outcome
    <2>2. Outcome' = Outcome \/ Outcome' = "failed"
      BY <1>2 DEF Outcome, ClientEnded
    <2> QED  BY <2>1, <2>2, <1>0 DEF Exchange!Next
  <1>3. CASE ClientWrite
    <2>1. up'.got = up.got
      <3>1. 8 + req.body \in Int
        BY RequestFacts
      <3> QED  BY <1>3, <1>b, <3>1, WriteFacts DEF ClientWrite, TypeOK
    <2> QED  BY <1>1, <1>3, <2>1 DEF ClientWrite
  <1>4. CASE ClientRead
    <2>1. ClientReadUpTo \in Int
      BY <1>4, <1>a DEF ClientRead, ClientReadUpTo, ClientPlace
    <2>2. down'.sent = down.sent
      BY <1>4, <1>b, <2>1, ReadFacts DEF ClientRead
    <2>3. Request' = Request /\ Answer' = Answer /\ Outcome' = Outcome
      BY <1>4, <2>2, SameRequest DEF ClientRead, Answer, Outcome
    <2> QED  BY <2>3, <1>0
  <1>5. CASE ClientDecode
    <2>1. resp # None /\ c = "readBody" /\ down.got = 4 + Announced(resp)
      BY <1>5 DEF ClientDecode, ClientReadUpTo, ClientPlace
    <2>2. CASE Announced(resp) = resp.body
      <3>1. down.sent = 4 + resp.body
        BY <2>1, <2>2, <1>a, <1>b
      <3>2. Answer = resp.kind /\ Answer # None /\ c' = resp.kind
        BY <1>5, <2>1, <2>2, <3>1, <1>a, NoneAssumption DEF Answer, ClientDecode, Decodes
      <3>3. Outcome = "waiting" /\ Outcome' = Answer
        BY <2>1, <3>2, <1>a DEF Outcome, ClientEnded
      <3>4. Request' = Request /\ Answer' = Answer
        BY <1>5, SameRequest DEF ClientDecode, Answer
      <3> QED  BY <3>2, <3>3, <3>4, <1>0 DEF Exchange!Next
    <2>3. CASE Announced(resp) # resp.body
      BY <1>2, <1>5, <2>1, <2>3 DEF ClientDecode, Decodes, ClientEnded
    <2> QED  BY <2>2, <2>3
  <1>6. CASE MotherRead
    <2>1. resp = None
      BY <1>6 DEF MotherRead, ResponsePlace
    <2>2. Request' = Request /\ Answer' = Answer /\ Outcome' = Outcome
      BY <1>6, <2>1 DEF MotherRead, Request, Answer, Outcome
    <2> QED  BY <2>2, <1>0
  <1>7. CASE Refuse \/ Spawn
    <2>1. /\ resp = None /\ down.sent = 0 /\ UNCHANGED <<req, c, up, down>>
      BY <1>7, <1>b DEF Refuse, Spawn, ResponsePlace
    <2>2. resp' \in [kind : {"pid", "error"}, body : Replies]
      BY <1>7 DEF Refuse, Spawn
    <2>3. resp' # None /\ resp'.body \in Nat
      BY <2>2, NoneAssumption, RepliesAssumption
    <2>4. Answer' = Answer /\ Outcome' = Outcome
      BY <2>1, <2>3 DEF Answer, Outcome
    <2>5. Request = "awaited" /\ Request' \in {"handed", "refused"}
      BY <2>1, <2>3 DEF Request
    <2> QED  BY <2>4, <2>5, <1>0 DEF Exchange!Next
  <1>8. CASE MotherWrite
    <2>1. resp # None /\ Request # "awaited"
      BY <1>8 DEF MotherWrite, ResponsePlace, Request
    <2>2. MotherWriteTo \in Int /\ MotherWriteTo <= 4 + resp.body
      BY <2>1, <1>a DEF MotherWriteTo
    <2>3. /\ down' \in [sent : Nat, got : Nat]
          /\ down'.sent > down.sent /\ down'.sent <= MotherWriteTo
      BY <1>8, <1>b, <2>2, WriteFacts DEF MotherWrite
    <2>4. Answer = None /\ Request' = Request /\ Outcome' = Outcome
      <3>1. down.sent # 4 + resp.body
        BY <2>1, <2>2, <2>3, <1>b, <1>a
      <3> QED  BY <1>8, <3>1, SameRequest DEF MotherWrite, Answer, Outcome
    <2>5. Answer' = None \/ Answer' = resp.kind
      BY <1>8 DEF MotherWrite, Answer
    <2>6. resp.kind \in (IF Request = "handed" THEN {"pid", "error"} ELSE {"error"})
      BY <2>1, <1>a DEF ResponsePlace, Request
    <2> QED  BY <2>1, <2>4, <2>5, <2>6, <1>0 DEF Exchange!Next
  <1>9. CASE ClientWritten \/ ClientBroken \/ ClientLength \/ ClientEof \/ ClientDeadline
              \/ StrayLeaves
    BY <1>2, <1>9 DEF ClientWritten, ClientBroken, ClientLength, ClientEof, ClientDeadline,
                      StrayLeaves, ClientEnded
  <1>10. CASE \/ MotherMagic \/ MotherLength \/ MotherBody \/ MotherDecode \/ MotherEof
              \/ MotherWritten \/ MotherBroken \/ MotherKilled \/ UNCHANGED vars
    BY <1>1, <1>10 DEF MotherMagic, MotherLength, MotherBody, MotherDecode, MotherEof,
                       MotherWritten, MotherBroken, MotherKilled, vars
  <1> QED
    BY <1>3, <1>4, <1>5, <1>6, <1>7, <1>8, <1>9, <1>10
       DEF Next, ClientStep, MotherStep, Ended

\* What the two ends of a connection make of each other is what SpawnExchange says: a
\* request handed over whole or not at all, an answer given once, received or missed.
THEOREM ProtocolImplements == Spec => ImplementsExchange
  <1> QED
    BY ExchangeInit, ExchangeStep, PInvHolds, PTL DEF Spec, ImplementsExchange, Exchange!Spec

-----------------------------------------------------------------------------
(* Both sides end: all of BothEnd but the fairness.                        *)

\* The guards of ClientStep and of MotherStep.
ClientCanMove ==
    \/ c = "write" /\ \/ m \in MotherEnded
                      \/ up.sent = 8 + req.body
                      \/ Write(up, 8 + req.body) # {}
    \/ c = "readLen" /\ down.got = 4
    \/ c = "readBody" /\ down.got = ClientReadUpTo
    \/ c \in {"readLen", "readBody"} /\ \/ m \in MotherEnded /\ Drained(down)
                                        \/ Read(down, ClientReadUpTo) # {}

MotherCanMove ==
    \/ m \in {"decode", "spawn", "refuse"}
    \/ m \in MotherReading /\ \/ up.got = MotherReadUpTo
                              \/ Read(up, MotherReadUpTo) # {}
                              \/ c \in ClientEnded /\ Drained(up)
    \/ m \in MotherWriting /\ \/ down.sent = MotherWriteTo
                              \/ c \in ClientEnded
                              \/ Write(down, MotherWriteTo) # {}

\* A side whose other end is gone has a step to take, without any deadline.
LeftAlone ==
    /\ c \in ClientEnded /\ m \notin MotherEnded => MotherCanMove
    /\ m \in MotherEnded /\ c \notin ClientEnded => ClientCanMove

\* Nor do two sides wait for each other, if the client writes as many bytes as
\* it announces and the kernel keeps the mother's response for a client that
\* is still writing.  For the others cmd/spawn has its deadline; a client that has
\* none may wait as long as it likes, and its handler with it.
NoMutualWait ==
    /\ req.announced <= req.body
    /\ resp # None => 4 + resp.body <= Buffer
    /\ c \notin ClientEnded /\ m \notin MotherEnded
    => ClientCanMove \/ MotherCanMove

\* The places a connection has left to go through, and the bytes.
ClientLeft == [x \in {"write", "readLen", "readBody"} \cup ClientEnded |->
    CASE x = "write" -> 3 [] x = "readLen" -> 2 [] x = "readBody" -> 1 [] OTHER -> 0]
MotherLeft == [x \in MotherReading \cup {"decode", "spawn", "refuse"} \cup MotherWriting
                     \cup MotherEnded |->
    CASE x = "magic" -> 7 [] x = "length" -> 6 [] x = "body" -> 5 [] x = "decode" -> 4
      [] x \in {"spawn", "refuse"} -> 3 [] x = "writeLen" -> 2 [] x = "writeBody" -> 1
      [] OTHER -> 0]
PlacesLeft == ClientLeft[c] + MotherLeft[m]
BytesLeft ==
    (8 + req.body - up.sent) + (8 + req.body - up.got)
  + IF resp = None THEN 0 ELSE (4 + resp.body - down.sent) + (4 + resp.body - down.got)

\* Every step of a connection goes on to a new place or transfers a byte, and
\* there is no way back.
Onward == [][\/ PlacesLeft' < PlacesLeft
             \/ PlacesLeft' = PlacesLeft /\ BytesLeft' < BytesLeft]_vars

\* When some byte can be written, and when some can be read.
LEMMA CanWrite ==
    ASSUME NEW d \in [sent : Nat, got : Nat], NEW size \in Int,
           d.sent < size, d.sent < d.got + Buffer
    PROVE  Write(d, size) # {}
  <1>1. 1 \in {k \in 1..Buffer : d.sent + k <= size /\ d.sent + k <= d.got + Buffer}
    BY SizesAssumption
  <1>2. [d EXCEPT !.sent = @ + 1] \in Write(d, size)
    BY <1>1 DEF Write
  <1> QED  BY <1>2

\* The same of a read.
LEMMA CanRead ==
    ASSUME NEW d \in [sent : Nat, got : Nat], NEW upto \in Int,
           d.got < upto, d.got < d.sent
    PROVE  Read(d, upto) # {}
  <1>1. 1 \in {k \in 1..Buffer : d.got + k <= upto /\ d.got + k <= d.sent}
    BY SizesAssumption
  <1>2. [d EXCEPT !.got = @ + 1] \in Read(d, upto)
    BY <1>1 DEF Read
  <1> QED  BY <1>2

\* A mother that reads is at most where she stops reading.
LEMMA MotherReadPlace ==
    ASSUME PInv, m \in MotherReading
    PROVE  /\ MotherReadUpTo \in Nat /\ up.got <= MotherReadUpTo
           /\ MotherReadUpTo <= 8 + req.announced
  BY RequestFacts DEF PInv, MotherPlace, MotherReading, MotherReadUpTo, TypeOK

\* And so is a client.
LEMMA ClientReadPlace ==
    ASSUME PInv, c \in {"readLen", "readBody"}
    PROVE  ClientReadUpTo \in Nat /\ down.got <= ClientReadUpTo
  BY ResponseFacts DEF PInv, ClientPlace, ClientReadUpTo, TypeOK

\* A mother that writes has a response and has not passed its end.
LEMMA MotherWritePlace ==
    ASSUME PInv, m \in MotherWriting
    PROVE  /\ resp # None
           /\ MotherWriteTo \in Nat /\ down.sent <= MotherWriteTo
           /\ MotherWriteTo <= 4 + resp.body
  <1>1. resp # None
    BY DEF PInv, ResponsePlace
  <1> QED  BY <1>1, ResponseFacts DEF PInv, ResponsePlace, TypeOK, MotherWriteTo, MotherWriting

\* A client whose mother has gone, and a mother whose client has, can go on.
LEMMA AloneMoves == PInv => LeftAlone
  <1> SUFFICES ASSUME PInv PROVE LeftAlone
    OBVIOUS
  <1>1. /\ up \in [sent : Nat, got : Nat] /\ down \in [sent : Nat, got : Nat]
        /\ up.got <= up.sent /\ down.got <= down.sent
    BY DEF PInv, TypeOK
  <1>2. ASSUME c \in ClientEnded, m \notin MotherEnded PROVE MotherCanMove
    <2>1. CASE m \in MotherReading
      <3>1. CASE Drained(up)
        BY <1>2, <2>1, <3>1 DEF MotherCanMove
      <3>2. CASE up.got = MotherReadUpTo
        BY <2>1, <3>2 DEF MotherCanMove
      <3>3. CASE ~Drained(up) /\ up.got # MotherReadUpTo
        BY <1>1, <2>1, <3>3, MotherReadPlace, CanRead DEF MotherCanMove, Drained
      <3> QED  BY <3>1, <3>2, <3>3
    <2> QED  BY <1>2, <2>1 DEF MotherCanMove, PInv, TypeOK
  <1>3. ASSUME m \in MotherEnded, c \notin ClientEnded PROVE ClientCanMove
    <2>1. CASE c \in {"readLen", "readBody"}
      <3>1. CASE Drained(down)
        BY <1>3, <2>1, <3>1 DEF ClientCanMove
      <3>2. CASE down.got = ClientReadUpTo
        BY <2>1, <3>2 DEF ClientCanMove, ClientReadUpTo
      <3>3. CASE ~Drained(down) /\ down.got # ClientReadUpTo
        BY <1>1, <2>1, <3>3, ClientReadPlace, CanRead DEF ClientCanMove, Drained
      <3> QED  BY <3>1, <3>2, <3>3
    <2> QED  BY <1>3, <2>1 DEF ClientCanMove, PInv, TypeOK
  <1> QED  BY <1>2, <1>3 DEF LeftAlone

\* Two sides that are there do not wait for each other.
LEMMA BothMove == PInv => NoMutualWait
  <1> SUFFICES ASSUME PInv, req.announced <= req.body,
                      resp # None => 4 + resp.body <= Buffer,
                      c \notin ClientEnded, m \notin MotherEnded
               PROVE  ClientCanMove \/ MotherCanMove
    BY DEF NoMutualWait
  <1>1. /\ up \in [sent : Nat, got : Nat] /\ down \in [sent : Nat, got : Nat]
        /\ up.got <= up.sent /\ up.sent <= up.got + Buffer /\ up.sent <= 8 + req.body
        /\ down.got <= down.sent
    BY DEF PInv, TypeOK
  <1>2. req.announced \in Nat /\ req.body \in Nat /\ Buffer \in Nat /\ Buffer > 0
    BY RequestFacts, SizesAssumption DEF PInv
  <1>3. CASE m \in MotherReading
    <2>1. CASE up.got = MotherReadUpTo
      BY <1>3, <2>1 DEF MotherCanMove
    <2>2. CASE up.got < MotherReadUpTo /\ up.got < up.sent
      BY <1>1, <1>3, <2>2, MotherReadPlace, CanRead DEF MotherCanMove
    <2>3. CASE up.got < MotherReadUpTo /\ up.got = up.sent
      <3>1. up.sent < 8 + req.body
        BY <1>1, <1>2, <1>3, <2>3, MotherReadPlace
      <3>2. c = "write"
        BY <3>1, <1>1, <1>2 DEF PInv, TypeOK, ClientPlace
      <3> QED  BY <1>1, <1>2, <2>3, <3>1, <3>2, CanWrite DEF ClientCanMove
    <2> QED  BY <1>1, <1>3, <2>1, <2>2, <2>3, MotherReadPlace
  <1>4. CASE m \in MotherWriting
    <2>0. resp # None /\ resp.body \in Nat /\ 4 + resp.body <= Buffer
      BY <1>4, MotherWritePlace, ResponseFacts DEF PInv
    <2>1. CASE down.sent = MotherWriteTo
      BY <1>4, <2>1 DEF MotherCanMove
    <2>2. CASE down.sent < MotherWriteTo
      <3>1. down.sent < down.got + Buffer
        BY <1>1, <1>2, <1>4, <2>0, <2>2, MotherWritePlace
      <3> QED  BY <1>1, <1>4, <2>2, <3>1, MotherWritePlace, CanWrite DEF MotherCanMove
    <2> QED  BY <1>1, <1>4, <2>1, <2>2, MotherWritePlace
  <1> QED  BY <1>3, <1>4 DEF MotherCanMove, PInv, TypeOK

\* Neither side is ever left waiting for one that has gone.
THEOREM NobodyIsLeftWaiting == Spec => []LeftAlone
  <1> QED  BY AloneMoves, PInvHolds, PTL

\* Two sides that are both there do not wait for each other, as long as a
\* response fits what the kernel keeps for the client.
THEOREM SidesDoNotBlock == Spec => []NoMutualWait
  <1> QED  BY BothMove, PInvHolds, PTL

-----------------------------------------------------------------------------
\* How far each place is from the end.
LEMMA LeftValues ==
    /\ ClientLeft["write"] = 3 /\ ClientLeft["readLen"] = 2 /\ ClientLeft["readBody"] = 1
    /\ \A x \in ClientEnded : ClientLeft[x] = 0
    /\ MotherLeft["magic"] = 7 /\ MotherLeft["length"] = 6 /\ MotherLeft["body"] = 5
    /\ MotherLeft["decode"] = 4 /\ MotherLeft["spawn"] = 3 /\ MotherLeft["refuse"] = 3
    /\ MotherLeft["writeLen"] = 2 /\ MotherLeft["writeBody"] = 1
    /\ \A x \in MotherEnded : MotherLeft[x] = 0
  BY DEF ClientLeft, MotherLeft, ClientEnded, MotherEnded, MotherReading, MotherWriting

\* A client, and a mother, that goes from one place to another goes on.
LEMMA PlacesGoOn ==
    ASSUME PInv,
           \/ m' = m /\ c' \in {"readLen", "readBody"} \cup ClientEnded
                    /\ ClientLeft[c'] < ClientLeft[c]
           \/ c' = c /\ m' \in {"length", "body", "decode", "spawn", "refuse"}
                            \cup MotherWriting \cup MotherEnded
                    /\ MotherLeft[m'] < MotherLeft[m]
    PROVE  PlacesLeft' < PlacesLeft
  <1>1. ClientLeft[c] \in 0 .. 3 /\ MotherLeft[m] \in 0 .. 7
    BY LeftValues DEF PInv, TypeOK, ClientEnded, MotherEnded, MotherReading, MotherWriting
  <1>2. /\ m' = m => ClientLeft[c'] \in 0 .. 3
        /\ c' = c => MotherLeft[m'] \in 0 .. 7
    BY LeftValues DEF ClientEnded, MotherEnded, MotherWriting
  <1> QED  BY <1>1, <1>2 DEF PlacesLeft

\* The steps of a client that transfer nothing.
LEMMA ClientPlacesStep ==
    ASSUME PInv, \/ ClientWritten \/ ClientBroken \/ ClientLength \/ ClientDecode \/ ClientEof
                 \/ ClientDeadline \/ StrayLeaves
    PROVE  PlacesLeft' < PlacesLeft
  <1>1. ClientDecode => resp.kind \in {"pid", "error"}
    BY ResponseFacts DEF ClientDecode, PInv, ClientPlace
  <1>2. /\ m' = m /\ c' \in {"readLen", "readBody"} \cup ClientEnded
        /\ ClientLeft[c'] < ClientLeft[c]
    BY <1>1, LeftValues DEF PInv, TypeOK, ClientWritten, ClientBroken, ClientLength,
       ClientDecode, ClientEof, ClientDeadline, StrayLeaves, ClientEnded
  <1> QED  BY <1>2, PlacesGoOn

\* The steps of a mother that transfer nothing.
LEMMA MotherPlacesStep ==
    ASSUME PInv, \/ MotherMagic \/ MotherLength \/ MotherBody \/ MotherDecode \/ MotherEof
                 \/ Refuse \/ Spawn \/ MotherWritten \/ MotherBroken \/ MotherKilled
    PROVE  PlacesLeft' < PlacesLeft
  <1>1. /\ c' = c /\ m' \in {"length", "body", "decode", "spawn", "refuse"}
                       \cup MotherWriting \cup MotherEnded
        /\ MotherLeft[m'] < MotherLeft[m]
    BY LeftValues DEF PInv, TypeOK, MotherMagic, MotherLength, MotherBody, MotherDecode,
       MotherEof, Refuse, Spawn, MotherWritten, MotherBroken, MotherKilled,
       MotherEnded, MotherReading, MotherWriting
  <1> QED  BY <1>1, PlacesGoOn

\* A transfer leaves the places alone and takes bytes off.
LEMMA TransferStep ==
    ASSUME PInv, ClientWrite \/ ClientRead \/ MotherRead \/ MotherWrite
    PROVE  PlacesLeft' = PlacesLeft /\ BytesLeft' < BytesLeft
  <1>1. UNCHANGED <<req, resp, c, m>>
    BY DEF ClientWrite, ClientRead, MotherRead, MotherWrite
  <1>2. /\ up \in [sent : Nat, got : Nat] /\ down \in [sent : Nat, got : Nat]
        /\ up.got <= up.sent /\ down.got <= down.sent /\ req.body \in Nat
        /\ resp # None => resp.body \in Nat
    BY RequestFacts, ResponseFacts DEF PInv, TypeOK
  <1>3. CASE ClientWrite
    <2>1. up'.got = up.got /\ up'.sent > up.sent /\ up' \in [sent : Nat, got : Nat] /\ down' = down
      BY <1>2, <1>3, WriteFacts DEF ClientWrite
    <2> QED  BY <1>1, <1>2, <2>1 DEF PlacesLeft, BytesLeft
  <1>4. CASE MotherRead
    <2>1. up'.sent = up.sent /\ up'.got > up.got /\ up' \in [sent : Nat, got : Nat] /\ down' = down
      BY <1>2, <1>4, MotherReadPlace, ReadFacts DEF MotherRead
    <2> QED  BY <1>1, <1>2, <2>1 DEF PlacesLeft, BytesLeft
  <1>5. CASE ClientRead
    <2>1. /\ down'.sent = down.sent /\ down'.got > down.got /\ down'.got <= down.sent
          /\ down' \in [sent : Nat, got : Nat] /\ up' = up
      BY <1>2, <1>5, ClientReadPlace, ReadFacts DEF ClientRead
    <2>2. resp # None
      BY <1>2, <2>1, <1>5 DEF PInv, TypeOK, ClientRead
    <2> QED  BY <1>1, <1>2, <2>1, <2>2 DEF PlacesLeft, BytesLeft
  <1>6. CASE MotherWrite
    <2>1. /\ down'.got = down.got /\ down'.sent > down.sent
          /\ down' \in [sent : Nat, got : Nat] /\ up' = up /\ resp # None
      BY <1>2, <1>6, MotherWritePlace, WriteFacts DEF MotherWrite
    <2> QED  BY <1>1, <1>2, <2>1 DEF PlacesLeft, BytesLeft
  <1> QED  BY <1>3, <1>4, <1>5, <1>6

\* Bytes and places can be counted down: neither ever falls below zero.
LEMMA LeftInNat ==
    ASSUME PInv
    PROVE  PlacesLeft \in Nat /\ BytesLeft \in Nat
  <1>1. ClientLeft[c] \in Nat /\ MotherLeft[m] \in Nat
    BY LeftValues DEF PInv, TypeOK, ClientEnded, MotherEnded, MotherReading, MotherWriting
  <1>2. /\ up \in [sent : Nat, got : Nat] /\ down \in [sent : Nat, got : Nat]
        /\ up.got <= up.sent /\ up.sent <= 8 + req.body /\ down.got <= down.sent
        /\ down.sent <= IF resp = None THEN 0 ELSE 4 + resp.body
        /\ req.body \in Nat /\ (resp # None => resp.body \in Nat)
    BY RequestFacts, ResponseFacts DEF PInv, TypeOK
  <1> QED  BY <1>1, <1>2 DEF PlacesLeft, BytesLeft

\* A connection is over after finitely many steps of both sides, however the
\* kernel cuts the transfers up: each passes on to another place, of which
\* there are at most ten, or transfers one of the bytes left.
THEOREM EveryStepCounts ==
    Spec => /\ [](PlacesLeft \in Nat /\ BytesLeft \in Nat)
            /\ Onward
  <1>1. PInv => PlacesLeft \in Nat /\ BytesLeft \in Nat
    BY LeftInNat
  <1>2. ASSUME PInv, [Next]_vars
        PROVE  [\/ PlacesLeft' < PlacesLeft
                \/ PlacesLeft' = PlacesLeft /\ BytesLeft' < BytesLeft]_vars
    BY <1>2, ClientPlacesStep, MotherPlacesStep, TransferStep
       DEF Next, ClientStep, MotherStep, Ended
  <1> QED  BY <1>1, <1>2, PInvHolds, PTL DEF Spec, Onward
=============================================================================
