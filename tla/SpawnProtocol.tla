---------------------------- MODULE SpawnProtocol ----------------------------
(***************************************************************************)
(* One connection of the spawn protocol (zygote/protocol.go) between a     *)
(* client (cmd/spawn) and its handleSpawn goroutine in the mother          *)
(* (cmd/zygote), byte for byte.                                            *)
(*                                                                         *)
(* A frame is 4 bytes of magic (requests only), 4 bytes of length and a    *)
(* body.  Of its bytes only their number matters: where in the frame the   *)
(* writer and the reader are.  The kernel keeps Buffer bytes of each       *)
(* direction and splits writes and reads as it likes.                      *)
(*                                                                         *)
(* The socket is open to everybody.  Whoever else connects may write       *)
(* something that is not such a frame (other magic, fewer bytes than       *)
(* announced, no JSON), may hang up whenever he likes, and need not: only  *)
(* cmd/spawn sets a deadline, and the mother sets none.                    *)
(***************************************************************************)
EXTENDS Integers

CONSTANTS
    Requests,     \* what may be written: [magic, announced, body, json, spawn]; json:
                  \* the announced bytes are a JSON request; spawn: by cmd/spawn
    Replies,      \* sizes a response may have
    MaxMsgSize,
    Width,        \* 2^32: what a length field can count
    Buffer,       \* bytes the kernel keeps for a reader
    None

ASSUME RequestsAssumption ==
    \A q \in Requests : /\ q.magic \in BOOLEAN /\ q.json \in BOOLEAN
                        /\ q.announced \in Nat /\ q.body \in Nat
ASSUME RepliesAssumption == Replies \subseteq Nat /\ Replies # {}
ASSUME SizesAssumption ==
    /\ MaxMsgSize \in Nat /\ Width \in Nat \ {0} /\ Buffer \in Nat \ {0}
ASSUME NoneAssumption == None \notin {"pid", "error"} \cup [kind : {"pid", "error"}, body : Replies]

\* JSON that is cut off is no JSON.
Decodes(announced, body) == announced = body

\* WriteRequest's frame around a payload of n bytes.
RequestFrame(n) ==
    [magic |-> TRUE, announced |-> n % Width, body |-> n, json |-> Decodes(n % Width, n),
     spawn |-> TRUE]

VARIABLES
    req,        \* the request on this connection
    c,          \* the client: "write", "readLen", "readBody" or its outcome
    m,          \* the handler
    resp,       \* the response being written: [kind, body], or None
    up, down    \* bytes written to and read from each direction: [sent, got]

vars == <<req, c, m, resp, up, down>>

ClientEnded   == {"pid", "error", "failed"}
MotherReading == {"magic", "length", "body"}
MotherWriting == {"writeLen", "writeBody"}
MotherEnded   == {"done", "killed"}

Announced(r) == r.body % Width

\* The client is cmd/spawn, which writes by WriteRequest.
BySpawn == req = RequestFrame(req.body)

TypeOK ==
    /\ req \in Requests
    /\ c \in {"write", "readLen", "readBody"} \cup ClientEnded
    /\ m \in MotherReading \cup {"decode", "spawn", "refuse"} \cup MotherWriting \cup MotherEnded
    /\ resp \in [kind : {"pid", "error"}, body : Replies] \cup {None}
    /\ up \in [sent : Nat, got : Nat] /\ down \in [sent : Nat, got : Nat]
    /\ up.got <= up.sent /\ up.sent <= up.got + Buffer /\ up.sent <= 8 + req.body
    /\ down.got <= down.sent /\ down.sent <= down.got + Buffer
    /\ down.sent <= IF resp = None THEN 0 ELSE 4 + resp.body

Init ==
    /\ req \in Requests
    /\ c = "write" /\ m = "magic" /\ resp = None
    /\ up = [sent |-> 0, got |-> 0] /\ down = [sent |-> 0, got |-> 0]

\* A write of some bytes of a frame of the given length; a read of some bytes up to
\* a position.  Both take what the kernel lets them.
Write(d, size) ==
    {[d EXCEPT !.sent = @ + k] : k \in {k \in 1..Buffer :
        d.sent + k <= size /\ d.sent + k <= d.got + Buffer}}
Read(d, upto) ==
    {[d EXCEPT !.got = @ + k] : k \in {k \in 1..Buffer :
        d.got + k <= upto /\ d.got + k <= d.sent}}

Drained(d) == d.got = d.sent

-----------------------------------------------------------------------------
(* The client: cmd/spawn from WriteRequest on.                             *)

ClientWrite ==
    /\ c = "write" /\ m \notin MotherEnded
    /\ up' \in Write(up, 8 + req.body)
    /\ UNCHANGED <<req, c, m, resp, down>>

ClientWritten ==
    /\ c = "write" /\ up.sent = 8 + req.body
    /\ c' = "readLen"
    /\ UNCHANGED <<req, m, resp, up, down>>

\* The mother has closed the connection: what is left cannot be written, and her
\* response, if there is one, is not read any more.
ClientBroken ==
    /\ c = "write" /\ up.sent < 8 + req.body /\ m \in MotherEnded
    /\ c' = "failed"
    /\ UNCHANGED <<req, m, resp, up, down>>

ClientReadUpTo == IF c = "readLen" THEN 4 ELSE 4 + Announced(resp)

ClientRead ==
    /\ \/ c = "readLen"
       \/ c = "readBody"
    /\ down' \in Read(down, ClientReadUpTo)
    /\ UNCHANGED <<req, c, m, resp, up>>

ClientLength ==
    /\ c = "readLen" /\ down.got = 4
    /\ c' = IF Announced(resp) > MaxMsgSize THEN "failed" ELSE "readBody"
    /\ UNCHANGED <<req, m, resp, up, down>>

\* FAULT: Read instead of ReadFull, and a zero response counts as one.
ClientDecodeShort ==
    /\ c = "readBody"
    /\ c' = resp.kind
    /\ UNCHANGED <<req, m, resp, up, down>>

ClientDecode ==
    /\ c = "readBody" /\ down.got = ClientReadUpTo
    /\ c' = IF Decodes(Announced(resp), resp.body) THEN resp.kind ELSE "failed"
    /\ UNCHANGED <<req, m, resp, up, down>>

\* End of file, or a reset, before ReadFull has what it wants.
ClientEof ==
    /\ c \in {"readLen", "readBody"} /\ m \in MotherEnded
    /\ Drained(down) /\ down.got < ClientReadUpTo
    /\ c' = "failed"
    /\ UNCHANGED <<req, m, resp, up, down>>

\* FAULT: only reads have a deadline.
ClientReadDeadline ==
    /\ BySpawn /\ c \in {"readLen", "readBody"}
    /\ c' = "failed"
    /\ UNCHANGED <<req, m, resp, up, down>>

\* The deadline cmd/spawn sets after dialling covers all writes and reads.
ClientDeadline ==
    /\ BySpawn /\ c \notin ClientEnded
    /\ c' = "failed"
    /\ UNCHANGED <<req, m, resp, up, down>>

\* Another client hangs up, if it does.
StrayLeaves ==
    /\ ~BySpawn /\ c \notin ClientEnded
    /\ c' = "failed"
    /\ UNCHANGED <<req, m, resp, up, down>>

-----------------------------------------------------------------------------
(* The mother: handleSpawn, readFrame, ReadRequest, WriteResponse.         *)

MotherReadUpTo ==
    CASE m = "magic" -> 4 [] m = "length" -> 8 [] m = "body" -> 8 + req.announced

MotherRead ==
    /\ m \in MotherReading
    /\ up' \in Read(up, MotherReadUpTo)
    /\ UNCHANGED <<req, c, m, resp, down>>

MotherMagic ==
    /\ m = "magic" /\ up.got = 4
    /\ m' = "length"
    /\ UNCHANGED <<req, c, resp, up, down>>

\* FAULT: the limit is not checked.
MotherAnyLength ==
    /\ m = "length" /\ up.got = 8
    /\ m' = "body"
    /\ UNCHANGED <<req, c, resp, up, down>>

\* A body that is too long is not even read.
MotherLength ==
    /\ m = "length" /\ up.got = 8
    /\ m' = IF req.announced > MaxMsgSize THEN "refuse" ELSE "body"
    /\ UNCHANGED <<req, c, resp, up, down>>

MotherBody ==
    /\ m = "body" /\ up.got = MotherReadUpTo
    /\ m' = "decode"
    /\ UNCHANGED <<req, c, resp, up, down>>

\* ReadRequest looks at the magic only now.
MotherDecode ==
    /\ m = "decode"
    /\ m' = IF req.magic /\ req.json THEN "spawn" ELSE "refuse"
    /\ UNCHANGED <<req, c, resp, up, down>>

MotherEof ==
    /\ m \in MotherReading /\ c \in ClientEnded
    /\ Drained(up) /\ up.got < MotherReadUpTo
    /\ m' = "refuse"
    /\ UNCHANGED <<req, c, resp, up, down>>

Refuse ==
    /\ m = "refuse"
    /\ \E n \in Replies : resp' = [kind |-> "error", body |-> n]
    /\ m' = "writeLen"
    /\ UNCHANGED <<req, c, up, down>>

\* The leaf and the worker are made, or not: ZygoteMother has the details.
Spawn ==
    /\ m = "spawn"
    /\ \E k \in {"pid", "error"}, n \in Replies : resp' = [kind |-> k, body |-> n]
    /\ m' = "writeLen"
    /\ UNCHANGED <<req, c, up, down>>

\* FAULT: the response begins with the magic, as requests do.
MotherWriteWithMagic == IF m = "writeLen" THEN 8 ELSE 8 + resp.body

\* WriteResponse makes two writes.
MotherWriteTo == IF m = "writeLen" THEN 4 ELSE 4 + resp.body

MotherWrite ==
    /\ m \in MotherWriting /\ c \notin ClientEnded
    /\ down' \in Write(down, MotherWriteTo)
    /\ UNCHANGED <<req, c, m, resp, up>>

MotherWritten ==
    /\ m \in MotherWriting /\ down.sent = MotherWriteTo
    /\ m' = IF m = "writeLen" THEN "writeBody" ELSE "done"
    /\ UNCHANGED <<req, c, resp, up, down>>

\* The error of WriteResponse is ignored.
MotherBroken ==
    /\ m \in MotherWriting /\ down.sent < MotherWriteTo /\ c \in ClientEnded
    /\ m' = "done"
    /\ UNCHANGED <<req, c, resp, up, down>>

\* os.Exit, or a kill.
MotherKilled ==
    /\ m \notin MotherEnded
    /\ m' = "killed"
    /\ UNCHANGED <<req, c, resp, up, down>>

-----------------------------------------------------------------------------
ClientStep == \/ ClientWrite \/ ClientWritten \/ ClientBroken \/ ClientRead
              \/ ClientLength \/ ClientDecode \/ ClientEof

MotherStep == \/ MotherRead \/ MotherMagic \/ MotherLength \/ MotherBody
              \/ MotherDecode \/ MotherEof \/ Refuse \/ Spawn
              \/ MotherWrite \/ MotherWritten \/ MotherBroken

Ended == c \in ClientEnded /\ m \in MotherEnded /\ UNCHANGED vars

Next == ClientStep \/ ClientDeadline \/ StrayLeaves \/ MotherStep \/ MotherKilled \/ Ended

Spec == Init /\ [][Next]_vars

\* The mother and cmd/spawn go on while they can, and the deadline of cmd/spawn comes.
\* Other clients may stop anywhere, and nobody has to be killed.
FairSpec == /\ Spec
            /\ WF_vars(BySpawn /\ ClientStep)
            /\ WF_vars(ClientDeadline)
            /\ WF_vars(MotherStep)

-----------------------------------------------------------------------------
Acted == m = "spawn" \/ (resp # None /\ resp.kind = "pid")

WholeFrame ==
    /\ up.got = 8 + req.announced
    /\ req.magic /\ req.json /\ req.announced <= MaxMsgSize

\* A worker is only ever started for a frame that begins with the magic, is within the
\* limit and was read to its end; if cmd/spawn writes it, all of it has been written: a
\* client that fails while it writes may try again without doubling a worker.
WholeRequest ==
    Acted => /\ WholeFrame
             /\ BySpawn => up.sent = 8 + req.body

\* In the terms of SpawnExchange: the request is handed over, or refused, by the step
\* that makes its response, and the answer is given once its last byte is written.
Exchange == INSTANCE SpawnExchange WITH
    request <- IF resp = None THEN "awaited" ELSE IF WholeFrame THEN "handed" ELSE "refused",
    answer  <- IF resp # None /\ down.sent = 4 + resp.body THEN resp.kind ELSE None,
    outcome <- IF c \in ClientEnded THEN c ELSE "waiting"

\* Reads and writes that the kernel cuts up as it likes, a mother that dies between
\* the two writes of a response, a client that gives up anywhere: none of it makes an
\* answer that was not given, or of a part of one.
ImplementsExchange == Exchange!Spec

\* cmd/spawn and its handler never wait for each other for ever, how large request and
\* response are and whatever the buffers hold; and no handler waits for a client that
\* has gone, whoever it was and whatever it has written.  A client without a deadline
\* that stays may hold its handler for good: the mother sets no deadline of her own.
BothEnd ==
    /\ BySpawn ~> (c \in ClientEnded /\ m \in MotherEnded)
    /\ c \in ClientEnded ~> m \in MotherEnded

=============================================================================
