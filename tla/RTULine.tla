------------------------------ MODULE RTULine ------------------------------
(***************************************************************************)
(* A serial line between the RTU master and the RTU slave of the program   *)
(* (core/internal/modbus/rtu.go), byte by byte: how each side finds frames *)
(* in a stream without a length field, and what noise, late answers and    *)
(* read timeouts do to it.                                                 *)
(*                                                                         *)
(* The sessions are RTUSession's subject; here a session is its port, open *)
(* or closed, and the history of the line since it was opened.             *)
(***************************************************************************)
EXTENDS PDU

CONSTANTS
  Lines         \* the kinds of line: one choice per behaviour

(***************************************************************************)
(* On a patient line every timeout is longer than all that the line and    *)
(* the slave take.  "asks" is what the user asks.  Bounds: "noises" is the *)
(* disturbances, "unread" the bytes not read in either direction when a    *)
(* request is sent.                                                        *)
(***************************************************************************)
ASSUME LineAssumption ==
  Lines \subseteq [patient : BOOLEAN, asks : SUBSET MasterRequest, noises : Nat, unread : Nat]

VARIABLES
  kind,         \* the kind of the line, which never changes
  bank,         \* Store.slaves
  session,      \* "closed", or how the line was when the port was opened and since
  phase,        \* where Execute is
  ask,          \* its request
  response,     \* what it has read of the answer
  result,       \* what it returns
  request,      \* what the slave has read of a frame
  out,          \* the reply it holds back for the silent interval
  toSlave, toMaster,    \* bytes written and not read
  served,       \* history: the store's outcome of the request
  noises        \* how often it has been disturbed

vars == <<kind, bank, session, phase, ask, response, result, request, out,
          toSlave, toMaster, served, noises>>
master == <<session, phase, ask, response, result>>
slave == <<bank, request, out, served>>

-----------------------------------------------------------------------------
(***************************************************************************)
(* CRC-16, a byte at a time; the low byte is sent first.                   *)
(***************************************************************************)
Xor[a \in UInt16] ==
  [b \in UInt16 |-> IF a = 0 THEN b ELSE ((a + b) % 2) + 2 * Xor[a \div 2][b \div 2]]

\* The eight shifts that follow each byte, for each low byte.
CRCTable ==
  [b \in UInt8 |->
     LET shift[n \in 0 .. 8] ==
           IF n = 0 THEN b
           ELSE LET c == shift[n - 1] IN Xor[c \div 2][(c % 2) * 40961]
     IN  shift[8]]

CRC16(data) ==
  LET crc[i \in 0 .. Len(data)] ==
        IF i = 0 THEN MaxUint16
        ELSE LET c == crc[i - 1] IN Xor[c \div 256][CRCTable[Xor[Byte(c)][data[i]]]]
  IN  crc[Len(data)]

AppendCRC(frame) == frame \o <<Byte(CRC16(frame)), Byte(CRC16(frame) \div 256)>>

VerifyCRC(frame) ==
  Len(frame) >= 4 /\ AppendCRC(SubSeq(frame, 1, Len(frame) - 2)) = frame

InFrame(frame) == SubSeq(frame, 2, Len(frame) - 2)

AskFrame ==
  [q \in {q \in UNION {k.asks : k \in Lines} : ValidateProtocol(q)} |->
     AppendCRC(<<q.slave>> \o BuildPDU(q))]

(***************************************************************************)
(* How many bytes a reader wants to have, by what it has; 0 is a function  *)
(* code it does not know.                                                  *)
(***************************************************************************)
WantedRequest(g) ==
  CASE Len(g) < 2 -> 2
    [] Len(g) >= 2 /\ g[2] \in 1 .. 6 -> 8
    [] Len(g) >= 2 /\ g[2] \in MultiCodes -> IF Len(g) < 7 THEN 7 ELSE 9 + g[7]
    [] OTHER -> 0

WantedResponse(g) ==
  CASE Len(g) < 2 -> 2
    [] Len(g) >= 2 /\ g[2] >= 128 -> 5
    [] Len(g) >= 2 /\ g[2] \in ReadCodes -> IF Len(g) < 3 THEN 3 ELSE 5 + g[3]
    [] Len(g) >= 2 /\ g[2] \in FunctionCodes \ ReadCodes -> 8
    [] OTHER -> 0

Drop(line, n) == SubSeq(line, n + 1, Len(line))

\* Bound: where a line is cut by a timeout or a flush.
Cuts(line) == {k \in {0, 1, Len(line)} : k <= Len(line)}

(***************************************************************************)
(* What stays on the line when readExact, which wants n bytes more, gives  *)
(* up: what it has read by then is lost.                                   *)
(***************************************************************************)
AfterTimeout(line, n) ==
  {Drop(line, k) : k \in IF kind.patient THEN {Len(line)} ELSE {i \in Cuts(line) : i < n}}

\* Bytes on their way have arrived, or time has passed that no reply takes.
Outstanding == toSlave # << >> \/ request # << >> \/ out # << >>
-----------------------------------------------------------------------------
Init ==
  /\ kind \in Lines
  /\ bank = SeededBanks
  /\ session = "closed" /\ phase = "idle"
  /\ ask = NoCall /\ response = << >> /\ result = NoReply
  /\ request = << >> /\ out = << >>
  /\ toSlave = << >> /\ toMaster = << >>
  /\ served = NoReply
  /\ noises = 0

(***************************************************************************)
(* The master.                                                             *)
(***************************************************************************)
\* The driver may have kept what came while the port was closed.
Open ==
  /\ phase = "idle" /\ session = "closed"
  /\ toMaster' \in {toMaster, << >>}
  /\ session' = IF Outstanding \/ (~kind.patient /\ toMaster' # << >>) THEN "late" ELSE "quiet"
  /\ UNCHANGED <<kind, slave, phase, ask, response, result, toSlave, noises>>

\* Mutant: Close does not wait for the mutex that Execute holds.
CloseUnlocked ==
  /\ session # "closed"
  /\ session' = "closed"
  /\ UNCHANGED <<kind, slave, phase, ask, response, result, toSlave, toMaster, noises>>

Close ==
  /\ phase = "idle" /\ session # "closed"
  /\ session' = "closed"
  /\ UNCHANGED <<kind, slave, phase, ask, response, result, toSlave, toMaster, noises>>

Finish(r) == phase' = "done" /\ result' = r /\ response' = << >>

Refuse(q) ==
  /\ phase = "idle"
  /\ ~ValidateProtocol(q) \/ session = "closed"
  /\ ask' = q
  /\ Finish(Error)
  /\ UNCHANGED <<kind, slave, session, toSlave, toMaster, noises>>

\* Mutant: nothing is flushed.
FlushedNothing == {toMaster}

\* ResetInputBuffer drops what has arrived; bytes on their way stay.
Flushed == IF kind.patient THEN {<< >>} ELSE {Drop(toMaster, k) : k \in Cuts(toMaster)}

Ready(q) ==
  /\ phase = "idle" /\ session # "closed" /\ ValidateProtocol(q)
  /\ ask' = q
  /\ toMaster' \in Flushed
  /\ Len(toSlave) <= kind.unread /\ Len(toMaster') <= kind.unread

Write(q) ==
  /\ Ready(q)
  /\ toSlave' = toSlave \o AskFrame[q]
  /\ phase' = "reading"
  /\ UNCHANGED <<kind, slave, session, response, result, noises>>

\* Write fails with nothing sent, or Drain with all of it.
WriteFails(q) ==
  /\ Ready(q)
  /\ toSlave' \in {toSlave, toSlave \o AskFrame[q]}
  /\ session' = "closed"
  /\ Finish(Error)
  /\ UNCHANGED <<kind, slave, noises>>

BadHead == Len(response) >= 2 /\ (response[1] # ask.slave \/ WantedResponse(response) = 0)

Missing == WantedResponse(response) - Len(response)

ReadResponse ==
  /\ phase = "reading" /\ ~BadHead
  /\ Missing \in 1 .. Len(toMaster)
  /\ response' = response \o SubSeq(toMaster, 1, Missing)
  /\ toMaster' = Drop(toMaster, Missing)
  /\ UNCHANGED <<kind, slave, session, phase, ask, result, toSlave, noises>>

\* An error of parsePDUResponse leaves the port open.
Received ==
  /\ phase = "reading" /\ ~BadHead
  /\ Missing = 0 /\ VerifyCRC(response)
  /\ Finish(Parse(ask, InFrame(response)))
  /\ UNCHANGED <<kind, slave, session, ask, toSlave, toMaster, noises>>

BadFrame ==
  /\ phase = "reading"
  /\ BadHead \/ (Missing = 0 /\ ~VerifyCRC(response))
  /\ session' = "closed"
  /\ Finish(Error)
  /\ UNCHANGED <<kind, slave, ask, toSlave, toMaster, noises>>

TimedOut ==
  /\ phase = "reading" /\ ~BadHead /\ Missing > 0
  /\ kind.patient => ~Outstanding /\ Len(toMaster) < Missing
  /\ toMaster' \in AfterTimeout(toMaster, Missing)

\* Mutant: the port stays open after a timeout.
TimeoutKeepsPort ==
  /\ TimedOut
  /\ Finish(Error)
  /\ UNCHANGED <<kind, slave, session, ask, toSlave, noises>>

Timeout ==
  /\ TimedOut
  /\ session' = "closed"
  /\ Finish(Error)
  /\ UNCHANGED <<kind, slave, ask, toSlave, noises>>

Return ==
  /\ phase = "done"
  /\ phase' = "idle" /\ ask' = NoCall /\ result' = NoReply
  /\ served' = NoReply
  /\ UNCHANGED <<kind, bank, request, out, session, response, toSlave, toMaster, noises>>

-----------------------------------------------------------------------------
(***************************************************************************)
(* The slave: its loop from one frame to the next.                         *)
(***************************************************************************)
Unheard == WantedRequest(request) - Len(request)

ReadRequest ==
  /\ out = << >>
  /\ Unheard \in 1 .. Len(toSlave)
  /\ request' = request \o SubSeq(toSlave, 1, Unheard)
  /\ toSlave' = Drop(toSlave, Unheard)
  /\ UNCHANGED <<kind, master, bank, out, toMaster, served, noises>>

RequestTimeout ==
  /\ out = << >> /\ Unheard > 0
  /\ request # << >> \/ toSlave # << >>
  /\ kind.patient => Len(toSlave) < Unheard
  /\ toSlave' \in AfterTimeout(toSlave, Unheard)
  /\ request' = << >>
  /\ UNCHANGED <<kind, master, bank, out, toMaster, served, noises>>

Broadcast == request[1] = 0

\* An unknown function code, a wrong CRC or a broadcast.
Ignore ==
  /\ request # << >>
  /\ \/ Unheard < 0
     \/ Unheard = 0 /\ (~VerifyCRC(request) \/ Broadcast)
  /\ request' = << >>
  /\ UNCHANGED <<kind, master, bank, out, toSlave, toMaster, served, noises>>

\* Mutant: the CRC is not checked.
DispatchUnchecked ==
  /\ request # << >> /\ Unheard = 0 /\ ~Broadcast
  /\ LET p == InFrame(request)
         r == StoreCall(request[1], p)
         o == IF WellFormed(p) THEN Outcome(bank, r) ELSE NoReply
     IN  /\ bank' = IF WellFormed(p) THEN Effect(bank, r) ELSE bank
         /\ served' = IF phase = "reading" THEN o ELSE NoReply
         /\ out' = AppendCRC(<<request[1]>> \o IF WellFormed(p) THEN Response(p, o) ELSE Refusal(p))
  /\ request' = << >>
  /\ UNCHANGED <<kind, master, toSlave, toMaster, noises>>

Dispatch == Unheard = 0 /\ VerifyCRC(request) /\ DispatchUnchecked

SendReply ==
  /\ out # << >>
  /\ toMaster' = toMaster \o out
  /\ out' = << >>
  /\ UNCHANGED <<kind, master, bank, request, toSlave, served, noises>>

(***************************************************************************)
(* The line: a byte is damaged, lost, or comes from nowhere.               *)
(***************************************************************************)
Disturbed(line) ==
  {[line EXCEPT ![i] = 255 - @] : i \in DOMAIN line} \cup
  {SubSeq(line, 1, i - 1) \o Drop(line, i) : i \in DOMAIN line} \cup
  {Append(line, 0)}

Noise ==
  /\ noises < kind.noises
  /\ noises' = noises + 1
  /\ \/ toSlave' \in Disturbed(toSlave) /\ UNCHANGED toMaster
     \/ toMaster' \in Disturbed(toMaster) /\ UNCHANGED toSlave
  /\ session' = IF session = "quiet" THEN "noisy" ELSE session
  /\ UNCHANGED <<kind, slave, phase, ask, response, result>>

MasterStep == ReadResponse \/ Received \/ BadFrame \/ Timeout
SlaveStep == ReadRequest \/ RequestTimeout \/ Ignore \/ Dispatch \/ SendReply

Next ==
  \/ Open \/ Close \/ Return \/ Noise
  \/ \E q \in kind.asks : Refuse(q) \/ Write(q) \/ WriteFails(q)
  \/ MasterStep \/ SlaveStep

Spec == Init /\ [][Next]_vars

-----------------------------------------------------------------------------
(***************************************************************************)
(* Every variable has its type, and Execute has a port while it reads.     *)
(***************************************************************************)
TypeOK ==
  /\ kind \in Lines
  /\ bank \in Banks
  /\ session \in {"closed", "late", "quiet", "noisy"}
  /\ phase \in {"idle", "reading", "done"}
  /\ ask \in kind.asks \cup {NoCall}
  /\ \A line \in {response, request, out, toSlave, toMaster} : line \in Seq(UInt8)
  /\ noises \in 0 .. kind.noises
  /\ phase = "reading" => session # "closed"

(***************************************************************************)
(* RTU frames carry no transaction id, so an answer is known by its place  *)
(* alone.  A result is nevertheless what the store did for this request as *)
(* long as nothing was under way when the port was opened: noise is caught *)
(* by the CRC, and every transport error closes the port (rtu.go:177-195). *)
(***************************************************************************)
InStep ==
  phase = "done" /\ result.kind = "values" /\ session # "late" =>
    /\ served # NoReply /\ served.ok
    /\ result.values = IF ask.fc \in ReadCodes THEN served.values ELSE Meant(ask).values

(***************************************************************************)
(* The slave serves nothing but frames that a master sent, whole: not the  *)
(* rest of a frame it lost the start of, nor one completed by the next     *)
(* (rtu.go:419-435).  This is of requests that hold no frame of their own  *)
(* from a later byte on: RTU has no mark for the start.                    *)
(***************************************************************************)
OnlySentFramesServed ==
  [][out = << >> /\ out' # << >> => \E q \in DOMAIN AskFrame : AskFrame[q] = request]_vars

(***************************************************************************)
(* On a line without noise that was at rest when the port was opened, with *)
(* timeouts that are long enough, every request is answered, whatever      *)
(* broke off before on it: readers and writers agree about the lengths of  *)
(* all frames, and both ends find back to the start of a frame.            *)
(***************************************************************************)
QuietAnswers ==
  [][kind.patient /\ session = "quiet" /\ MasterStep /\ phase' = "done" =>
       result'.kind \in {"values", "exception"}]_vars
=============================================================================
