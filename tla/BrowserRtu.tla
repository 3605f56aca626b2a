----------------------------- MODULE BrowserRtu -----------------------------
(***************************************************************************)
(* The RTU master of the web UI (apps/web/lib/browser-rtu.ts): requests    *)
(* queue up on a promise, one is executed at a time, and a read of the     *)
(* serial port races a timer.  No stray input is ever discarded: what is   *)
(* left in the stream when a request times out is read by the next one.    *)
(*                                                                         *)
(* A frame is a piece of the stream or two; the device answers late, not   *)
(* at all, or in two parts.  What distinguishes two requests is what they  *)
(* ask for; Fits says which answers the checks of parseResponse let pass.  *)
(***************************************************************************)
EXTENDS Naturals, Sequences

CONSTANTS
  Call,         \* the callers of `request`, one call each at a time
  Ask,          \* what may be asked
  Fits(_, _),   \* Fits(a, r): an answer to a passes for one to r
  MaxStray      \* bound: requests and pieces of answers under way

VARIABLES
  port,         \* this.port is set
  open,         \* the serial port is open
  locked,       \* its writer or reader is locked
  queue,        \* this.queue: the calls that have not been settled
  stage,        \* how far the first of them is
  bytes,        \* what it has read
  stream,       \* what has arrived and nobody has read
  device,       \* what the device has to answer
  late,         \* history: a request has been given up since the port was opened
  refused       \* history: the port was in use when it was to be closed

bvars == <<port, open, locked, queue, stage, bytes, stream, device, late, refused>>
serial == <<port, open, refused>>
line == <<stream, device, late>>

Part == {"all", "front", "rest", "exception"}
Piece == [ask : Ask, part : Part]

Init ==
  /\ port = FALSE /\ open = FALSE /\ locked = FALSE
  /\ queue = <<>> /\ stage = "due" /\ bytes = <<>>
  /\ stream = <<>> /\ device = <<>>
  /\ late = FALSE /\ refused = FALSE

\* A promise is about to run `execute`: no click is handled before it has.
Due == queue # <<>> /\ stage = "due"

-----------------------------------------------------------------------------
(***************************************************************************)
(* connect, disconnect and request.                                        *)
(***************************************************************************)
Connect ==
  /\ ~Due /\ ~open
  /\ port' = TRUE /\ open' = TRUE /\ refused' = FALSE
  /\ late' = (late /\ device # <<>>)
  /\ UNCHANGED <<locked, queue, stage, bytes, stream, device>>

\* The browser refuses to open a port twice; the user may pick none.
ConnectFails == ~Due /\ UNCHANGED bvars

Close ==
  /\ ~Due
  /\ port => open /\ ~locked
  /\ port' = FALSE /\ open' = (open /\ ~port)
  /\ stream' = IF port THEN <<>> ELSE stream
  /\ UNCHANGED <<locked, queue, stage, bytes, device, late, refused>>

\* A locked stream cannot be closed, nor can a port that is gone.
CloseRefused ==
  /\ ~Due
  /\ port /\ (locked \/ ~open)
  /\ port' = FALSE
  /\ refused' = (refused \/ queue # <<>>)
  /\ UNCHANGED <<open, locked, queue, stage, bytes, line>>

Request(c, a) == queue' = Append(queue, [call |-> c, ask |-> a])

-----------------------------------------------------------------------------
(***************************************************************************)
(* execute.                                                                *)
(***************************************************************************)
\* Mutant: the bytes read so far are a field of the class and not cleared.
SettledKeepsBytes ==
  /\ queue' = Tail(queue) /\ stage' = "due" /\ bytes' = bytes
  /\ locked' = FALSE

Settled ==
  /\ queue' = Tail(queue) /\ stage' = "due" /\ bytes' = <<>>
  /\ locked' = FALSE

Execute ==
  /\ Due
  /\ port /\ open /\ ~locked
  /\ stage' = "writing" /\ locked' = TRUE
  /\ UNCHANGED <<serial, queue, bytes, line>>

NotConnected ==
  /\ Due
  /\ ~(port /\ open /\ ~locked)
  /\ queue' = Tail(queue)
  /\ UNCHANGED <<serial, locked, stage, bytes, line>>

\* The request is sent; it may be lost, and is beyond the bound.
Write ==
  /\ stage = "writing"
  /\ stage' = "reading"
  /\ \/ UNCHANGED device
     \/ /\ Len(device) + Len(stream) < MaxStray
        /\ device' = Append(device, [ask |-> Head(queue).ask, part |-> "all"])
  /\ UNCHANGED <<serial, locked, queue, bytes, stream, late>>

\* What has been read when the next k pieces have: the bytes that arrive
\* together are read together.
Read(k) == bytes \o SubSeq(stream, 1, k)

\* expectedLength: the end of a frame without a beginning may pass for anything.
Enough(b) == Head(b).part \in {"all", "exception", "rest"} \/ Len(b) > 1
TooFew(b) == Len(b) = 1 /\ Head(b).part \in {"front", "rest"}

Passes(b) == Head(b).part \in {"all", "front"} /\ Fits(Head(b).ask, Head(queue).ask)

Chunk(k) ==
  /\ stage = "reading" /\ k \in 1..Len(stream)
  /\ stream' = SubSeq(stream, k + 1, Len(stream))
  /\ UNCHANGED <<serial, device, late>>

ReadMore(k) ==
  /\ Chunk(k)
  /\ TooFew(Read(k))
  /\ bytes' = Read(k)
  /\ UNCHANGED <<locked, queue, stage>>

Resolve(k) ==
  /\ Chunk(k)
  /\ Enough(Read(k)) /\ Passes(Read(k))
  /\ Settled

Reject(k) ==
  /\ Chunk(k)
  /\ Enough(Read(k)) /\ ~Passes(Read(k))
  /\ Settled

\* Mutant: the reader is not released when the timer wins.
TimeoutKeepsLock ==
  /\ stage = "reading"
  /\ queue' = Tail(queue) /\ stage' = "due" /\ bytes' = <<>>
  /\ late' = TRUE
  /\ UNCHANGED <<serial, locked, stream, device>>

Timeout ==
  /\ stage = "reading"
  /\ Settled
  /\ late' = TRUE
  /\ UNCHANGED <<serial, stream, device>>

-----------------------------------------------------------------------------
(***************************************************************************)
(* The adapter is unplugged, and the device answers.                       *)
(***************************************************************************)
Unplug ==
  /\ open /\ queue = <<>>
  /\ open' = FALSE /\ stream' = <<>>
  /\ UNCHANGED <<port, refused, locked, queue, stage, bytes, device, late>>

UnplugWhile ==
  /\ stage # "due" /\ open
  /\ open' = FALSE /\ stream' = <<>> /\ late' = TRUE
  /\ Settled
  /\ UNCHANGED <<port, refused, device>>

Arrives(p) == stream' = IF open THEN Append(stream, p) ELSE stream

Reply ==
  /\ device # <<>>
  /\ LET d == Head(device) IN
       \/ /\ d.part = "all"
          /\ \E part \in {"all", "exception"} : Arrives([d EXCEPT !.part = part])
          /\ device' = Tail(device)
       \/ /\ d.part = "all"
          /\ Arrives([d EXCEPT !.part = "front"])
          /\ device' = [device EXCEPT ![1].part = "rest"]
       \/ /\ d.part = "rest"
          /\ Arrives(d)
          /\ device' = Tail(device)
  /\ UNCHANGED <<serial, locked, queue, stage, bytes, late>>

Next ==
  \/ Connect \/ ConnectFails \/ Close \/ CloseRefused
  \/ \E c \in Call, a \in Ask :
       /\ \A i \in DOMAIN queue : queue[i].call # c
       /\ Request(c, a)
       /\ UNCHANGED <<serial, locked, stage, bytes, line>>
  \/ Execute \/ NotConnected \/ Write \/ Timeout
  \/ \E k \in DOMAIN stream : ReadMore(k) \/ Resolve(k) \/ Reject(k)
  \/ Unplug \/ UnplugWhile \/ Reply

Spec == Init /\ [][Next]_bvars

-----------------------------------------------------------------------------
(***************************************************************************)
(* Every variable has its type; the port is locked while a request is      *)
(* executed and at no other time, so that no request is refused for a lock.*)
(***************************************************************************)
TypeOK ==
  /\ {port, open, locked, late, refused} \subseteq BOOLEAN
  /\ queue \in Seq([call : Call, ask : Ask])
  /\ stage \in {"due", "writing", "reading"}
  /\ {bytes, stream, device} \subseteq Seq(Piece)
  /\ locked <=> stage # "due"
  /\ stage # "due" => queue # <<>> /\ open

(***************************************************************************)
(* A result is the answer to the request it is given to, not to an earlier *)
(* one of the same shape (parseResponse compares no address), as long as   *)
(* no request has been given up since the port was opened.                 *)
(***************************************************************************)
InStep ==
  [][~late => \A k \in 1..Len(stream) : Resolve(k) => Head(Read(k)).ask = Head(queue).ask]_bvars
=============================================================================
