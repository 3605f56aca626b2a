------------------------------ MODULE WebProofs ------------------------------
(***************************************************************************)
(* The page over the browser's RTU master: each of the two keeps to its    *)
(* own specification in the composition, and what they promise together    *)
(* holds for any settings, any number of polls under way and any bound on  *)
(* what the line holds.                                                    *)
(***************************************************************************)
EXTENDS WebRtu, FiniteSetTheorems, SequenceTheorems, TLAPS

(***************************************************************************)
(* The page: a request by hand keeps the buttons disabled, and a poll of   *)
(* an effect that was cleaned up is cancelled.                             *)
(***************************************************************************)
PageInv ==
  /\ TypeOK
  /\ asked # NoSettings => busy
  /\ \A i \in Slots : polls[i] # NoPoll /\ polls[i].old => polls[i].cancelled

(***************************************************************************)
(* The line: as long as no request has been given up, all that is on it,   *)
(* is read or is to come is one answer to the request in execution.        *)
(***************************************************************************)
Asked(part) == [ask |-> Head(queue).ask, part |-> part]

OneAnswer ==
  \/ bytes = <<>> /\ stream = <<>> /\ device = <<>>
  \/ bytes = <<>> /\ stream = <<>> /\ device = <<Asked("all")>>
  \/ \E part \in {"all", "exception"} :
       bytes = <<>> /\ stream = <<Asked(part)>> /\ device = <<>>
  \/ bytes = <<>> /\ stream = <<Asked("front")>> /\ device = <<Asked("rest")>>
  \/ bytes = <<>> /\ stream = <<Asked("front"), Asked("rest")>> /\ device = <<>>
  \/ bytes = <<Asked("front")>> /\ stream = <<>> /\ device = <<Asked("rest")>>
  \/ bytes = <<Asked("front")>> /\ stream = <<Asked("rest")>> /\ device = <<>>

LineInv ==
  /\ ~open => stream = <<>>
  /\ stage # "reading" => bytes = <<>>
  /\ ~late /\ stage = "reading" => OneAnswer
  /\ ~late /\ stage # "reading" => stream = <<>> /\ device = <<>>

\* A waiting call: whose it is, and the poll it asks for.
CallType == [call : Slots \cup {Hand}, ask : Settings \ {Off}]

\* The types of the browser's variables, one by one.
BrowserTypes ==
  /\ port \in BOOLEAN /\ open \in BOOLEAN /\ locked \in BOOLEAN
  /\ late \in BOOLEAN /\ refused \in BOOLEAN
  /\ queue \in Seq(CallType)
  /\ stage \in {"due", "writing", "reading"}
  /\ bytes \in Seq(B!Piece) /\ stream \in Seq(B!Piece) /\ device \in Seq(B!Piece)
  /\ locked <=> stage # "due"
  /\ stage # "due" => queue # << >> /\ open

BrowserInv == BrowserTypes /\ LineInv

(***************************************************************************)
(* The calls in the queue are those that the page waits for, each once.    *)
(***************************************************************************)
Waiting == {i \in Slots : polls[i] # NoPoll} \cup (IF asked = NoSettings THEN {} ELSE {Hand})

CallsInv ==
  /\ \A i, j \in DOMAIN queue : queue[i].call = queue[j].call => i = j
  /\ \A c \in Slots \cup {Hand} : (\E i \in DOMAIN queue : queue[i].call = c) <=> c \in Waiting

(***************************************************************************)
(* The port and what the page takes it for.                                *)
(***************************************************************************)
PortInv ==
  /\ task \in {"none", "connecting", "closed", "refused"}
  /\ task # "none" => busy /\ asked = NoSettings
  /\ task = "closed" => ~port
  /\ settings = Off => ~port
  /\ ~port => ~open \/ refused

WebInv == PageInv /\ BrowserInv /\ CallsInv /\ PortInv

-----------------------------------------------------------------------------
(***************************************************************************)
(* The page keeps to the specification of the poll loop.                   *)
(***************************************************************************)

\* A poll that is added, and those that are cleaned up.
LEMMA PollTypes ==
  /\ \A s \in Settings : [settings |-> s, cancelled |-> FALSE, old |-> FALSE] \in Poll
  /\ \A p \in Poll \cup {NoPoll} : Cancel(p) \in Poll \cup {NoPoll}
  /\ \A p \in Poll \cup {NoPoll} : Cancel(p) # NoPoll => p # NoPoll /\ Cancel(p).cancelled
  /\ \A p \in Poll \cup {NoPoll} : Cancel(p) = NoPoll <=> p = NoPoll
<1>1. \A s \in Settings : [settings |-> s, cancelled |-> FALSE, old |-> FALSE] \in Poll
  BY DEF Poll
<1>2. ASSUME NEW p \in Poll
      PROVE  /\ [p EXCEPT !.old = TRUE, !.cancelled = TRUE] \in Poll
             /\ [p EXCEPT !.old = TRUE, !.cancelled = TRUE].cancelled
  BY DEF Poll
<1> QED  BY <1>1, <1>2, AutoPollAssumption DEF Cancel

\* The polls after a step that adds one, or ends one.
LEMMA PollsChange ==
  ASSUME NEW ps \in [Slots -> Poll \cup {NoPoll}], NEW i \in Slots, NEW s \in Settings
  PROVE  /\ Add(ps, i, s) \in [Slots -> Poll \cup {NoPoll}]
         /\ [ps EXCEPT ![i] = NoPoll] \in [Slots -> Poll \cup {NoPoll}]
         /\ Add(ps, i, s)[i].settings = s /\ ~Add(ps, i, s)[i].old /\ Add(ps, i, s)[i] # NoPoll
         /\ \A j \in Slots \ {i} : /\ Add(ps, i, s)[j] = ps[j]
                                   /\ [ps EXCEPT ![i] = NoPoll][j] = ps[j]
         /\ [ps EXCEPT ![i] = NoPoll][i] = NoPoll
BY PollTypes, AutoPollAssumption DEF Add

\* The cleanup leaves no poll of the old effect alive.
LEMMA Cleanup ==
  ASSUME polls \in [Slots -> Poll \cup {NoPoll}]
  PROVE  /\ CleanedUp \in [Slots -> Poll \cup {NoPoll}]
         /\ \A i \in Slots : /\ CleanedUp[i] = NoPoll <=> polls[i] = NoPoll
                             /\ CleanedUp[i] # NoPoll => CleanedUp[i].cancelled
BY PollTypes DEF CleanedUp

\* A step of the poll loop keeps PageInv.
LEMMA PageKeeps == PageInv /\ [Next]_vars => PageInv'
<1> SUFFICES ASSUME PageInv, [Next]_vars PROVE PageInv'
  OBVIOUS
<1> USE AutoPollAssumption
<1>0. /\ polls \in [Slots -> Poll \cup {NoPoll}] /\ loop \in Pollable \cup {NoSettings}
      /\ asked \in Settings \cup {NoSettings} /\ settings \in Settings
  BY DEF PageInv, TypeOK
<1>1. CASE UNCHANGED vars
  BY <1>1 DEF PageInv, TypeOK, vars
<1>2. CASE \/ \E s \in Settings : Edit(s)
           \/ Toggle \/ Connect \/ Disconnect \/ PortChanged \/ PortUnchanged
           \/ SendModbus \/ Answered \/ NotAnswered
  <2>1. TypeOK'
    <3>1. CASE \/ (\E s \in Settings : Edit(s)) \/ Toggle \/ Disconnect \/ PortChanged
      BY <1>0, <3>1 DEF PageInv, TypeOK, form, display, Edit, Toggle, Disconnect, PortChanged
    <3>2. CASE Connect \/ PortUnchanged \/ SendModbus \/ Answered \/ NotAnswered
      <4>1. /\ settings' = settings /\ autoPoll' = autoPoll /\ dirty' = dirty
            /\ loop' = loop /\ polls' = polls
        BY <3>2 DEF form, Connect, PortUnchanged, SendModbus, Answered, NotAnswered
      <4>2. /\ busy' \in BOOLEAN /\ failed' \in BOOLEAN
            /\ asked' \in Settings \cup {NoSettings} /\ shown' \in Settings \cup {NoSettings}
        BY <1>0, <3>2 DEF PageInv, TypeOK, Connect, PortUnchanged, SendModbus, Answered, NotAnswered
      <4> QED  BY <4>1, <4>2 DEF PageInv, TypeOK
    <3> QED  BY <1>2, <3>1, <3>2
  <2>2. (asked # NoSettings => busy)'
    BY <1>0, <1>2 DEF PageInv, form, display, Edit, Toggle, Connect, Disconnect,
       PortChanged, PortUnchanged, SendModbus, Answered, NotAnswered
  <2>3. polls' = polls
    BY <1>2 DEF Edit, Toggle, Connect, Disconnect, PortChanged, PortUnchanged, SendModbus,
       Answered, NotAnswered
  <2> QED  BY <2>1, <2>2, <2>3 DEF PageInv
<1>3. CASE Commit
  <2>1. TypeOK'
    <3>1. polls' \in [Slots -> Poll \cup {NoPoll}]
      BY <1>0, <1>3, Cleanup, PollsChange DEF Commit
    <3> QED  BY <1>0, <1>3, <3>1 DEF PageInv, TypeOK, Commit, display
  <2>2. ASSUME NEW i \in Slots, polls'[i] # NoPoll, polls'[i].old
        PROVE  polls'[i].cancelled
    <3>1. CASE polls' = polls
      BY <2>2, <3>1 DEF PageInv
    <3>2. CASE polls' = CleanedUp
      BY <1>0, <2>2, <3>2, Cleanup
    <3>3. CASE \E j \in Slots : polls' = Add(CleanedUp, j, settings)
      <4>1. PICK j \in Slots : polls' = Add(CleanedUp, j, settings)
        BY <3>3
      <4>2. ~polls'[j].old /\ \A k \in Slots \ {j} : polls'[k] = CleanedUp[k]
        BY <1>0, <4>1, Cleanup, PollsChange
      <4>3. polls'[i] = CleanedUp[i] /\ CleanedUp[i] # NoPoll
        BY <2>2, <4>2
      <4> QED  BY <1>0, <4>3, Cleanup
    <3> QED  BY <1>3, <3>1, <3>2, <3>3 DEF Commit
  <2> QED  BY <1>3, <2>1, <2>2 DEF PageInv, Commit
<1>4. CASE \E i \in Slots : Tick(i)
  <2>1. PICK i \in Slots : Tick(i)
    BY <1>4
  <2>2. polls' = Add(polls, i, loop) /\ loop \in Settings
    BY <1>0, <2>1 DEF Tick
  <2>3. polls' \in [Slots -> Poll \cup {NoPoll}] /\ ~polls'[i].old /\ \A j \in Slots \ {i} : polls'[j] = polls[j]
    BY <1>0, <2>2, PollsChange
  <2> QED  BY <2>1, <2>3 DEF PageInv, TypeOK, Tick, form, display
<1>5. CASE \E i \in Slots : PollAnswered(i) \/ PollFailed(i)
  <2>1. PICK i \in Slots : PollAnswered(i) \/ PollFailed(i)
    BY <1>5
  <2>2. polls' = [polls EXCEPT ![i] = NoPoll]
    BY <2>1 DEF PollAnswered, PollFailed
  <2>3. /\ polls' \in [Slots -> Poll \cup {NoPoll}] /\ polls'[i] = NoPoll
        /\ \A j \in Slots \ {i} : polls'[j] = polls[j]
    BY <1>0, <2>2, PollsChange
  <2>4. polls[i] # NoPoll => polls[i].settings \in Settings
    BY <1>0 DEF Poll
  <2>5. TypeOK'
    BY <2>1, <2>3, <2>4 DEF PageInv, TypeOK, PollAnswered, PollFailed, form, display
  <2> QED  BY <2>1, <2>3, <2>5 DEF PageInv, PollAnswered, PollFailed
<1> QED  BY <1>1, <1>2, <1>3, <1>4, <1>5 DEF Next

-----------------------------------------------------------------------------
(***************************************************************************)
(* The browser keeps what it says of its variables.                        *)
(***************************************************************************)

\* Sequences of one and two elements are known by them.
LEMMA OneElement ==
  ASSUME NEW S, NEW s \in Seq(S), Len(s) = 1
  PROVE  s = <<s[1]>>
BY SeqEqual

\* The same for two.
LEMMA TwoElements ==
  ASSUME NEW S, NEW s \in Seq(S), Len(s) = 2
  PROVE  s = <<s[1], s[2]>>
BY SeqEqual

Joins(x, y) ==
  /\ << >> \o <<x>> = <<x>> /\ <<x>> \o <<y>> = <<x, y>> /\ << >> \o <<x, y>> = <<x, y>>
  /\ Append(<< >>, x) = <<x>> /\ Append(<<x>>, y) = <<x, y>>
  /\ SubSeq(<<x>>, 1, 1) = <<x>> /\ SubSeq(<<x>>, 2, 1) = << >>
  /\ SubSeq(<<x, y>>, 1, 1) = <<x>> /\ SubSeq(<<x, y>>, 2, 2) = <<y>>
  /\ SubSeq(<<x, y>>, 1, 2) = <<x, y>> /\ SubSeq(<<x, y>>, 3, 2) = << >>
  /\ Tail(<<x>>) = << >> /\ [<<x>> EXCEPT ![1] = y] = <<y>>

\* What the operators on sequences make of one or two pieces of an answer.
LEMMA Pieces ==
  ASSUME NEW S, NEW x \in S, NEW y \in S
  PROVE  Joins(x, y)
<1>1. /\ << >> \in Seq(S) /\ <<x>> \in Seq(S) /\ <<y>> \in Seq(S) /\ <<x, y>> \in Seq(S)
      /\ Len(<<x>>) = 1 /\ Len(<<x, y>>) = 2 /\ <<x>>[1] = x /\ <<x, y>>[1] = x /\ <<x, y>>[2] = y
  OBVIOUS
<1>2. << >> \o <<x>> = <<x>> /\ << >> \o <<x, y>> = <<x, y>>
  BY <1>1, ConcatEmptySeq
<1>3. <<x>> \o <<y>> = <<x, y>>
  <2>1. <<x>> \o <<y>> \in Seq(S) /\ Len(<<x>> \o <<y>>) = 2
    BY <1>1, ConcatProperties
  <2>2. (<<x>> \o <<y>>)[1] = x /\ (<<x>> \o <<y>>)[2] = y
    BY <1>1, ConcatProperties
  <2> QED  BY <2>1, <2>2, TwoElements
<1>4. Append(<< >>, x) = <<x>>
  OBVIOUS
<1>5. Append(<<x>>, y) = <<x, y>>
  <2>1. Append(<<x>>, y) \in Seq(S) /\ Len(Append(<<x>>, y)) = 2
    BY <1>1
  <2>2. Append(<<x>>, y)[1] = x /\ Append(<<x>>, y)[2] = y
    BY <1>1
  <2> QED  BY <2>1, <2>2, TwoElements
<1>6. SubSeq(<<x>>, 1, 1) = <<x>> /\ SubSeq(<<x, y>>, 1, 2) = <<x, y>>
  BY <1>1, SubSeqFull
<1>7. SubSeq(<<x>>, 2, 1) = << >> /\ SubSeq(<<x, y>>, 3, 2) = << >>
  OBVIOUS
<1>8. SubSeq(<<x, y>>, 1, 1) = <<x>>
  <2>1. SubSeq(<<x, y>>, 1, 1) \in Seq(S) /\ Len(SubSeq(<<x, y>>, 1, 1)) = 1
    BY <1>1
  <2>2. SubSeq(<<x, y>>, 1, 1)[1] = x
    BY <1>1
  <2> QED  BY <2>1, <2>2, OneElement
<1>9. SubSeq(<<x, y>>, 2, 2) = <<y>>
  <2>1. SubSeq(<<x, y>>, 2, 2) \in Seq(S) /\ Len(SubSeq(<<x, y>>, 2, 2)) = 1
    BY <1>1
  <2>2. SubSeq(<<x, y>>, 2, 2)[1] = y
    BY <1>1
  <2> QED  BY <2>1, <2>2, OneElement
<1>10. Tail(<<x>>) = << >> /\ [<<x>> EXCEPT ![1] = y] = <<y>>
  OBVIOUS
<1> QED  BY <1>2, <1>3, <1>4, <1>5, <1>6, <1>7, <1>8, <1>9, <1>10 DEF Joins

\* They are those of BrowserRtu.
LEMMA SameTypes == BrowserTypes <=> B!TypeOK
<1>1. {port, open, locked, late, refused} \subseteq BOOLEAN
        <=> /\ port \in BOOLEAN /\ open \in BOOLEAN /\ locked \in BOOLEAN
            /\ late \in BOOLEAN /\ refused \in BOOLEAN
  BY Zenon
<1> QED  BY <1>1 DEF BrowserTypes, B!TypeOK, CallType

\* The call in execution asks for something, and a part of an answer to it
\* is a piece.
LEMMA AskedPiece ==
  ASSUME BrowserTypes, queue # << >>, NEW part \in {"all", "exception", "front", "rest"}
  PROVE  Asked(part) \in B!Piece /\ Asked(part).part = part /\ Asked(part).ask = Head(queue).ask
<1>1. Head(queue) \in CallType
  BY HeadTailProperties DEF BrowserTypes
<1> QED  BY <1>1 DEF Asked, CallType, B!Piece, B!Part

\* A step that leaves the line and the calls alone keeps what is said of them.
LEMMA LineStays ==
  ASSUME BrowserInv, BrowserTypes',
         stage' = stage, bytes' = bytes, device' = device, stream' = stream, late' = late,
         queue' = queue, ~open' => stream = << >>
  PROVE  BrowserInv'
BY DEF BrowserInv, BrowserTypes, LineInv, OneAnswer, Asked

\* Between two requests the port comes and goes, and what was on it with it.
LEMMA PortTypes ==
  ASSUME BrowserTypes, stage' = stage, locked' = locked, queue' = queue, bytes' = bytes,
         device' = device, stream' \in {stream, << >>},
         port' \in BOOLEAN, open' \in BOOLEAN, late' \in BOOLEAN, refused' \in BOOLEAN,
         stage = "due" \/ open' = open
  PROVE  BrowserTypes'
<1>1. stream' \in Seq(B!Piece)
  <2>1. << >> \in Seq(B!Piece)
    OBVIOUS
  <2> QED  BY <2>1, Zenon DEF BrowserTypes
<1>2. locked' \in BOOLEAN /\ (locked' <=> stage' # "due")
  BY DEF BrowserTypes
<1>3. (stage # "due" => queue # << >> /\ open)'
  BY DEF BrowserTypes
<1>4. queue' \in Seq(CallType)
  BY DEF BrowserTypes
<1>5. stage' \in {"due", "writing", "reading"}
  BY DEF BrowserTypes
<1>6. bytes' \in Seq(B!Piece) /\ device' \in Seq(B!Piece)
  BY DEF BrowserTypes
<1> QED  BY <1>1, <1>2, <1>3, <1>4, <1>5, <1>6 DEF BrowserTypes

\* Opening and closing the port.
LEMMA PortKeeps ==
  ASSUME BrowserInv, B!Connect \/ B!ConnectFails \/ B!Close \/ B!CloseRefused \/ B!Unplug
  PROVE  BrowserInv'
<1>0. BrowserTypes
  BY DEF BrowserInv
<1>1. CASE B!Connect
  <2>1. /\ stage = "due" /\ stream = << >> /\ stage' = stage /\ queue' = queue
        /\ stream' = stream /\ device' = device /\ bytes' = bytes /\ locked' = locked
    BY <1>0, <1>1 DEF BrowserInv, B!Connect, B!Due, LineInv, BrowserTypes
  <2>2. port' \in BOOLEAN /\ open' \in BOOLEAN /\ late' \in BOOLEAN /\ refused' \in BOOLEAN
    BY <1>1 DEF B!Connect
  <2>3. BrowserTypes'
    BY <1>0, <2>1, <2>2, PortTypes
  <2> QED  BY <1>1, <2>1, <2>3 DEF BrowserInv, LineInv, B!Connect
<1>2. CASE B!ConnectFails
  <2>1. BrowserTypes'
    BY <1>0, <1>2 DEF B!ConnectFails, B!bvars, BrowserTypes
  <2> QED  BY <1>2, <2>1, LineStays DEF B!ConnectFails, B!bvars, BrowserInv, LineInv
<1>3. CASE B!CloseRefused
  <2>1. BrowserTypes'
    BY <1>0, <1>3 DEF B!CloseRefused, B!line, BrowserTypes
  <2> QED  BY <1>3, <2>1, LineStays DEF B!CloseRefused, B!line, BrowserInv, LineInv
<1>4. CASE B!Close
  <2>0. /\ stage' = stage /\ queue' = queue /\ locked' = locked /\ bytes' = bytes
        /\ device' = device /\ late' = late /\ refused' = refused /\ port' = FALSE
    BY <1>4 DEF B!Close
  <2>1. CASE port
    <3>1. stage = "due" /\ stream' = << >> /\ open' = FALSE
      BY <1>0, <1>4, <2>1 DEF B!Close, BrowserTypes
    <3>2. BrowserTypes'
      BY <1>0, <2>0, <3>1, PortTypes DEF BrowserTypes
    <3> QED  BY <2>0, <3>1, <3>2 DEF BrowserInv, LineInv
  <2>2. CASE ~port
    <3>1. stream' = stream /\ open' = open
      BY <1>0, <1>4, <2>2 DEF B!Close, BrowserTypes
    <3>2. BrowserTypes'
      BY <1>0, <2>0, <3>1, PortTypes DEF BrowserTypes
    <3> QED  BY <2>0, <3>1, <3>2, LineStays DEF BrowserInv, LineInv
  <2> QED  BY <2>1, <2>2
<1>5. CASE B!Unplug
  <2>1. /\ stage = "due" /\ stream' = << >> /\ stage' = stage /\ queue' = queue
        /\ device' = device /\ bytes' = bytes /\ locked' = locked /\ late' = late
    BY <1>0, <1>5 DEF B!Unplug, BrowserTypes
  <2>2. open' = FALSE /\ port' = port /\ refused' = refused
    BY <1>5 DEF B!Unplug
  <2>3. BrowserTypes'
    BY <1>0, <2>1, <2>2, PortTypes DEF BrowserTypes
  <2> QED  BY <2>1, <2>3 DEF BrowserInv, LineInv
<1> QED  BY <1>1, <1>2, <1>3, <1>4, <1>5

\* A call that joins the queue.
LEMMA CallKeeps ==
  ASSUME BrowserInv, NEW r \in CallType, queue' = Append(queue, r),
         UNCHANGED <<connection, executed, line>>
  PROVE  BrowserInv'
<1>0. /\ port' = port /\ open' = open /\ refused' = refused /\ locked' = locked
      /\ stage' = stage /\ bytes' = bytes /\ stream' = stream /\ device' = device /\ late' = late
  BY DEF connection, executed, line
<1>1. queue' \in Seq(CallType) /\ queue' # << >> /\ (queue # << >> => Head(queue') = Head(queue))
  <2>1. queue \in Seq(CallType) /\ r \in CallType /\ queue' = Append(queue, r)
    BY DEF BrowserInv, BrowserTypes
  <2> HIDE DEF CallType
  <2>2. queue' \in Seq(CallType) /\ Len(queue') = Len(queue) + 1 /\ Len(queue) \in Nat
    BY <2>1
  <2>3. queue # << >> => queue'[1] = queue[1]
    BY <2>1
  <2> QED  BY <2>1, <2>2, <2>3
<1>2. BrowserTypes'
  BY <1>0, <1>1 DEF BrowserInv, BrowserTypes
<1>3. LineInv'
  <2>1. CASE stage = "reading"
    <3>1. Head(queue') = Head(queue)
      BY <1>1, <2>1 DEF BrowserInv, BrowserTypes
    <3> QED  BY <1>0, <3>1 DEF BrowserInv, LineInv, OneAnswer, Asked
  <2> QED  BY <1>0, <2>1 DEF BrowserInv, LineInv
<1> QED  BY <1>2, <1>3 DEF BrowserInv

\* A call is executed, or it fails at once.
LEMMA ExecuteKeeps ==
  ASSUME BrowserInv, B!Execute \/ B!NotConnected
  PROVE  BrowserInv'
<1>1. CASE B!Execute
  <2>1. /\ port' = port /\ open' = open /\ refused' = refused /\ queue' = queue /\ queue # << >>
        /\ bytes' = bytes /\ stream' = stream /\ device' = device /\ late' = late
        /\ locked' = TRUE /\ stage' = "writing" /\ stage = "due" /\ open
    BY <1>1 DEF B!Execute, B!Due, B!serial, B!line
  <2>2. BrowserTypes'
    BY <2>1 DEF BrowserInv, BrowserTypes
  <2> QED  BY <2>1, <2>2 DEF BrowserInv, LineInv
<1>2. CASE B!NotConnected
  <2>1. /\ port' = port /\ open' = open /\ refused' = refused /\ queue' = Tail(queue) /\ queue # << >>
        /\ bytes' = bytes /\ stream' = stream /\ device' = device /\ late' = late
        /\ locked' = locked /\ stage' = stage /\ stage = "due"
    BY <1>2 DEF B!NotConnected, B!Due, B!serial, B!line
  <2>2. queue' \in Seq(CallType)
    BY <2>1 DEF BrowserInv, BrowserTypes
  <2>3. BrowserTypes'
    BY <2>1, <2>2 DEF BrowserInv, BrowserTypes
  <2> QED  BY <2>1, <2>3 DEF BrowserInv, LineInv
<1> QED  BY <1>1, <1>2

\* A request is sent, to a line that is silent unless one has been given up.
LEMMA WriteKeeps ==
  ASSUME BrowserInv, B!Write
  PROVE  BrowserInv'
<1>1. /\ port' = port /\ open' = open /\ refused' = refused /\ queue' = queue /\ queue # << >>
      /\ bytes' = bytes /\ stream' = stream /\ late' = late /\ locked' = locked
      /\ stage = "writing" /\ stage' = "reading" /\ open /\ bytes = << >>
      /\ device' \in {device, Append(device, Asked("all"))}
  <2>1. /\ port' = port /\ open' = open /\ refused' = refused /\ queue' = queue
        /\ bytes' = bytes /\ stream' = stream /\ late' = late /\ locked' = locked
        /\ stage = "writing" /\ stage' = "reading"
    BY DEF B!Write, B!serial
  <2>2. device' \in {device, Append(device, Asked("all"))}
    BY DEF B!Write, Asked
  <2>3. queue # << >> /\ open /\ bytes = << >>
    BY <2>1 DEF BrowserInv, BrowserTypes, LineInv
  <2> QED  BY <2>1, <2>2, <2>3
<1>2. Asked("all") \in B!Piece /\ Asked("all")' = Asked("all")
  BY <1>1, AskedPiece DEF BrowserInv, Asked
<1>3. device' \in Seq(B!Piece)
  <2>1. device \in Seq(B!Piece)
    BY DEF BrowserInv, BrowserTypes
  <2>2. \A S : \A s \in Seq(S), x \in S : Append(s, x) \in Seq(S)
    OBVIOUS
  <2>3. device' = device \/ device' = Append(device, Asked("all"))
    BY <1>1
  <2> QED  BY <1>2, <2>1, <2>2, <2>3
<1>4. BrowserTypes'
  BY <1>1, <1>3 DEF BrowserInv, BrowserTypes
<1>5. ASSUME ~late
      PROVE  OneAnswer'
  <2>1. stream = << >> /\ device = << >>
    BY <1>1, <1>5 DEF BrowserInv, LineInv
  <2>2. device' = << >> \/ device' = <<Asked("all")>>
    BY <1>1, <1>2, <2>1, Pieces DEF Joins
  <2> QED  BY <1>1, <1>2, <2>1, <2>2 DEF OneAnswer
<1> QED  BY <1>1, <1>4, <1>5 DEF BrowserInv, LineInv

\* What stays unread of the stream when the next k pieces have been read.
Unread(k) == SubSeq(stream, k + 1, Len(stream))

\* What a reader of the port may have after the next chunk, and what is left,
\* as long as no request has been given up.
LEMMA WhatIsRead ==
  ASSUME BrowserInv, ~late, stage = "reading", NEW k \in 1 .. Len(stream)
  PROVE  \/ \E part \in {"all", "exception"} :
              B!Read(k) = <<Asked(part)>> /\ Unread(k) = << >> /\ device = << >>
         \/ B!Read(k) = <<Asked("front")>> /\ Unread(k) = << >> /\ device = <<Asked("rest")>>
         \/ B!Read(k) = <<Asked("front")>> /\ Unread(k) = <<Asked("rest")>> /\ device = << >>
         \/ B!Read(k) = <<Asked("front"), Asked("rest")>> /\ Unread(k) = << >> /\ device = << >>
<1> DEFINE f == Asked("front")
           r == Asked("rest")
<1>1. \A part \in {"all", "exception", "front", "rest"} : Asked(part) \in B!Piece
  BY AskedPiece DEF BrowserInv, BrowserTypes
<1>0. Joins(f, r) /\ Joins(r, f)
  <2>1. f \in B!Piece /\ r \in B!Piece
    BY <1>1
  <2> QED  BY <2>1, Pieces
<1>2. OneAnswer /\ stream # << >>
  BY DEF BrowserInv, LineInv
<1>3. CASE \E part \in {"all", "exception"} : bytes = << >> /\ stream = <<Asked(part)>> /\ device = << >>
  <2>1. PICK part \in {"all", "exception"} : bytes = << >> /\ stream = <<Asked(part)>> /\ device = << >>
    BY <1>3
  <2>2. k = 1 /\ Len(stream) = 1
    BY <2>1
  <2>3. B!Read(k) = << >> \o SubSeq(<<Asked(part)>>, 1, 1) /\ Unread(k) = SubSeq(<<Asked(part)>>, 2, 1)
    BY <2>1, <2>2 DEF B!Read, Unread
  <2>4. Joins(Asked(part), f)
    BY <1>1, Pieces
  <2>5. B!Read(k) = <<Asked(part)>> /\ Unread(k) = << >>
    BY <2>3, <2>4 DEF Joins
  <2> QED  BY <2>1, <2>5
<1>4. CASE bytes = << >> /\ stream = <<Asked("front")>> /\ device = <<Asked("rest")>>
  <2>2. k = 1 /\ Len(stream) = 1
    BY <1>4
  <2>3. B!Read(k) = << >> \o SubSeq(<<Asked("front")>>, 1, 1) /\ Unread(k) = SubSeq(<<Asked("front")>>, 2, 1)
    BY <1>4, <2>2 DEF B!Read, Unread
  <2>4. B!Read(k) = <<Asked("front")>> /\ Unread(k) = << >>
    BY <1>0, <2>3 DEF Joins
  <2> QED  BY <1>4, <2>4
<1>5. CASE bytes = << >> /\ stream = <<Asked("front"), Asked("rest")>> /\ device = << >>
  <2>2. k \in {1, 2} /\ Len(stream) = 2
    BY <1>5
  <2>3. CASE k = 1
    <3>1. /\ B!Read(k) = << >> \o SubSeq(<<Asked("front"), Asked("rest")>>, 1, 1)
          /\ Unread(k) = SubSeq(<<Asked("front"), Asked("rest")>>, 2, 2)
      BY <1>5, <2>2, <2>3 DEF B!Read, Unread
    <3>2. B!Read(k) = <<Asked("front")>> /\ Unread(k) = <<Asked("rest")>>
      BY <1>0, <3>1 DEF Joins
    <3> QED  BY <1>5, <3>2
  <2>4. CASE k = 2
    <3>1. /\ B!Read(k) = << >> \o SubSeq(<<Asked("front"), Asked("rest")>>, 1, 2)
          /\ Unread(k) = SubSeq(<<Asked("front"), Asked("rest")>>, 3, 2)
      BY <1>5, <2>2, <2>4 DEF B!Read, Unread
    <3>2. B!Read(k) = <<Asked("front"), Asked("rest")>> /\ Unread(k) = << >>
      BY <1>0, <3>1 DEF Joins
    <3> QED  BY <1>5, <3>2
  <2> QED  BY <2>2, <2>3, <2>4
<1>6. CASE bytes = <<Asked("front")>> /\ stream = <<Asked("rest")>> /\ device = << >>
  <2>2. k = 1 /\ Len(stream) = 1
    BY <1>6
  <2>3. /\ B!Read(k) = <<Asked("front")>> \o SubSeq(<<Asked("rest")>>, 1, 1)
        /\ Unread(k) = SubSeq(<<Asked("rest")>>, 2, 1)
    BY <1>6, <2>2 DEF B!Read, Unread
  <2>4. B!Read(k) = <<Asked("front"), Asked("rest")>> /\ Unread(k) = << >>
    BY <1>0, <2>3 DEF Joins
  <2> QED  BY <1>6, <2>4
<1> QED  BY <1>2, <1>3, <1>4, <1>5, <1>6 DEF OneAnswer

\* Pieces that are read and pieces that are left.
LEMMA ChunkTypes ==
  ASSUME BrowserTypes, NEW k \in 1 .. Len(stream)
  PROVE  B!Read(k) \in Seq(B!Piece) /\ Unread(k) \in Seq(B!Piece)
BY DEF BrowserTypes, B!Read, Unread

\* A chunk that does not complete a frame.
LEMMA ReadMoreKeeps ==
  ASSUME BrowserInv, NEW k, B!ReadMore(k)
  PROVE  BrowserInv'
<1>1. /\ port' = port /\ open' = open /\ refused' = refused /\ queue' = queue /\ locked' = locked
      /\ stage = "reading" /\ stage' = stage /\ device' = device /\ late' = late
      /\ k \in 1 .. Len(stream) /\ bytes' = B!Read(k) /\ stream' = Unread(k) /\ B!TooFew(B!Read(k))
  BY DEF B!ReadMore, B!Chunk, B!serial, Unread
<1>2. BrowserTypes'
  <2>1. bytes' \in Seq(B!Piece) /\ stream' \in Seq(B!Piece)
    BY <1>1, ChunkTypes DEF BrowserInv
  <2> QED  BY <1>1, <2>1 DEF BrowserInv, BrowserTypes
<1>3. ASSUME ~late
      PROVE  OneAnswer'
  <2>1. \A part \in {"all", "exception", "front", "rest"} :
          Asked(part)' = Asked(part) /\ Asked(part).part = part
    BY <1>1 DEF Asked
  <2>2. \A part \in {"all", "exception"} : B!Read(k) # <<Asked(part)>>
    BY <1>1, <2>1 DEF B!TooFew
  <2>3. B!Read(k) # <<Asked("front"), Asked("rest")>>
    BY <1>1 DEF B!TooFew
  <2>4. \/ bytes' = <<Asked("front")>> /\ stream' = << >> /\ device' = <<Asked("rest")>>
        \/ bytes' = <<Asked("front")>> /\ stream' = <<Asked("rest")>> /\ device' = << >>
    BY <1>1, <1>3, <2>2, <2>3, WhatIsRead
  <2> QED  BY <2>1, <2>4 DEF OneAnswer
<1>4. open
  BY <1>1 DEF BrowserInv, BrowserTypes
<1> QED  BY <1>1, <1>2, <1>3, <1>4 DEF BrowserInv, LineInv

\* The end of a request: what is on the line, is read or to come is nothing, or
\* the request counts as given up.
LEMMA SettledKeeps ==
  ASSUME BrowserInv, B!Settled, stage # "due", port' = port, refused' = refused, device' = device,
         stream' \in Seq(B!Piece), open' \in BOOLEAN, late' \in BOOLEAN,
         ~open' => stream' = << >>, ~late' => stream' = << >> /\ device' = << >>
  PROVE  BrowserInv'
<1>1. queue' = Tail(queue) /\ stage' = "due" /\ bytes' = << >> /\ locked' = FALSE
  BY DEF B!Settled
<1>2. queue' \in Seq(CallType)
  BY <1>1 DEF BrowserInv, BrowserTypes
<1>3. bytes' \in Seq(B!Piece) /\ device' \in Seq(B!Piece)
  BY <1>1 DEF BrowserInv, BrowserTypes
<1>4. port' \in BOOLEAN /\ refused' \in BOOLEAN /\ locked' \in BOOLEAN /\ (locked' <=> stage' # "due")
  BY <1>1 DEF BrowserInv, BrowserTypes
<1>5. BrowserTypes'
  BY <1>1, <1>2, <1>3, <1>4 DEF BrowserTypes
<1> QED  BY <1>1, <1>5 DEF BrowserInv, LineInv

\* A chunk that completes a frame, the timer, and an adapter that is unplugged.
LEMMA EndKeeps ==
  ASSUME BrowserInv, (\E k : B!Resolve(k) \/ B!Reject(k)) \/ B!Timeout \/ B!UnplugWhile
  PROVE  BrowserInv'
<1>1. ASSUME NEW k, B!Resolve(k) \/ B!Reject(k)
      PROVE  BrowserInv'
  <2>1. /\ port' = port /\ open' = open /\ refused' = refused /\ device' = device /\ late' = late
        /\ stage = "reading" /\ k \in 1 .. Len(stream) /\ stream' = Unread(k)
        /\ B!Enough(B!Read(k)) /\ B!Settled
    BY <1>1 DEF B!Resolve, B!Reject, B!Chunk, B!serial, Unread
  <2>2. stream' \in Seq(B!Piece) /\ open' = TRUE /\ late' \in BOOLEAN
    BY <2>1, ChunkTypes DEF BrowserInv, BrowserTypes
  <2>3. ASSUME ~late
        PROVE  stream' = << >> /\ device' = << >>
    <3>1. B!Read(k) # <<Asked("front")>>
      <4>1. ~B!Enough(<<Asked("front")>>)
        BY DEF B!Enough, Asked
      <4> QED  BY <2>1, <4>1
    <3> QED  BY <2>1, <2>3, <3>1, WhatIsRead
  <2> QED  BY <2>1, <2>2, <2>3, SettledKeeps
<1>2. CASE B!Timeout
  <2>1. /\ port' = port /\ open' = open /\ refused' = refused /\ device' = device /\ late' = TRUE
        /\ stage = "reading" /\ stream' = stream /\ B!Settled
    BY <1>2 DEF B!Timeout, B!serial
  <2>2. stream' \in Seq(B!Piece) /\ open' = TRUE
    BY <2>1 DEF BrowserInv, BrowserTypes
  <2> QED  BY <2>1, <2>2, SettledKeeps
<1>3. CASE B!UnplugWhile
  <2>1. /\ port' = port /\ open' = FALSE /\ refused' = refused /\ device' = device /\ late' = TRUE
        /\ stage # "due" /\ stream' = << >> /\ B!Settled
    BY <1>3 DEF B!UnplugWhile
  <2>2. << >> \in Seq(B!Piece)
    OBVIOUS
  <2> QED  BY <2>1, <2>2, SettledKeeps
<1> QED  BY <1>1, <1>2, <1>3

\* What the device sends, and what it has to send after that.
Sent(piece, next) ==
  /\ stream' = IF open THEN Append(stream, piece) ELSE stream
  /\ device' = next

\* The device answers a request whole, in two parts or by an exception.
LEMMA ReplyKeeps ==
  ASSUME BrowserInv, B!Reply
  PROVE  BrowserInv'
<1> DEFINE d == Head(device)
           rest == [d EXCEPT !.part = "rest"]
<1>1. /\ port' = port /\ open' = open /\ refused' = refused /\ locked' = locked /\ queue' = queue
      /\ stage' = stage /\ bytes' = bytes /\ late' = late /\ device # << >>
  BY DEF B!Reply, B!serial
<1>2. /\ device \in Seq(B!Piece) /\ stream \in Seq(B!Piece) /\ d \in B!Piece /\ Tail(device) \in Seq(B!Piece)
      /\ device[1] = d
  BY <1>1 DEF BrowserInv, BrowserTypes
<1>3. \/ d.part = "all" /\ \E part \in {"all", "exception"} : Sent([d EXCEPT !.part = part], Tail(device))
      \/ d.part = "all" /\ Sent([d EXCEPT !.part = "front"], [device EXCEPT ![1] = rest])
      \/ d.part = "rest" /\ Sent(d, Tail(device))
  BY <1>2 DEF B!Reply, B!Arrives, Sent
<1>4. \A part \in {"all", "exception", "front", "rest"} : [d EXCEPT !.part = part] \in B!Piece
  BY <1>2 DEF B!Piece, B!Part
<1>5. [device EXCEPT ![1] = rest] \in Seq(B!Piece)
  <2>1. rest \in B!Piece /\ 1 \in 1 .. Len(device)
    BY <1>1, <1>2, <1>4
  <2> QED  BY <1>2, <2>1, ExceptSeq
<1>6. stream' \in Seq(B!Piece) /\ device' \in Seq(B!Piece)
  <2>1. ASSUME NEW x \in B!Piece, NEW next \in Seq(B!Piece), Sent(x, next)
        PROVE  stream' \in Seq(B!Piece) /\ device' \in Seq(B!Piece)
    BY <1>2, <2>1 DEF Sent
  <2> HIDE DEF d, rest
  <2> QED  BY <1>2, <1>3, <1>4, <1>5, <2>1
<1>7. BrowserTypes'
  BY <1>1, <1>6 DEF BrowserInv, BrowserTypes
<1>8. ~open => stream' = << >>
  BY <1>3 DEF BrowserInv, LineInv, Sent
<1>9. ASSUME ~late
      PROVE  stage = "reading" /\ OneAnswer'
  <2>1. stage = "reading" /\ open /\ OneAnswer
    BY <1>1, <1>9 DEF BrowserInv, BrowserTypes, LineInv
  <2>2. \A part \in {"all", "exception", "front", "rest"} :
          /\ Asked(part)' = Asked(part) /\ Asked(part).part = part
          /\ \A other \in {"all", "exception", "front", "rest"} :
               [Asked(part) EXCEPT !.part = other] = Asked(other)
    BY <1>1 DEF Asked
  <2>3. \A part, other \in {"all", "exception", "front", "rest"} : Joins(Asked(part), Asked(other))
    <3>1. \A part \in {"all", "exception", "front", "rest"} : Asked(part) \in B!Piece
      BY <2>1, AskedPiece DEF BrowserInv, BrowserTypes
    <3> QED  BY <3>1, Pieces
  <2>4. CASE bytes = << >> /\ stream = << >> /\ device = <<Asked("all")>>
    <3>1. d = Asked("all") /\ d.part = "all"
      BY <2>2, <2>4
    <3>2. CASE \E part \in {"all", "exception"} : Sent([d EXCEPT !.part = part], Tail(device))
      <4>1. PICK part \in {"all", "exception"} : Sent([d EXCEPT !.part = part], Tail(device))
        BY <3>2
      <4>2. stream' = Append(<< >>, Asked(part)) /\ device' = Tail(<<Asked("all")>>)
        BY <2>1, <2>2, <2>4, <3>1, <4>1 DEF Sent
      <4>3. Joins(Asked(part), Asked("all")) /\ Joins(Asked("all"), Asked("all"))
        BY <2>3
      <4>4. stream' = <<Asked(part)>> /\ device' = << >>
        BY <4>2, <4>3 DEF Joins
      <4> QED  BY <1>1, <2>2, <2>4, <4>4, <2>1 DEF OneAnswer
    <3>3. CASE Sent([d EXCEPT !.part = "front"], [device EXCEPT ![1] = rest])
      <4>1. rest = Asked("rest") /\ [d EXCEPT !.part = "front"] = Asked("front")
        BY <2>2, <3>1
      <4>2. stream' = Append(<< >>, Asked("front")) /\ device' = [<<Asked("all")>> EXCEPT ![1] = Asked("rest")]
        BY <2>1, <2>4, <3>3, <4>1 DEF Sent
      <4>3. Joins(Asked("front"), Asked("all")) /\ Joins(Asked("all"), Asked("rest"))
        BY <2>3
      <4>4. stream' = <<Asked("front")>> /\ device' = <<Asked("rest")>>
        BY <4>2, <4>3 DEF Joins
      <4> QED  BY <1>1, <2>2, <2>4, <4>4, <2>1 DEF OneAnswer
    <3> QED  BY <1>3, <3>1, <3>2, <3>3
  <2>5. ASSUME device = <<Asked("rest")>>
        PROVE  stream' = Append(stream, Asked("rest")) /\ device' = << >>
    <3>1. d = Asked("rest") /\ d.part = "rest"
      BY <2>2, <2>5
    <3>2. Sent(d, Tail(device))
      BY <1>3, <3>1
    <3>3. Joins(Asked("rest"), Asked("rest"))
      BY <2>3
    <3> QED  BY <2>1, <2>5, <3>1, <3>2, <3>3 DEF Sent, Joins
  <2>6. CASE bytes = << >> /\ stream = <<Asked("front")>> /\ device = <<Asked("rest")>>
    <3>1. Joins(Asked("front"), Asked("rest"))
      BY <2>3
    <3>2. stream' = <<Asked("front"), Asked("rest")>> /\ device' = << >>
      BY <2>5, <2>6, <3>1 DEF Joins
    <3> QED  BY <1>1, <2>1, <2>2, <2>6, <3>2 DEF OneAnswer
  <2>7. CASE bytes = <<Asked("front")>> /\ stream = << >> /\ device = <<Asked("rest")>>
    <3>1. Joins(Asked("rest"), Asked("rest"))
      BY <2>3
    <3>2. stream' = <<Asked("rest")>> /\ device' = << >>
      BY <2>5, <2>7, <3>1 DEF Joins
    <3> QED  BY <1>1, <2>1, <2>2, <2>7, <3>2 DEF OneAnswer
  <2> QED  BY <1>1, <2>1, <2>4, <2>6, <2>7 DEF OneAnswer
<1> QED  BY <1>1, <1>7, <1>8, <1>9 DEF BrowserInv, LineInv

\* So does every step of the browser.
LEMMA BrowserKeeps ==
  ASSUME BrowserInv, B!Next \/ UNCHANGED B!bvars
  PROVE  BrowserInv'
<1>1. CASE \E c \in Slots \cup {Hand}, a \in Settings \ {Off} :
             /\ B!Request(c, a)
             /\ UNCHANGED <<B!serial, locked, stage, bytes, B!line>>
  <2>1. PICK c \in Slots \cup {Hand}, a \in Settings \ {Off} :
          /\ B!Request(c, a)
          /\ UNCHANGED <<B!serial, locked, stage, bytes, B!line>>
    BY <1>1
  <2>2. [call |-> c, ask |-> a] \in CallType
    BY DEF CallType
  <2>3. queue' = Append(queue, [call |-> c, ask |-> a])
    BY <2>1 DEF B!Request
  <2>4. UNCHANGED <<connection, executed, line>>
    BY <2>1 DEF B!serial, B!line, connection, executed, line
  <2> QED  BY <2>2, <2>3, <2>4, CallKeeps
<1>2. CASE UNCHANGED B!bvars
  BY <1>2, LineStays DEF B!bvars, BrowserInv, BrowserTypes, LineInv
<1>3. CASE \E k \in DOMAIN stream : B!ReadMore(k) \/ B!Resolve(k) \/ B!Reject(k)
  BY <1>3, ReadMoreKeeps, EndKeeps
<1>4. CASE B!Connect \/ B!ConnectFails \/ B!Close \/ B!CloseRefused \/ B!Unplug
  BY <1>4, PortKeeps
<1>5. CASE B!Execute \/ B!NotConnected \/ B!Write \/ B!Reply \/ B!Timeout \/ B!UnplugWhile
  BY <1>5, ExecuteKeeps, WriteKeeps, ReplyKeeps, EndKeeps
<1> QED  BY <1>1, <1>2, <1>3, <1>4, <1>5 DEF B!Next

-----------------------------------------------------------------------------
(***************************************************************************)
(* The calls.                                                              *)
(***************************************************************************)

\* What a step does with the calls: nothing, one more, or the first is settled.
Quiet == queue' = queue /\ Waiting' = Waiting

Joined(c, a) ==
  /\ c \in (Slots \cup {Hand}) \ Waiting /\ a \in Settings \ {Off}
  /\ queue' = Append(queue, [call |-> c, ask |-> a])
  /\ Waiting' = Waiting \cup {c}

Gone ==
  /\ queue # << >> /\ queue' = Tail(queue)
  /\ Waiting' = Waiting \ {Head(queue).call}

\* Each keeps the calls in step with the page.
LEMMA CallsKeep ==
  ASSUME queue \in Seq(CallType), CallsInv, Quiet \/ (\E c, a : Joined(c, a)) \/ Gone
  PROVE  CallsInv'
<1>1. CASE Quiet
  BY <1>1 DEF Quiet, CallsInv
<1>2. ASSUME NEW c, NEW a, Joined(c, a)
      PROVE  CallsInv'
  <2> DEFINE n == Len(queue)
  <2>1. /\ n \in Nat /\ DOMAIN queue = 1 .. n /\ DOMAIN queue' = 1 .. n + 1
        /\ \A i \in 1 .. n : queue'[i] = queue[i]
        /\ queue'[n + 1].call = c
    BY <1>2 DEF Joined
  <2>2. ASSUME NEW i \in 1 .. n
        PROVE  queue[i].call # c /\ queue[i].call \in Slots \cup {Hand}
    <3>1. queue[i] \in CallType
      OBVIOUS
    <3>2. queue[i].call \in Slots \cup {Hand}
      BY <3>1 DEF CallType
    <3>3. queue[i].call \in Waiting
      BY <2>1, <3>2 DEF CallsInv
    <3> QED  BY <1>2, <3>2, <3>3 DEF Joined
  <2>3. ASSUME NEW i \in 1 .. n + 1, NEW j \in 1 .. n + 1, queue'[i].call = queue'[j].call
        PROVE  i = j
    <3>1. i \in 1 .. n \/ i = n + 1
      BY <2>1
    <3>2. j \in 1 .. n \/ j = n + 1
      BY <2>1
    <3> QED  BY <2>1, <2>2, <2>3, <3>1, <3>2 DEF CallsInv
  <2>4. ASSUME NEW d \in Slots \cup {Hand}
        PROVE  (\E i \in 1 .. n + 1 : queue'[i].call = d) <=> d \in Waiting \cup {c}
    <3>1. (\E i \in 1 .. n + 1 : queue'[i].call = d) <=> (\E i \in 1 .. n : queue[i].call = d) \/ c = d
      BY <2>1
    <3> QED  BY <2>1, <3>1 DEF CallsInv
  <2> QED  BY <1>2, <2>1, <2>3, <2>4 DEF CallsInv, Joined
<1>3. CASE Gone
  <2> DEFINE n == Len(queue)
  <2>1. /\ n \in Nat \ {0} /\ DOMAIN queue = 1 .. n /\ DOMAIN queue' = 1 .. n - 1
        /\ \A i \in 1 .. n - 1 : queue'[i] = queue[i + 1]
        /\ Head(queue) = queue[1]
    BY <1>3 DEF Gone
  <2>2. ASSUME NEW i \in 1 .. n - 1, NEW j \in 1 .. n - 1, queue'[i].call = queue'[j].call
        PROVE  i = j
    <3>1. i + 1 \in 1 .. n /\ j + 1 \in 1 .. n /\ queue[i + 1].call = queue[j + 1].call
      BY <2>1, <2>2
    <3>2. i + 1 = j + 1
      BY <2>1, <3>1 DEF CallsInv
    <3> QED  BY <2>1, <3>2
  <2>3. ASSUME NEW d \in Slots \cup {Hand}
        PROVE  (\E i \in 1 .. n - 1 : queue'[i].call = d) <=> d \in Waiting \ {queue[1].call}
    <3>1. ASSUME NEW i \in 1 .. n - 1, queue'[i].call = d
          PROVE  d \in Waiting \ {queue[1].call}
      <4>1. i + 1 \in 1 .. n /\ i + 1 # 1 /\ 1 \in 1 .. n /\ queue[i + 1].call = d
        BY <2>1, <3>1
      <4> QED  BY <2>1, <4>1 DEF CallsInv
    <3>2. ASSUME d \in Waiting \ {queue[1].call}
          PROVE  \E i \in 1 .. n - 1 : queue'[i].call = d
      <4>1. PICK j \in 1 .. n : queue[j].call = d
        BY <2>1, <3>2 DEF CallsInv
      <4>2. j # 1
        BY <3>2, <4>1
      <4>3. j - 1 \in 1 .. n - 1 /\ (j - 1) + 1 = j
        BY <2>1, <4>2
      <4> QED  BY <2>1, <4>1, <4>3
    <3> QED  BY <3>1, <3>2
  <2>4. Waiting' = Waiting \ {queue[1].call}
    BY <1>3, <2>1 DEF Gone
  <2>5. \A i, j \in DOMAIN queue' : queue'[i].call = queue'[j].call => i = j
    BY <2>1, <2>2
  <2>6. \A d \in Slots \cup {Hand} : (\E i \in DOMAIN queue' : queue'[i].call = d) <=> d \in Waiting'
    BY <2>1, <2>3, <2>4
  <2> QED  BY <2>5, <2>6 DEF CallsInv
<1> QED  BY <1>1, <1>2, <1>3

\* A set of none or one as a sequence.
LEMMA SmallSets ==
  /\ SetToSeq({}) = << >>
  /\ \A x : SetToSeq({x}) = <<x>>
<1>1. SetToSeq({}) = << >>
  <2>1. Cardinality({}) = 0
    BY FS_EmptySet
  <2>2. \A f : f \in [1 .. 0 -> {}] <=> f = << >>
    <3>1. << >> \in [1 .. 0 -> {}]
      OBVIOUS
    <3>2. ASSUME NEW f \in [1 .. 0 -> {}], NEW g \in [1 .. 0 -> {}]
          PROVE  f = g
      OBVIOUS
    <3> QED  BY <3>1, <3>2, Zenon
  <2>3. IsInjective(<< >>)
    BY DEF IsInjective
  <2> QED  BY <2>1, <2>2, <2>3 DEF SetToSeq
<1>2. ASSUME NEW x
      PROVE  SetToSeq({x}) = <<x>>
  <2>1. Cardinality({x}) = 1
    BY FS_Singleton
  <2>2. \A f : f \in [1 .. 1 -> {x}] <=> f = <<x>>
    OBVIOUS
  <2>3. IsInjective(<<x>>)
    BY DEF IsInjective
  <2> QED  BY <2>1, <2>2, <2>3 DEF SetToSeq
<1> QED  BY <1>1, <1>2

Same(ps) == \A i \in Slots : ps[i] = NoPoll <=> polls[i] = NoPoll

\* A poll that the page adds is one call more; a step that adds none is no call.
LEMMA Polled ==
  ASSUME PageInv, queue \in Seq(CallType), Requests, asked' = asked,
         \/ Same(polls')
         \/ \E ps \in [Slots -> Poll \cup {NoPoll}], i \in Slots, s \in Pollable :
              Same(ps) /\ ps[i] = NoPoll /\ polls' = Add(ps, i, s)
  PROVE  Quiet \/ \E c, a : Joined(c, a)
<1> DEFINE new == {i \in Slots : polls[i] = NoPoll /\ polls'[i] # NoPoll}
           call(i) == [call |-> i, ask |-> polls'[i].settings]
<1>1. queue' = queue \o SetToSeq({call(i) : i \in new})
  BY DEF Requests
<1>2. CASE Same(polls')
  <2>1. new = {}
    BY <1>2 DEF Same
  <2>2. {call(i) : i \in new} = {}
    BY <2>1
  <2> HIDE DEF call, new
  <2>3. queue' = queue \o << >>
    BY <1>1, <2>2, SmallSets
  <2>4. queue' = queue
    BY <2>3, ConcatEmptySeq
  <2> QED  BY <1>2, <2>4 DEF Quiet, Waiting, Same
<1>3. CASE \E ps \in [Slots -> Poll \cup {NoPoll}], i \in Slots, s \in Pollable :
             Same(ps) /\ ps[i] = NoPoll /\ polls' = Add(ps, i, s)
  <2>1. PICK ps \in [Slots -> Poll \cup {NoPoll}], i \in Slots, s \in Pollable :
          Same(ps) /\ ps[i] = NoPoll /\ polls' = Add(ps, i, s)
    BY <1>3
  <2>2. s \in Settings \ {Off}
    BY AutoPollAssumption, WebRtuAssumption
  <2>3. /\ polls'[i] # NoPoll /\ polls'[i].settings = s
        /\ \A j \in Slots \ {i} : polls'[j] = ps[j]
    BY <2>1, <2>2, PollsChange
  <2>4. polls[i] = NoPoll /\ \A j \in Slots \ {i} : polls'[j] = NoPoll <=> polls[j] = NoPoll
    BY <2>1, <2>3 DEF Same
  <2>5. new = {i}
    BY <2>3, <2>4
  <2>6. {call(j) : j \in new} = {call(i)}
    BY <2>5
  <2>7. call(i) = [call |-> i, ask |-> s]
    BY <2>3
  <2> HIDE DEF call, new
  <2>8. queue' = queue \o <<call(i)>>
    BY <1>1, <2>6, SmallSets
  <2>9. call(i) \in CallType
    BY <2>2, <2>7 DEF CallType
  <2>10. queue' = Append(queue, [call |-> i, ask |-> s])
    BY <2>7, <2>8, <2>9, AppendIsConcat
  <2>11. i \notin Waiting /\ Waiting' = Waiting \cup {i}
    BY <2>3, <2>4, WebRtuAssumption DEF Waiting
  <2> QED  BY <2>2, <2>10, <2>11 DEF Joined
<1> QED  BY <1>2, <1>3

\* The effect and its timer add one poll at most.
LEMMA LoopPolls ==
  ASSUME PageInv, Commit \/ \E i \in Slots : Tick(i)
  PROVE  /\ asked' = asked
         /\ \/ Same(polls')
            \/ \E ps \in [Slots -> Poll \cup {NoPoll}], i \in Slots, s \in Pollable :
                 Same(ps) /\ ps[i] = NoPoll /\ polls' = Add(ps, i, s)
<1>0. polls \in [Slots -> Poll \cup {NoPoll}] /\ loop \in Pollable \cup {NoSettings}
  BY DEF PageInv, TypeOK
<1>1. CASE Commit
  <2>1. Same(polls) /\ Same(CleanedUp) /\ CleanedUp \in [Slots -> Poll \cup {NoPoll}]
    BY <1>0, Cleanup DEF Same
  <2>2. \/ polls' = polls \/ polls' = CleanedUp
        \/ settings \in Pollable /\ \E i \in Slots : CleanedUp[i] = NoPoll /\ polls' = Add(CleanedUp, i, settings)
    BY <1>1 DEF Commit
  <2>3. CASE polls' = polls \/ polls' = CleanedUp
    <3>1. Same(polls')
      BY <2>1, <2>3 DEF Same
    <3> QED  BY <1>1, <3>1 DEF Commit
  <2> QED  BY <1>1, <2>1, <2>2, <2>3 DEF Commit
<1>2. CASE \E i \in Slots : Tick(i)
  <2>1. PICK i \in Slots : Tick(i)
    BY <1>2
  <2>2. polls[i] = NoPoll /\ polls' = Add(polls, i, loop) /\ loop \in Pollable /\ Same(polls) /\ asked' = asked
    BY <1>0, <2>1 DEF Tick, Same
  <2> QED  BY <1>0, <2>2
<1> QED  BY <1>1, <1>2

\* The first call is settled, for the page as for the queue.
Settles == Resolved \/ Rejected

\* When the queue moves on, its first call is resolved or rejected, and the
\* page takes note of that very call.
LEMMA FirstSettled ==
  ASSUME PageInv, CallsInv, queue \in Seq(CallType), queue # << >>, queue' = Tail(queue), Settles
  PROVE  Gone /\ Next
<1> DEFINE c == Head(queue).call
<1>0. polls \in [Slots -> Poll \cup {NoPoll}]
  BY DEF PageInv, TypeOK
<1>1. c \in Slots \cup {Hand}
  <2>1. Head(queue) \in CallType
    BY HeadTailProperties
  <2> QED  BY <2>1 DEF CallType
<1>2. CASE c = Hand
  <2>1. Answered \/ NotAnswered
    BY <1>2 DEF Settles, Resolved, Rejected
  <2>2. Waiting' = Waiting \ {Hand}
    BY <2>1, WebRtuAssumption DEF Waiting, Answered, NotAnswered
  <2> QED  BY <1>2, <2>1, <2>2 DEF Gone, Next
<1>3. CASE c # Hand
  <2>1. c \in Slots /\ (PollAnswered(c) \/ PollFailed(c))
    BY <1>1, <1>3 DEF Settles, Resolved, Rejected
  <2>2. polls' = [polls EXCEPT ![c] = NoPoll] /\ asked' = asked
    BY <2>1 DEF PollAnswered, PollFailed
  <2>3. polls'[c] = NoPoll /\ \A j \in Slots \ {c} : polls'[j] = polls[j]
    BY <1>0, <2>1, <2>2
  <2>4. Waiting' = Waiting \ {c}
    BY <1>3, <2>1, <2>2, <2>3 DEF Waiting
  <2> QED  BY <2>1, <2>4 DEF Gone, Next
<1> QED  BY <1>2, <1>3

-----------------------------------------------------------------------------
(***************************************************************************)
(* A step of the composition is one of the page, one of the browser, and   *)
(* one for the calls between them.                                         *)
(***************************************************************************)
Apart ==
  /\ Next \/ UNCHANGED vars
  /\ B!Next \/ UNCHANGED B!bvars
  /\ Quiet \/ (\E c, a : Joined(c, a)) \/ Gone

\* The user, and the port.
LEMMA UserSteps ==
  ASSUME WebInv,
         \/ \E s \in Settings : EditForm(s)
         \/ ToggleAutoPoll \/ ConnectUsb \/ UsbConnected \/ UsbNotConnected
         \/ DisconnectUsb \/ UsbDisconnected \/ UsbNotDisconnected
  PROVE  Apart
<1>1. Next
  BY DEF Next, EditForm, ToggleAutoPoll, ConnectUsb, UsbConnected, UsbNotConnected,
     DisconnectUsb, UsbDisconnected, UsbNotDisconnected
<1>2. B!Next \/ UNCHANGED B!bvars
  <2>1. CASE UNCHANGED browser
    BY <2>1 DEF browser, connection, executed, line, B!bvars
  <2>2. CASE B!Connect \/ B!ConnectFails \/ B!Close \/ B!CloseRefused
    BY <2>2 DEF B!Next
  <2> QED  BY <2>1, <2>2 DEF EditForm, ToggleAutoPoll, ConnectUsb, UsbConnected, UsbNotConnected,
     DisconnectUsb, UsbDisconnected, UsbNotDisconnected
<1>3. queue' = queue
  <2>1. CASE UNCHANGED browser
    BY <2>1 DEF browser
  <2>2. CASE B!Connect \/ B!ConnectFails \/ B!Close \/ B!CloseRefused
    BY <2>2 DEF B!Connect, B!ConnectFails, B!Close, B!CloseRefused, B!bvars
  <2> QED  BY <2>1, <2>2 DEF EditForm, ToggleAutoPoll, ConnectUsb, UsbConnected, UsbNotConnected,
     DisconnectUsb, UsbDisconnected, UsbNotDisconnected
<1>4. polls' = polls /\ asked' = asked
  BY DEF EditForm, ToggleAutoPoll, ConnectUsb, UsbConnected, UsbNotConnected,
     DisconnectUsb, UsbDisconnected, UsbNotDisconnected,
     Edit, Toggle, Connect, Disconnect, PortChanged, PortUnchanged
<1> QED  BY <1>1, <1>2, <1>3, <1>4 DEF Apart, Quiet, Waiting

\* The calls that the page makes.
LEMMA CallSteps ==
  ASSUME WebInv, SendByHand \/ CommitAndPoll \/ \E i \in Slots : TickAndPoll(i)
  PROVE  Apart
<1>0. queue \in Seq(CallType)
  BY DEF WebInv, BrowserInv, BrowserTypes
<1>1. Next /\ UNCHANGED <<connection, executed, line>>
  BY DEF Next, SendByHand, CommitAndPoll, TickAndPoll, Requests
<1>2. Quiet \/ \E c, a : Joined(c, a)
  <2>1. CASE SendByHand
    <3>1. asked = NoSettings /\ asked' = settings /\ polls' = polls /\ settings \in Settings \ {Off}
      BY <2>1 DEF WebInv, PageInv, TypeOK, SendByHand, SendModbus
    <3>2. Hand \notin Waiting /\ Waiting' = Waiting \cup {Hand}
      BY <3>1, AutoPollAssumption, WebRtuAssumption DEF Waiting
    <3>3. queue' = Append(queue, [call |-> Hand, ask |-> settings])
      BY <2>1 DEF SendByHand, B!Request
    <3>4. Joined(Hand, settings)
      BY <3>1, <3>2, <3>3 DEF Joined
    <3> QED  BY <3>4
  <2>2. CASE CommitAndPoll \/ \E i \in Slots : TickAndPoll(i)
    <3>1. Requests /\ (Commit \/ \E i \in Slots : Tick(i))
      BY <2>2 DEF CommitAndPoll, TickAndPoll
    <3> QED  BY <1>0, <3>1, LoopPolls, Polled DEF WebInv
  <2> QED  BY <2>1, <2>2
<1>3. B!Next \/ UNCHANGED B!bvars
  <2>1. CASE Quiet
    BY <1>1, <2>1 DEF Quiet, connection, executed, line, B!bvars
  <2>2. ASSUME NEW c, NEW a, Joined(c, a)
        PROVE  B!Next
    <3>1. /\ c \in Slots \cup {Hand} /\ a \in Settings \ {Off} /\ B!Request(c, a)
          /\ \A i \in DOMAIN queue : queue[i].call # c
      BY <2>2 DEF Joined, B!Request, WebInv, CallsInv
    <3>2. UNCHANGED <<B!serial, locked, stage, bytes, B!line>>
      BY <1>1 DEF connection, executed, line, B!serial, B!line
    <3> QED  BY <3>1, <3>2 DEF B!Next
  <2> QED  BY <1>2, <2>1, <2>2
<1> QED  BY <1>1, <1>2, <1>3 DEF Apart

\* The browser and the device.
LEMMA BrowserSteps ==
  ASSUME WebInv,
         \/ Starts \/ CannotStart \/ Writes \/ TimesOut
         \/ \E k \in DOMAIN stream : ReadsMore(k) \/ ReadsAnswer(k) \/ ReadsOther(k)
         \/ Unplugged \/ UnpluggedWhile \/ DeviceReplies
  PROVE  Apart
<1>0. /\ queue \in Seq(CallType) /\ PageInv /\ CallsInv /\ (stage # "due" => queue # << >>)
  BY DEF WebInv, BrowserInv, BrowserTypes
<1>1. B!Next
  BY DEF B!Next, Starts, CannotStart, Writes, TimesOut, ReadsMore, ReadsAnswer, ReadsOther,
     Unplugged, UnpluggedWhile, DeviceReplies
<1>2. CASE \/ Starts \/ Writes \/ (\E k \in DOMAIN stream : ReadsMore(k)) \/ Unplugged \/ DeviceReplies
  <2>1. UNCHANGED vars
    BY <1>2 DEF Starts, Writes, ReadsMore, Unplugged, DeviceReplies
  <2>2. queue' = queue
    BY <1>2 DEF Starts, Writes, ReadsMore, Unplugged, DeviceReplies,
       B!Execute, B!Write, B!ReadMore, B!Unplug, B!Reply
  <2>3. Quiet
    BY <2>1, <2>2 DEF Quiet, Waiting, vars
  <2> QED  BY <1>1, <2>1, <2>3 DEF Apart
<1>3. CASE \/ CannotStart \/ TimesOut \/ UnpluggedWhile
           \/ \E k \in DOMAIN stream : ReadsAnswer(k) \/ ReadsOther(k)
  <2>1. Settles
    BY <1>3 DEF Settles, CannotStart, TimesOut, UnpluggedWhile, ReadsAnswer, ReadsOther
  <2>2. queue' = Tail(queue) /\ queue # << >>
    BY <1>0, <1>3 DEF CannotStart, TimesOut, UnpluggedWhile, ReadsAnswer, ReadsOther, B!NotConnected, B!Due,
       B!Timeout, B!UnplugWhile, B!Resolve, B!Reject, B!Chunk, B!Settled
  <2>3. Gone /\ Next
    BY <1>0, <2>1, <2>2, FirstSettled
  <2> QED  BY <1>1, <2>3 DEF Apart
<1> QED  BY <1>2, <1>3

-----------------------------------------------------------------------------
(***************************************************************************)
(* What the page takes the port for.                                       *)
(***************************************************************************)

\* The steps that leave the port and the settings alone, or take the port away.
LEMMA PortStays ==
  ASSUME PortInv, task' = task, settings' = settings, port' = port, refused' = refused,
         open' = open \/ open' = FALSE, task = "none" \/ (busy' = busy /\ asked' = asked)
  PROVE  PortInv'
<1>1. (task # "none" => busy /\ asked = NoSettings)'
  BY DEF PortInv
<1>2. (~port => ~open \/ refused)'
  BY DEF PortInv
<1> QED  BY <1>1, <1>2 DEF PortInv

\* The user opens and closes the port.
LEMMA UserKeepsPort ==
  ASSUME WebInv,
         \/ \E s \in Settings : EditForm(s)
         \/ ToggleAutoPoll \/ ConnectUsb \/ UsbConnected \/ UsbNotConnected
         \/ DisconnectUsb \/ UsbDisconnected \/ UsbNotDisconnected
  PROVE  PortInv'
<1>0. PortInv /\ (~busy => asked = NoSettings /\ task = "none")
  BY DEF WebInv, PageInv, PortInv
<1>1. CASE (\E s \in Settings : EditForm(s)) \/ ToggleAutoPoll
  <2>1. /\ task' = task /\ busy' = busy /\ asked' = asked
        /\ port' = port /\ open' = open /\ refused' = refused
        /\ settings' = settings \/ settings' # Off
    BY <1>1 DEF EditForm, Edit, ToggleAutoPoll, Toggle, browser, connection
  <2> QED  BY <1>0, <2>1 DEF PortInv
<1>2. CASE ConnectUsb
  <2>1. /\ task' = "connecting" /\ busy' = TRUE /\ asked' = asked /\ asked = NoSettings
        /\ port' = port /\ open' = open /\ refused' = refused /\ settings' = settings
    BY <1>0, <1>2 DEF ConnectUsb, Connect, form, browser, connection
  <2> QED  BY <1>0, <2>1 DEF PortInv
<1>3. CASE UsbConnected
  <2>1. task' = "none" /\ port' = TRUE /\ settings' # Off
    BY <1>3 DEF UsbConnected, B!Connect
  <2> QED  BY <2>1 DEF PortInv
<1>4. CASE UsbNotConnected \/ UsbNotDisconnected
  <2>1. /\ task' = "none" /\ settings' = settings
        /\ port' = port /\ open' = open /\ refused' = refused
    BY <1>4 DEF UsbNotConnected, UsbNotDisconnected, B!ConnectFails, B!bvars, PortUnchanged, form,
       browser, connection
  <2> QED  BY <1>0, <2>1 DEF PortInv
<1>5. CASE DisconnectUsb
  <2>1. /\ task' \in {"closed", "refused"} /\ busy' = TRUE /\ asked' = asked /\ asked = NoSettings
        /\ settings' = settings /\ settings # Off /\ (B!Close \/ B!CloseRefused)
    BY <1>0, <1>5 DEF DisconnectUsb, Disconnect
  <2>2. port' = FALSE /\ (~open' \/ refused')
    <3>1. CASE B!Close
      <4>1. port' = FALSE /\ open' = (open /\ ~port) /\ refused' = refused
        BY <3>1 DEF B!Close
      <4> QED  BY <1>0, <4>1 DEF PortInv
    <3>2. CASE B!CloseRefused
      <4>1. port' = FALSE /\ open' = open /\ (~open \/ locked) /\ (refused' = (refused \/ queue # << >>))
        BY <3>2 DEF B!CloseRefused
      <4>2. locked => queue # << >>
        BY DEF WebInv, BrowserInv, BrowserTypes
      <4> QED  BY <4>1, <4>2
    <3> QED  BY <2>1, <3>1, <3>2
  <2> QED  BY <2>1, <2>2 DEF PortInv
<1>6. CASE UsbDisconnected
  <2>1. /\ task' = "none" /\ task = "closed"
        /\ port' = port /\ open' = open /\ refused' = refused
    BY <1>6 DEF UsbDisconnected, browser, connection
  <2> QED  BY <1>0, <2>1 DEF PortInv
<1> QED  BY <1>1, <1>2, <1>3, <1>4, <1>5, <1>6

\* The rest of a step leaves it to the adapter.
LEMMA OthersKeepPort ==
  ASSUME WebInv,
         \/ SendByHand \/ CommitAndPoll \/ \E i \in Slots : TickAndPoll(i)
         \/ Starts \/ CannotStart \/ Writes \/ TimesOut
         \/ \E k \in DOMAIN stream : ReadsMore(k) \/ ReadsAnswer(k) \/ ReadsOther(k)
         \/ Unplugged \/ UnpluggedWhile \/ DeviceReplies
  PROVE  PortInv'
<1>0. PortInv /\ (~busy => task = "none") /\ (asked # NoSettings => task = "none")
  BY DEF WebInv, PortInv
<1>1. task' = task
  BY DEF SendByHand, CommitAndPoll, TickAndPoll, Starts, CannotStart, Writes, TimesOut,
     ReadsMore, ReadsAnswer, ReadsOther, Unplugged, UnpluggedWhile, DeviceReplies
<1>2. settings' = settings /\ (task = "none" \/ (busy' = busy /\ asked' = asked))
  <2>1. CASE SendByHand
    BY <1>0, <2>1 DEF SendByHand, SendModbus, form
  <2>2. CASE CommitAndPoll \/ \E i \in Slots : TickAndPoll(i)
    BY <2>2 DEF CommitAndPoll, TickAndPoll, Commit, Tick, form
  <2>3. CASE UNCHANGED vars
    BY <2>3 DEF vars
  <2>4. CASE Settles
    <3>1. CASE Answered \/ NotAnswered
      BY <1>0, <3>1 DEF Answered, NotAnswered, form
    <3>2. ASSUME NEW c, PollAnswered(c) \/ PollFailed(c)
          PROVE  settings' = settings /\ busy' = busy /\ asked' = asked
      BY <3>2 DEF PollAnswered, PollFailed, form
    <3> QED  BY <2>4, <3>1, <3>2 DEF Settles, Resolved, Rejected
  <2> QED  BY <2>1, <2>2, <2>3, <2>4 DEF Settles, Starts, CannotStart, Writes, TimesOut,
     ReadsMore, ReadsAnswer, ReadsOther, Unplugged, UnpluggedWhile, DeviceReplies
<1>3. port' = port /\ refused' = refused /\ (open' = open \/ open' = FALSE)
  <2>1. CASE SendByHand \/ CommitAndPoll \/ \E i \in Slots : TickAndPoll(i)
    BY <2>1 DEF SendByHand, CommitAndPoll, TickAndPoll, Requests, connection
  <2>2. CASE Starts \/ CannotStart \/ Writes \/ TimesOut \/ DeviceReplies
    BY <2>2 DEF Starts, CannotStart, Writes, TimesOut, DeviceReplies, B!Execute, B!NotConnected,
       B!Write, B!Timeout, B!Reply, B!serial
  <2>3. CASE \E k \in DOMAIN stream : ReadsMore(k) \/ ReadsAnswer(k) \/ ReadsOther(k)
    BY <2>3 DEF ReadsMore, ReadsAnswer, ReadsOther, B!ReadMore, B!Resolve, B!Reject, B!Chunk, B!serial
  <2>4. CASE Unplugged \/ UnpluggedWhile
    BY <2>4 DEF Unplugged, UnpluggedWhile, B!Unplug, B!UnplugWhile
  <2> QED  BY <2>1, <2>2, <2>3, <2>4
<1> QED  BY <1>0, <1>1, <1>2, <1>3, PortStays

-----------------------------------------------------------------------------
(***************************************************************************)
(* The theorems.                                                           *)
(***************************************************************************)

\* Nothing is connected and nothing under way at the start.
LEMMA WebStarts == WebInit => WebInv
<1> SUFFICES ASSUME WebInit PROVE WebInv
  OBVIOUS
<1>1. PageInv
  BY AutoPollAssumption DEF WebInit, Init, PageInv, TypeOK
<1>2. BrowserInv
  <2>1. << >> \in Seq(CallType) /\ << >> \in Seq(B!Piece)
    OBVIOUS
  <2> QED  BY <2>1 DEF WebInit, B!Init, BrowserInv, BrowserTypes, LineInv
<1>3. CallsInv
  BY DEF WebInit, Init, B!Init, CallsInv, Waiting
<1>4. PortInv
  BY DEF WebInit, Init, B!Init, PortInv
<1> QED  BY <1>1, <1>2, <1>3, <1>4 DEF WebInv

\* A step is one of each part.
LEMMA WebSteps ==
  ASSUME WebInv, WebNext
  PROVE  Apart /\ PortInv'
<1>1. CASE \/ \E s \in Settings : EditForm(s)
           \/ ToggleAutoPoll \/ ConnectUsb \/ UsbConnected \/ UsbNotConnected
           \/ DisconnectUsb \/ UsbDisconnected \/ UsbNotDisconnected
  BY <1>1, UserSteps, UserKeepsPort
<1>2. CASE SendByHand \/ CommitAndPoll \/ \E i \in Slots : TickAndPoll(i)
  BY <1>2, CallSteps, OthersKeepPort
<1>3. CASE \/ Starts \/ CannotStart \/ Writes \/ TimesOut
           \/ \E k \in DOMAIN stream : ReadsMore(k) \/ ReadsAnswer(k) \/ ReadsOther(k)
           \/ Unplugged \/ UnpluggedWhile \/ DeviceReplies
  BY <1>3, BrowserSteps, OthersKeepPort
<1> QED  BY <1>1, <1>2, <1>3 DEF WebNext

\* The invariant is inductive.
LEMMA WebKeeps == WebInv /\ [WebNext]_wvars => WebInv'
<1> SUFFICES ASSUME WebInv, [WebNext]_wvars PROVE WebInv'
  OBVIOUS
<1>1. CASE WebNext
  <2>1. Apart /\ PortInv'
    BY <1>1, WebSteps
  <2>2. PageInv'
    BY <2>1, PageKeeps DEF Apart, WebInv
  <2>3. BrowserInv'
    BY <2>1, BrowserKeeps DEF Apart, WebInv
  <2>4. CallsInv'
    BY <2>1, CallsKeep DEF Apart, WebInv, BrowserInv, BrowserTypes
  <2> QED  BY <2>1, <2>2, <2>3, <2>4 DEF WebInv
<1>2. CASE UNCHANGED wvars
  <2>1. UNCHANGED vars /\ UNCHANGED B!bvars /\ task' = task
    BY <1>2 DEF wvars, browser, connection, executed, line, B!bvars
  <2>2. PageInv'
    BY <2>1, PageKeeps DEF WebInv
  <2>3. BrowserInv'
    BY <2>1, BrowserKeeps DEF WebInv
  <2>4. CallsInv' /\ PortInv'
    BY <2>1 DEF WebInv, CallsInv, PortInv, Waiting, vars, B!bvars
  <2> QED  BY <2>2, <2>3, <2>4 DEF WebInv
<1> QED  BY <1>1, <1>2

(***************************************************************************)
(* The invariant holds in every behaviour.                                 *)
(***************************************************************************)
THEOREM WebInvariant == WebSpec => []WebInv
BY WebStarts, WebKeeps, PTL DEF WebSpec

(***************************************************************************)
(* The page that polls over the browser's port is a page as AutoPoll has   *)
(* it, and the port is used as BrowserRtu allows: a caller has one call in *)
(* the queue at most (page.tsx:178-192 over browser-rtu.ts).               *)
(***************************************************************************)
THEOREM PartsKept == WebSpec => Init /\ [][Next]_vars /\ B!Spec
<1>1. WebInit => Init /\ B!Init
  BY DEF WebInit
<1>2. WebInv /\ [WebNext]_wvars => [Next]_vars /\ [B!Next]_(B!bvars)
  <2> SUFFICES ASSUME WebInv, [WebNext]_wvars PROVE [Next]_vars /\ [B!Next]_(B!bvars)
    OBVIOUS
  <2>1. CASE WebNext
    BY <2>1, WebSteps DEF Apart
  <2>2. CASE UNCHANGED wvars
    BY <2>2 DEF wvars, browser, connection, executed, line, vars, B!bvars
  <2> QED  BY <2>1, <2>2
<1> QED  BY <1>1, <1>2, WebInvariant, PTL DEF WebSpec, B!Spec

(***************************************************************************)
(* Every variable has its type, and the calls in the queue are those that  *)
(* the page waits for, each once.                                          *)
(***************************************************************************)
THEOREM WebTypeCorrect == WebSpec => []WebTypeOK
<1>1. ASSUME WebInv
      PROVE  WebTypeOK
  <2> DEFINE n == Len(queue)
             calls == {queue[i].call : i \in DOMAIN queue}
             f == [i \in 1 .. n |-> queue[i].call]
  <2>1. queue \in Seq(CallType) /\ n \in Nat /\ DOMAIN queue = 1 .. n
    BY <1>1 DEF WebInv, BrowserInv, BrowserTypes
  <2>2. \A i \in 1 .. n : queue[i].call \in Slots \cup {Hand}
    <3> SUFFICES ASSUME NEW i \in 1 .. n
                 PROVE  queue[i].call \in Slots \cup {Hand}
      OBVIOUS
    <3>1. queue[i] \in CallType
      BY <2>1
    <3> QED  BY <3>1 DEF CallType
  <2>3. calls = Waiting
    BY <1>1, <2>1, <2>2 DEF WebInv, CallsInv, Waiting
  <2>4. f \in Bijection(1 .. n, calls)
    <3>1. f \in [1 .. n -> calls] /\ \A c \in calls : \E i \in 1 .. n : f[i] = c
      BY <2>1
    <3>2. \A i, j \in 1 .. n : f[i] = f[j] => i = j
      BY <1>1, <2>1 DEF WebInv, CallsInv
    <3> QED  BY <3>1, <3>2 DEF Bijection, Injection, Surjection, IsInjective
  <2>5. ExistsBijection(1 .. n, calls)
    BY <2>4 DEF ExistsBijection
  <2>6. Cardinality(calls) = n
    BY <2>1, <2>5, FS_CountingElements
  <2>7. TypeOK /\ B!TypeOK /\ task \in {"none", "connecting", "closed", "refused"}
    BY <1>1, SameTypes DEF WebInv, PageInv, BrowserInv, PortInv
  <2> QED  BY <2>3, <2>6, <2>7 DEF WebTypeOK, Waiting
<1> QED  BY <1>1, WebInvariant, PTL

(***************************************************************************)
(* A page that is not connected has closed the port, but for one that was  *)
(* disconnected under a request (browser-rtu.ts:52-58).                    *)
(***************************************************************************)
THEOREM PortClosed == WebSpec => []OffMeansClosed
<1>1. WebInv => OffMeansClosed
  BY DEF WebInv, PortInv, OffMeansClosed
<1> QED  BY <1>1, WebInvariant, PTL

(***************************************************************************)
(* A poll of a loop that was stopped or restarted says nothing, in         *)
(* whatever order the answers arrive (page.tsx:184-186).                   *)
(***************************************************************************)
THEOREM StoppedPollsSilent == WebSpec => OldPollsSilent
<1>1. WebInv /\ [WebNext]_wvars =>
        [\A i \in Slots : polls[i] # NoPoll /\ polls[i].old /\ (PollAnswered(i) \/ PollFailed(i))
           => UNCHANGED <<autoPoll, display>>]_vars
  <2> SUFFICES ASSUME WebInv, NEW i \in Slots,
                      polls[i] # NoPoll, polls[i].old, PollAnswered(i) \/ PollFailed(i)
               PROVE  UNCHANGED <<autoPoll, display>>
    OBVIOUS
  <2>1. polls[i].cancelled
    BY DEF WebInv, PageInv
  <2> QED  BY <2>1 DEF PollAnswered, PollFailed, form, display
<1> QED  BY <1>1, WebInvariant, PTL DEF WebSpec, OldPollsSilent

(***************************************************************************)
(* A result is the answer to the request it is given to, as long as none   *)
(* has been given up since the port was opened (browser-rtu.ts:61-118).    *)
(***************************************************************************)
THEOREM AnswersInStep == WebSpec => InStep
<1>1. WebInv /\ [WebNext]_wvars =>
        [~late => \A k \in 1..Len(stream) : B!Resolve(k) => Head(B!Read(k)).ask = Head(queue).ask]_(B!bvars)
  <2> SUFFICES ASSUME WebInv, ~late, NEW k \in 1 .. Len(stream), B!Resolve(k)
               PROVE  Head(B!Read(k)).ask = Head(queue).ask
    OBVIOUS
  <2>1. stage = "reading" /\ BrowserInv
    BY DEF WebInv, B!Resolve, B!Chunk
  <2>2. \A part : Asked(part).ask = Head(queue).ask
    BY DEF Asked
  <2>3. \E part, other : B!Read(k) = <<Asked(part)>> \/ B!Read(k) = <<Asked(part), Asked(other)>>
    BY <2>1, WhatIsRead
  <2> QED  BY <2>2, <2>3
<1> QED  BY <1>1, WebInvariant, PTL DEF WebSpec, InStep, B!InStep
=============================================================================
