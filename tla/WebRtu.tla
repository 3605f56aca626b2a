------------------------------- MODULE WebRtu -------------------------------
(***************************************************************************)
(* The poll loop of the page over the RTU master of the browser: the polls *)
(* and the request by hand are calls of `request`, and it is the queue,    *)
(* the device and the timer that answer them or make them fail.  The page  *)
(* is not connected to a Core.                                             *)
(***************************************************************************)
EXTENDS AutoPoll, Sequences, SequencesExt

CONSTANTS
  Off,          \* the settings of a page that is not connected
  Hand,         \* the call of the request by hand
  MaxStray

ASSUME WebRtuAssumption == Off \in Settings \ Pollable /\ Hand \notin Slots

VARIABLES
  port, open, locked, queue, stage, bytes, stream, device, late, refused,
  task          \* what the page waits for while it connects or disconnects

\* The checks of parseResponse tell a read from a write, but not two reads of
\* as many registers at different addresses.
Fits(a, r) == a \in Pollable <=> r \in Pollable

B == INSTANCE BrowserRtu WITH Call <- Slots \cup {Hand}, Ask <- Settings \ {Off}

connection == <<port, open, refused>>
executed == <<locked, stage, bytes>>
line == <<stream, device, late>>
browser == <<connection, executed, line, queue>>
wvars == <<vars, browser, task>>

WebInit == Init /\ settings = Off /\ B!Init /\ task = "none"

\* The calls that the page makes in a step, and no other step of the browser.
Requests ==
  /\ LET new == {i \in Slots : polls[i] = NoPoll /\ polls'[i] # NoPoll} IN
       queue' = queue \o SetToSeq({[call |-> i, ask |-> polls'[i].settings] : i \in new})
  /\ UNCHANGED <<connection, executed, line>>

-----------------------------------------------------------------------------
(***************************************************************************)
(* The page.                                                               *)
(***************************************************************************)
EditForm(s) ==
  /\ settings # Off /\ s # Off
  /\ Edit(s)
  /\ UNCHANGED <<browser, task>>

ToggleAutoPoll == Toggle /\ UNCHANGED <<browser, task>>

ConnectUsb ==
  /\ settings = Off
  /\ Connect
  /\ task' = "connecting"
  /\ UNCHANGED browser

UsbConnected ==
  /\ task = "connecting" /\ task' = "none"
  /\ B!Connect
  /\ PortChanged /\ settings' # Off

UsbNotConnected ==
  /\ task = "connecting" /\ task' = "none"
  /\ B!ConnectFails
  /\ PortUnchanged

DisconnectUsb ==
  /\ settings # Off
  /\ Disconnect
  /\ \/ B!Close /\ task' = "closed"
     \/ B!CloseRefused /\ task' = "refused"

UsbDisconnected ==
  /\ task = "closed" /\ task' = "none"
  /\ PortChanged /\ settings' = Off
  /\ UNCHANGED browser

UsbNotDisconnected ==
  /\ task = "refused" /\ task' = "none"
  /\ PortUnchanged
  /\ UNCHANGED browser

SendByHand ==
  /\ settings # Off
  /\ SendModbus
  /\ B!Request(Hand, settings)
  /\ UNCHANGED <<connection, executed, line, task>>

CommitAndPoll == Commit /\ Requests /\ UNCHANGED task

TickAndPoll(i) == Tick(i) /\ Requests /\ UNCHANGED task

-----------------------------------------------------------------------------
(***************************************************************************)
(* The browser: a call that is settled is settled for the page.            *)
(***************************************************************************)
Resolved == IF Head(queue).call = Hand THEN Answered ELSE PollAnswered(Head(queue).call)
Rejected == IF Head(queue).call = Hand THEN NotAnswered ELSE PollFailed(Head(queue).call)

Starts == B!Execute /\ UNCHANGED <<vars, task>>
CannotStart == B!NotConnected /\ Rejected /\ UNCHANGED task
Writes == B!Write /\ UNCHANGED <<vars, task>>
ReadsMore(k) == B!ReadMore(k) /\ UNCHANGED <<vars, task>>
ReadsAnswer(k) == B!Resolve(k) /\ Resolved /\ UNCHANGED task
ReadsOther(k) == B!Reject(k) /\ Rejected /\ UNCHANGED task
TimesOut == B!Timeout /\ Rejected /\ UNCHANGED task
Unplugged == B!Unplug /\ UNCHANGED <<vars, task>>
UnpluggedWhile == B!UnplugWhile /\ Rejected /\ UNCHANGED task
DeviceReplies == B!Reply /\ UNCHANGED <<vars, task>>

WebNext ==
  \/ \E s \in Settings : EditForm(s)
  \/ ToggleAutoPoll \/ SendByHand \/ CommitAndPoll
  \/ ConnectUsb \/ UsbConnected \/ UsbNotConnected
  \/ DisconnectUsb \/ UsbDisconnected \/ UsbNotDisconnected
  \/ \E i \in Slots : TickAndPoll(i)
  \/ Starts \/ CannotStart \/ Writes \/ TimesOut
  \/ \E k \in DOMAIN stream : ReadsMore(k) \/ ReadsAnswer(k) \/ ReadsOther(k)
  \/ Unplugged \/ UnpluggedWhile \/ DeviceReplies

(***************************************************************************)
(* React commits a render that is due, promises run, a write ends, and a   *)
(* read ends when the timer does if not before.  Nothing is assumed of the *)
(* device or of the user.                                                  *)
(***************************************************************************)
WebFairness ==
  /\ WF_wvars(CommitAndPoll)
  /\ WF_wvars(Starts \/ CannotStart)
  /\ WF_wvars(Writes)
  /\ WF_wvars(TimesOut)

WebSpec == WebInit /\ [][WebNext]_wvars /\ WebFairness

-----------------------------------------------------------------------------
(***************************************************************************)
(* Every variable has its type, those of the poll loop and those of the    *)
(* browser, and the calls that the page waits for are those in the queue,  *)
(* each once.                                                              *)
(***************************************************************************)
WebTypeOK ==
  /\ TypeOK
  /\ B!TypeOK
  /\ task \in {"none", "connecting", "closed", "refused"}
  /\ LET calls == {queue[i].call : i \in DOMAIN queue} IN
       /\ Cardinality(calls) = Len(queue)
       /\ calls = {i \in Slots : polls[i] # NoPoll} \cup (IF asked = NoSettings THEN {} ELSE {Hand})

(***************************************************************************)
(* As BrowserRtu states it, whatever the page does.                        *)
(***************************************************************************)
InStep == B!InStep

(***************************************************************************)
(* A page that is not connected has closed the port, unless it was told to *)
(* close it while a request was under way: disconnect drops the port first *)
(* and closes it then (browser-rtu.ts:56), and nobody can close it after   *)
(* that.                                                                   *)
(***************************************************************************)
OffMeansClosed == settings = Off => ~open \/ refused
=============================================================================
