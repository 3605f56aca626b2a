------------------------------ MODULE AutoPoll ------------------------------
(***************************************************************************)
(* The poll loop of the web UI (apps/web/app/page.tsx:178-192): a React    *)
(* effect that polls at once and then on a timer, requests that are        *)
(* answered later and in any order, and a user who changes the settings,   *)
(* starts, stops, disconnects and sends requests of his own meanwhile.     *)
(*                                                                         *)
(* Setting a state variable asks React for a render; the old effect is     *)
(* cleaned up and the new one run when React commits, some time later.     *)
(***************************************************************************)
EXTENDS Naturals, FiniteSets

CONSTANTS
  Settings,     \* the settings of the form that the effect depends on
  Pollable,     \* those with a read function and a connected transport
  Slots,        \* bound: polls under way
  NoSettings, NoPoll

\* `cancelled` is the variable of the effect's closure, `old` a history: the
\* effect that made the poll has been cleaned up.
Poll == [settings : Settings, cancelled : BOOLEAN, old : BOOLEAN]

ASSUME AutoPollAssumption ==
  /\ Pollable \subseteq Settings
  /\ IsFiniteSet(Slots)
  /\ NoSettings \notin Settings /\ NoPoll \notin Poll

VARIABLES
  settings,     \* what the form says
  autoPoll,     \* the state variable of that name
  dirty,        \* a render is due
  loop,         \* the settings of the effect whose timer runs, or NoSettings
  polls,        \* the polls under way
  busy,         \* a request by hand or a disconnection is under way
  asked,        \* the settings of that request, NoSettings if it is none
  shown,        \* the settings of the result on display, or NoSettings
  failed        \* an error is on display

vars == <<settings, autoPoll, dirty, loop, polls, busy, asked, shown, failed>>
form == <<settings, autoPoll, dirty>>
display == <<shown, failed>>

Init ==
  /\ settings \in Settings \ Pollable   \* no Core is connected yet
  /\ autoPoll = FALSE /\ dirty = FALSE
  /\ loop = NoSettings
  /\ polls = [i \in Slots |-> NoPoll]
  /\ busy = FALSE /\ asked = NoSettings
  /\ shown = NoSettings /\ failed = FALSE

-----------------------------------------------------------------------------
(***************************************************************************)
(* The user.                                                               *)
(***************************************************************************)
\* Mutant: a setting that the effect's list of dependencies leaves out.
EditUnlisted(s) ==
  /\ settings' = s
  /\ UNCHANGED <<autoPoll, dirty, loop, polls, busy, asked, display>>

Edit(s) ==
  /\ settings' = s
  /\ dirty' = TRUE
  /\ UNCHANGED <<autoPoll, loop, polls, busy, asked, display>>

\* The button is disabled unless the settings can be polled.
Toggle ==
  /\ settings \in Pollable
  /\ autoPoll' = ~autoPoll /\ dirty' = TRUE
  /\ UNCHANGED <<settings, loop, polls, busy, asked, display>>

\* disconnectUsb and disconnectNativeRtu: the poll stops first.
Disconnect ==
  /\ ~busy
  /\ autoPoll' = FALSE /\ dirty' = TRUE
  /\ busy' = TRUE /\ failed' = FALSE
  /\ UNCHANGED <<settings, loop, polls, asked, shown>>

\* connectUsb and connectNativeRtu.
Connect ==
  /\ ~busy
  /\ busy' = TRUE /\ failed' = FALSE
  /\ UNCHANGED <<form, loop, polls, asked, shown>>

\* The port has been opened or closed: transport and connection are settings.
PortChanged ==
  /\ busy /\ asked = NoSettings
  /\ busy' = FALSE
  /\ settings' \in Settings /\ dirty' = TRUE
  /\ UNCHANGED <<autoPoll, loop, polls, asked, display>>

PortUnchanged ==
  /\ busy /\ asked = NoSettings
  /\ busy' = FALSE
  /\ failed' = TRUE
  /\ UNCHANGED <<form, loop, polls, asked, shown>>

SendModbus ==
  /\ ~busy
  /\ busy' = TRUE /\ asked' = settings /\ failed' = FALSE
  /\ UNCHANGED <<form, loop, polls, shown>>

Answered ==
  /\ busy /\ asked # NoSettings
  /\ shown' = asked
  /\ busy' = FALSE /\ asked' = NoSettings
  /\ UNCHANGED <<form, loop, polls, failed>>

NotAnswered ==
  /\ busy /\ asked # NoSettings
  /\ failed' = TRUE
  /\ busy' = FALSE /\ asked' = NoSettings
  /\ UNCHANGED <<form, loop, polls, shown>>

-----------------------------------------------------------------------------
(***************************************************************************)
(* The effect: its cleanup and its body.                                   *)
(***************************************************************************)
Add(ps, i, s) == [ps EXCEPT ![i] = [settings |-> s, cancelled |-> FALSE, old |-> FALSE]]

\* Mutant: the cleanup clears the timer only.
ForgetCancel(p) == IF p = NoPoll THEN NoPoll ELSE [p EXCEPT !.old = TRUE]

Cancel(p) == IF p = NoPoll THEN NoPoll ELSE [p EXCEPT !.old = TRUE, !.cancelled = TRUE]

CleanedUp == [i \in Slots |-> Cancel(polls[i])]

\* Mutant: the timer is not cleared when the polling has been stopped.
CommitKeepsTimer ==
  /\ dirty
  /\ dirty' = FALSE
  /\ \/ /\ autoPoll /\ settings \in Pollable
        /\ loop' = settings
        /\ \E i \in Slots : CleanedUp[i] = NoPoll /\ polls' = Add(CleanedUp, i, settings)
     \/ /\ ~(autoPoll /\ settings \in Pollable)
        /\ loop' = loop
        /\ polls' = CleanedUp
  /\ UNCHANGED <<settings, autoPoll, busy, asked, display>>

\* An effect none of whose dependencies has changed is left alone; a new
\* object for the engine restarts one with the same settings.
Commit ==
  /\ dirty
  /\ dirty' = FALSE
  /\ \/ /\ loop = IF autoPoll /\ settings \in Pollable THEN settings ELSE NoSettings
        /\ UNCHANGED <<loop, polls>>
     \/ /\ autoPoll /\ settings \in Pollable
        /\ loop' = settings
        /\ \E i \in Slots : CleanedUp[i] = NoPoll /\ polls' = Add(CleanedUp, i, settings)
     \/ /\ ~(autoPoll /\ settings \in Pollable)
        /\ loop' = NoSettings
        /\ polls' = CleanedUp
  /\ UNCHANGED <<settings, autoPoll, busy, asked, display>>

\* The timer.
Tick(i) ==
  /\ loop # NoSettings
  /\ polls[i] = NoPoll
  /\ polls' = Add(polls, i, loop)
  /\ UNCHANGED <<form, loop, busy, asked, display>>

PollAnswered(i) ==
  /\ polls[i] # NoPoll
  /\ IF polls[i].cancelled THEN UNCHANGED display
     ELSE shown' = polls[i].settings /\ failed' = FALSE
  /\ polls' = [polls EXCEPT ![i] = NoPoll]
  /\ UNCHANGED <<form, loop, busy, asked>>

PollFailed(i) ==
  /\ polls[i] # NoPoll
  /\ IF polls[i].cancelled THEN UNCHANGED <<autoPoll, dirty, failed>>
     ELSE failed' = TRUE /\ autoPoll' = FALSE /\ dirty' = TRUE
  /\ polls' = [polls EXCEPT ![i] = NoPoll]
  /\ UNCHANGED <<settings, loop, busy, asked, shown>>

Next ==
  \/ \E s \in Settings : Edit(s)
  \/ Toggle \/ Connect \/ Disconnect \/ PortChanged \/ PortUnchanged
  \/ SendModbus \/ Answered \/ NotAnswered \/ Commit
  \/ \E i \in Slots : Tick(i) \/ PollAnswered(i) \/ PollFailed(i)

(***************************************************************************)
(* React commits a render that is due, and every request is answered or    *)
(* fails: the Core's timeouts are 60 s at most (types.go:45).              *)
(***************************************************************************)
Fairness ==
  /\ WF_vars(Commit)
  /\ \A i \in Slots : WF_vars(PollAnswered(i) \/ PollFailed(i))

Spec == Init /\ [][Next]_vars /\ Fairness

-----------------------------------------------------------------------------
(***************************************************************************)
(* A poll of a loop that has been stopped or restarted says nothing: it    *)
(* neither shows its result or error nor stops the loop that came after it *)
(* (page.tsx:184-186), in whatever order the answers arrive.               *)
(***************************************************************************)
OldPollsSilent ==
  [][\A i \in Slots : polls[i] # NoPoll /\ polls[i].old /\ (PollAnswered(i) \/ PollFailed(i))
        => UNCHANGED <<autoPoll, display>>]_vars

(***************************************************************************)
(* "Poll loops must be cancellable"                                        *)
(* (.agents/skills/modbus-console-web/SKILL.md:14): when polling stays off *)
(* the timer stops and nothing remains under way.                          *)
(***************************************************************************)
PollingStops ==
  <>[]~autoPoll => <>[](loop = NoSettings /\ \A i \in Slots : polls[i] = NoPoll)

(***************************************************************************)
(* "and must not overlap requests"                                         *)
(* (.agents/skills/modbus-console-web/SKILL.md:14).                        *)
(***************************************************************************)
PollsDoNotOverlap ==
  Cardinality({i \in Slots : polls[i] # NoPoll /\ ~polls[i].old}) <= 1

(***************************************************************************)
(* Every variable has its type; the loop runs with the settings it was     *)
(* made for, and with the form's once React is up to date.                 *)
(***************************************************************************)
TypeOK ==
  /\ settings \in Settings /\ autoPoll \in BOOLEAN /\ dirty \in BOOLEAN
  /\ loop \in Pollable \cup {NoSettings}
  /\ polls \in [Slots -> Poll \cup {NoPoll}]
  /\ busy \in BOOLEAN /\ asked \in Settings \cup {NoSettings}
  /\ shown \in Settings \cup {NoSettings} /\ failed \in BOOLEAN
  /\ ~dirty => loop = IF autoPoll /\ settings \in Pollable THEN settings ELSE NoSettings
=============================================================================
