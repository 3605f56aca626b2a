---------------------------- MODULE ControlPlane ----------------------------
(***************************************************************************)
(* The handlers of the control API that work on the registers              *)
(* (core/internal/api/server.go, the reset of core/internal/modbus/        *)
(* simulator.go).  Each is a sequence of calls on the store, and other     *)
(* handlers and the slaves' goroutines get in between.                     *)
(*                                                                         *)
(* A call on the store is atomic, which LockedStore shows.  Headers and    *)
(* bodies are reduced to what the checks ask of them.                      *)
(***************************************************************************)
EXTENDS Store

CONSTANTS
  Jobs,         \* the requests that reach each goroutine
  NoJob, NoAnswer

VARIABLES
  job,          \* the request each goroutine works on
  at,           \* which of its calls on the store it has come to
  answer,       \* the response it is about to send
  dirty         \* history: cells of its scope that others stored to since it did

handlers == <<job, at, answer, dirty>>
cvars == <<vars, handlers>>

(***************************************************************************)
(* "slave" is a request that a TCP or RTU slave serves: a single call, and *)
(* no HTTP.                                                                *)
(***************************************************************************)
Head0 == [origin : {"none", "allowed", "other"}, options : BOOLEAN,
          token : BOOLEAN, json : BOOLEAN]
Job == [kind : {"get", "patch", "simulate", "reset", "slave"}, head : Head0, body : Request]

-----------------------------------------------------------------------------
(***************************************************************************)
(* What a request must pass before the store is called.                    *)
(***************************************************************************)
ReadLimit(t) == IF t \in {"coil", "discrete"} THEN 2000 ELSE 125
WriteLimit(t) == IF t = "coil" THEN 1968 ELSE 123
SimulationLimit == 2000

Valid(j) ==
  LET r == j.body IN
  CASE j.kind = "get" ->
         r.slave \in ValidSlave /\ r.qty \in 1 .. ReadLimit(r.table) /\ InRange(r, r.qty)
    [] j.kind = "patch" ->
         /\ r.slave \in ValidSlave /\ r.table \in {"holding", "coil"}
         /\ Len(r.values) \in 1 .. WriteLimit(r.table) /\ InRange(r, Len(r.values))
    [] j.kind = "simulate" ->
         /\ r.slave \in ValidSlave
         /\ Len(r.values) \in 1 .. SimulationLimit /\ InRange(r, Len(r.values))
    [] j.kind = "reset" -> TRUE

OK == 200

\* The status that the checks settle on; OK lets the request through.
Gate(j) ==
  CASE j.kind = "slave" -> OK
    [] j.kind # "slave" /\ j.head.origin = "other" -> 403
    [] j.kind # "slave" /\ j.head.origin # "other" ->
         CASE j.head.options -> 204
           [] ~j.head.options /\ ~j.head.token -> 401
           [] ~j.head.options /\ j.head.token ->
                IF (j.kind \in {"patch", "simulate"} => j.head.json) /\ Valid(j) THEN OK ELSE 400

(***************************************************************************)
(* The calls on the store that a request is made of.                       *)
(***************************************************************************)
\* Mutant: one register too many is read back.
ReadBackTooMuch(r) == [r EXCEPT !.op = "read", !.qty = Len(r.values) + 1, !.values = << >>]

ReadBack(r) == [r EXCEPT !.op = "read", !.qty = Len(r.values), !.values = << >>]

\* Mutant: a reset leaves the relay to its coils' range.
ResetSkipsRelay == [i \in DOMAIN LabRanges |-> LabRequest(i)]

Reset == [i \in 1 .. Len(LabRanges) + 1 |->
            IF i <= Len(LabRanges) THEN LabRequest(i) ELSE EnableRelay]

Change(j) ==
  [j.body EXCEPT !.op = IF j.kind = "patch" \/ j.body.table \in {"holding", "coil"}
                        THEN "write" ELSE "set"]

Plan(j) ==
  CASE j.kind = "get" -> <<[j.body EXCEPT !.op = "read"]>>
    [] j.kind \in {"patch", "simulate"} -> <<Change(j), ReadBack(j.body)>>
    [] j.kind = "reset" -> Reset
    [] j.kind = "slave" -> <<j.body>>

\* What is answered when call n of the plan fails; a slave sends exception 2.
Failure(j, n) ==
  CASE j.kind = "get" -> 404
    [] j.kind = "patch" -> 400
    [] j.kind = "simulate" -> IF n = 1 THEN 400 ELSE 500
    [] j.kind = "reset" -> 500
    [] j.kind = "slave" -> 2

ASSUME ControlAssumption ==
  /\ Jobs \in [Client -> SUBSET Job]
  /\ NoJob \notin Job
  /\ \A c \in Client : \A j \in Jobs[c] : Gate(j) = OK =>
       \A i \in DOMAIN Plan(j) : Plan(j)[i] \in Requests

-----------------------------------------------------------------------------
(***************************************************************************)
(* The cells a call stores to: those that exist after it on an empty store.*)
(***************************************************************************)
Cells == Slave \X Table \X Addr
NoBanks == [s \in Slave |-> [t \in Table |-> [x \in Addr |-> Unmapped]]]
Mapped(b) == {z \in Cells : b[z[1]][z[2]][z[3]] # Unmapped}
Stores == [r \in Requests |-> Mapped(Effect(NoBanks, r))]
LabBanks == SeededBanks
LabCells == Mapped(LabBanks)

\* The cells a request is about.
Scope(j) == CASE j.kind = "reset" -> LabCells
              [] j.kind \in {"patch", "simulate"} -> Stores[Change(j)]
              [] OTHER -> {}

Answer(status, values) == [status |-> status, values |-> values]

ControlInit ==
  /\ Init
  /\ job = [c \in Client |-> NoJob] /\ at = [c \in Client |-> 0]
  /\ answer = [c \in Client |-> NoAnswer]
  /\ dirty = [c \in Client |-> {}]

Refuse(c, j) ==
  /\ job[c] = NoJob /\ Gate(j) # OK
  /\ job' = [job EXCEPT ![c] = j]
  /\ answer' = [answer EXCEPT ![c] = Answer(Gate(j), << >>)]
  /\ UNCHANGED <<vars, at, dirty>>

Begin(c, j) ==
  /\ job[c] = NoJob /\ Gate(j) = OK
  /\ Invoke(c, Plan(j)[1])
  /\ job' = [job EXCEPT ![c] = j] /\ at' = [at EXCEPT ![c] = 1]
  /\ UNCHANGED <<answer, dirty>>

Work(c) ==
  /\ Perform(c)
  /\ dirty' = [d \in Client |->
       IF d = c THEN dirty[c] \ Stores[call[c]]
       ELSE IF at[d] = 0 THEN {} ELSE dirty[d] \cup (Stores[call[c]] \cap Scope(job[d]))]
  /\ UNCHANGED <<job, at, answer>>

\* The error of the read-back of a PATCH is not looked at.
Goes(c) == reply[c].ok \/ (job[c].kind = "patch" /\ at[c] = 2)

GoOn(c) ==
  /\ Return(c)
  /\ Goes(c) /\ at[c] # 0 /\ at[c] < Len(Plan(job[c]))
  /\ at' = [at EXCEPT ![c] = @ + 1]
  /\ UNCHANGED <<job, answer, dirty>>

NextCall(c) ==
  /\ at[c] # 0 /\ answer[c] = NoAnswer
  /\ Invoke(c, Plan(job[c])[at[c]])
  /\ UNCHANGED handlers

\* Mutant: the handler answers with the values of the request.
DoneEchoes(c) ==
  /\ Return(c)
  /\ at[c] = Len(Plan(job[c])) \/ ~Goes(c)
  /\ answer' = [answer EXCEPT ![c] =
       IF Goes(c) THEN Answer(OK, job[c].body.values) ELSE Answer(Failure(job[c], at[c]), << >>)]
  /\ UNCHANGED <<job, at, dirty>>

Done(c) ==
  /\ Return(c)
  /\ \/ Goes(c) /\ at[c] = Len(Plan(job[c]))
        /\ answer' = [answer EXCEPT ![c] = Answer(OK, reply[c].values)]
     \/ ~Goes(c)
        /\ answer' = [answer EXCEPT ![c] = Answer(Failure(job[c], at[c]), << >>)]
  /\ UNCHANGED <<job, at, dirty>>

Respond(c) ==
  /\ answer[c] # NoAnswer
  /\ job' = [job EXCEPT ![c] = NoJob] /\ at' = [at EXCEPT ![c] = 0]
  /\ answer' = [answer EXCEPT ![c] = NoAnswer]
  /\ dirty' = [dirty EXCEPT ![c] = {}]
  /\ UNCHANGED vars

ControlNext == \E c \in Client :
  \/ \E j \in Jobs[c] : Refuse(c, j) \/ Begin(c, j)
  \/ Work(c) \/ GoOn(c) \/ NextCall(c) \/ Done(c) \/ Respond(c)

ControlSpec == ControlInit /\ [][ControlNext]_cvars

-----------------------------------------------------------------------------
(***************************************************************************)
(* Every variable has its type, and a goroutine in a call is at that call  *)
(* of its plan.                                                            *)
(***************************************************************************)
ControlTypeOK ==
  /\ TypeOK
  /\ \A c \in Client :
       /\ job[c] \in Jobs[c] \cup {NoJob}
       /\ dirty[c] \subseteq Cells
       /\ job[c] = NoJob => call[c] = NoCall /\ answer[c] = NoAnswer /\ at[c] = 0
       /\ call[c] # NoCall => at[c] \in DOMAIN Plan(job[c]) /\ call[c] = Plan(job[c])[at[c]]
       /\ answer[c] # NoAnswer => call[c] = NoCall

(***************************************************************************)
(* The values in the answer to a write are the ones that were asked for,   *)
(* unless somebody else has stored to the register since, although write   *)
(* and read-back are two calls (api/server.go:263-272, 373-377); and a     *)
(* value that a lenient relay skipped is not shown as if it were stored,   *)
(* unless it is the 0 that such a store shows for any unknown register.    *)
(***************************************************************************)
WriteShown ==
  \A c \in Client :
    /\ answer[c] # NoAnswer /\ answer[c].status = OK
    /\ job[c].kind \in {"patch", "simulate"}
    => LET r == Change(job[c]) IN \A i \in DOMAIN r.values :
         IF Takes(r, i)
         THEN \/ answer[c].values[i] = r.values[i]
              \/ <<r.slave, r.table, r.addr + i - 1>> \in dirty[c]
         ELSE answer[c].values[i] = r.values[i] => r.values[i] = 0

(***************************************************************************)
(* A write that the store has taken is answered with as many values as it  *)
(* wrote: the read-back is never refused, so the 500 of                    *)
(* api/server.go:274 is not sent and the error that line 377 drops is nil. *)
(***************************************************************************)
ReadBackSucceeds ==
  \A c \in Client : answer[c] # NoAnswer /\ job[c].kind \in {"patch", "simulate"} =>
    /\ answer[c].status # 500
    /\ answer[c].status = OK => Len(answer[c].values) = Len(job[c].body.values)

(***************************************************************************)
(* "ResetSWSLab restores every built-in simulator value to its             *)
(* deterministic initial state" (simulator.go:53): when a reset is         *)
(* answered, every cell of the lab has its first value or was stored to by *)
(* somebody else after the reset had passed it, though the reset is a call *)
(* per range and relay writes, PATCHes and other resets come between.      *)
(***************************************************************************)
ResetRestores ==
  \A c \in Client :
    answer[c] # NoAnswer /\ answer[c].status = OK /\ job[c].kind = "reset" =>
      \A z \in LabCells \ dirty[c] : bank[z[1]][z[2]][z[3]] = LabBanks[z[1]][z[2]][z[3]]
=============================================================================
