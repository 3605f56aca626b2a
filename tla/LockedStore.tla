---------------------------- MODULE LockedStore ----------------------------
(***************************************************************************)
(* Store.Read, Set, Write and EnableRelay as the code runs them: a         *)
(* sync.RWMutex around a loop that touches one register at a time.         *)
(*                                                                         *)
(* The lock is Go's: a writer first takes the mutex that keeps writers     *)
(* apart, from then on new readers wait for it, it waits for the readers   *)
(* that were in, and its Unlock lets in every reader that waits.           *)
(***************************************************************************)
EXTENDS StoreOps

VARIABLES
  bank,         \* Store.slaves
  committed,    \* history: bank as the last writer to unlock left it
  call, reply,  \* as in Store
  pc,           \* where each client's call stands
  writer,       \* who holds the mutex of the writers, NoCall if nobody
  round,        \* the loop counter of each client
  out           \* the values each reader has collected

vars == <<bank, committed, call, reply, pc, writer, round, out>>

\* NoCall in `writer` is nobody.
ASSUME LockAssumption == NoCall \notin Client

Atomic == INSTANCE Store WITH bank <- committed

Reads(c) == call[c] # NoCall /\ call[c].op = "read"
InLoop(c) == pc[c] = "locked" /\ round[c] <= Rounds(call[c])
Readers == {c \in Client : Reads(c) /\ pc[c] \in {"locked", "failed"}}

Init ==
  /\ bank = SeededBanks /\ committed = SeededBanks
  /\ call = [c \in Client |-> NoCall]
  /\ reply = [c \in Client |-> NoReply]
  /\ pc = [c \in Client |-> "idle"]
  /\ writer = NoCall
  /\ round = [c \in Client |-> 1]
  /\ out = [c \in Client |-> << >>]

Goto(c, label) == pc' = [pc EXCEPT ![c] = label]

Invoke(c, r) ==
  /\ pc[c] = "idle"
  /\ call' = [call EXCEPT ![c] = r]
  /\ Goto(c, "called")
  /\ UNCHANGED <<bank, committed, reply, writer, round, out>>

\* The checks before the lock.
Refuse(c) ==
  /\ pc[c] = "called" /\ ~Admitted(call[c])
  /\ reply' = [reply EXCEPT ![c] = [ok |-> FALSE, values |-> << >>]]
  /\ Goto(c, "done")
  /\ UNCHANGED <<bank, committed, call, writer, round, out>>

\* Mutant: RLock succeeds whatever the writers do.
RLockBarges(c) ==
  /\ pc[c] = "called" /\ Admitted(call[c]) /\ Reads(c)
  /\ Goto(c, "locked")
  /\ UNCHANGED <<bank, committed, call, reply, writer, round, out>>

\* Mutant: a lock whose readers do not wait for a writer that waits.
RLockPrefersReaders(c) ==
  /\ pc[c] = "called" /\ Admitted(call[c]) /\ Reads(c)
  /\ Goto(c, IF writer # NoCall /\ pc[writer] # "draining" THEN "blocked" ELSE "locked")
  /\ UNCHANGED <<bank, committed, call, reply, writer, round, out>>

RLock(c) ==
  /\ pc[c] = "called" /\ Admitted(call[c]) /\ Reads(c)
  /\ Goto(c, IF writer = NoCall THEN "locked" ELSE "blocked")
  /\ UNCHANGED <<bank, committed, call, reply, writer, round, out>>

Lock(c) ==
  /\ pc[c] = "called" /\ Admitted(call[c]) /\ ~Reads(c)
  /\ writer = NoCall
  /\ writer' = c
  /\ Goto(c, "draining")
  /\ UNCHANGED <<bank, committed, call, reply, round, out>>

\* Mutant: the writer does not wait for the readers that are in.
DrainedAtOnce(c) ==
  /\ pc[c] = "draining"
  /\ Goto(c, "locked")
  /\ UNCHANGED <<bank, committed, call, reply, writer, round, out>>

Drained(c) ==
  /\ pc[c] = "draining" /\ Readers = {}
  /\ Goto(c, "locked")
  /\ UNCHANGED <<bank, committed, call, reply, writer, round, out>>

Round(c) ==
  /\ InLoop(c) /\ ~RoundFails(bank, call[c], round[c])
  /\ bank' = RoundEffect(bank, call[c], round[c])
  /\ out' = IF Reads(c)
            THEN [out EXCEPT ![c] = Append(@,
                    ValueOf(bank[call[c].slave][call[c].table][call[c].addr + round[c] - 1]))]
            ELSE out
  /\ round' = [round EXCEPT ![c] = @ + 1]
  /\ UNCHANGED <<committed, call, reply, pc, writer>>

FailRound(c) ==
  /\ InLoop(c) /\ RoundFails(bank, call[c], round[c])
  /\ Goto(c, "failed")
  /\ UNCHANGED <<bank, committed, call, reply, writer, round, out>>

\* The return statement evaluates the results, then the deferred unlock runs.
Answer(c) == IF pc[c] = "failed" THEN [ok |-> FALSE, values |-> << >>]
                                 ELSE [ok |-> TRUE, values |-> out[c]]

Finished(c) == pc[c] = "failed" \/ (pc[c] = "locked" /\ ~InLoop(c))

RUnlock(c) ==
  /\ Reads(c) /\ Finished(c)
  /\ reply' = [reply EXCEPT ![c] = Answer(c)]
  /\ Goto(c, "done")
  /\ UNCHANGED <<bank, committed, call, writer, round, out>>

Unlock(c) ==
  /\ ~Reads(c) /\ Finished(c)
  /\ reply' = [reply EXCEPT ![c] = Answer(c)]
  /\ writer' = NoCall
  /\ committed' = bank
  /\ pc' = [d \in Client |-> CASE d = c -> "done"
                               [] d # c /\ pc[d] = "blocked" -> "locked"
                               [] OTHER -> pc[d]]
  /\ UNCHANGED <<bank, call, round, out>>

\* Mutant: the next loop starts one register early.
ReturnRewinds(c) ==
  /\ pc[c] = "done"
  /\ call' = [call EXCEPT ![c] = NoCall]
  /\ reply' = [reply EXCEPT ![c] = NoReply]
  /\ round' = [round EXCEPT ![c] = 0]
  /\ out' = [out EXCEPT ![c] = << >>]
  /\ Goto(c, "idle")
  /\ UNCHANGED <<bank, committed, writer>>

Return(c) ==
  /\ pc[c] = "done"
  /\ call' = [call EXCEPT ![c] = NoCall]
  /\ reply' = [reply EXCEPT ![c] = NoReply]
  /\ round' = [round EXCEPT ![c] = 1]
  /\ out' = [out EXCEPT ![c] = << >>]
  /\ Goto(c, "idle")
  /\ UNCHANGED <<bank, committed, writer>>

Step(c) == \/ Refuse(c) \/ RLock(c) \/ Lock(c) \/ Drained(c)
           \/ Round(c) \/ FailRound(c) \/ RUnlock(c) \/ Unlock(c)
           \/ Return(c)

Next == \E c \in Client : Step(c) \/ \E r \in Requests : Invoke(c, r)

(***************************************************************************)
(* The scheduler runs every goroutine that can run.  Writers compete for   *)
(* their mutex, and Go's hands it over in order of arrival once a waiter   *)
(* has starved for a millisecond: Lock is strongly fair.                   *)
(***************************************************************************)
Fairness == \A c \in Client : WF_vars(Step(c)) /\ SF_vars(Lock(c))

Spec == Init /\ [][Next]_vars /\ Fairness

-----------------------------------------------------------------------------
(***************************************************************************)
(* Every variable has its type.                                            *)
(***************************************************************************)
TypeOK ==
  /\ bank \in Banks /\ committed \in Banks
  /\ call \in [Client -> Requests \cup {NoCall}]
  /\ reply \in [Client -> Reply \cup {NoReply}]
  /\ pc \in [Client -> {"idle", "called", "blocked", "draining", "locked", "failed", "done"}]
  /\ writer \in Client \cup {NoCall}
  /\ round \in [Client -> Nat \ {0}]
  /\ out \in [Client -> Seq(Word)]

(***************************************************************************)
(* While a writer is in its loop nobody else is in one, and the writer is  *)
(* the one that holds the mutex (store.go:69, 100, 128, 156).              *)
(***************************************************************************)
Exclusive ==
  \A c, d \in Client :
    pc[c] \in {"locked", "failed"} /\ ~Reads(c)
      => /\ writer = c
         /\ c # d => pc[d] \notin {"locked", "failed"}

(***************************************************************************)
(* The calls of LockedStore are those of Store: each takes effect at one   *)
(* instant although it visits its registers one by one (store.go:83, 107,  *)
(* 132, 143, 160).                                                         *)
(***************************************************************************)
Linearizable == Atomic!Spec

(***************************************************************************)
(* No call waits for ever, whatever the others keep calling.               *)
(***************************************************************************)
EveryCallReturns == \A c \in Client : call[c] # NoCall ~> call[c] = NoCall
=============================================================================
