----------------------------- MODULE LockProofs -----------------------------
(***************************************************************************)
(* The store's lock works: for any number of goroutines and any calls that *)
(* satisfy StoreAssumption and ClientAssumption, the loops of LockedStore  *)
(* exclude each other as they must, and a call that is made register by    *)
(* register has the effect and the answer of Store's, at one instant.      *)
(***************************************************************************)
EXTENDS LockedStore, OperatorProofs

In(c) == pc[c] \in {"locked", "failed"}
Writing(c) == In(c) /\ ~Reads(c)

\* Where a call stands says what it is, whether it is answered and, for a
\* writer that has come past Lock, that it holds the mutex.
CallInv(c) ==
  /\ pc[c] = "idle" <=> call[c] = NoCall
  /\ pc[c] = "done" <=> reply[c] # NoReply
  /\ pc[c] \in {"blocked", "draining"} \/ In(c) => Admitted(call[c])
  /\ pc[c] = "blocked" => Reads(c)
  /\ pc[c] = "draining" => ~Reads(c)
  /\ pc[c] = "draining" \/ Writing(c) => writer = c

\* A loop starts at its first register, and goes on as long as none fails.
LoopInv(c) ==
  /\ pc[c] \in {"idle", "called", "blocked", "draining"} => round[c] = 1 /\ out[c] = << >>
  /\ In(c) => /\ round[c] <= Rounds(call[c]) + 1
              /\ \A i \in 1 .. round[c] - 1 : ~RoundFails(committed, call[c], i)
  /\ pc[c] = "failed" => /\ round[c] <= Rounds(call[c])
                         /\ RoundFails(committed, call[c], round[c])

\* What a reader has collected are the registers of the last committed banks.
OutInv(c) == In(c) =>
  out[c] = IF Reads(c)
           THEN [i \in 1 .. round[c] - 1 |->
                   ValueOf(committed[call[c].slave][call[c].table][call[c].addr + i - 1])]
           ELSE << >>

\* A writer in its loop is alone in one, and has made its rounds on the
\* committed banks; nobody else's doing is in the banks.
BankInv ==
  /\ \A c \in Client : Writing(c) => /\ Readers = {}
                                     /\ bank = EffectUpTo(committed, call[c], round[c] - 1)
  /\ (\A c \in Client : ~Writing(c)) => bank = committed

CallsInv == \A c \in Client : CallInv(c) /\ LoopInv(c) /\ OutInv(c)
LockInv == TypeOK /\ CallsInv /\ BankInv

-----------------------------------------------------------------------------
\* What the type invariant says of one client.
LEMMA Typed ==
  ASSUME TypeOK, NEW c \in Client
  PROVE  /\ call[c] \in Request \cup {NoCall}
         /\ reply[c] \in Reply \cup {NoReply}
         /\ round[c] \in Nat \ {0}
         /\ out[c] \in Seq(Word)
         /\ bank \in Banks /\ committed \in Banks
BY ClientAssumption DEF TypeOK

\* A client that a step does not touch is as it was.
LEMMA Untouched ==
  ASSUME NEW c \in Client, CallInv(c), LoopInv(c), OutInv(c),
         committed' = committed, call'[c] = call[c], reply'[c] = reply[c], pc'[c] = pc[c],
         round'[c] = round[c], out'[c] = out[c],
         writer' = writer \/ writer # c
  PROVE  CallInv(c)' /\ LoopInv(c)' /\ OutInv(c)'
<1>1. In(c)' = In(c) /\ Reads(c)' = Reads(c) /\ Writing(c)' = Writing(c)
  BY DEF In, Reads, Writing
<1>2. CallInv(c)'
  BY <1>1 DEF CallInv
<1>3. LoopInv(c)'
  BY <1>1 DEF LoopInv
<1>4. OutInv(c)'
  BY <1>1 DEF OutInv
<1> QED  BY <1>2, <1>3, <1>4

\* The start: nobody is in a call.
LEMMA InitInv == Init => LockInv
<1> SUFFICES ASSUME Init  PROVE LockInv
  OBVIOUS
<1>1. TypeOK
  <2>1. << >> \in Seq(Word)
    OBVIOUS
  <2> QED  BY <2>1, SeededBanksType DEF Init, TypeOK
<1>2. CallsInv
  BY DEF Init, CallsInv, CallInv, LoopInv, OutInv, In, Writing, Reads
<1>3. BankInv
  BY DEF Init, BankInv, Writing, In
<1> QED  BY <1>1, <1>2, <1>3 DEF LockInv
\* The banks are as they should be after a step that lets nobody in.
LEMMA BanksKept ==
  ASSUME BankInv, bank' = bank, committed' = committed,
         \A d \in Client : Writing(d)' => Writing(d) /\ call'[d] = call[d] /\ round'[d] = round[d],
         \A d \in Client : Writing(d) => Writing(d)',
         Readers' \subseteq Readers
  PROVE  BankInv'
<1>1. ASSUME NEW d \in Client, Writing(d)'
      PROVE  Readers' = {} /\ bank' = EffectUpTo(committed', call'[d], round'[d] - 1)
  BY <1>1 DEF BankInv
<1>2. ASSUME \A d \in Client : ~Writing(d)'
      PROVE  bank' = committed'
  BY <1>2 DEF BankInv
<1> QED  BY <1>1, <1>2 DEF BankInv

\* A call is made.
LEMMA InvokeInv ==
  ASSUME LockInv, NEW c \in Client, NEW r \in Requests, Invoke(c, r)
  PROVE  LockInv'
<1> USE DEF LockInv
<1>1. TypeOK'
  BY DEF TypeOK, Invoke, Goto
<1>2. \A d \in Client \ {c} : call'[d] = call[d] /\ pc'[d] = pc[d]
  BY DEF TypeOK, Invoke, Goto
<1>3. call'[c] = r /\ r # NoCall /\ pc[c] = "idle" /\ pc'[c] = "called"
  BY ClientAssumption DEF TypeOK, Invoke, Goto
<1>4. CallInv(c)' /\ LoopInv(c)' /\ OutInv(c)'
  BY <1>3 DEF CallsInv, CallInv, LoopInv, OutInv, In, Writing, Invoke
<1>5. CallsInv'
  BY <1>2, <1>4, Untouched DEF CallsInv, Invoke
<1>6. BankInv'
  BY <1>2, <1>3, BanksKept DEF Invoke, Writing, In, Reads, Readers
<1> QED  BY <1>1, <1>5, <1>6

\* A call that is not admitted returns before it takes the lock.
LEMMA RefuseInv ==
  ASSUME LockInv, NEW c \in Client, Refuse(c)
  PROVE  LockInv'
<1> USE DEF LockInv
<1>1. TypeOK'
  <2>1. [ok |-> FALSE, values |-> << >>] \in Reply
    BY DEF Reply
  <2> QED  BY <2>1 DEF TypeOK, Refuse, Goto
<1>2. \A d \in Client \ {c} : reply'[d] = reply[d] /\ pc'[d] = pc[d]
  BY DEF TypeOK, Refuse, Goto
<1>3. pc[c] = "called" /\ pc'[c] = "done" /\ reply'[c] # NoReply
  <2>1. [ok |-> FALSE, values |-> << >>] \in Reply
    BY DEF Reply
  <2> QED  BY <2>1, ClientAssumption DEF TypeOK, Refuse, Goto
<1>4. CallInv(c)' /\ LoopInv(c)' /\ OutInv(c)'
  BY <1>3 DEF CallsInv, CallInv, LoopInv, OutInv, In, Writing, Refuse
<1>5. CallsInv'
  BY <1>2, <1>4, Untouched DEF CallsInv, Refuse
<1>6. BankInv'
  BY <1>2, <1>3, BanksKept DEF Refuse, Writing, In, Reads, Readers
<1> QED  BY <1>1, <1>5, <1>6

\* A read takes the lock, beside others.
LEMMA RLockInv ==
  ASSUME LockInv, NEW c \in Client, RLock(c)
  PROVE  LockInv'
<1> USE DEF LockInv
<1>1. TypeOK'
  BY DEF TypeOK, RLock, Goto
<1>2. \A d \in Client \ {c} : pc'[d] = pc[d]
  BY DEF TypeOK, RLock, Goto
<1>3. /\ pc[c] = "called" /\ Admitted(call[c]) /\ Reads(c)
      /\ pc'[c] = IF writer = NoCall THEN "locked" ELSE "blocked"
  BY DEF TypeOK, RLock, Goto
<1>4. CallInv(c)' /\ LoopInv(c)' /\ OutInv(c)'
  <2>1. Rounds(call[c]) \in Nat
    BY <1>3, Typed, RoundsType DEF Reads
  <2>2. CallInv(c) /\ LoopInv(c) /\ round[c] = 1 /\ out[c] = << >>
    BY <1>3 DEF CallsInv, LoopInv
  <2>3. CallInv(c)'
    BY <1>3, <2>2 DEF CallInv, In, Writing, Reads, RLock
  <2>4. LoopInv(c)'
    BY <1>3, <2>1, <2>2 DEF LoopInv, In, RLock
  <2>5. OutInv(c)'
    BY <1>3, <2>2 DEF OutInv, In, RLock, Reads
  <2> QED  BY <2>3, <2>4, <2>5
<1>5. CallsInv'
  BY <1>2, <1>4, Untouched DEF CallsInv, RLock
<1>6. BankInv'
  <2>1. CASE writer = NoCall
    <3>1. \A d \in Client : ~Writing(d)
      BY <2>1, LockAssumption DEF CallsInv, CallInv
    <3>2. \A d \in Client : ~Writing(d)'
      BY <1>2, <1>3, <3>1 DEF Writing, In, Reads, RLock
    <3> QED  BY <3>1, <3>2 DEF BankInv, RLock
  <2>2. CASE writer # NoCall
    BY <1>2, <1>3, <2>2, BanksKept DEF RLock, Writing, In, Reads, Readers
  <2> QED  BY <2>1, <2>2
<1> QED  BY <1>1, <1>5, <1>6

\* A writer takes its turn among the writers.
LEMMA LockLInv ==
  ASSUME LockInv, NEW c \in Client, Lock(c)
  PROVE  LockInv'
<1> USE DEF LockInv
<1>1. TypeOK'
  BY DEF TypeOK, Lock, Goto
<1>2. \A d \in Client \ {c} : pc'[d] = pc[d]
  BY DEF TypeOK, Lock, Goto
<1>3. /\ pc[c] = "called" /\ Admitted(call[c]) /\ ~Reads(c)
      /\ pc'[c] = "draining" /\ writer = NoCall /\ writer' = c
  BY DEF TypeOK, Lock, Goto
<1>4. CallInv(c)' /\ LoopInv(c)' /\ OutInv(c)'
  BY <1>3 DEF CallsInv, CallInv, LoopInv, OutInv, In, Writing, Reads, Lock
<1>5. \A d \in Client \ {c} : writer # d
  BY <1>3, LockAssumption
<1>6. CallsInv'
  BY <1>2, <1>4, <1>5, Untouched DEF CallsInv, Lock
<1>7. BankInv'
  BY <1>2, <1>3, BanksKept DEF Lock, Writing, In, Reads, Readers
<1> QED  BY <1>1, <1>6, <1>7

\* The readers that were inside have left.
LEMMA DrainedInv ==
  ASSUME LockInv, NEW c \in Client, Drained(c)
  PROVE  LockInv'
<1> USE DEF LockInv
<1>1. TypeOK'
  BY DEF TypeOK, Drained, Goto
<1>2. \A d \in Client \ {c} : pc'[d] = pc[d]
  BY DEF TypeOK, Drained, Goto
<1>3. /\ pc[c] = "draining" /\ pc'[c] = "locked" /\ Readers = {}
      /\ ~Reads(c) /\ writer = c /\ Admitted(call[c]) /\ round[c] = 1 /\ out[c] = << >>
  BY DEF TypeOK, Drained, Goto, CallsInv, CallInv, LoopInv
<1>4. call[c] \in Request
  BY <1>3, Typed DEF CallsInv, CallInv
<1>5. CallInv(c)' /\ LoopInv(c)' /\ OutInv(c)'
  <2>1. Rounds(call[c]) \in Nat
    BY <1>4, RoundsType
  <2>2. CallInv(c)'
    BY <1>3 DEF CallsInv, CallInv, In, Writing, Reads, Drained
  <2>3. LoopInv(c)'
    BY <1>3, <2>1 DEF LoopInv, In, Drained
  <2>4. OutInv(c)'
    BY <1>3 DEF OutInv, In, Reads, Drained
  <2> QED  BY <2>2, <2>3, <2>4
<1>6. CallsInv'
  BY <1>2, <1>5, Untouched DEF CallsInv, Drained
<1>7. BankInv'
  <2>1. \A d \in Client : ~Writing(d)
    BY <1>3 DEF CallsInv, CallInv, Writing, In
  <2>2. bank = committed
    BY <2>1 DEF BankInv
  <2>3. EffectUpTo(committed, call[c], 0) = committed
    BY <1>4, NoRoundsNoEffect DEF TypeOK
  <2>4. \A d \in Client : Writing(d)' <=> d = c
    BY <1>2, <1>3, <2>1 DEF Writing, In, Reads, Drained
  <2>5. Readers' = {}
    BY <1>2, <1>3 DEF Readers, Reads, Drained
  <2> QED  BY <1>3, <2>2, <2>3, <2>4, <2>5 DEF BankInv, Drained
<1> QED  BY <1>1, <1>6, <1>7
\* A reader in its loop reads a word from the committed banks.
LEMMA ReaderReads ==
  ASSUME LockInv, NEW c \in Client, InLoop(c), Reads(c)
  PROVE  /\ bank = committed /\ call[c] \in Request
         /\ ValueOf(bank[call[c].slave][call[c].table][call[c].addr + round[c] - 1]) \in Word
<1> DEFINE r == call[c]
<1>1. r \in Request /\ r.op = "read" /\ Admitted(r) /\ bank \in Banks
  BY Typed DEF LockInv, InLoop, Reads, CallsInv, CallInv, In
<1>2. bank = committed
  <2>1. c \in Readers
    BY DEF Readers, InLoop
  <2> QED  BY <2>1 DEF LockInv, BankInv
<1>3. r.addr + round[c] - 1 \in Addr
  <2>1. r.addr \in Addr /\ r.qty \in Nat /\ LastAddr \in Nat /\ round[c] \in Nat \ {0}
    BY <1>1, StoreAssumption DEF Request, LockInv, TypeOK
  <2>2. round[c] <= r.qty /\ r.addr + r.qty <= LastAddr + 1
    BY <1>1 DEF InLoop, Rounds, Admitted, InRange
  <2> QED  BY <2>1, <2>2 DEF Addr
<1>4. bank[r.slave][r.table][r.addr + round[c] - 1] \in Cell
  BY <1>1, <1>3 DEF Banks, Request
<1>5. 0 \in Word
  BY StoreAssumption
<1> QED  BY <1>1, <1>2, <1>4, <1>5 DEF ValueOf, Cell

\* A round of the loop of a call.
LEMMA RoundInv ==
  ASSUME LockInv, NEW c \in Client, Round(c)
  PROVE  LockInv'
<1> DEFINE r == call[c]
           n == round[c]
<1>1. /\ pc[c] = "locked" /\ In(c) /\ Admitted(r) /\ r \in Request
      /\ n \in Nat \ {0} /\ Rounds(r) \in Nat /\ n <= Rounds(r)
      /\ bank \in Banks /\ committed \in Banks
  <2>1. pc[c] = "locked" /\ In(c) /\ Admitted(r) /\ r \in Request
    BY Typed DEF Round, InLoop, In, LockInv, CallsInv, CallInv
  <2> QED  BY <2>1, RoundsType DEF Round, InLoop, LockInv, TypeOK
<1>2. /\ round' = [round EXCEPT ![c] = n + 1]
      /\ UNCHANGED <<committed, call, reply, pc, writer>>
  BY DEF Round
<1>3. round'[c] = n + 1 /\ \A d \in Client \ {c} : round'[d] = round[d]
  BY <1>2 DEF LockInv, TypeOK
<1>4. \A d \in Client : In(d)' = In(d) /\ Reads(d)' = Reads(d) /\ Writing(d)' = Writing(d)
  BY <1>2 DEF In, Reads, Writing
<1>5. Readers' = Readers
  BY <1>2 DEF Readers, Reads
<1>6. CallInv(c) /\ LoopInv(c) /\ OutInv(c)
  BY DEF LockInv, CallsInv
<1>7. CallInv(c)'
  BY <1>2, <1>4, <1>6 DEF CallInv
<1>8. ASSUME ~RoundFails(committed, r, n)
      PROVE  LoopInv(c)' /\ \A i \in 1 .. n : ~RoundFails(committed, r, i)
  <2>1. \A i \in 1 .. n - 1 : ~RoundFails(committed, r, i)
    BY <1>1, <1>6 DEF LoopInv
  <2>2. \A i \in 1 .. n : ~RoundFails(committed, r, i)
    BY <1>1, <1>8, <2>1
  <2> QED  BY <1>1, <1>2, <1>3, <2>2 DEF LoopInv
<1>9. CASE Reads(c)
  <2> DEFINE v(i) == ValueOf(committed[r.slave][r.table][r.addr + i - 1])
  <2>1. bank = committed /\ v(n) \in Word
    BY <1>9, ReaderReads DEF Round
  <2>2. r.op = "read"
    BY <1>9 DEF Reads
  <2>3. bank' = bank /\ out' = [out EXCEPT ![c] = Append(@, v(n))]
    BY <1>9, <2>1, <2>2 DEF Round, RoundEffect
  <2>4. LoopInv(c)'
    BY <1>8, <2>1 DEF Round
  <2>5. out[c] \in Seq(Word)
    BY DEF LockInv, TypeOK
  <2>5a. out[c] = [i \in 1 .. n - 1 |-> v(i)]
    BY <1>1, <1>6, <1>9 DEF OutInv
  <2>6. out'[c] = [i \in 1 .. n |-> v(i)]
    <3>1. out'[c] = Append(out[c], v(n))
      BY <2>3 DEF LockInv, TypeOK
    <3> HIDE DEF v, n
    <3>2. Len(out[c]) = n - 1
      BY <1>1, <2>5, <2>5a
    <3>3. /\ Append(out[c], v(n)) \in Seq(Word)
          /\ Len(Append(out[c], v(n))) = n
          /\ Append(out[c], v(n))[n] = v(n)
          /\ \A i \in 1 .. n - 1 : Append(out[c], v(n))[i] = out[c][i]
      BY <1>1, <2>1, <2>5, <3>2
    <3>4. ASSUME NEW i \in 1 .. n
          PROVE  Append(out[c], v(n))[i] = v(i)
      <4>1. i = n \/ i \in 1 .. n - 1
        BY <1>1
      <4>2. i \in 1 .. n - 1 => out[c][i] = v(i)
        BY <2>5a
      <4> QED  BY <3>3, <4>1, <4>2
    <3> QED  BY <3>1, <3>3, <3>4
  <2>7. OutInv(c)'
    <3>1. round'[c] - 1 = n
      BY <1>1, <1>3
    <3>2. committed' = committed /\ call' = call
      BY <1>2
    <3>3. out'[c] = [i \in 1 .. round'[c] - 1 |-> v(i)]
      BY <2>6, <3>1
    <3>4. out'[c] = [i \in 1 .. round'[c] - 1 |->
                       ValueOf(committed'[call'[c].slave][call'[c].table][call'[c].addr + i - 1])]
      BY <3>2, <3>3, Zenon
    <3> QED  BY <1>4, <1>9, <3>4 DEF OutInv
  <2>8. TypeOK'
    <3>1. Append(out[c], v(n)) \in Seq(Word)
      BY <2>1, <2>5
    <3> HIDE DEF v
    <3> QED  BY <1>1, <1>2, <2>3, <3>1 DEF LockInv, TypeOK
  <2>9. CallsInv'
    <3>1. \A d \in Client \ {c} : out'[d] = out[d]
      BY <2>3 DEF LockInv, TypeOK
    <3> QED  BY <1>2, <1>3, <1>7, <2>4, <2>7, <3>1, Untouched DEF LockInv, CallsInv
  <2>10. BankInv'
    <3>1. \A d \in Client : ~Writing(d)
      BY <1>1, <1>9 DEF LockInv, BankInv, Readers
    <3> QED  BY <1>2, <1>4, <2>1, <2>3, <3>1 DEF BankInv
  <2> QED  BY <2>8, <2>9, <2>10 DEF LockInv
<1>10. CASE ~Reads(c)
  <2>1. Writing(c) /\ writer = c /\ r.op # "read"
    BY <1>1, <1>6, <1>10 DEF Writing, CallInv, Reads, In
  <2>2. Readers = {} /\ bank = EffectUpTo(committed, r, n - 1)
    BY <2>1 DEF LockInv, BankInv
  <2>3. ~RoundFails(committed, r, n)
    BY <1>1, <2>1, FailsWhateverBanks DEF Round
  <2>4. bank' = EffectUpTo(committed, r, n) /\ out' = out
    <3>1. bank' = RoundEffect(bank, r, n) /\ out' = out
      BY <1>10 DEF Round
    <3>2. n \in 1 .. Rounds(r)
      BY <1>1
    <3> QED  BY <1>1, <1>8, <2>2, <2>3, <3>1, <3>2, NextRound
  <2>5. OutInv(c)'
    BY <1>4, <1>6, <1>10, <2>4 DEF OutInv
  <2>6. CallsInv'
    BY <1>2, <1>3, <1>7, <1>8, <2>3, <2>4, <2>5, Untouched DEF LockInv, CallsInv
  <2>7. bank' \in Banks
    BY <1>1, <2>4, EffectUpToType
  <2>8. TypeOK'
    BY <1>1, <1>2, <2>4, <2>7 DEF LockInv, TypeOK
  <2>9. BankInv'
    <3>1. \A d \in Client : Writing(d) => d = c
      BY <2>1 DEF LockInv, CallsInv, CallInv
    <3>2. round'[c] - 1 = n
      BY <1>1, <1>3
    <3> QED  BY <1>2, <1>4, <1>5, <2>1, <2>2, <2>4, <3>1, <3>2 DEF BankInv
  <2> QED  BY <2>6, <2>8, <2>9 DEF LockInv
<1> QED  BY <1>9, <1>10

\* A round that ends the loop.
LEMMA FailRoundInv ==
  ASSUME LockInv, NEW c \in Client, FailRound(c)
  PROVE  LockInv'
<1> USE DEF LockInv
<1>1. TypeOK'
  BY DEF TypeOK, FailRound, Goto
<1>2. \A d \in Client \ {c} : pc'[d] = pc[d]
  BY DEF TypeOK, FailRound, Goto
<1>3. pc[c] = "locked" /\ pc'[c] = "failed" /\ round[c] <= Rounds(call[c])
  BY DEF TypeOK, FailRound, Goto, InLoop
<1>4. CallInv(c) /\ LoopInv(c) /\ OutInv(c)
  BY DEF CallsInv
<1>5. RoundFails(committed, call[c], round[c])
  <2>1. CASE Reads(c)
    BY <2>1, ReaderReads DEF FailRound
  <2>2. CASE ~Reads(c)
    <3>1. call[c] \in Request
      BY <1>3, <1>4, Typed DEF CallInv
    <3>2. call[c].op # "read"
      BY <1>3, <1>4, <2>2 DEF CallInv, Reads
    <3> QED  BY <3>1, <3>2, FailsWhateverBanks DEF FailRound
  <2> QED  BY <2>1, <2>2
<1>6. CallInv(c)' /\ LoopInv(c)' /\ OutInv(c)'
  <2>1. CallInv(c)'
    BY <1>3, <1>4 DEF CallInv, In, Writing, Reads, FailRound
  <2>2. LoopInv(c)'
    BY <1>3, <1>4, <1>5 DEF LoopInv, In, FailRound
  <2>3. OutInv(c)'
    BY <1>3, <1>4 DEF OutInv, In, Reads, FailRound
  <2> QED  BY <2>1, <2>2, <2>3
<1>7. CallsInv'
  BY <1>2, <1>6, Untouched DEF CallsInv, FailRound
<1>8. BankInv'
  BY <1>2, <1>3, BanksKept DEF FailRound, Writing, In, Reads, Readers
<1> QED  BY <1>1, <1>7, <1>8
-----------------------------------------------------------------------------
\* When a loop is over the call has the effect and the answer that Store
\* gives it on the committed banks.
LEMMA Finishes ==
  ASSUME LockInv, NEW c \in Client, Finished(c)
  PROVE  /\ call[c] \in Request /\ Admitted(call[c])
         /\ Answer(c) = Outcome(committed, call[c])
         /\ Effect(committed, call[c]) = IF Reads(c) THEN committed ELSE bank
<1> DEFINE r == call[c]
           n == round[c]
<1>1. /\ In(c) /\ CallInv(c) /\ LoopInv(c) /\ OutInv(c)
  BY DEF Finished, In, LockInv, CallsInv
<1>2. Admitted(r) /\ r \in Request /\ r # NoCall /\ committed \in Banks
  BY <1>1, Typed, ClientAssumption DEF CallInv, In, LockInv
<1>3. n \in Nat \ {0} /\ Rounds(r) \in Nat
  BY <1>2, RoundsType DEF LockInv, TypeOK
<1>4. CASE pc[c] = "failed"
  <2>1. RoundFails(committed, r, n) /\ n \in 1 .. Rounds(r)
    BY <1>1, <1>3, <1>4 DEF LoopInv
  <2>2. Answer(c) = Outcome(committed, r)
    BY <1>4, <2>1 DEF Answer, Outcome
  <2>3. CASE Reads(c)
    <3>1. r.op = "read"
      BY <2>3 DEF Reads
    <3> HIDE DEF r
    <3>2. EffectUpTo(committed, r, Rounds(r)) = committed
      BY <3>1 DEF EffectUpTo, ToRelay
    <3> QED  BY <1>2, <2>2, <2>3, <3>2 DEF Effect, r, n
  <2>4. CASE ~Reads(c)
    <3>1. bank = EffectUpTo(committed, r, n - 1)
      BY <1>1, <2>4 DEF LockInv, BankInv, Writing
    <3> HIDE DEF r, n
    <3>2. EffectUpTo(committed, r, n - 1) = EffectUpTo(committed, r, Rounds(r))
      BY <1>2, <2>1, FailedPrefix
    <3> QED  BY <1>2, <2>2, <2>4, <3>1, <3>2 DEF Effect, r, n
  <2> QED  BY <1>2, <2>2, <2>3, <2>4
<1>5. CASE pc[c] = "locked"
  <2>1. n = Rounds(r) + 1
    BY <1>1, <1>3, <1>5 DEF Finished, InLoop, LoopInv
  <2>2. \A i \in 1 .. Rounds(r) : ~RoundFails(committed, r, i)
    BY <1>1, <1>3, <2>1 DEF LoopInv
  <2>3. Answer(c) = [ok |-> TRUE, values |-> out[c]]
    BY <1>5 DEF Answer
  <2>4. CASE Reads(c)
    <3>1. r.op = "read" /\ Rounds(r) = r.qty
      BY <2>4 DEF Reads, Rounds
    <3>2. out[c] = [i \in 1 .. r.qty |-> ValueOf(committed[r.slave][r.table][r.addr + i - 1])]
      <4>1. n - 1 = r.qty
        BY <1>3, <2>1, <3>1
      <4>2. out[c] = [i \in 1 .. n - 1 |-> ValueOf(committed[r.slave][r.table][r.addr + i - 1])]
        BY <1>1, <2>4 DEF OutInv
      <4> QED  BY <4>1, <4>2
    <3>3. Answer(c) = Outcome(committed, r)
      BY <1>2, <2>2, <2>3, <3>1, <3>2 DEF Outcome
    <3> QED  BY <1>2, <2>4, <3>1, <3>3 DEF Effect, EffectUpTo, ToRelay
  <2>5. CASE ~Reads(c)
    <3>1. r.op # "read" /\ out[c] = << >>
      BY <1>1, <1>2, <2>5 DEF Reads, OutInv
    <3>2. bank = EffectUpTo(committed, r, n - 1) /\ n - 1 = Rounds(r)
      BY <1>1, <1>3, <2>1, <2>5 DEF LockInv, BankInv, Writing
    <3>3. Answer(c) = Outcome(committed, r)
      BY <1>2, <2>2, <2>3, <3>1 DEF Outcome
    <3> QED  BY <1>2, <2>5, <3>2, <3>3 DEF Effect
  <2> QED  BY <2>4, <2>5
<1> QED  BY <1>1, <1>4, <1>5 DEF In

\* A read leaves.
LEMMA RUnlockInv ==
  ASSUME LockInv, NEW c \in Client, RUnlock(c)
  PROVE  LockInv'
<1>1. Reads(c) /\ In(c) /\ pc'[c] = "done" /\ \A d \in Client \ {c} : pc'[d] = pc[d]
  BY DEF RUnlock, Finished, In, Goto, LockInv, TypeOK
<1>2. /\ reply'[c] \in Reply /\ reply'[c] # NoReply
      /\ reply' = [reply EXCEPT ![c] = reply'[c]]
      /\ \A d \in Client \ {c} : reply'[d] = reply[d]
  <2>1. Answer(c) \in Reply
    BY Finishes, OutcomeType DEF RUnlock, LockInv, TypeOK
  <2> QED  BY <2>1, ClientAssumption DEF RUnlock, LockInv, TypeOK
<1>3. TypeOK'
  BY <1>2 DEF RUnlock, Goto, LockInv, TypeOK
<1>4. CallInv(c)' /\ LoopInv(c)' /\ OutInv(c)'
  BY <1>1, <1>2 DEF LockInv, CallsInv, CallInv, LoopInv, OutInv, In, Writing, Reads, RUnlock
<1>5. CallsInv'
  BY <1>1, <1>2, <1>4, Untouched DEF LockInv, CallsInv, RUnlock
<1>6. BankInv'
  BY <1>1, BanksKept DEF RUnlock, LockInv, Writing, In, Reads, Readers
<1> QED  BY <1>3, <1>5, <1>6 DEF LockInv

\* A writer leaves.
LEMMA UnlockInv ==
  ASSUME LockInv, NEW c \in Client, Unlock(c)
  PROVE  LockInv'
<1>1. /\ Writing(c) /\ writer = c /\ writer' = NoCall /\ Readers = {} /\ committed' = bank
      /\ UNCHANGED <<bank, call, round, out>>
  BY DEF Unlock, Finished, Writing, In, LockInv, CallsInv, CallInv, BankInv
<1>2. /\ pc'[c] = "done"
      /\ \A d \in Client \ {c} : pc'[d] = IF pc[d] = "blocked" THEN "locked" ELSE pc[d]
  BY DEF Unlock
<1>3. /\ reply'[c] \in Reply /\ reply'[c] # NoReply
      /\ reply' = [reply EXCEPT ![c] = reply'[c]]
      /\ \A d \in Client \ {c} : reply'[d] = reply[d]
  <2>1. Answer(c) \in Reply
    BY Finishes, OutcomeType DEF Unlock, LockInv, TypeOK
  <2> QED  BY <2>1, ClientAssumption DEF Unlock, LockInv, TypeOK
<1>4. TypeOK'
  <2>1. pc' \in [Client -> {"idle", "called", "blocked", "draining", "locked", "failed", "done"}]
    BY DEF Unlock, LockInv, TypeOK
  <2> QED  BY <1>1, <1>3, <2>1 DEF LockInv, TypeOK
<1>5. CallInv(c)' /\ LoopInv(c)' /\ OutInv(c)'
  BY <1>1, <1>2, <1>3 DEF LockInv, CallsInv, CallInv, LoopInv, OutInv, In, Writing, Reads
<1>6. ASSUME NEW d \in Client \ {c}
      PROVE  CallInv(d)' /\ LoopInv(d)' /\ OutInv(d)' /\ ~Writing(d)'
  <2>1. CallInv(d) /\ LoopInv(d) /\ OutInv(d)
    BY DEF LockInv, CallsInv
  <2>2. ~In(d) /\ pc[d] # "draining"
    BY <1>1, <1>6, <2>1 DEF CallInv, In, Writing, Readers
  <2>3. In(d)' <=> pc[d] = "blocked"
    BY <1>2, <1>6, <2>2 DEF In
  <2>4. pc[d] = "blocked" => /\ Reads(d) /\ Admitted(call[d]) /\ call[d] \in Request
                             /\ round[d] = 1 /\ out[d] = << >> /\ Rounds(call[d]) \in Nat
    BY <2>1, Typed, RoundsType DEF CallInv, LoopInv, LockInv, Reads
  <2>5. ~Writing(d)' /\ Reads(d)' = Reads(d)
    BY <1>1, <2>3, <2>4 DEF Writing, Reads
  <2>6. CallInv(d)'
    BY <1>1, <1>2, <1>3, <2>1, <2>2, <2>3, <2>4, <2>5 DEF CallInv, In
  <2>7. LoopInv(d)'
    BY <1>1, <1>2, <2>1, <2>2, <2>3, <2>4 DEF LoopInv, In
  <2>8. OutInv(d)'
    BY <1>1, <2>3, <2>4, <2>5 DEF OutInv
  <2> QED  BY <2>5, <2>6, <2>7, <2>8
<1>7. CallsInv'
  BY <1>5, <1>6 DEF CallsInv
<1>8. BankInv'
  <2>1. \A d \in Client : ~Writing(d)'
    BY <1>2, <1>6 DEF Writing, In
  <2> QED  BY <1>1, <2>1 DEF BankInv
<1> QED  BY <1>4, <1>7, <1>8 DEF LockInv

\* A call returns.
LEMMA ReturnInv ==
  ASSUME LockInv, NEW c \in Client, Return(c)
  PROVE  LockInv'
<1> USE DEF LockInv
<1>1. TypeOK'
  <2>1. << >> \in Seq(Word)
    OBVIOUS
  <2> QED  BY <2>1 DEF TypeOK, Return, Goto
<1>2. \A d \in Client \ {c} : /\ pc'[d] = pc[d] /\ call'[d] = call[d] /\ reply'[d] = reply[d]
                              /\ round'[d] = round[d] /\ out'[d] = out[d]
  BY DEF TypeOK, Return, Goto
<1>3. /\ pc[c] = "done" /\ pc'[c] = "idle" /\ call'[c] = NoCall /\ reply'[c] = NoReply
      /\ round'[c] = 1 /\ out'[c] = << >>
  BY DEF TypeOK, Return, Goto
<1>4. CallInv(c)' /\ LoopInv(c)' /\ OutInv(c)'
  BY <1>3 DEF CallInv, LoopInv, OutInv, In, Writing, Reads
<1>5. CallsInv'
  BY <1>2, <1>4, Untouched DEF CallsInv, Return
<1>6. BankInv'
  BY <1>2, <1>3, BanksKept DEF Return, Writing, In, Reads, Readers
<1> QED  BY <1>1, <1>5, <1>6
\* LockInv is inductive.
LEMMA InvStep == LockInv /\ [Next]_vars => LockInv'
<1> SUFFICES ASSUME LockInv, [Next]_vars  PROVE LockInv'
  OBVIOUS
<1>1. ASSUME NEW c \in Client, Step(c)
      PROVE  LockInv'
  BY <1>1, RefuseInv, RLockInv, LockLInv, DrainedInv, RoundInv, FailRoundInv,
     RUnlockInv, UnlockInv, ReturnInv DEF Step
<1>2. ASSUME NEW c \in Client, NEW r \in Requests, Invoke(c, r)
      PROVE  LockInv'
  BY <1>2, InvokeInv
<1>3. CASE UNCHANGED vars
  <2>1. TypeOK'
    BY <1>3 DEF vars, LockInv, TypeOK
  <2>2. CallsInv'
    BY <1>3, Untouched DEF vars, LockInv, CallsInv
  <2>3. BankInv'
    BY <1>3, BanksKept DEF vars, LockInv, Writing, In, Reads, Readers
  <2> QED  BY <2>1, <2>2, <2>3 DEF LockInv
<1> QED  BY <1>1, <1>2, <1>3 DEF Next

\* The invariant of the lock, the calls that are in and what has been committed
\* (store.go:80-150) holds in every reachable state.
THEOREM LockInvariant == Spec => []LockInv
BY InitInv, InvStep, PTL DEF Spec

(***************************************************************************)
(* The type invariant holds in every behaviour: the banks keep their shape *)
(* in the middle of a loop too, and what a reader collects are words.      *)
(***************************************************************************)
THEOREM LockTypeCorrect == Spec => []TypeOK
<1>1. LockInv => TypeOK
  BY DEF LockInv
<1> QED  BY <1>1, LockInvariant, PTL

(***************************************************************************)
(* The loop of a Write, a Set or an EnableRelay runs alone, under the      *)
(* mutex its Lock took (store.go:69, 100, 128, 156), however many readers  *)
(* and writers compete.                                                    *)
(***************************************************************************)
THEOREM LockExclusive == Spec => []Exclusive
<1>1. LockInv => Exclusive
  <2> SUFFICES ASSUME LockInv, NEW c \in Client, NEW d \in Client, Writing(c)
               PROVE  writer = c /\ (c # d => ~In(d))
    BY DEF Exclusive, Writing, In
  <2>1. writer = c /\ (Writing(d) => writer = d) /\ Readers = {}
    BY DEF LockInv, CallsInv, CallInv, BankInv
  <2> QED  BY <2>1 DEF Readers, Writing, In
<1> QED  BY <1>1, LockInvariant, PTL

-----------------------------------------------------------------------------
(***************************************************************************)
(* The refinement.                                                         *)
(***************************************************************************)

\* Store's operations are the same ones here as there.
LEMMA SameOperations ==
  /\ Atomic!SeededBanks = SeededBanks
  /\ \A b, r : Atomic!Effect(b, r) = Effect(b, r) /\ Atomic!Outcome(b, r) = Outcome(b, r)
<1>1. Atomic!Table = Table /\ Atomic!Addr = Addr /\ Atomic!ValidSlave = ValidSlave
  BY DEF Atomic!Table, Table, Atomic!Addr, Addr, Atomic!ValidSlave, ValidSlave
<1>2. \A t : Atomic!Start(t) = Start(t) /\ Atomic!On(t) = On(t) /\ Atomic!Off(t) = Off(t)
  BY DEF Atomic!Start, Start, Atomic!On, On, Atomic!Off, Off
<1>3. \A r : Atomic!ToRelay(r) = ToRelay(r) /\ Atomic!Skips(r) = Skips(r)
  BY DEF Atomic!ToRelay, ToRelay, Atomic!Skips, Skips
<1>4. \A r, i : Atomic!Takes(r, i) = Takes(r, i)
  BY <1>2, <1>3 DEF Atomic!Takes, Takes, Atomic!RelayAccepts, RelayAccepts,
                    Atomic!ChannelAddr, ChannelAddr
<1>5. \A r : Atomic!Taken(r) = Taken(r)
  BY <1>3, <1>4 DEF Atomic!Taken, Taken
<1>6. \A r : Atomic!Admitted(r) = Admitted(r) /\ Atomic!Rounds(r) = Rounds(r)
  BY <1>1 DEF Atomic!Admitted, Admitted, Atomic!InRange, InRange, Atomic!Rounds, Rounds
<1>7. \A r, u, x : Atomic!Source(r, u, x) = Source(r, u, x)
  BY <1>2 DEF Atomic!Source, Source
<1>8. \A b, r, n : Atomic!EffectUpTo(b, r, n) = EffectUpTo(b, r, n)
  BY <1>1, <1>2, <1>3, <1>5, <1>7 DEF Atomic!EffectUpTo, EffectUpTo
<1>9. \A b, r, i : Atomic!RoundFails(b, r, i) = RoundFails(b, r, i)
  BY <1>3, <1>4 DEF Atomic!RoundFails, RoundFails
<1>10. \A b, r : Atomic!Effect(b, r) = Effect(b, r)
  BY <1>6, <1>8 DEF Atomic!Effect, Effect
<1>11. \A b, r : Atomic!Outcome(b, r) = Outcome(b, r)
  BY <1>6, <1>9 DEF Atomic!Outcome, Outcome, Atomic!ValueOf, ValueOf
<1>12. Atomic!SeededBanks = SeededBanks
  <2>1. \A s, t, x : Atomic!LabCell(s, t, x) = LabCell(s, t, x)
    BY DEF Atomic!LabCell, LabCell, Atomic!Covers, Covers
  <2>2. Atomic!EnableRelay = EnableRelay
    BY DEF Atomic!EnableRelay, EnableRelay
  <2> QED  BY <1>1, <1>8, <2>1, <2>2 DEF Atomic!SeededBanks, SeededBanks
<1> QED  BY <1>10, <1>11, <1>12
(***************************************************************************)
(* LockedStore implements Store: a call that visits its registers one by   *)
(* one, between those of other goroutines, takes effect as a whole when it *)
(* unlocks (store.go:83, 107, 132, 143, 160).  Refuse and the two unlocks  *)
(* are Perform; the steps inside the lock are invisible.                   *)
(***************************************************************************)
THEOREM LockRefines == Spec => Linearizable
<1>1. Init => Atomic!Init
  BY SameOperations DEF Init, Atomic!Init
<1>2. LockInv /\ [Next]_vars => [Atomic!Next]_(Atomic!vars)
  <2> SUFFICES ASSUME LockInv, [Next]_vars
               PROVE  Atomic!Next \/ UNCHANGED Atomic!vars
    OBVIOUS
  <2>1. ASSUME NEW c \in Client, NEW r \in Requests, Invoke(c, r)
        PROVE  Atomic!Next
    <3>1. call[c] = NoCall
      BY <2>1 DEF Invoke, LockInv, CallsInv, CallInv
    <3>2. Atomic!Invoke(c, r)
      BY <2>1, <3>1 DEF Invoke, Atomic!Invoke
    <3> QED  BY <3>2 DEF Atomic!Next
  <2>2. ASSUME NEW c \in Client, Refuse(c)
        PROVE  Atomic!Next
    <3>1. pc[c] = "called" /\ ~Admitted(call[c])
      BY <2>2 DEF Refuse
    <3>2. call[c] # NoCall /\ reply[c] = NoReply
      BY <3>1 DEF LockInv, CallsInv, CallInv
    <3>3. /\ Effect(committed, call[c]) = committed
          /\ Outcome(committed, call[c]) = [ok |-> FALSE, values |-> << >>]
      BY <3>1 DEF Effect, Outcome
    <3>4. Atomic!Perform(c)
      BY <2>2, <3>2, <3>3, SameOperations DEF Refuse, Atomic!Perform
    <3> QED  BY <3>4 DEF Atomic!Next
  <2>3. ASSUME NEW c \in Client, RUnlock(c) \/ Unlock(c)
        PROVE  Atomic!Next
    <3>1. Finished(c) /\ reply' = [reply EXCEPT ![c] = Answer(c)] /\ call' = call
      BY <2>3 DEF RUnlock, Unlock
    <3>2. committed' = IF Reads(c) THEN committed ELSE bank
      BY <2>3 DEF RUnlock, Unlock
    <3>3. call[c] # NoCall /\ reply[c] = NoReply
      BY <3>1 DEF LockInv, CallsInv, CallInv, Finished
    <3>4. /\ committed' = Effect(committed, call[c])
          /\ reply' = [reply EXCEPT ![c] = Outcome(committed, call[c])]
      BY <3>1, <3>2, Finishes
    <3>5. Atomic!Perform(c)
      BY <3>1, <3>3, <3>4, SameOperations DEF Atomic!Perform
    <3> QED  BY <3>5 DEF Atomic!Next
  <2>4. ASSUME NEW c \in Client, Return(c)
        PROVE  Atomic!Next
    <3>1. reply[c] # NoReply
      BY <2>4 DEF Return, LockInv, CallsInv, CallInv
    <3>2. Atomic!Return(c)
      BY <2>4, <3>1 DEF Return, Atomic!Return
    <3> QED  BY <3>2 DEF Atomic!Next
  <2>5. ASSUME NEW c \in Client, RLock(c) \/ Lock(c) \/ Drained(c) \/ Round(c) \/ FailRound(c)
        PROVE  UNCHANGED Atomic!vars
    BY <2>5 DEF RLock, Lock, Drained, Round, FailRound, Atomic!vars
  <2>6. CASE UNCHANGED vars
    BY <2>6 DEF vars, Atomic!vars
  <2> QED  BY <2>1, <2>2, <2>3, <2>4, <2>5, <2>6 DEF Next, Step
<1> QED  BY <1>1, <1>2, LockInvariant, PTL DEF Spec, Linearizable, Atomic!Spec
=============================================================================
