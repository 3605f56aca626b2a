---------------------------- MODULE ControlProofs ----------------------------
(***************************************************************************)
(* The handlers use the store as Store says, so what is proved of the      *)
(* store holds under the control API too, for any set of requests.         *)
(***************************************************************************)
EXTENDS ControlPlane, OperatorProofs

-----------------------------------------------------------------------------
(***************************************************************************)
(* The type invariant holds in every behaviour: whatever a call carries,   *)
(* it leaves banks with their cells and answers with register values.      *)
(***************************************************************************)
THEOREM TypeCorrect == Spec => []TypeOK
<1>1. Init => TypeOK
  BY SeededBanksType DEF Init, TypeOK
<1>2. TypeOK /\ [Next]_vars => TypeOK'
  <2> SUFFICES ASSUME TypeOK, [Next]_vars
               PROVE  TypeOK'
    OBVIOUS
  <2> USE DEF TypeOK
  <2>1. ASSUME NEW c \in Client, NEW r \in Requests, Invoke(c, r)
        PROVE  TypeOK'
    BY <2>1, ClientAssumption DEF Invoke
  <2>2. ASSUME NEW c \in Client, Perform(c)
        PROVE  TypeOK'
    <3>1. call[c] \in Request
      BY <2>2, ClientAssumption DEF Perform
    <3>2. bank' \in Banks
      BY <2>2, <3>1, EffectType DEF Perform
    <3>3. Outcome(bank, call[c]) \in Reply
      BY <3>1, OutcomeType
    <3> QED  BY <2>2, <3>2, <3>3 DEF Perform
  <2>3. ASSUME NEW c \in Client, Return(c)
        PROVE  TypeOK'
    BY <2>3 DEF Return
  <2>4. CASE UNCHANGED vars
    BY <2>4 DEF vars
  <2> QED  BY <2>1, <2>2, <2>3, <2>4 DEF Next
<1> QED  BY <1>1, <1>2, PTL DEF Spec

-----------------------------------------------------------------------------
(***************************************************************************)
(* The relay.                                                              *)
(***************************************************************************)

\* However far a call's loop gets, coils and holding registers agree.
LEMMA EffectUpToSynchronized ==
  ASSUME NEW b \in Banks, Synchronized(b), NEW r \in Requests, Admitted(r), NEW n \in 0 .. Rounds(r)
  PROVE  Synchronized(EffectUpTo(b, r, n))
<1> DEFINE e == EffectUpTo(b, r, n)
<1>0. r \in Request /\ n \in Nat /\ RelaySlave \in Slave
  BY ClientAssumption, StoreAssumption, RoundsType
<1>1. SUFFICES ASSUME \/ r.op = "relay"
                      \/ ToRelay(r)
               PROVE  Synchronized(e)
  <2>1. CASE r.op = "read"
    BY <2>1 DEF EffectUpTo, ToRelay
  <2>2. CASE r.op \in {"set", "write"} /\ ~ToRelay(r)
    <3>1. e = [b EXCEPT ![r.slave][r.table] =
                 [x \in Addr |->
                    IF x - r.addr + 1 \in Taken(r) \cap 1 .. n
                    THEN r.values[x - r.addr + 1] ELSE b[r.slave][r.table][x]]]
      BY <2>2 DEF EffectUpTo
    <3>2. ~(r.slave = RelaySlave /\ r.table \in {"coil", "holding"})
      BY <2>2, ClientAssumption DEF ToRelay
    <3>3. e[RelaySlave]["coil"] = b[RelaySlave]["coil"] /\ e[RelaySlave]["holding"] = b[RelaySlave]["holding"]
      BY <1>0, <3>1, <3>2 DEF Banks, Table, Request
    <3> QED  BY <3>3 DEF Synchronized
  <2> QED  BY <1>0, <1>1, <2>1, <2>2 DEF Request
<1>2. CASE r.op = "relay"
  <2>1. e[RelaySlave] = [u \in Table |-> [x \in Addr |->
            IF u \in {"coil", "holding"} /\ x \in Start(u) .. Start(u) + n - 1
            THEN Off(u) ELSE b[RelaySlave][u][x]]]
    BY <1>0, <1>2 DEF EffectUpTo, ToRelay, Banks
  <2>2. ASSUME NEW t \in {"coil", "holding"}, NEW x \in Addr
        PROVE  e[RelaySlave][t][x] = IF x \in Start(t) .. Start(t) + n - 1
                                     THEN Off(t) ELSE b[RelaySlave][t][x]
    BY <2>1 DEF Table
  <2>3. n <= Channels
    BY <1>2, <1>0, ChannelFacts DEF Rounds
  <2>4. ASSUME NEW k \in 0 .. Channels - 1, NEW t \in {"coil", "holding"}
        PROVE  e[RelaySlave][t][Start(t) + k] =
                 IF k < n THEN Off(t) ELSE b[RelaySlave][t][Start(t) + k]
    BY <1>0, <2>2, ChannelFacts
  <2>5. ASSUME NEW t \in {"coil", "holding"}, NEW x \in Addr \ ChannelAddr(t)
        PROVE  e[RelaySlave][t][x] = b[RelaySlave][t][x]
    <3>1. x \in Int /\ Start(t) \in Int
      BY ChannelFacts, StoreAssumption DEF Addr
    <3>2. x \notin Start(t) .. Start(t) + n - 1
      BY <1>0, <2>3, <3>1, ChannelFacts DEF ChannelAddr
    <3> QED  BY <2>2, <3>2
  <2>6. ASSUME NEW k \in 0 .. Channels - 1
        PROVE  LET coil == e[RelaySlave]["coil"][CoilStart + k]
                   holding == e[RelaySlave]["holding"][HoldingStart + k]
               IN  \/ coil = CoilOn /\ holding = HoldingOn
                   \/ coil = CoilOff /\ holding = HoldingOff
    BY <2>4 DEF Synchronized, Start, Off
  <2> QED  BY <2>5, <2>6 DEF Synchronized
<1>3. CASE ToRelay(r)
  <2>1. e[RelaySlave] = [u \in Table |-> [x \in Addr |->
            IF u \in {"coil", "holding"} /\ Source(r, u, x) \in Taken(r) \cap 1 .. n
            THEN IF r.values[Source(r, u, x)] = On(r.table) THEN On(u) ELSE Off(u)
            ELSE b[RelaySlave][u][x]]]
    BY <1>0, <1>3 DEF EffectUpTo, ToRelay, Banks
  <2>2. ASSUME NEW t \in {"coil", "holding"}, NEW x \in Addr
        PROVE  e[RelaySlave][t][x] =
                 IF Source(r, t, x) \in Taken(r) \cap 1 .. n
                 THEN IF r.values[Source(r, t, x)] = On(r.table) THEN On(t) ELSE Off(t)
                 ELSE b[RelaySlave][t][x]
    BY <2>1 DEF Table
  <2>3. r.table \in {"coil", "holding"} /\ r.addr \in Nat
    BY <1>0, <1>3, StoreAssumption DEF Admitted, ToRelay, Request, Addr
  <2> DEFINE i(k) == k + Start(r.table) - r.addr + 1
  <2>4. ASSUME NEW k \in 0 .. Channels - 1, NEW t \in {"coil", "holding"}
        PROVE  Source(r, t, Start(t) + k) = i(k)
    BY <2>3, ChannelFacts DEF Source
  <2>5. ASSUME NEW k \in 0 .. Channels - 1, NEW t \in {"coil", "holding"}
        PROVE  e[RelaySlave][t][Start(t) + k] =
                 IF i(k) \in Taken(r) \cap 1 .. n
                 THEN IF r.values[i(k)] = On(r.table) THEN On(t) ELSE Off(t)
                 ELSE b[RelaySlave][t][Start(t) + k]
    BY <2>2, <2>4, ChannelFacts
  <2>6. ASSUME NEW t \in {"coil", "holding"}, NEW x \in Addr \ ChannelAddr(t)
        PROVE  e[RelaySlave][t][x] = b[RelaySlave][t][x]
    <3>1. SUFFICES ASSUME Source(r, t, x) \in Taken(r) \cap 1 .. n  PROVE FALSE
      BY <2>2
    <3>2. r.addr + Source(r, t, x) - 1 \in ChannelAddr(r.table)
      BY <1>0, <1>3, <3>1, RelayTakesChannels
    <3>3. x \in Int
      BY StoreAssumption DEF Addr
    <3> QED  BY <2>3, <3>2, <3>3, ChannelFacts DEF Source, ChannelAddr
  <2>7. ASSUME NEW k \in 0 .. Channels - 1
        PROVE  LET coil == e[RelaySlave]["coil"][CoilStart + k]
                   holding == e[RelaySlave]["holding"][HoldingStart + k]
               IN  \/ coil = CoilOn /\ holding = HoldingOn
                   \/ coil = CoilOff /\ holding = HoldingOff
    BY <2>5 DEF Synchronized, Start, On, Off
  <2> QED  BY <2>6, <2>7 DEF Synchronized
<1> QED  BY <1>1, <1>2, <1>3

\* A fresh relay is off in both tables.
LEMMA SeededSynchronized == Synchronized(SeededBanks)
<1> DEFINE lab == [s \in Slave |-> [t \in Table |-> [x \in Addr |-> LabCell(s, t, x)]]]
<1>1. RelaySlave \in Slave /\ RelaySlave \in ValidSlave /\ Channels \in Nat
  BY StoreAssumption
<1>2. \A t \in Table, x \in Addr : lab[RelaySlave][t][x] = Unmapped
  <2>1. \A i \in DOMAIN LabRanges : LabRanges[i].slave # RelaySlave
    BY StoreAssumption
  <2> QED  BY <1>1, <2>1 DEF LabCell, Covers
<1>3. SeededBanks[RelaySlave] = [u \in Table |-> [x \in Addr |->
            IF u \in {"coil", "holding"} /\ x \in Start(u) .. Start(u) + Channels - 1
            THEN Off(u) ELSE lab[RelaySlave][u][x]]]
  BY <1>1 DEF SeededBanks, EffectUpTo, EnableRelay, ToRelay
<1>4. ASSUME NEW t \in {"coil", "holding"}, NEW x \in Addr
      PROVE  SeededBanks[RelaySlave][t][x] = IF x \in ChannelAddr(t) THEN Off(t) ELSE Unmapped
  <2> HIDE DEF lab
  <2>1. t \in Table
    BY DEF Table
  <2>2. SeededBanks[RelaySlave][t][x] =
          IF x \in Start(t) .. Start(t) + Channels - 1 THEN Off(t) ELSE lab[RelaySlave][t][x]
    BY <2>1, <1>3
  <2>3. lab[RelaySlave][t][x] = Unmapped
    BY <2>1, <1>2
  <2> QED  BY <2>2, <2>3 DEF ChannelAddr
<1>5. ASSUME NEW k \in 0 .. Channels - 1, NEW t \in {"coil", "holding"}
      PROVE  SeededBanks[RelaySlave][t][Start(t) + k] = Off(t)
  <2>1. Start(t) + k \in Addr
    BY ChannelFacts
  <2>2. Start(t) + k \in ChannelAddr(t)
    BY ChannelFacts DEF ChannelAddr
  <2> QED  BY <1>4, <2>1, <2>2
<1> QED  BY <1>4, <1>5 DEF Synchronized, Start, Off

(***************************************************************************)
(* "Coil and holding views stay synchronized" (simulator.go:47), for every *)
(* relay, every addressing mode and every set of clients and calls that    *)
(* the program can make.                                                   *)
(***************************************************************************)
THEOREM RelaySynchronized == Spec => []RelaySync
<1>1. Init => RelaySync
  BY SeededSynchronized DEF Init, RelaySync
<1>2. TypeOK /\ RelaySync /\ [Next]_vars => RelaySync'
  <2> SUFFICES ASSUME TypeOK, RelaySync, [Next]_vars
               PROVE  RelaySync'
    OBVIOUS
  <2>1. ASSUME NEW c \in Client, NEW r \in Requests, Invoke(c, r)
        PROVE  RelaySync'
    BY <2>1 DEF Invoke, RelaySync
  <2>2. ASSUME NEW c \in Client, Perform(c)
        PROVE  RelaySync'
    <3>1. call[c] \in Requests /\ call[c] \in Request /\ bank \in Banks
      BY <2>2, ClientAssumption DEF Perform, TypeOK
    <3>2. Synchronized(Effect(bank, call[c]))
      BY <3>1, RoundsType, EffectUpToSynchronized DEF Effect, RelaySync
    <3> QED  BY <2>2, <3>2 DEF Perform, RelaySync
  <2>3. ASSUME NEW c \in Client, Return(c)
        PROVE  RelaySync'
    BY <2>3 DEF Return, RelaySync
  <2>4. CASE UNCHANGED vars
    BY <2>4 DEF vars, RelaySync
  <2> QED  BY <2>1, <2>2, <2>3, <2>4 DEF Next
<1> QED  BY <1>1, <1>2, TypeCorrect, PTL DEF Spec

-----------------------------------------------------------------------------
(***************************************************************************)
(* Coils and discrete inputs.                                              *)
(***************************************************************************)

(***************************************************************************)
(* A coil or discrete cell is a bit, whichever of Set, Write and the relay *)
(* stored it (store.go:108, 144, 179).                                     *)
(***************************************************************************)
THEOREM BitTablesHold == Spec => []BitTables
<1>1. Init => BitTables
  BY SeededBits DEF Init, BitTables
<1>2. TypeOK /\ BitTables /\ [Next]_vars => BitTables'
  <2> SUFFICES ASSUME TypeOK, BitTables, [Next]_vars
               PROVE  BitTables'
    OBVIOUS
  <2>1. ASSUME NEW c \in Client, NEW r \in Requests, Invoke(c, r)
        PROVE  BitTables'
    BY <2>1 DEF Invoke, BitTables
  <2>2. ASSUME NEW c \in Client, Perform(c)
        PROVE  BitTables'
    <3>1. call[c] \in Request /\ bank \in Banks
      BY <2>2, ClientAssumption DEF Perform, TypeOK
    <3>2. BitsIn(Effect(bank, call[c]))
      BY <3>1, EffectBits DEF BitTables
    <3> QED  BY <2>2, <3>2 DEF Perform, BitTables
  <2>3. ASSUME NEW c \in Client, Return(c)
        PROVE  BitTables'
    BY <2>3 DEF Return, BitTables
  <2>4. CASE UNCHANGED vars
    BY <2>4 DEF vars, BitTables
  <2> QED  BY <2>1, <2>2, <2>3, <2>4 DEF Next
<1> QED  BY <1>1, <1>2, TypeCorrect, PTL DEF Spec

-----------------------------------------------------------------------------
(***************************************************************************)
(* Acknowledged writes.                                                    *)
(***************************************************************************)

\* A value that is taken is stored, when no value ended the loop.
LEMMA TakenStored ==
  ASSUME NEW b \in Banks, NEW r \in Request, r.op \in {"set", "write"}, Admitted(r),
         \A j \in DOMAIN r.values : Takes(r, j) \/ Skips(r),
         NEW i \in DOMAIN r.values, Takes(r, i)
  PROVE  /\ r.addr + i - 1 \in Addr
         /\ Effect(b, r)[r.slave][r.table][r.addr + i - 1] = r.values[i]
<1> DEFINE n == Len(r.values)
           x == r.addr + i - 1
<1>1. r.values \in Seq(Word) /\ n \in Nat /\ i \in 1 .. n /\ DOMAIN r.values = 1 .. n
  BY DEF Request
<1>2. /\ r.slave \in Slave /\ RelaySlave \in Slave /\ r.table \in Table
      /\ r.addr \in Nat /\ LastAddr \in Nat
  BY StoreAssumption DEF Request, Addr
<1>3. i \in Taken(r) \cap 1 .. n
  <2>1. \A j \in 1 .. i : j \in 1 .. n
    BY <1>1
  <2> QED  BY <1>1, <2>1 DEF Taken
<1>4. x \in Addr
  <2>1. r.addr + n <= LastAddr + 1
    BY DEF Admitted, InRange
  <2> QED  BY <1>1, <1>2, <2>1 DEF Addr
<1>5. Effect(b, r) = EffectUpTo(b, r, n)
  BY DEF Effect, Rounds
<1>6. CASE ~ToRelay(r)
  <2>1. x - r.addr + 1 = i
    BY <1>1, <1>2
  <2> HIDE DEF n, x
  <2>2. EffectUpTo(b, r, n)[r.slave][r.table][x] =
          IF r.slave = r.slave /\ r.table = r.table /\ x - r.addr + 1 \in Taken(r) \cap 1 .. n
          THEN r.values[x - r.addr + 1] ELSE b[r.slave][r.table][x]
    BY <1>1, <1>2, <1>4, <1>6, EffectCell
  <2> QED  BY <1>3, <1>4, <1>5, <2>1, <2>2 DEF x
<1>7. CASE ToRelay(r)
  <2>1. r.table \in {"coil", "holding"} /\ r.slave = RelaySlave /\ r.op = "write"
    BY <1>7 DEF Admitted, ToRelay
  <2>2. Source(r, r.table, x) = i
    BY <1>1, <1>2, <2>1, ChannelFacts DEF Source
  <2>3. r.values[i] \in {On(r.table), Off(r.table)}
    BY <1>3, <1>7, RelayTakesChannels
  <2>4. EffectUpTo(b, r, n)[RelaySlave][r.table][x] =
          IF RelaySlave = RelaySlave /\ r.table \in {"coil", "holding"}
             /\ Source(r, r.table, x) \in Taken(r) \cap 1 .. n
          THEN IF r.values[Source(r, r.table, x)] = On(r.table) THEN On(r.table) ELSE Off(r.table)
          ELSE b[RelaySlave][r.table][x]
    BY <1>1, <1>2, <1>4, <1>7, <2>1, EffectCell
  <2> QED  BY <1>3, <1>4, <1>5, <2>1, <2>2, <2>3, <2>4
<1> QED  BY <1>6, <1>7

\* A call that answers without an error has taken all of its values, or
\* skips the others.
LEMMA NoneRefused ==
  ASSUME NEW b, NEW r \in Request, r.op \in {"set", "write"}, Outcome(b, r).ok
  PROVE  Admitted(r) /\ \A j \in DOMAIN r.values : Takes(r, j) \/ Skips(r)
<1>1. Admitted(r) /\ \A j \in 1 .. Rounds(r) : ~RoundFails(b, r, j)
  BY DEF Outcome
<1>2. Rounds(r) = Len(r.values) /\ DOMAIN r.values = 1 .. Len(r.values)
  BY DEF Rounds, Request
<1> QED  BY <1>1, <1>2 DEF RoundFails

\* Without skipping, all of them are in the banks.
LEMMA AcknowledgedStores ==
  ASSUME NEW b \in Banks, NEW r \in Request, r.op \in {"set", "write"}, ~Skips(r),
         Outcome(b, r).ok, NEW i \in DOMAIN r.values
  PROVE  Effect(b, r)[r.slave][r.table][r.addr + i - 1] = r.values[i]
BY NoneRefused, TakenStored

(***************************************************************************)
(* No acknowledged write is a partial one (store.go:115, 136, 149): an     *)
(* error, wherever in the values, always reaches the caller, except from   *)
(* the relay of a lenient store.                                           *)
(***************************************************************************)
THEOREM AcknowledgedWritesApplied == Spec => AckedWriteApplied
<1>1. TypeOK /\ [Next]_vars =>
        [\A c \in Client :
           /\ Acknowledged(c)
           /\ call[c].op \in {"set", "write"} /\ ~Skips(call[c])
           => Stored(call[c])]_vars
  <2> SUFFICES ASSUME TypeOK, Next, NEW c \in Client, Acknowledged(c),
                      call[c].op \in {"set", "write"}, ~Skips(call[c])
               PROVE  Stored(call[c])
    BY DEF Acknowledged
  <2>1. Perform(c)
    <3>1. reply[c] = NoReply /\ reply'[c] # NoReply
      BY DEF Acknowledged
    <3>2. \A d \in Client, r \in Requests : ~Invoke(d, r)
      BY <3>1 DEF Invoke
    <3>3. \A d \in Client : ~Return(d)
      BY <3>1 DEF Return, TypeOK
    <3>4. \A d \in Client : Perform(d) => d = c
      BY <3>1 DEF Perform, TypeOK
    <3> QED  BY <3>2, <3>3, <3>4 DEF Next
  <2>2. call[c] \in Request /\ bank \in Banks
    BY <2>1, ClientAssumption DEF Perform, TypeOK
  <2>3. bank' = Effect(bank, call[c]) /\ Outcome(bank, call[c]).ok
    BY <2>1 DEF Perform, Acknowledged, TypeOK
  <2> QED  BY <2>2, <2>3, AcknowledgedStores DEF Stored
<1> QED  BY <1>1, TypeCorrect, PTL DEF Spec, AckedWriteApplied

-----------------------------------------------------------------------------
(***************************************************************************)
(* The control API.                                                        *)
(***************************************************************************)

\* A goroutine that is past the checks is at one of the calls of its plan.
OnPlan ==
  /\ at \in [Client -> Nat]
  /\ DOMAIN job = Client
  /\ \A c \in Client : at[c] # 0 =>
       /\ job[c] \in Jobs[c]
       /\ Gate(job[c]) = OK
       /\ at[c] \in 1 .. Len(Plan(job[c]))

\* A reset is a call per range and one for the relay.
LEMMA ResetShape == DOMAIN Reset = 1 .. Len(LabRanges) + 1 /\ Len(Reset) = Len(LabRanges) + 1
<1> DEFINE n == Len(LabRanges) + 1
<1>1. n \in Nat
  BY StoreAssumption
<1>2. Reset = [i \in 1 .. n |-> Reset[i]]
  BY DEF Reset
<1>3. Reset \in Seq({Reset[i] : i \in 1 .. n}) /\ DOMAIN Reset = 1 .. n
  BY <1>1, <1>2
<1> QED  BY <1>1, <1>3

\* A plan is a sequence of one call or more.
LEMMA PlanIsSequence ==
  ASSUME NEW j \in Job
  PROVE  /\ Len(Plan(j)) \in Nat \ {0}
         /\ DOMAIN Plan(j) = 1 .. Len(Plan(j))
<1>1. Len(LabRanges) \in Nat
  BY StoreAssumption
<1>2. CASE j.kind = "get"
  <2>1. Plan(j) = <<[j.body EXCEPT !.op = "read"]>>
    BY <1>2 DEF Plan
  <2> QED  BY <2>1
<1>3. CASE j.kind \in {"patch", "simulate"}
  <2>1. Plan(j) = <<Change(j), ReadBack(j.body)>>
    BY <1>3 DEF Plan
  <2> QED  BY <2>1
<1>4. CASE j.kind = "reset"
  <2>1. Plan(j) = Reset
    BY <1>4 DEF Plan
  <2> QED  BY <1>1, <2>1, ResetShape
<1>5. CASE j.kind = "slave"
  <2>1. Plan(j) = <<j.body>>
    BY <1>5 DEF Plan
  <2> QED  BY <2>1
<1> QED  BY <1>2, <1>3, <1>4, <1>5 DEF Job

\* The calls of a plan are among those that Store allows.
LEMMA PlanInRequests ==
  ASSUME NEW c \in Client, NEW j \in Jobs[c], Gate(j) = OK, NEW i \in 1 .. Len(Plan(j))
  PROVE  Plan(j)[i] \in Requests
<1>1. j \in Job
  BY ControlAssumption
<1> QED  BY <1>1, PlanIsSequence, ControlAssumption

-----------------------------------------------------------------------------
\* OnPlan holds throughout.
THEOREM StaysOnPlan == ControlSpec => []OnPlan
<1>1. ControlInit => OnPlan
  BY DEF ControlInit, OnPlan
<1>2. OnPlan /\ [ControlNext]_cvars => OnPlan'
  <2> SUFFICES ASSUME OnPlan, [ControlNext]_cvars PROVE OnPlan'
    OBVIOUS
  <2>1. ASSUME NEW c \in Client, NEW j \in Jobs[c], Refuse(c, j) PROVE OnPlan'
    <3>1. at[c] = 0
      BY <2>1, ControlAssumption DEF OnPlan, Refuse
    <3> QED  BY <2>1, <3>1 DEF OnPlan, Refuse
  <2>2. ASSUME NEW c \in Client, NEW j \in Jobs[c], Begin(c, j) PROVE OnPlan'
    <3>1. j \in Job
      BY ControlAssumption
    <3>2. 1 \in 1 .. Len(Plan(j))
      BY <3>1, PlanIsSequence
    <3>3. /\ Gate(j) = OK
          /\ job' = [job EXCEPT ![c] = j]
          /\ at' = [at EXCEPT ![c] = 1]
      BY <2>2 DEF Begin
    <3> QED  BY <3>2, <3>3 DEF OnPlan
  <2>3. ASSUME NEW c \in Client, Work(c) PROVE OnPlan'
    BY <2>3 DEF OnPlan, Work
  <2>4. ASSUME NEW c \in Client, GoOn(c) PROVE OnPlan'
    <3>1. Len(Plan(job[c])) \in Nat
      BY <2>4, ControlAssumption, PlanIsSequence DEF OnPlan, GoOn
    <3>2. at[c] + 1 \in 1 .. Len(Plan(job[c]))
      BY <2>4, <3>1 DEF OnPlan, GoOn
    <3> QED  BY <2>4, <3>2 DEF OnPlan, GoOn
  <2>5. ASSUME NEW c \in Client, NextCall(c) PROVE OnPlan'
    BY <2>5 DEF OnPlan, NextCall, handlers
  <2>6. ASSUME NEW c \in Client, Done(c) PROVE OnPlan'
    BY <2>6 DEF OnPlan, Done
  <2>7. ASSUME NEW c \in Client, Respond(c) PROVE OnPlan'
    BY <2>7 DEF OnPlan, Respond
  <2>8. CASE UNCHANGED cvars
    BY <2>8 DEF OnPlan, cvars, handlers
  <2> QED  BY <2>1, <2>2, <2>3, <2>4, <2>5, <2>6, <2>7, <2>8 DEF ControlNext
<1> QED  BY <1>1, <1>2, PTL DEF ControlSpec

(***************************************************************************)
(* The control API implements Store: to the registers its handlers are     *)
(* nothing but callers of the store.                                       *)
(***************************************************************************)
THEOREM HandlersAreCallers == ControlSpec => Spec
<1>1. ControlInit => Init
  BY DEF ControlInit
<1>2. OnPlan /\ [ControlNext]_cvars => [Next]_vars
  <2> SUFFICES ASSUME OnPlan, [ControlNext]_cvars PROVE [Next]_vars
    OBVIOUS
  <2>1. ASSUME NEW c \in Client, NEW j \in Jobs[c], Refuse(c, j) PROVE UNCHANGED vars
    BY <2>1 DEF Refuse
  <2>2. ASSUME NEW c \in Client, NEW j \in Jobs[c], Begin(c, j) PROVE Next
    <3>1. 1 \in 1 .. Len(Plan(j))
      BY ControlAssumption, PlanIsSequence
    <3>2. Plan(j)[1] \in Requests
      BY <2>2, <3>1, PlanInRequests DEF Begin
    <3> QED  BY <2>2, <3>2 DEF Begin, Next
  <2>3. ASSUME NEW c \in Client, Work(c) PROVE Next
    BY <2>3 DEF Work, Next
  <2>4. ASSUME NEW c \in Client, GoOn(c) \/ Done(c) PROVE Next
    BY <2>4 DEF GoOn, Done, Next
  <2>5. ASSUME NEW c \in Client, NextCall(c) PROVE Next
    <3>1. Plan(job[c])[at[c]] \in Requests
      BY <2>5, PlanInRequests DEF NextCall, OnPlan
    <3> QED  BY <2>5, <3>1 DEF NextCall, Next
  <2>6. ASSUME NEW c \in Client, Respond(c) PROVE UNCHANGED vars
    BY <2>6 DEF Respond
  <2>7. CASE UNCHANGED cvars
    BY <2>7 DEF cvars
  <2> QED  BY <2>1, <2>2, <2>3, <2>4, <2>5, <2>6, <2>7 DEF ControlNext
<1> QED  BY <1>1, <1>2, StaysOnPlan, PTL DEF ControlSpec, Spec

(***************************************************************************)
(* Hence the relay's two views agree whatever PATCHes, resets and slaves'  *)
(* writes are in progress.                                                 *)
(***************************************************************************)
THEOREM RelayUnderControl == ControlSpec => []RelaySync
BY HandlersAreCallers, RelaySynchronized, PTL

-----------------------------------------------------------------------------
(***************************************************************************)
(* What a goroutine has at hand fits the request it works on.              *)
(***************************************************************************)
HandlerType ==
  /\ DOMAIN answer = Client /\ DOMAIN dirty = Client
  /\ ControlTypeOK

\* The cells a call stores to are cells, and those of a request are its own.
LEMMA StoredCells == \A r \in Requests : Stores[r] = Mapped(Effect(NoBanks, r)) /\ Stores[r] \subseteq Cells
BY DEF Stores, Mapped

\* HandlerType holds throughout.
LEMMA HandlerTypes == ControlSpec => []HandlerType
<1>1. ControlInit => HandlerType
  <2>1. Init => TypeOK
    BY SeededBanksType DEF Init, TypeOK
  <2> QED  BY <2>1 DEF ControlInit, HandlerType, ControlTypeOK, Init
<1>2. OnPlan /\ TypeOK' /\ HandlerType /\ [ControlNext]_cvars => HandlerType'
  <2> SUFFICES ASSUME OnPlan, TypeOK', HandlerType, [ControlNext]_cvars PROVE HandlerType'
    OBVIOUS
  <2>0. /\ DOMAIN job = Client /\ DOMAIN at = Client /\ DOMAIN answer = Client /\ DOMAIN dirty = Client
        /\ DOMAIN call = Client /\ DOMAIN reply = Client
    BY DEF OnPlan, HandlerType, ControlTypeOK, TypeOK
  <2>1. ASSUME NEW c \in Client, NEW j \in Jobs[c], Refuse(c, j) PROVE HandlerType'
    <3>1. j # NoJob
      BY ControlAssumption
    <3> QED  BY <2>0, <2>1, <3>1 DEF HandlerType, ControlTypeOK, Refuse, vars
  <2>2. ASSUME NEW c \in Client, NEW j \in Jobs[c], Begin(c, j) PROVE HandlerType'
    <3>1. j # NoJob /\ 1 \in DOMAIN Plan(j)
      BY ControlAssumption, PlanIsSequence
    <3> QED  BY <2>0, <2>2, <3>1 DEF HandlerType, ControlTypeOK, Begin, Invoke
  <2>3. ASSUME NEW c \in Client, Work(c) PROVE HandlerType'
    <3>1. call[c] \in Requests
      BY <2>3 DEF HandlerType, ControlTypeOK, TypeOK, Work, Perform
    <3>2. \A d \in Client : dirty'[d] \subseteq Cells
      BY <2>0, <2>3, <3>1, StoredCells DEF HandlerType, ControlTypeOK, Work
    <3>3. DOMAIN dirty' = Client
      BY <2>3 DEF Work
    <3> QED  BY <2>0, <2>3, <3>2, <3>3 DEF HandlerType, ControlTypeOK, Work, Perform
  <2>4. ASSUME NEW c \in Client, GoOn(c) PROVE HandlerType'
    <3>1. call[c] # NoCall
      BY <2>4 DEF GoOn, Return, HandlerType, ControlTypeOK, TypeOK
    <3> QED  BY <2>0, <2>4, <3>1 DEF HandlerType, ControlTypeOK, GoOn, Return
  <2>5. ASSUME NEW c \in Client, NextCall(c) PROVE HandlerType'
    <3>1. job[c] # NoJob /\ at[c] \in DOMAIN Plan(job[c])
      <4>1. job[c] \in Jobs[c] /\ at[c] \in 1 .. Len(Plan(job[c]))
        BY <2>5 DEF NextCall, OnPlan
      <4> QED  BY <4>1, ControlAssumption, PlanIsSequence
    <3> QED  BY <2>0, <2>5, <3>1 DEF HandlerType, ControlTypeOK, NextCall, Invoke, handlers
  <2>6. ASSUME NEW c \in Client, Done(c) PROVE HandlerType'
    <3>1. call[c] # NoCall
      BY <2>6 DEF Done, Return, HandlerType, ControlTypeOK, TypeOK
    <3>2. PICK a : answer' = [answer EXCEPT ![c] = a]
      BY <2>6, Zenon DEF Done
    <3>3. DOMAIN answer' = Client /\ \A d \in Client \ {c} : answer'[d] = answer[d]
      BY <2>0, <3>2
    <3>4. UNCHANGED <<job, at, dirty>>
      BY <2>6 DEF Done
    <3>5. call' = [call EXCEPT ![c] = NoCall]
      BY <2>6 DEF Done, Return
    <3> QED  BY <2>0, <3>1, <3>3, <3>4, <3>5 DEF HandlerType, ControlTypeOK
  <2>7. ASSUME NEW c \in Client, Respond(c) PROVE HandlerType'
    BY <2>0, <2>7 DEF HandlerType, ControlTypeOK, Respond, vars
  <2>8. CASE UNCHANGED cvars
    BY <2>8 DEF HandlerType, ControlTypeOK, cvars, vars, handlers
  <2> QED  BY <2>1, <2>2, <2>3, <2>4, <2>5, <2>6, <2>7, <2>8 DEF ControlNext
<1> QED  BY <1>1, <1>2, StaysOnPlan, HandlersAreCallers, TypeCorrect, PTL DEF ControlSpec

(***************************************************************************)
(* Every variable has its type, and a goroutine in a call is at that call  *)
(* of its plan.                                                            *)
(***************************************************************************)
THEOREM ControlTypeCorrect == ControlSpec => []ControlTypeOK
<1>1. HandlerType => ControlTypeOK
  BY DEF HandlerType
<1> QED  BY <1>1, HandlerTypes, PTL

-----------------------------------------------------------------------------
(***************************************************************************)
(* Which cells a call stores to, and what: neither depends on the banks.   *)
(***************************************************************************)
Value(b, z) == b[z[1]][z[2]][z[3]]
Touched(r) == Mapped(Effect(NoBanks, r))

\* The empty store, cell by cell.
LEMMA Empty ==
  /\ NoBanks \in Banks
  /\ \A s \in Slave, t \in Table, x \in Addr : NoBanks[s][t][x] = Unmapped
BY DEF NoBanks, Banks, Cell

\* A call leaves a cell alone, or stores a value that the call determines.
LEMMA CallCell ==
  ASSUME NEW b \in Banks, NEW r \in Request, NEW s \in Slave, NEW t \in Table, NEW x \in Addr
  PROVE  \/ Effect(b, r)[s][t][x] = b[s][t][x] /\ Effect(NoBanks, r)[s][t][x] = Unmapped
         \/ /\ Effect(b, r)[s][t][x] = Effect(NoBanks, r)[s][t][x]
            /\ Effect(NoBanks, r)[s][t][x] # Unmapped
<1> DEFINE n == Rounds(r)
           e == EffectUpTo(b, r, n)[s][t][x]
           f == EffectUpTo(NoBanks, r, n)[s][t][x]
<1>1. n \in Nat /\ NoBanks \in Banks /\ NoBanks[s][t][x] = Unmapped
  BY RoundsType, Empty
<1>2. r.op \in {"read", "set", "write", "relay"} /\ (r.op \in {"read", "relay"} => ~ToRelay(r))
  BY DEF Request, ToRelay
<1>3. On(t) # Unmapped /\ Off(t) # Unmapped
  BY StoreAssumption DEF On, Off
<1>4. \A i \in Taken(r) : r.values[i] # Unmapped
  <2>1. r.values \in Seq(Word) /\ Unmapped \notin Word
    BY StoreAssumption DEF Request
  <2> QED  BY <2>1, TakenInDomain
<1>5. CASE Admitted(r)
  <2> SUFFICES \/ e = b[s][t][x] /\ f = Unmapped
               \/ e = f /\ f # Unmapped
    BY <1>5 DEF Effect
  <2> HIDE DEF n
  <2>1. CASE r.op = "read"
    <3>1. e = b[s][t][x] /\ f = NoBanks[s][t][x]
      BY <1>1, <1>2, <2>1, EffectCell
    <3> QED  BY <1>1, <3>1
  <2>2. CASE r.op = "relay"
    <3> DEFINE stores == s = RelaySlave /\ t \in {"coil", "holding"} /\ x \in Start(t) .. Start(t) + n - 1
    <3>1. e = IF stores THEN Off(t) ELSE b[s][t][x]
      BY <1>1, <1>2, <2>2, EffectCell
    <3>2. f = IF stores THEN Off(t) ELSE NoBanks[s][t][x]
      BY <1>1, <1>2, <2>2, EffectCell
    <3> QED  BY <1>1, <1>3, <3>1, <3>2
  <2>3. CASE r.op \in {"set", "write"} /\ ~ToRelay(r)
    <3> DEFINE stores == s = r.slave /\ t = r.table /\ x - r.addr + 1 \in Taken(r) \cap 1 .. n
    <3>1. e = IF stores THEN r.values[x - r.addr + 1] ELSE b[s][t][x]
      BY <1>1, <2>3, EffectCell
    <3>2. f = IF stores THEN r.values[x - r.addr + 1] ELSE NoBanks[s][t][x]
      BY <1>1, <2>3, EffectCell
    <3> QED  BY <1>1, <1>4, <3>1, <3>2
  <2>4. CASE ToRelay(r)
    <3> DEFINE stores == s = RelaySlave /\ t \in {"coil", "holding"} /\ Source(r, t, x) \in Taken(r) \cap 1 .. n
               v == IF r.values[Source(r, t, x)] = On(r.table) THEN On(t) ELSE Off(t)
    <3>0. r.op = "write"
      BY <2>4 DEF ToRelay
    <3>1. e = IF stores THEN v ELSE b[s][t][x]
      BY <1>1, <2>4, <3>0, EffectCell
    <3>2. f = IF stores THEN v ELSE NoBanks[s][t][x]
      BY <1>1, <2>4, <3>0, EffectCell
    <3> QED  BY <1>1, <1>3, <3>1, <3>2
  <2> QED  BY <1>2, <2>1, <2>2, <2>3, <2>4
<1>6. CASE ~Admitted(r)
  BY <1>1, <1>6 DEF Effect
<1> QED  BY <1>5, <1>6

\* The same, of the cells as the handlers see them.
LEMMA CallValue ==
  ASSUME NEW b \in Banks, NEW r \in Request, NEW z \in Cells
  PROVE  /\ z \in Touched(r) => /\ Value(Effect(b, r), z) = Value(Effect(NoBanks, r), z)
                                /\ Value(Effect(b, r), z) # Unmapped
         /\ z \notin Touched(r) => Value(Effect(b, r), z) = Value(b, z)
<1>1. z[1] \in Slave /\ z[2] \in Table /\ z[3] \in Addr
  BY DEF Cells
<1>2. z \in Touched(r) <=> Effect(NoBanks, r)[z[1]][z[2]][z[3]] # Unmapped
  BY DEF Touched, Mapped
<1> QED  BY <1>1, <1>2, CallCell DEF Value

\* A cell that exists does not cease to.
LEMMA StaysMapped ==
  ASSUME NEW b \in Banks, NEW r \in Request, NEW z \in Cells, Value(b, z) # Unmapped
  PROVE  Value(Effect(b, r), z) # Unmapped
BY CallValue

-----------------------------------------------------------------------------
(***************************************************************************)
(* The calls of a reset together store the banks the program starts with.  *)
(***************************************************************************)
RelayCell(s, t, x) ==
  s = RelaySlave /\ t \in {"coil", "holding"} /\ x \in Start(t) .. Start(t) + Channels - 1

\* The call for one range stores that range.
LEMMA RangeCall ==
  ASSUME NEW i \in DOMAIN LabRanges, NEW s \in Slave, NEW t \in Table, NEW x \in Addr
  PROVE  /\ LabRequest(i) \in Request
         /\ Effect(NoBanks, LabRequest(i))[s][t][x] =
              IF Covers(i, s, t, x) THEN LabRanges[i].values[x - LabRanges[i].addr + 1] ELSE Unmapped
<1> DEFINE r == LabRequest(i)
           vs == LabRanges[i].values
<1>1. /\ LabRanges[i] \in LabRange
      /\ LabRanges[i].slave \in ValidSlave \ {RelaySlave}
      /\ vs # << >>
      /\ LabRanges[i].addr + Len(vs) <= LastAddr + 1
      /\ LabRanges[i].table \in {"coil", "discrete"} => \A j \in DOMAIN vs : vs[j] <= 1
  BY StoreAssumption
<1>2. /\ r.op = "set" /\ r.table = LabRanges[i].table /\ r.slave = LabRanges[i].slave
      /\ r.addr = LabRanges[i].addr /\ r.values = vs
  BY DEF LabRequest
<1>3. r \in Request
  BY <1>1 DEF LabRequest, LabRange, Request
<1>4. ~ToRelay(r) /\ ~Skips(r) /\ Admitted(r)
  BY <1>1, <1>2 DEF ToRelay, Skips, Admitted, InRange
<1>5. \A j \in DOMAIN vs : Takes(r, j)
  BY <1>1, <1>2, <1>4 DEF Takes
<1>6. vs \in Seq(Word) /\ DOMAIN vs = 1 .. Len(vs) /\ Len(vs) \in Nat
  BY <1>1 DEF LabRange
<1>7. Rounds(r) = Len(vs)
  BY <1>2 DEF Rounds
<1>8. Taken(r) \cap 1 .. Rounds(r) = DOMAIN vs
  <2>1. \A k \in 1 .. Len(vs) : \A j \in 1 .. k : j \in 1 .. Len(vs)
    BY <1>6
  <2>2. Taken(r) = DOMAIN vs
    BY <1>2, <1>4, <1>5, <1>6, <2>1 DEF Taken
  <2> QED  BY <1>6, <1>7, <2>2
<1>9. EffectUpTo(NoBanks, r, Rounds(r))[s][t][x] =
        IF s = r.slave /\ t = r.table /\ x - r.addr + 1 \in Taken(r) \cap 1 .. Rounds(r)
        THEN r.values[x - r.addr + 1] ELSE NoBanks[s][t][x]
  <2>1. Rounds(r) \in Nat /\ NoBanks \in Banks
    BY <1>6, <1>7, Empty
  <2> HIDE DEF r
  <2> QED  BY <1>2, <1>3, <1>4, <2>1, EffectCell
<1>10. Effect(NoBanks, r)[s][t][x] =
        IF Covers(i, s, t, x) THEN vs[x - LabRanges[i].addr + 1] ELSE Unmapped
  BY <1>2, <1>4, <1>8, <1>9, Empty DEF Effect, Covers
<1> QED  BY <1>3, <1>10

\* The call for the relay switches its channels off.
LEMMA RelayCall ==
  ASSUME NEW b \in Banks, NEW s \in Slave, NEW t \in Table, NEW x \in Addr
  PROVE  /\ EnableRelay \in Request
         /\ Effect(b, EnableRelay)[s][t][x] = IF RelayCell(s, t, x) THEN Off(t) ELSE b[s][t][x]
<1>1. EnableRelay \in Request
  BY StoreAssumption DEF EnableRelay, Request, Table
<1>2. EnableRelay.op = "relay" /\ ~ToRelay(EnableRelay) /\ Channels \in Nat
  BY StoreAssumption DEF EnableRelay, ToRelay
<1>3. Effect(b, EnableRelay) = EffectUpTo(b, EnableRelay, Channels)
  BY <1>2 DEF Effect, Admitted, Rounds
<1>4. EffectUpTo(b, EnableRelay, Channels)[s][t][x] =
        IF s = RelaySlave /\ t \in {"coil", "holding"} /\ x \in Start(t) .. Start(t) + Channels - 1
        THEN Off(t) ELSE b[s][t][x]
  BY <1>1, <1>2, EffectCell
<1> QED  BY <1>1, <1>3, <1>4 DEF RelayCell

\* The banks the program starts with, cell by cell.
LEMMA LabValue ==
  ASSUME NEW s \in Slave, NEW t \in Table, NEW x \in Addr
  PROVE  LabBanks[s][t][x] = IF RelayCell(s, t, x) THEN Off(t) ELSE LabCell(s, t, x)
<1> DEFINE b == [u \in Slave |-> [v \in Table |-> [y \in Addr |-> LabCell(u, v, y)]]]
<1>1. b \in Banks /\ b[s][t][x] = LabCell(s, t, x)
  BY LabCellType DEF Banks
<1>2. LabBanks = Effect(b, EnableRelay)
  BY DEF LabBanks, SeededBanks, Effect, Admitted, Rounds, EnableRelay
<1> HIDE DEF b
<1> QED  BY <1>1, <1>2, RelayCall

\* What a range covers is the range's, whatever comes first.
LEMMA LabCellOf ==
  ASSUME NEW i \in DOMAIN LabRanges, NEW s \in Slave, NEW t \in Table, NEW x \in Addr, Covers(i, s, t, x)
  PROVE  /\ LabCell(s, t, x) = LabRanges[i].values[x - LabRanges[i].addr + 1]
         /\ LabCell(s, t, x) # Unmapped
         /\ ~RelayCell(s, t, x)
<1> DEFINE k == CHOOSE k \in DOMAIN LabRanges : Covers(k, s, t, x)
<1>1. k \in DOMAIN LabRanges /\ Covers(k, s, t, x)
  OBVIOUS
<1>2. k = i
  BY <1>1, StoreAssumption
<1>3. LabCell(s, t, x) = LabRanges[i].values[x - LabRanges[i].addr + 1]
  BY <1>2 DEF LabCell
<1>4. LabRanges[i] \in LabRange /\ LabRanges[i].slave # RelaySlave
  BY StoreAssumption
<1>5. LabRanges[i].values[x - LabRanges[i].addr + 1] # Unmapped
  BY <1>4, StoreAssumption DEF LabRange, Covers
<1>6. ~RelayCell(s, t, x)
  BY <1>4 DEF RelayCell, Covers
<1> QED  BY <1>3, <1>5, <1>6

\* No call of a reset stores anything but first values,
LEMMA ResetCall ==
  ASSUME NEW i \in DOMAIN Reset
  PROVE  /\ Reset[i] \in Request
         /\ \A z \in Touched(Reset[i]) : Value(Effect(NoBanks, Reset[i]), z) = Value(LabBanks, z)
<1> SUFFICES ASSUME NEW s \in Slave, NEW t \in Table, NEW x \in Addr,
                    Effect(NoBanks, Reset[i])[s][t][x] # Unmapped
             PROVE  Effect(NoBanks, Reset[i])[s][t][x] = LabBanks[s][t][x]
  <2>1. Reset[i] \in Request
    <3>1. Reset[i] = EnableRelay \/ \E k \in DOMAIN LabRanges : Reset[i] = LabRequest(k)
      BY ResetShape, StoreAssumption DEF Reset
    <3>2. EnableRelay \in Request
      BY StoreAssumption DEF EnableRelay, Request, Table
    <3>3. ASSUME NEW k \in DOMAIN LabRanges
          PROVE  LabRequest(k) \in Request
      <4>1. LabRanges[k] \in LabRange
        BY StoreAssumption
      <4> QED  BY <4>1 DEF LabRequest, LabRange, Request
    <3> QED  BY <3>1, <3>2, <3>3
  <2> QED  BY <2>1 DEF Touched, Mapped, Cells, Value
<1>1. CASE i <= Len(LabRanges)
  <2>1. i \in DOMAIN LabRanges /\ Reset[i] = LabRequest(i)
    BY <1>1, ResetShape, StoreAssumption DEF Reset
  <2>2. Covers(i, s, t, x)
    BY <2>1, RangeCall
  <2> QED  BY <2>1, <2>2, RangeCall, LabCellOf, LabValue
<1>2. CASE ~(i <= Len(LabRanges))
  <2>1. Reset[i] = EnableRelay
    BY <1>2, ResetShape DEF Reset
  <2>2. RelayCell(s, t, x)
    BY <2>1, RelayCall, Empty
  <2> QED  BY <2>1, <2>2, RelayCall, LabValue, Empty
<1> QED  BY <1>1, <1>2

\* and every cell of the lab is stored to by one of them.
LEMMA ResetCovers ==
  ASSUME NEW z \in LabCells
  PROVE  \E i \in DOMAIN Reset : z \in Touched(Reset[i])
<1> DEFINE s == z[1]
           t == z[2]
           x == z[3]
<1>1. z \in Cells /\ s \in Slave /\ t \in Table /\ x \in Addr /\ LabBanks[s][t][x] # Unmapped
  BY DEF LabCells, Mapped, Cells
<1>2. \A r : Effect(NoBanks, r)[s][t][x] # Unmapped => z \in Touched(r)
  BY <1>1 DEF Touched, Mapped
<1> HIDE DEF s, t, x
<1>3. CASE RelayCell(s, t, x)
  <2>1. Effect(NoBanks, EnableRelay)[s][t][x] = Off(t)
    BY <1>1, <1>3, RelayCall, Empty
  <2>2. Off(t) # Unmapped
    BY StoreAssumption DEF Off
  <2>3. Len(LabRanges) + 1 \in DOMAIN Reset /\ Reset[Len(LabRanges) + 1] = EnableRelay
    BY ResetShape, StoreAssumption DEF Reset
  <2> QED  BY <1>2, <2>1, <2>2, <2>3
<1>4. CASE ~RelayCell(s, t, x)
  <2>1. LabCell(s, t, x) # Unmapped
    BY <1>1, <1>4, LabValue
  <2>2. PICK i \in DOMAIN LabRanges : Covers(i, s, t, x)
    BY <2>1 DEF LabCell
  <2>3. Effect(NoBanks, LabRequest(i))[s][t][x] # Unmapped
    BY <1>1, <2>2, RangeCall, LabCellOf
  <2>4. i \in DOMAIN Reset /\ Reset[i] = LabRequest(i)
    BY ResetShape, StoreAssumption DEF Reset
  <2> QED  BY <1>2, <2>3, <2>4
<1> QED  BY <1>3, <1>4

-----------------------------------------------------------------------------
(***************************************************************************)
(* What a handler may rely on while others work.                           *)
(***************************************************************************)
Step(c) ==
  \/ \E j \in Jobs[c] : Refuse(c, j) \/ Begin(c, j)
  \/ Work(c) \/ GoOn(c) \/ NextCall(c) \/ Done(c) \/ Respond(c)

\* A step of another goroutine leaves a handler where it is; the cells of
\* the handler's scope keep their values or are marked, and stay mapped.
LEMMA Aside ==
  ASSUME OnPlan, HandlerType, NEW c \in Client, NEW d \in Client \ {c}, Step(c)
  PROVE  /\ job'[d] = job[d] /\ at'[d] = at[d] /\ answer'[d] = answer[d]
         /\ call'[d] = call[d] /\ reply'[d] = reply[d]
         /\ at[d] # 0 =>
              /\ dirty[d] \subseteq dirty'[d]
              /\ \A z \in Cells : /\ z \in Scope(job[d]) \ dirty'[d] => Value(bank', z) = Value(bank, z)
                                  /\ Value(bank, z) # Unmapped => Value(bank', z) # Unmapped
<1>1. CASE Work(c)
  <2>1. /\ UNCHANGED <<job, at, answer, call>> /\ reply'[d] = reply[d]
        /\ bank' = Effect(bank, call[c])
        /\ at[d] # 0 => dirty'[d] = dirty[d] \cup (Stores[call[c]] \cap Scope(job[d]))
    BY <1>1 DEF Work, Perform
  <2>2. call[c] \in Requests /\ call[c] \in Request /\ bank \in Banks
    BY <1>1, ClientAssumption DEF HandlerType, ControlTypeOK, TypeOK, Work, Perform
  <2>3. Stores[call[c]] = Touched(call[c])
    BY <2>2, StoredCells DEF Touched
  <2>4. ASSUME NEW z \in Cells, at[d] # 0
        PROVE  /\ z \in Scope(job[d]) \ dirty'[d] => Value(bank', z) = Value(bank, z)
               /\ Value(bank, z) # Unmapped => Value(bank', z) # Unmapped
    <3>1. /\ z \notin Touched(call[c]) => Value(bank', z) = Value(bank, z)
          /\ Value(bank, z) # Unmapped => Value(bank', z) # Unmapped
      BY <2>1, <2>2, CallValue, StaysMapped
    <3> QED  BY <2>1, <2>3, <2>4, <3>1
  <2> QED  BY <2>1, <2>4
<1>2. CASE Step(c) /\ ~Work(c)
  <2>0. /\ d \in DOMAIN job /\ d \in DOMAIN at /\ d \in DOMAIN answer /\ d \in DOMAIN dirty
        /\ d \in DOMAIN call /\ d \in DOMAIN reply
    BY DEF OnPlan, HandlerType, ControlTypeOK, TypeOK
  <2> DEFINE Same == /\ job'[d] = job[d] /\ at'[d] = at[d] /\ answer'[d] = answer[d]
                     /\ call'[d] = call[d] /\ reply'[d] = reply[d]
                     /\ bank' = bank /\ dirty'[d] = dirty[d]
  <2>1. ASSUME NEW j \in Jobs[c], Refuse(c, j) PROVE Same
    BY <2>0, <2>1 DEF Refuse, vars
  <2>2. ASSUME NEW j \in Jobs[c], Begin(c, j) PROVE Same
    BY <2>0, <2>2 DEF Begin, Invoke
  <2>3. ASSUME GoOn(c) PROVE Same
    BY <2>0, <2>3 DEF GoOn, Return
  <2>4. ASSUME NextCall(c) PROVE Same
    BY <2>0, <2>4 DEF NextCall, Invoke, handlers
  <2>5. ASSUME Done(c) PROVE Same
    <3>1. PICK a : answer' = [answer EXCEPT ![c] = a]
      BY <2>5, Zenon DEF Done
    <3> QED  BY <2>0, <2>5, <3>1 DEF Done, Return
  <2>6. ASSUME Respond(c) PROVE Same
    BY <2>0, <2>6 DEF Respond, vars
  <2>7. Same
    BY <1>2, <2>1, <2>2, <2>3, <2>4, <2>5, <2>6 DEF Step
  <2> QED  BY <2>7
<1> QED  BY <1>1, <1>2

\* The statuses that the checks answer with.
LEMMA GateStatus ==
  ASSUME NEW j \in Job
  PROVE  Gate(j) \in {OK, 204, 400, 401, 403}
BY DEF Gate, Job, Head0

\* The statuses of a failed call; only that of a simulation's read-back, and
\* of a reset, is 500.
LEMMA FailureStatus ==
  ASSUME NEW j \in Job, NEW n
  PROVE  /\ Failure(j, n) # OK
         /\ j.kind = "patch" \/ (j.kind = "simulate" /\ n = 1) => Failure(j, n) # 500
BY DEF Failure, OK, Job

\* What a handler's own steps do to what is its own.
LEMMA OwnRefuse ==
  ASSUME OnPlan, HandlerType, NEW d \in Client, NEW j \in Jobs[d], Refuse(d, j)
  PROVE  at'[d] = 0 /\ answer'[d].status \notin {OK, 500}
<1>1. at[d] = 0 /\ at' = at
  BY DEF Refuse, HandlerType, ControlTypeOK
<1>2. answer'[d] = Answer(Gate(j), << >>)
  BY DEF Refuse, HandlerType
<1>3. Gate(j) \notin {OK, 500}
  <2>1. j \in Job /\ Gate(j) # OK
    BY ControlAssumption DEF Refuse
  <2> QED  BY <2>1, GateStatus DEF OK
<1> QED  BY <1>1, <1>2, <1>3 DEF Answer

\* A request that passes its checks starts on its plan.
LEMMA OwnBegin ==
  ASSUME OnPlan, HandlerType, NEW d \in Client, NEW j \in Jobs[d], Begin(d, j)
  PROVE  at'[d] = 1 /\ answer'[d] = NoAnswer /\ reply'[d] = NoReply
<1>1. answer' = answer /\ reply' = reply /\ at' = [at EXCEPT ![d] = 1]
  BY DEF Begin, Invoke
<1>2. answer[d] = NoAnswer /\ reply[d] = NoReply
  BY DEF Begin, Invoke, HandlerType, ControlTypeOK, TypeOK
<1> QED  BY <1>1, <1>2 DEF OnPlan

\* A call on the store: the marks of the cells it stores to go.
LEMMA OwnWork ==
  ASSUME OnPlan, HandlerType, NEW d \in Client, Work(d)
  PROVE  LET r == Plan(job[d])[at[d]] IN
         /\ at[d] # 0 /\ call[d] = r /\ r \in Requests /\ r \in Request /\ bank \in Banks
         /\ job' = job /\ at' = at /\ answer' = answer /\ answer[d] = NoAnswer
         /\ reply[d] = NoReply /\ reply'[d] = Outcome(bank, r)
         /\ bank' = Effect(bank, r)
         /\ dirty'[d] = dirty[d] \ Touched(r)
<1>1. call[d] # NoCall /\ reply[d] = NoReply
  BY DEF Work, Perform
<1>2. call[d] \in Requests /\ call[d] \in Request /\ bank \in Banks
  BY <1>1, ClientAssumption DEF HandlerType, ControlTypeOK, TypeOK
<1>3. call[d] = Plan(job[d])[at[d]] /\ answer[d] = NoAnswer /\ job[d] # NoJob
  BY <1>1 DEF HandlerType, ControlTypeOK
<1>4. at[d] # 0
  <2>1. at[d] \in DOMAIN Plan(job[d]) /\ job[d] \in Job
    BY <1>1, <1>3, ControlAssumption DEF HandlerType, ControlTypeOK
  <2> QED  BY <2>1, PlanIsSequence
<1>5. /\ job' = job /\ at' = at /\ answer' = answer /\ bank' = Effect(bank, call[d])
      /\ reply'[d] = Outcome(bank, call[d]) /\ dirty'[d] = dirty[d] \ Stores[call[d]]
  BY DEF Work, Perform, HandlerType, ControlTypeOK, TypeOK
<1>6. Stores[call[d]] = Touched(call[d])
  BY <1>2, StoredCells DEF Touched
<1> QED  BY <1>1, <1>2, <1>3, <1>4, <1>5, <1>6

\* On to the next call of the plan.
LEMMA OwnGoOn ==
  ASSUME OnPlan, HandlerType, NEW d \in Client, GoOn(d)
  PROVE  /\ reply[d] # NoReply /\ Goes(d) /\ at[d] # 0 /\ at[d] < Len(Plan(job[d]))
         /\ job' = job /\ at'[d] = at[d] + 1 /\ answer'[d] = NoAnswer
         /\ reply'[d] = NoReply /\ bank' = bank /\ dirty' = dirty
<1>1. /\ reply[d] # NoReply /\ Goes(d) /\ at[d] # 0 /\ at[d] < Len(Plan(job[d]))
      /\ job' = job /\ answer' = answer /\ bank' = bank /\ dirty' = dirty
  BY DEF GoOn, Return
<1>2. at'[d] = at[d] + 1 /\ reply'[d] = NoReply
  BY DEF GoOn, Return, OnPlan, HandlerType, ControlTypeOK, TypeOK
<1>3. answer[d] = NoAnswer
  BY <1>1 DEF HandlerType, ControlTypeOK, TypeOK
<1> QED  BY <1>1, <1>2, <1>3

\* The last call, or one that failed, gives the answer.
LEMMA OwnDone ==
  ASSUME OnPlan, HandlerType, NEW d \in Client, Done(d)
  PROVE  /\ reply[d] # NoReply /\ at[d] # 0 /\ job[d] \in Jobs[d]
         /\ \/ Goes(d) /\ at[d] = Len(Plan(job[d])) /\ answer'[d] = Answer(OK, reply[d].values)
            \/ ~Goes(d) /\ answer'[d] = Answer(Failure(job[d], at[d]), << >>)
         /\ job' = job /\ at' = at /\ reply'[d] = NoReply /\ bank' = bank /\ dirty' = dirty
<1>1. reply[d] # NoReply /\ job' = job /\ at' = at /\ bank' = bank /\ dirty' = dirty
  BY DEF Done, Return
<1>2. reply'[d] = NoReply
  BY DEF Done, Return, HandlerType, ControlTypeOK, TypeOK
<1>3. at[d] # 0 /\ job[d] \in Jobs[d]
  <2>1. call[d] # NoCall
    BY <1>1 DEF HandlerType, ControlTypeOK, TypeOK
  <2>2. job[d] # NoJob /\ at[d] \in DOMAIN Plan(job[d])
    BY <2>1 DEF HandlerType, ControlTypeOK
  <2>3. job[d] \in Jobs[d] /\ job[d] \in Job
    BY <2>2, ControlAssumption DEF HandlerType, ControlTypeOK
  <2> QED  BY <2>2, <2>3, PlanIsSequence
<1>4. \/ Goes(d) /\ at[d] = Len(Plan(job[d])) /\ answer'[d] = Answer(OK, reply[d].values)
      \/ ~Goes(d) /\ answer'[d] = Answer(Failure(job[d], at[d]), << >>)
  <2>1. CASE Goes(d)
    <3>1. at[d] = Len(Plan(job[d])) /\ answer' = [answer EXCEPT ![d] = Answer(OK, reply[d].values)]
      BY <2>1, Zenon DEF Done
    <3> QED  BY <2>1, <3>1 DEF HandlerType
  <2>2. CASE ~Goes(d)
    <3>1. answer' = [answer EXCEPT ![d] = Answer(Failure(job[d], at[d]), << >>)]
      BY <2>2, Zenon DEF Done
    <3> QED  BY <2>2, <3>1 DEF HandlerType
  <2> QED  BY <2>1, <2>2
<1> QED  BY <1>1, <1>2, <1>3, <1>4

\* The other two: a call is made as the plan says, and the answer is sent.
LEMMA OwnRest ==
  ASSUME OnPlan, HandlerType, NEW d \in Client
  PROVE  /\ NextCall(d) => /\ job' = job /\ at' = at /\ answer' = answer /\ reply' = reply
                           /\ bank' = bank /\ dirty' = dirty
         /\ Respond(d) => at'[d] = 0 /\ answer'[d] = NoAnswer
<1>1. ASSUME NextCall(d)
      PROVE  /\ job' = job /\ at' = at /\ answer' = answer /\ reply' = reply
             /\ bank' = bank /\ dirty' = dirty
  BY <1>1 DEF NextCall, Invoke, handlers
<1>2. ASSUME Respond(d)
      PROVE  at'[d] = 0 /\ answer'[d] = NoAnswer
  BY <1>2 DEF Respond, OnPlan, HandlerType
<1> QED  BY <1>1, <1>2

-----------------------------------------------------------------------------
(***************************************************************************)
(* A reset: the cells of every call it has made so far have their first    *)
(* values or are marked, so when the last call is made all of the lab has. *)
(***************************************************************************)
Performed(d, i) == i < at[d] \/ (i = at[d] /\ (reply[d] # NoReply \/ answer[d] # NoAnswer))

AnswersLast(d) ==
  answer[d] # NoAnswer /\ answer[d].status = OK => at[d] # 0 /\ at[d] = Len(Plan(job[d]))

ResetSoFar(d) ==
  at[d] # 0 /\ job[d].kind = "reset" =>
    \A i \in DOMAIN Reset : Performed(d, i) =>
      \A z \in Touched(Reset[i]) \ dirty[d] : Value(bank, z) = Value(LabBanks, z)

\* A successful answer is given after the last call, by any handler.
LEMMA LastKept ==
  ASSUME OnPlan, HandlerType, NEW c \in Client, NEW d \in Client, Step(c), AnswersLast(d)
  PROVE  AnswersLast(d)'
<1>1. CASE c # d
  <2>1. job'[d] = job[d] /\ at'[d] = at[d] /\ answer'[d] = answer[d]
    BY <1>1, Aside
  <2> QED  BY <2>1 DEF AnswersLast
<1>2. CASE c = d
  <2>1. ASSUME NEW j \in Jobs[d], Refuse(d, j) PROVE AnswersLast(d)'
    BY <2>1, OwnRefuse DEF AnswersLast
  <2>2. ASSUME NEW j \in Jobs[d], Begin(d, j) PROVE AnswersLast(d)'
    BY <2>2, OwnBegin DEF AnswersLast
  <2>3. ASSUME Work(d) PROVE AnswersLast(d)'
    BY <2>3, OwnWork DEF AnswersLast
  <2>4. ASSUME GoOn(d) PROVE AnswersLast(d)'
    BY <2>4, OwnGoOn DEF AnswersLast
  <2>5. ASSUME NextCall(d) PROVE AnswersLast(d)'
    BY <2>5, OwnRest DEF AnswersLast
  <2>6. ASSUME Done(d) PROVE AnswersLast(d)'
    <3>1. /\ job[d] \in Jobs[d] /\ job' = job /\ at' = at /\ at[d] # 0
          /\ \/ at[d] = Len(Plan(job[d]))
             \/ answer'[d] = Answer(Failure(job[d], at[d]), << >>)
      BY <2>6, OwnDone
    <3>2. Failure(job[d], at[d]) # OK
      BY <3>1, ControlAssumption, FailureStatus
    <3> QED  BY <3>1, <3>2 DEF AnswersLast, Answer
  <2>7. ASSUME Respond(d) PROVE AnswersLast(d)'
    BY <2>7, OwnRest DEF AnswersLast
  <2> QED  BY <1>2, <2>1, <2>2, <2>3, <2>4, <2>5, <2>6, <2>7 DEF Step
<1> QED  BY <1>1, <1>2

\* Who has a job of kind "reset" follows Reset.
LEMMA ResetPlan ==
  ASSUME OnPlan, NEW d \in Client, at[d] # 0, job[d].kind = "reset"
  PROVE  /\ Plan(job[d]) = Reset
         /\ at[d] \in DOMAIN Reset
         /\ Scope(job[d]) = LabCells
<1>1. Plan(job[d]) = Reset /\ Scope(job[d]) = LabCells
  BY DEF Plan, Scope
<1>2. at[d] \in 1 .. Len(Plan(job[d]))
  BY DEF OnPlan
<1> QED  BY <1>1, <1>2, ResetShape

\* The cells of a reset's calls are the lab's.
LEMMA ResetCells ==
  ASSUME NEW i \in DOMAIN Reset, NEW z \in Touched(Reset[i])
  PROVE  z \in Cells /\ z \in LabCells
<1>1. z \in Cells /\ Value(Effect(NoBanks, Reset[i]), z) # Unmapped
  BY DEF Touched, Mapped, Value
<1>2. Value(LabBanks, z) # Unmapped
  BY <1>1, ResetCall
<1> QED  BY <1>1, <1>2 DEF LabCells, Mapped, Value

\* Others' calls mark what they store to.
LEMMA ResetAside ==
  ASSUME OnPlan, HandlerType, NEW c \in Client, NEW d \in Client \ {c}, Step(c), ResetSoFar(d)
  PROVE  ResetSoFar(d)'
<1> SUFFICES ASSUME at'[d] # 0, job'[d].kind = "reset",
                    NEW i \in DOMAIN Reset, Performed(d, i)',
                    NEW z \in Touched(Reset[i]) \ dirty'[d]
             PROVE  Value(bank', z) = Value(LabBanks, z)
  BY DEF ResetSoFar
<1>1. /\ at[d] # 0 /\ job[d].kind = "reset" /\ Performed(d, i)
      /\ job'[d] = job[d] /\ dirty[d] \subseteq dirty'[d]
  BY Aside DEF Performed
<1>2. z \in Cells /\ z \in Scope(job[d]) \ dirty'[d]
  BY <1>1, ResetCells, ResetPlan
<1>3. Value(bank', z) = Value(bank, z)
  BY <1>1, <1>2, Aside
<1> QED  BY <1>1, <1>3 DEF ResetSoFar

\* A call of the reset's own stores first values and no others.
LEMMA ResetOwn ==
  ASSUME OnPlan, HandlerType, NEW d \in Client, Step(d), ResetSoFar(d)
  PROVE  ResetSoFar(d)'
<1> SUFFICES ASSUME at'[d] # 0, job'[d].kind = "reset",
                    NEW i \in DOMAIN Reset, Performed(d, i)',
                    NEW z \in Touched(Reset[i]) \ dirty'[d]
             PROVE  Value(bank', z) = Value(LabBanks, z)
  BY DEF ResetSoFar
<1>0. i \in Nat /\ i >= 1 /\ at[d] \in Nat
  BY ResetShape, StoreAssumption DEF OnPlan
<1>1. \A j \in Jobs[d] : ~Refuse(d, j) /\ ~Begin(d, j)
  <2>1. ASSUME NEW j \in Jobs[d], Begin(d, j)
        PROVE  FALSE
    BY <1>0, <2>1, OwnBegin DEF Performed
  <2> QED  BY <2>1, OwnRefuse
<1>2. ASSUME Work(d)
      PROVE  Value(bank', z) = Value(LabBanks, z)
  <2> DEFINE k == at[d]
             r == Reset[k]
  <2>1. /\ at[d] # 0 /\ job' = job /\ at' = at /\ job[d].kind = "reset"
        /\ bank \in Banks /\ answer' = answer /\ answer[d] = NoAnswer
    BY <1>2, OwnWork
  <2>2. Plan(job[d]) = Reset /\ k \in DOMAIN Reset
    BY <2>1, ResetPlan
  <2>3. r \in Request /\ bank' = Effect(bank, r) /\ dirty'[d] = dirty[d] \ Touched(r)
    BY <1>2, <2>2, OwnWork
  <2> HIDE DEF r
  <2>4. z \in Cells
    BY ResetCells
  <2>5. CASE z \in Touched(r)
    BY <2>1, <2>2, <2>3, <2>4, <2>5, CallValue, ResetCall DEF r
  <2>6. CASE z \notin Touched(r)
    <3>1. Value(bank', z) = Value(bank, z)
      BY <2>1, <2>3, <2>4, <2>6, CallValue
    <3>2. i # k
      BY <2>6 DEF r
    <3>3. Performed(d, i)
      BY <2>1, <3>2 DEF Performed
    <3> QED  BY <2>1, <2>3, <2>6, <3>1, <3>3 DEF ResetSoFar
  <2> QED  BY <2>5, <2>6
<1>3. ASSUME GoOn(d)
      PROVE  Value(bank', z) = Value(LabBanks, z)
  <2>1. /\ at[d] # 0 /\ job' = job /\ bank' = bank /\ dirty' = dirty
        /\ reply[d] # NoReply /\ at'[d] = at[d] + 1 /\ reply'[d] = NoReply /\ answer'[d] = NoAnswer
    BY <1>3, OwnGoOn
  <2>2. i < at[d] + 1
    BY <2>1 DEF Performed
  <2>3. i < at[d] \/ i = at[d]
    BY <1>0, <2>2
  <2> QED  BY <2>1, <2>3 DEF ResetSoFar, Performed
<1>4. ASSUME NextCall(d)
      PROVE  Value(bank', z) = Value(LabBanks, z)
  BY <1>4, OwnRest DEF ResetSoFar, Performed
<1>5. ASSUME Done(d)
      PROVE  Value(bank', z) = Value(LabBanks, z)
  <2>1. /\ job' = job /\ at' = at /\ reply[d] # NoReply /\ bank' = bank /\ dirty' = dirty
    BY <1>5, OwnDone
  <2> QED  BY <2>1 DEF ResetSoFar, Performed
<1>6. ~Respond(d)
  BY OwnRest
<1> QED  BY <1>1, <1>2, <1>3, <1>4, <1>5, <1>6 DEF Step

(***************************************************************************)
(* When a reset is answered every cell of the lab has its first value, or  *)
(* was stored to by somebody else after the reset had passed it            *)
(* (simulator.go:53), for any ranges, relay and requests.                  *)
(***************************************************************************)
THEOREM ResetsRestore == ControlSpec => []ResetRestores
<1> DEFINE I == \A d \in Client : AnswersLast(d) /\ ResetSoFar(d)
<1>1. ControlInit => I
  BY DEF ControlInit, AnswersLast, ResetSoFar
<1>2. OnPlan /\ HandlerType /\ I /\ [ControlNext]_cvars => I'
  <2> SUFFICES ASSUME OnPlan, HandlerType, I, [ControlNext]_cvars, NEW d \in Client
               PROVE  AnswersLast(d)' /\ ResetSoFar(d)'
    OBVIOUS
  <2>1. ASSUME NEW c \in Client, Step(c)
        PROVE  AnswersLast(d)' /\ ResetSoFar(d)'
    BY <2>1, LastKept, ResetAside, ResetOwn
  <2>2. CASE UNCHANGED cvars
    BY <2>2 DEF AnswersLast, ResetSoFar, Performed, cvars, vars, handlers
  <2> QED  BY <2>1, <2>2 DEF ControlNext, Step
<1>3. OnPlan /\ HandlerType /\ I => ResetRestores
  <2> SUFFICES ASSUME OnPlan, HandlerType, I, NEW d \in Client,
                      answer[d] # NoAnswer, answer[d].status = OK, job[d].kind = "reset",
                      NEW z \in LabCells \ dirty[d]
               PROVE  Value(bank, z) = Value(LabBanks, z)
    BY DEF ResetRestores, Value
  <2>1. at[d] # 0 /\ at[d] = Len(Plan(job[d]))
    BY DEF AnswersLast
  <2>2. at[d] = Len(LabRanges) + 1
    BY <2>1, ResetPlan, ResetShape
  <2>3. PICK i \in DOMAIN Reset : z \in Touched(Reset[i])
    BY ResetCovers
  <2>4. i < at[d] \/ i = at[d]
    BY <2>2, <2>3, ResetShape, StoreAssumption
  <2> QED  BY <2>1, <2>3, <2>4 DEF ResetSoFar, Performed
<1> QED  BY <1>1, <1>2, <1>3, StaysOnPlan, HandlerTypes, PTL DEF ControlSpec

-----------------------------------------------------------------------------
(***************************************************************************)
(* A write and its read-back.                                              *)
(***************************************************************************)
Changes(d) == at[d] # 0 /\ job[d].kind \in {"patch", "simulate"}
CellOf(r, i) == <<r.slave, r.table, r.addr + i - 1>>

\* The two calls of a PATCH or a simulation.
LEMMA ChangePlan ==
  ASSUME OnPlan, NEW d \in Client, Changes(d)
  PROVE  LET r == Change(job[d])  rb == ReadBack(job[d].body) IN
         /\ at[d] \in {1, 2} /\ Len(Plan(job[d])) = 2
         /\ Plan(job[d])[1] = r /\ Plan(job[d])[2] = rb
         /\ r \in Request /\ r \in Requests /\ r.op \in {"set", "write"} /\ Admitted(r)
         /\ r.values = job[d].body.values
         /\ Scope(job[d]) = Touched(r)
         /\ rb \in Request /\ rb.op = "read" /\ Admitted(rb)
         /\ rb.slave = r.slave /\ rb.table = r.table /\ rb.addr = r.addr /\ rb.qty = Len(r.values)
<1> DEFINE j == job[d]
           r == Change(j)
           rb == ReadBack(j.body)
<1>1. /\ j \in Jobs[d] /\ j \in Job /\ Gate(j) = OK /\ at[d] \in 1 .. Len(Plan(j))
      /\ j.kind \in {"patch", "simulate"}
  BY ControlAssumption DEF Changes, OnPlan
<1>2. Plan(j) = <<r, rb>>
  BY <1>1 DEF Plan
<1>3. j.body \in Request
  BY <1>1 DEF Job
<1>4. Valid(j)
  BY <1>1 DEF Gate, OK
<1>5. /\ j.body.slave \in ValidSlave /\ Len(j.body.values) \in Nat /\ Len(j.body.values) >= 1
      /\ InRange(j.body, Len(j.body.values))
      /\ j.kind = "patch" => j.body.table \in {"holding", "coil"}
  <2>1. Len(j.body.values) \in Nat
    BY <1>3 DEF Request
  <2>2. CASE j.kind = "patch"
    <3>1. /\ j.body.slave \in ValidSlave /\ j.body.table \in {"holding", "coil"}
          /\ Len(j.body.values) \in 1 .. WriteLimit(j.body.table)
          /\ InRange(j.body, Len(j.body.values))
      BY <1>4, <2>2 DEF Valid
    <3>2. WriteLimit(j.body.table) \in Nat
      BY DEF WriteLimit
    <3> QED  BY <2>1, <3>1, <3>2
  <2>3. CASE j.kind = "simulate"
    <3>1. /\ j.body.slave \in ValidSlave /\ Len(j.body.values) \in 1 .. SimulationLimit
          /\ InRange(j.body, Len(j.body.values))
      BY <1>4, <2>3 DEF Valid
    <3>2. SimulationLimit \in Nat
      BY DEF SimulationLimit
    <3> QED  BY <2>1, <2>3, <3>1, <3>2
  <2> QED  BY <1>1, <2>2, <2>3
<1>6. /\ r \in Request /\ r.op \in {"set", "write"}
      /\ r.slave = j.body.slave /\ r.table = j.body.table /\ r.addr = j.body.addr
      /\ r.values = j.body.values
      /\ r.op = "write" => r.table \in {"holding", "coil"}
  BY <1>3, <1>5 DEF Change, Request
<1>7. r.values # << >>
  <2>1. Len(r.values) # 0
    BY <1>5, <1>6
  <2> QED  BY <2>1
<1>8. Admitted(r)
  BY <1>5, <1>6, <1>7 DEF Admitted, InRange
<1>9. /\ rb \in Request /\ rb.op = "read" /\ rb.slave = r.slave /\ rb.table = r.table
      /\ rb.addr = r.addr /\ rb.qty = Len(r.values)
  <2>1. << >> \in Seq(Word)
    OBVIOUS
  <2> QED  BY <1>3, <1>5, <1>6, <2>1 DEF ReadBack, Request
<1>10. Admitted(rb)
  BY <1>5, <1>6, <1>9 DEF Admitted, InRange
<1>11. Len(Plan(j)) = 2 /\ Plan(j)[1] = r /\ Plan(j)[2] = rb
  BY <1>2
<1>12. r \in Requests
  BY <1>1, <1>11, PlanInRequests
<1>13. Scope(j) = Touched(r)
  BY <1>1, <1>12, StoredCells DEF Scope, Touched
<1>14. at[d] \in {1, 2}
  BY <1>1, <1>11
<1> QED  BY <1>6, <1>8, <1>9, <1>10, <1>11, <1>12, <1>13, <1>14

\* A value that a write took is in its cell, which is among those the call
\* stores to.
LEMMA TakenCell ==
  ASSUME NEW b \in Banks, NEW r \in Request, r.op \in {"set", "write"},
         Outcome(b, r).ok, NEW i \in DOMAIN r.values
  PROVE  IF Takes(r, i)
         THEN /\ CellOf(r, i) \in Cells /\ CellOf(r, i) \in Touched(r)
              /\ Value(Effect(b, r), CellOf(r, i)) = r.values[i]
              /\ r.values[i] # Unmapped
         ELSE Skips(r)
<1>1. Admitted(r) /\ \A j \in DOMAIN r.values : Takes(r, j) \/ Skips(r)
  BY NoneRefused
<1>2. r.values[i] # Unmapped /\ r.slave \in Slave /\ r.table \in Table
  BY StoreAssumption DEF Request
<1>3. ASSUME Takes(r, i)
      PROVE  /\ CellOf(r, i) \in Cells /\ CellOf(r, i) \in Touched(r)
             /\ Value(Effect(b, r), CellOf(r, i)) = r.values[i]
  <2>1. r.addr + i - 1 \in Addr
    BY <1>1, <1>3, TakenStored
  <2>2. Effect(b, r)[r.slave][r.table][r.addr + i - 1] = r.values[i]
    BY <1>1, <1>3, TakenStored
  <2>3. Effect(NoBanks, r)[r.slave][r.table][r.addr + i - 1] = r.values[i]
    BY <1>1, <1>3, TakenStored, Empty
  <2>4. CellOf(r, i) \in Cells
    BY <1>2, <2>1 DEF CellOf, Cells
  <2> QED  BY <1>2, <2>2, <2>3, <2>4 DEF CellOf, Value, Touched, Mapped
<1> QED  BY <1>1, <1>2, <1>3

\* A read leaves every cell alone.
LEMMA ReadStoresNothing ==
  ASSUME NEW r \in Request, r.op = "read"
  PROVE  /\ \A b \in Banks : Effect(b, r) = b
         /\ Touched(r) = {}
<1>1. ~ToRelay(r)
  BY DEF ToRelay
<1>2. \A b \in Banks : Effect(b, r) = b
  BY <1>1 DEF Effect, EffectUpTo
<1>3. Effect(NoBanks, r) = NoBanks
  BY <1>2, Empty
<1>4. Touched(r) = {}
  BY <1>3, Empty DEF Touched, Mapped, Cells
<1> QED  BY <1>2, <1>4

\* A read that meets no unmapped cell, or is lenient, is answered.
LEMMA ReadCells ==
  ASSUME NEW b \in Banks, NEW r \in Request, r.op = "read", Admitted(r),
         Strict => \A i \in 1 .. r.qty : b[r.slave][r.table][r.addr + i - 1] # Unmapped
  PROVE  /\ Outcome(b, r).ok /\ Len(Outcome(b, r).values) = r.qty
         /\ \A i \in 1 .. r.qty :
              Outcome(b, r).values[i] = ValueOf(b[r.slave][r.table][r.addr + i - 1])
<1>1. r.qty \in Nat /\ Rounds(r) = r.qty
  BY DEF Request, Rounds
<1>2. \A i \in 1 .. Rounds(r) : ~RoundFails(b, r, i)
  BY <1>1 DEF RoundFails
<1>3. Outcome(b, r) =
        [ok |-> TRUE, values |-> [i \in 1 .. r.qty |-> ValueOf(b[r.slave][r.table][r.addr + i - 1])]]
  BY <1>2 DEF Outcome
<1> QED  BY <1>1, <1>3

\* What a relay does not take is not what the cell holds; 0 may be shown.
LEMMA SkippedCell ==
  ASSUME NEW b \in Banks, Synchronized(b), NEW t \in {"coil", "holding"}, NEW x \in Addr, NEW v,
         ~RelayAccepts(t, x, v), ValueOf(b[RelaySlave][t][x]) = v
  PROVE  v = 0
<1>1. CASE x \in ChannelAddr(t)
  <2> DEFINE k == x - Start(t)
  <2>1. k \in 0 .. Channels - 1
    BY <1>1, ChannelFacts
  <2>2. Start(t) + k = x
    BY ChannelFacts DEF Addr
  <2>3. b[RelaySlave][t][Start(t) + k] \in {On(t), Off(t)}
    BY <2>1 DEF Synchronized, Start, On, Off
  <2>4. On(t) # Unmapped /\ Off(t) # Unmapped
    BY StoreAssumption DEF On, Off
  <2>5. v \in {On(t), Off(t)}
    BY <2>2, <2>3, <2>4 DEF ValueOf
  <2> QED  BY <1>1, <2>5 DEF RelayAccepts
<1>2. CASE x \notin ChannelAddr(t)
  <2>1. b[RelaySlave][t][x] = Unmapped
    BY <1>2 DEF Synchronized
  <2> QED  BY <2>1 DEF ValueOf
<1> QED  BY <1>1, <1>2

(***************************************************************************)
(* From the write on, every value that was taken is in its cell or the     *)
(* cell is marked, and the cell stays mapped, so that the read-back        *)
(* succeeds and shows it.                                                  *)
(***************************************************************************)
Wrote(d) == at[d] = 2 \/ (reply[d] # NoReply /\ reply[d].ok)

WroteSoFar(d) ==
  Changes(d) /\ Wrote(d) =>
    LET r == Change(job[d]) IN \A i \in DOMAIN r.values :
      IF Takes(r, i)
      THEN /\ CellOf(r, i) \in Cells /\ CellOf(r, i) \in Touched(r)
           /\ Value(bank, CellOf(r, i)) # Unmapped
           /\ Value(bank, CellOf(r, i)) = r.values[i] \/ CellOf(r, i) \in dirty[d]
      ELSE Skips(r)

Shown(d, vs) ==
  LET r == Change(job[d]) IN
  /\ Len(vs) = Len(r.values)
  /\ \A i \in DOMAIN r.values :
       IF Takes(r, i) THEN vs[i] = r.values[i] \/ CellOf(r, i) \in dirty[d]
                      ELSE vs[i] = r.values[i] => r.values[i] = 0

ReadSoFar(d) ==
  Changes(d) /\ at[d] = 2 /\ reply[d] # NoReply => reply[d].ok /\ Shown(d, reply[d].values)

AnsweredSoFar(d) ==
  answer[d] # NoAnswer =>
    /\ at[d] = 0 => answer[d].status \notin {OK, 500}
    /\ Changes(d) =>
         /\ answer[d].status # 500
         /\ answer[d].status = OK => Shown(d, answer[d].values)

ChangeInv(d) == WroteSoFar(d) /\ ReadSoFar(d) /\ AnsweredSoFar(d)

\* What others do shows in the marks.
LEMMA ShownAside ==
  ASSUME NEW d, NEW vs, Shown(d, vs), job'[d] = job[d], dirty[d] \subseteq dirty'[d]
  PROVE  LET r == Change(job'[d]) IN
         /\ Len(vs) = Len(r.values)
         /\ \A i \in DOMAIN r.values :
              IF Takes(r, i) THEN vs[i] = r.values[i] \/ CellOf(r, i) \in dirty'[d]
                             ELSE vs[i] = r.values[i] => r.values[i] = 0
BY DEF Shown

\* Others' calls leave the values of a write alone or mark them.
LEMMA ChangeAside ==
  ASSUME OnPlan, HandlerType, NEW c \in Client, NEW d \in Client \ {c}, Step(c), ChangeInv(d)
  PROVE  ChangeInv(d)'
<1>1. /\ job'[d] = job[d] /\ at'[d] = at[d] /\ answer'[d] = answer[d] /\ reply'[d] = reply[d]
      /\ at[d] # 0 => dirty[d] \subseteq dirty'[d]
  BY Aside
<1>2. Changes(d)' = Changes(d) /\ Wrote(d)' = Wrote(d)
  BY <1>1 DEF Changes, Wrote
<1>3. WroteSoFar(d)'
  <2> SUFFICES ASSUME Changes(d), Wrote(d), NEW i \in DOMAIN Change(job[d]).values
               PROVE  LET r == Change(job[d]) IN
                      IF Takes(r, i)
                      THEN /\ CellOf(r, i) \in Cells /\ CellOf(r, i) \in Touched(r)
                           /\ Value(bank', CellOf(r, i)) # Unmapped
                           /\ Value(bank', CellOf(r, i)) = r.values[i] \/ CellOf(r, i) \in dirty'[d]
                      ELSE Skips(r)
    BY <1>1, <1>2 DEF WroteSoFar
  <2> DEFINE r == Change(job[d])
             z == CellOf(r, i)
  <2>1. IF Takes(r, i)
        THEN /\ z \in Cells /\ z \in Touched(r)
             /\ Value(bank, z) # Unmapped
             /\ Value(bank, z) = r.values[i] \/ z \in dirty[d]
        ELSE Skips(r)
    BY DEF ChangeInv, WroteSoFar
  <2>2. at[d] # 0 /\ Scope(job[d]) = Touched(r)
    BY ChangePlan DEF Changes
  <2> HIDE DEF z, r
  <2>3. CASE Takes(r, i)
    <3>1. z \in Cells /\ z \in Scope(job[d])
      BY <2>1, <2>2, <2>3
    <3>2. Value(bank', z) # Unmapped /\ (z \in dirty'[d] \/ Value(bank', z) = Value(bank, z))
      BY <2>1, <2>2, <2>3, <3>1, Aside
    <3> QED  BY <1>1, <2>1, <2>2, <2>3, <3>2 DEF z, r
  <2> QED  BY <2>1, <2>3 DEF z, r
<1>4. ReadSoFar(d)'
  BY <1>1, <1>2, ShownAside DEF ChangeInv, ReadSoFar, Shown, Changes
<1>5. AnsweredSoFar(d)'
  BY <1>1, <1>2, ShownAside DEF ChangeInv, AnsweredSoFar, Shown, Changes
<1> QED  BY <1>3, <1>4, <1>5 DEF ChangeInv

\* The write stores what it takes; the read-back reads it.
LEMMA ChangeWork ==
  ASSUME OnPlan, HandlerType, RelaySync, NEW d \in Client, Work(d), ChangeInv(d)
  PROVE  ChangeInv(d)'
<1> DEFINE r == Change(job[d])
           rb == ReadBack(job[d].body)
<1>1. /\ at[d] # 0 /\ job' = job /\ at' = at /\ answer' = answer /\ answer[d] = NoAnswer
      /\ bank \in Banks
  BY OwnWork
<1>2. AnsweredSoFar(d)'
  BY <1>1 DEF AnsweredSoFar
<1>3. CASE ~Changes(d)
  <2>1. ~Changes(d)'
    BY <1>1, <1>3 DEF Changes
  <2> QED  BY <1>2, <2>1 DEF ChangeInv, WroteSoFar, ReadSoFar
<1>4. CASE Changes(d) /\ at[d] = 1
  <2>1. /\ r \in Request /\ r.op \in {"set", "write"} /\ Plan(job[d])[1] = r
    BY <1>4, ChangePlan
  <2>2. bank' = Effect(bank, r) /\ reply'[d] = Outcome(bank, r)
    BY <1>4, <2>1, OwnWork
  <2>3. WroteSoFar(d)'
    <3> SUFFICES ASSUME Outcome(bank, r).ok, NEW i \in DOMAIN r.values
                 PROVE  IF Takes(r, i)
                        THEN /\ CellOf(r, i) \in Cells /\ CellOf(r, i) \in Touched(r)
                             /\ Value(bank', CellOf(r, i)) # Unmapped
                             /\ \/ Value(bank', CellOf(r, i)) = r.values[i]
                                \/ CellOf(r, i) \in dirty'[d]
                        ELSE Skips(r)
      BY <1>1, <1>4, <2>2 DEF WroteSoFar, Wrote
    <3> HIDE DEF r
    <3> QED  BY <1>1, <2>1, <2>2, TakenCell
  <2>4. ReadSoFar(d)'
    BY <1>1, <1>4 DEF ReadSoFar
  <2> QED  BY <1>2, <2>3, <2>4 DEF ChangeInv
<1>5. CASE Changes(d) /\ at[d] = 2
  <2>1. /\ r \in Request /\ r.op \in {"set", "write"} /\ Admitted(r)
        /\ rb \in Request /\ rb.op = "read" /\ Admitted(rb) /\ Plan(job[d])[2] = rb
        /\ rb.slave = r.slave /\ rb.table = r.table /\ rb.addr = r.addr /\ rb.qty = Len(r.values)
    BY <1>5, ChangePlan
  <2>2. bank' = Effect(bank, rb) /\ reply'[d] = Outcome(bank, rb) /\ dirty'[d] = dirty[d] \ Touched(rb)
    BY <1>5, <2>1, OwnWork
  <2>3. bank' = bank /\ Touched(rb) = {}
    BY <1>1, <2>1, <2>2, ReadStoresNothing
  <2>4. WroteSoFar(d)'
    BY <1>1, <1>5, <2>2, <2>3 DEF ChangeInv, WroteSoFar, Wrote, Changes
  <2>5. ASSUME NEW i \in DOMAIN r.values
        PROVE  IF Takes(r, i)
               THEN /\ Value(bank, CellOf(r, i)) # Unmapped
                    /\ Value(bank, CellOf(r, i)) = r.values[i] \/ CellOf(r, i) \in dirty[d]
               ELSE Skips(r)
    BY <1>5 DEF ChangeInv, WroteSoFar, Wrote
  <2> HIDE DEF r, rb
  <2>6. DOMAIN r.values = 1 .. rb.qty /\ r.values \in Seq(Word)
    BY <2>1 DEF Request
  <2>7. Strict => \A i \in 1 .. rb.qty : bank[rb.slave][rb.table][rb.addr + i - 1] # Unmapped
    <3> SUFFICES ASSUME Strict, NEW i \in 1 .. rb.qty
                 PROVE  bank[rb.slave][rb.table][rb.addr + i - 1] # Unmapped
      OBVIOUS
    <3>1. i \in DOMAIN r.values /\ ~Skips(r)
      BY <2>6 DEF Skips
    <3>2. Value(bank, CellOf(r, i)) # Unmapped
      BY <2>5, <3>1
    <3> QED  BY <2>1, <3>2 DEF Value, CellOf
  <2>8. /\ Outcome(bank, rb).ok /\ Len(Outcome(bank, rb).values) = Len(r.values)
        /\ \A i \in DOMAIN r.values : Outcome(bank, rb).values[i] = ValueOf(Value(bank, CellOf(r, i)))
    <3>1. /\ Outcome(bank, rb).ok /\ Len(Outcome(bank, rb).values) = rb.qty
          /\ \A i \in 1 .. rb.qty :
               Outcome(bank, rb).values[i] = ValueOf(bank[rb.slave][rb.table][rb.addr + i - 1])
      BY <1>1, <2>1, <2>7, ReadCells
    <3>2. \A i : Value(bank, CellOf(r, i)) = bank[rb.slave][rb.table][rb.addr + i - 1]
      BY <2>1 DEF Value, CellOf
    <3>3. \A i \in 1 .. rb.qty : Outcome(bank, rb).values[i] = ValueOf(Value(bank, CellOf(r, i)))
      BY <3>1, <3>2
    <3>4. DOMAIN r.values = 1 .. rb.qty /\ rb.qty = Len(r.values)
      BY <2>1, <2>6
    <3> QED  BY <3>1, <3>3, <3>4
  <2>9. ASSUME NEW i \in DOMAIN r.values
        PROVE  LET v == Outcome(bank, rb).values[i] IN
               IF Takes(r, i) THEN v = r.values[i] \/ CellOf(r, i) \in dirty[d]
                              ELSE v = r.values[i] => r.values[i] = 0
    <3>1. CASE Takes(r, i)
      BY <2>5, <2>8, <3>1 DEF ValueOf
    <3>2. CASE ~Takes(r, i)
      <4>1. ToRelay(r) /\ r.slave = RelaySlave /\ r.table \in {"coil", "holding"}
        BY <2>1, <2>5, <3>2 DEF Skips, ToRelay, Admitted
      <4>2. ~RelayAccepts(r.table, r.addr + i - 1, r.values[i])
        BY <3>2, <4>1 DEF Takes
      <4>3. r.addr + i - 1 \in Addr
        <5>1. /\ r.addr \in Nat /\ LastAddr \in Nat /\ i \in 1 .. Len(r.values)
              /\ Len(r.values) \in Nat
          BY <2>1, <2>6, StoreAssumption DEF Request, Addr
        <5>2. r.addr + Len(r.values) <= LastAddr + 1
          BY <2>1, <4>1 DEF Admitted, InRange, ToRelay
        <5> QED  BY <5>1, <5>2 DEF Addr
      <4>4. Outcome(bank, rb).values[i] = ValueOf(bank[RelaySlave][r.table][r.addr + i - 1])
        BY <2>8, <4>1 DEF Value, CellOf
      <4> QED  BY <1>1, <3>2, <4>1, <4>2, <4>3, <4>4, SkippedCell DEF RelaySync
    <3> QED  BY <3>1, <3>2
  <2>10. ReadSoFar(d)'
    BY <1>1, <2>2, <2>3, <2>8, <2>9 DEF ReadSoFar, Shown, r
  <2> QED  BY <1>2, <2>4, <2>10 DEF ChangeInv
<1>6. Changes(d) => at[d] \in {1, 2}
  BY ChangePlan
<1> QED  BY <1>3, <1>4, <1>5, <1>6

\* The handler's own steps between and after the two calls.
LEMMA ChangeOwn ==
  ASSUME OnPlan, HandlerType, NEW d \in Client, Step(d), ~Work(d), ChangeInv(d)
  PROVE  ChangeInv(d)'
<1>1. ASSUME NEW j \in Jobs[d], Refuse(d, j) PROVE ChangeInv(d)'
  BY <1>1, OwnRefuse DEF ChangeInv, WroteSoFar, ReadSoFar, AnsweredSoFar, Changes
<1>2. ASSUME NEW j \in Jobs[d], Begin(d, j) PROVE ChangeInv(d)'
  BY <1>2, OwnBegin DEF ChangeInv, WroteSoFar, ReadSoFar, AnsweredSoFar, Wrote
<1>3. ASSUME GoOn(d) PROVE ChangeInv(d)'
  <2>1. /\ reply[d] # NoReply /\ Goes(d) /\ at[d] # 0 /\ at[d] < Len(Plan(job[d]))
        /\ job' = job /\ at'[d] = at[d] + 1 /\ answer'[d] = NoAnswer
        /\ reply'[d] = NoReply /\ bank' = bank /\ dirty' = dirty
    BY <1>3, OwnGoOn
  <2>2. CASE Changes(d)
    <3>1. at[d] = 1
      <4>1. at[d] \in {1, 2} /\ Len(Plan(job[d])) = 2
        BY <2>2, ChangePlan
      <4> QED  BY <2>1, <4>1
    <3>2. Wrote(d)
      BY <2>1, <3>1 DEF Goes, Wrote
    <3> QED  BY <2>1, <2>2, <3>2 DEF ChangeInv, WroteSoFar, ReadSoFar, AnsweredSoFar, Changes
  <2>3. CASE ~Changes(d)
    <3>1. ~Changes(d)'
      BY <2>1, <2>3 DEF Changes
    <3> QED  BY <2>1, <3>1 DEF ChangeInv, WroteSoFar, ReadSoFar, AnsweredSoFar
  <2> QED  BY <2>2, <2>3
<1>4. ASSUME NextCall(d) PROVE ChangeInv(d)'
  <2>1. /\ job' = job /\ at' = at /\ answer' = answer /\ reply' = reply
        /\ bank' = bank /\ dirty' = dirty
    BY <1>4, OwnRest
  <2> QED  BY <2>1 DEF ChangeInv, WroteSoFar, ReadSoFar, AnsweredSoFar, Changes, Wrote, Shown
<1>5. ASSUME Done(d) PROVE ChangeInv(d)'
  <2>1. /\ reply[d] # NoReply /\ at[d] # 0 /\ job[d] \in Jobs[d]
        /\ \/ Goes(d) /\ at[d] = Len(Plan(job[d])) /\ answer'[d] = Answer(OK, reply[d].values)
           \/ ~Goes(d) /\ answer'[d] = Answer(Failure(job[d], at[d]), << >>)
        /\ job' = job /\ at' = at /\ reply'[d] = NoReply /\ bank' = bank /\ dirty' = dirty
    BY <1>5, OwnDone
  <2>2. WroteSoFar(d)' /\ ReadSoFar(d)'
    BY <2>1 DEF ChangeInv, WroteSoFar, ReadSoFar, Changes, Wrote
  <2>3. AnsweredSoFar(d)'
    <3> SUFFICES ASSUME Changes(d)
                 PROVE  /\ answer'[d].status # 500
                        /\ answer'[d].status = OK => Shown(d, answer'[d].values)
      BY <2>1 DEF AnsweredSoFar, Changes, Shown
    <3>1. at[d] \in {1, 2} /\ Len(Plan(job[d])) = 2
      BY ChangePlan
    <3>2. at[d] = 2 => reply[d].ok /\ Shown(d, reply[d].values)
      BY <2>1 DEF ChangeInv, ReadSoFar
    <3>3. CASE Goes(d)
      <4>1. at[d] = 2 /\ answer'[d] = Answer(OK, reply[d].values)
        BY <2>1, <3>1, <3>3
      <4> QED  BY <3>2, <4>1 DEF Answer, OK
    <3>4. CASE ~Goes(d)
      <4>1. at[d] = 1 /\ answer'[d] = Answer(Failure(job[d], 1), << >>)
        BY <2>1, <3>1, <3>2, <3>4 DEF Goes
      <4>2. Failure(job[d], 1) \notin {OK, 500}
        BY <2>1, ControlAssumption, FailureStatus DEF Changes
      <4> QED  BY <4>1, <4>2 DEF Answer
    <3> QED  BY <3>3, <3>4
  <2> QED  BY <2>2, <2>3 DEF ChangeInv
<1>6. ASSUME Respond(d) PROVE ChangeInv(d)'
  BY <1>6, OwnRest DEF ChangeInv, WroteSoFar, ReadSoFar, AnsweredSoFar, Changes
<1> QED  BY <1>1, <1>2, <1>3, <1>4, <1>5, <1>6 DEF Step

\* ChangeInv holds throughout, for every handler.
LEMMA ChangesHold == ControlSpec => [](\A d \in Client : ChangeInv(d))
<1> DEFINE I == \A d \in Client : ChangeInv(d)
<1>1. ControlInit => I
  BY DEF ControlInit, ChangeInv, WroteSoFar, ReadSoFar, AnsweredSoFar, Changes
<1>2. OnPlan /\ HandlerType /\ RelaySync /\ I /\ [ControlNext]_cvars => I'
  <2> SUFFICES ASSUME OnPlan, HandlerType, RelaySync, I, [ControlNext]_cvars, NEW d \in Client
               PROVE  ChangeInv(d)'
    OBVIOUS
  <2>1. ASSUME NEW c \in Client, Step(c)
        PROVE  ChangeInv(d)'
    BY <2>1, ChangeAside, ChangeWork, ChangeOwn
  <2>2. CASE UNCHANGED cvars
    BY <2>2 DEF ChangeInv, WroteSoFar, ReadSoFar, AnsweredSoFar, Changes, Wrote, Shown,
                cvars, vars, handlers
  <2> QED  BY <2>1, <2>2 DEF ControlNext, Step
<1> QED  BY <1>1, <1>2, StaysOnPlan, HandlerTypes, RelayUnderControl, PTL DEF ControlSpec

(***************************************************************************)
(* A write the store has taken is answered with as many values as it       *)
(* wrote, in a strict store too: the 500 of api/server.go:274 is never     *)
(* sent, and the error that line 377 drops is nil.                         *)
(***************************************************************************)
THEOREM ReadBacksSucceed == ControlSpec => []ReadBackSucceeds
<1>1. OnPlan /\ HandlerType /\ (\A d \in Client : ChangeInv(d)) => ReadBackSucceeds
  <2> SUFFICES ASSUME OnPlan, NEW d \in Client, AnsweredSoFar(d),
                      answer[d] # NoAnswer, job[d].kind \in {"patch", "simulate"}
               PROVE  /\ answer[d].status # 500
                      /\ answer[d].status = OK => Len(answer[d].values) = Len(job[d].body.values)
    BY DEF ReadBackSucceeds, ChangeInv
  <2>1. CASE at[d] = 0
    BY <2>1 DEF AnsweredSoFar
  <2>2. CASE Changes(d)
    <3>1. Change(job[d]).values = job[d].body.values
      BY <2>2, ChangePlan
    <3> QED  BY <2>2, <3>1 DEF AnsweredSoFar, Shown
  <2> QED  BY <2>1, <2>2 DEF Changes
<1> QED  BY <1>1, StaysOnPlan, HandlerTypes, ChangesHold, PTL

(***************************************************************************)
(* The answer to a write shows the values that were asked for, except      *)
(* where somebody else stored to the register since, and never shows a     *)
(* value that a lenient relay skipped as if it were stored, but for the 0  *)
(* of an unknown register (api/server.go:263-272, 373-377).                *)
(***************************************************************************)
THEOREM WritesShown == ControlSpec => []WriteShown
<1>1. (\A d \in Client : ChangeInv(d)) => WriteShown
  BY DEF ChangeInv, AnsweredSoFar, Changes, Shown, CellOf, WriteShown
<1> QED  BY <1>1, ChangesHold, PTL
=============================================================================
