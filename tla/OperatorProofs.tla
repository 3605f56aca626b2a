--------------------------- MODULE OperatorProofs ----------------------------
(***************************************************************************)
(* Lemmas about the operators without state that the proofs share: what    *)
(* the operations of the store return, that the loop of a call arrives at  *)
(* its effect round by round (store.go), and that masters and slaves       *)
(* encode and decode alike at the protocol's real limits (types.go,        *)
(* client.go, server.go).                                                  *)
(***************************************************************************)
EXTENDS PDU, SequenceTheorems, TLAPS

-----------------------------------------------------------------------------
(***************************************************************************)
(* What the operators of StoreOps return.                                  *)
(***************************************************************************)

\* A value the loop takes is one of the request's.
LEMMA TakenInDomain ==
  ASSUME NEW r \in Request
  PROVE  Taken(r) \subseteq DOMAIN r.values
BY DEF Taken

\* The banks keep their shape, however far the loop of a call gets.
LEMMA EffectUpToType ==
  ASSUME NEW b \in Banks, NEW r \in Request, NEW n \in Nat
  PROVE  EffectUpTo(b, r, n) \in Banks
<1>1. r.slave \in Slave /\ RelaySlave \in Slave /\ r.table \in Table
  BY StoreAssumption DEF Request
<1>2. \A t \in Table : On(t) \in Cell /\ Off(t) \in Cell
  BY StoreAssumption DEF On, Off, Cell
<1>3. \A i \in Taken(r) : r.values[i] \in Cell
  <2>1. r.values \in Seq(Word)
    BY DEF Request
  <2> QED  BY <2>1, TakenInDomain DEF Cell
<1>4. r.op \in {"read", "set", "write", "relay"}
  BY DEF Request
<1>5. CASE r.op = "read"
  BY <1>5 DEF EffectUpTo, ToRelay
<1>6. CASE r.op = "relay"
  <2>1. EffectUpTo(b, r, n) =
          [b EXCEPT ![RelaySlave] =
            [u \in Table |-> [x \in Addr |->
               IF u \in {"coil", "holding"} /\ x \in Start(u) .. Start(u) + n - 1
               THEN Off(u) ELSE b[RelaySlave][u][x]]]]
    BY <1>6 DEF EffectUpTo, ToRelay
  <2> QED  BY <2>1, <1>1, <1>2 DEF Banks
<1>7. CASE r.op \in {"set", "write"} /\ ~ToRelay(r)
  <2>1. EffectUpTo(b, r, n) =
         [b EXCEPT ![r.slave][r.table] =
            [x \in Addr |->
               IF x - r.addr + 1 \in Taken(r) \cap 1 .. n
               THEN r.values[x - r.addr + 1] ELSE b[r.slave][r.table][x]]]
    BY <1>7 DEF EffectUpTo
  <2> QED  BY <2>1, <1>1, <1>3 DEF Banks
<1>8. CASE ToRelay(r)
  <2>1. EffectUpTo(b, r, n) =
         [b EXCEPT ![RelaySlave] =
            [u \in Table |-> [x \in Addr |->
               IF u \in {"coil", "holding"} /\ Source(r, u, x) \in Taken(r) \cap 1 .. n
               THEN IF r.values[Source(r, u, x)] = On(r.table) THEN On(u) ELSE Off(u)
               ELSE b[RelaySlave][u][x]]]]
    BY <1>8 DEF EffectUpTo, ToRelay
  <2> QED  BY <2>1, <1>1, <1>2 DEF Banks
<1> QED  BY <1>4, <1>5, <1>6, <1>7, <1>8

\* The number of rounds is a number.
LEMMA RoundsType ==
  ASSUME NEW r \in Request
  PROVE  Rounds(r) \in Nat
<1>1. Channels \in Nat
  BY StoreAssumption
<1>2. r.qty \in Nat /\ Len(r.values) \in Nat
  BY DEF Request
<1> QED  BY <1>1, <1>2 DEF Rounds

\* The lab preset is made of cells.
LEMMA LabCellType ==
  ASSUME NEW s \in Slave, NEW t \in Table, NEW x \in Addr
  PROVE  LabCell(s, t, x) \in Cell
<1>1. CASE \E i \in DOMAIN LabRanges : Covers(i, s, t, x)
  <2> DEFINE i == CHOOSE i \in DOMAIN LabRanges : Covers(i, s, t, x)
  <2>1. i \in DOMAIN LabRanges /\ Covers(i, s, t, x)
    BY <1>1
  <2> HIDE DEF i
  <2>2. LabRanges[i].values \in Seq(Word)
    <3>1. LabRanges \in Seq(LabRange)
      BY StoreAssumption
    <3>2. LabRanges[i] \in LabRange
      BY <2>1, <3>1
    <3> QED  BY <3>2 DEF LabRange
  <2>3. LabRanges[i].values[x - LabRanges[i].addr + 1] \in Word
    BY <2>1, <2>2 DEF Covers
  <2>4. LabCell(s, t, x) = LabRanges[i].values[x - LabRanges[i].addr + 1]
    BY <1>1 DEF LabCell, i
  <2> QED  BY <2>3, <2>4 DEF Cell
<1>2. CASE ~ \E i \in DOMAIN LabRanges : Covers(i, s, t, x)
  BY <1>2 DEF LabCell, Cell
<1> QED  BY <1>1, <1>2

\* The banks of a fresh program are banks.
LEMMA SeededBanksType == SeededBanks \in Banks
<1> DEFINE lab == [s \in Slave |-> [t \in Table |-> [x \in Addr |-> LabCell(s, t, x)]]]
<1>1. lab \in Banks
  BY LabCellType DEF Banks
<1>2. EnableRelay \in Request /\ Channels \in Nat
  BY StoreAssumption DEF EnableRelay, Request, Table
<1>3. QED
  BY <1>1, <1>2, EffectUpToType DEF SeededBanks

\* A whole call leaves banks.
LEMMA EffectType ==
  ASSUME NEW b \in Banks, NEW r \in Request
  PROVE  Effect(b, r) \in Banks
BY EffectUpToType, RoundsType DEF Effect

\* The answer to a call is a reply.
LEMMA OutcomeType ==
  ASSUME NEW b \in Banks, NEW r \in Request
  PROVE  Outcome(b, r) \in Reply
<1> DEFINE got == [i \in 1 .. r.qty |-> ValueOf(b[r.slave][r.table][r.addr + i - 1])]
<1>1. ASSUME Admitted(r), r.op = "read"
      PROVE  got \in Seq(Word)
  <2>1. r.qty \in Nat /\ r.addr \in Addr /\ LastAddr \in Nat /\ r.addr + r.qty <= LastAddr + 1
    BY <1>1, StoreAssumption DEF Admitted, InRange, Request
  <2>2. ASSUME NEW i \in 1 .. r.qty
        PROVE  ValueOf(b[r.slave][r.table][r.addr + i - 1]) \in Word
    <3>1. r.addr + i - 1 \in Addr
      BY <2>1 DEF Addr
    <3>2. r.slave \in Slave /\ r.table \in Table
      BY DEF Request
    <3>3. b[r.slave][r.table][r.addr + i - 1] \in Cell
      BY <3>1, <3>2 DEF Banks
    <3>4. 0 \in Word
      BY StoreAssumption
    <3> QED  BY <3>3, <3>4 DEF ValueOf, Cell
  <2> QED  BY <2>1, <2>2
<1>2. << >> \in Seq(Word)
  OBVIOUS
<1> QED  BY <1>1, <1>2 DEF Outcome, Reply

-----------------------------------------------------------------------------
(***************************************************************************)
(* The channels of the relay.                                              *)
(***************************************************************************)

\* A channel has an address in each of the two tables, and a relay's writes
\* drive channels only.
LEMMA ChannelFacts ==
  /\ Channels \in Nat \ {0}
  /\ \A t \in {"coil", "holding"} :
       /\ Start(t) \in Nat
       /\ \A k \in 0 .. Channels - 1 : Start(t) + k \in Addr
       /\ \A x \in ChannelAddr(t) : x - Start(t) \in 0 .. Channels - 1
<1>1. /\ Channels \in Nat \ {0} /\ LastAddr \in Nat
      /\ CoilStart \in Addr /\ CoilStart + Channels - 1 \in Addr
      /\ HoldingStart \in Addr /\ HoldingStart + Channels - 1 \in Addr
  BY StoreAssumption
<1> QED  BY <1>1 DEF Addr, Start, ChannelAddr

\* What a relay takes are switches of its channels.
LEMMA RelayTakesChannels ==
  ASSUME NEW r \in Request, ToRelay(r), NEW i \in Taken(r)
  PROVE  r.addr + i - 1 \in ChannelAddr(r.table) /\ r.values[i] \in {On(r.table), Off(r.table)}
<1>1. i \in DOMAIN r.values /\ i \in 1 .. i
  <2>1. r.values \in Seq(Word)
    BY DEF Request
  <2> QED  BY <2>1, TakenInDomain
<1>2. Takes(r, i)
  BY <1>1 DEF Taken
<1> QED  BY <1>2 DEF Takes, RelayAccepts
-----------------------------------------------------------------------------
(***************************************************************************)
(* Coils and discrete inputs.                                              *)
(***************************************************************************)

\* However far a call's loop gets, it has stored nothing but bits in coils and discrete
\* inputs.
LEMMA EffectUpToBits ==
  ASSUME NEW b \in Banks, BitsIn(b), NEW r \in Request, Admitted(r), NEW n \in Nat
  PROVE  BitsIn(EffectUpTo(b, r, n))
<1> DEFINE e == EffectUpTo(b, r, n)
<1>0. RelaySlave \in Slave /\ {CoilOn, CoilOff} = {0, 1}
  BY StoreAssumption
<1>1. On("coil") \in {0, 1} /\ Off("coil") \in {0, 1}
  BY <1>0 DEF On, Off
<1>2. CASE r.op = "read"
  BY <1>2 DEF EffectUpTo, ToRelay
<1>3. CASE r.op = "relay"
  <2>1. e = [b EXCEPT ![RelaySlave] = [u \in Table |-> [x \in Addr |->
            IF u \in {"coil", "holding"} /\ x \in Start(u) .. Start(u) + n - 1
            THEN Off(u) ELSE b[RelaySlave][u][x]]]]
    BY <1>3 DEF EffectUpTo, ToRelay
  <2> QED  BY <1>0, <1>1, <2>1 DEF BitsIn, Banks, Table
<1>4. CASE r.op \in {"set", "write"} /\ ~ToRelay(r)
  <2>1. e = [b EXCEPT ![r.slave][r.table] =
               [x \in Addr |->
                  IF x - r.addr + 1 \in Taken(r) \cap 1 .. n
                  THEN r.values[x - r.addr + 1] ELSE b[r.slave][r.table][x]]]
    BY <1>4 DEF EffectUpTo
  <2>2. ASSUME r.table \in {"coil", "discrete"}, NEW i \in Taken(r)
        PROVE  r.values[i] \in {0, 1}
    <3>1. r.values \in Seq(Word) /\ Word \subseteq Nat /\ i \in DOMAIN r.values
      BY TakenInDomain, StoreAssumption DEF Request
    <3>2. i \in 1 .. i
      BY <3>1
    <3>3. Takes(r, i)
      BY <3>2, <1>4 DEF Taken, Skips
    <3>4. r.values[i] <= 1
      BY <3>3, <1>4, <2>2 DEF Takes
    <3>5. r.values[i] \in Nat
      <4>1. r.values[i] \in Word
        BY <3>1
      <4> QED  BY <3>1, <4>1
    <3> QED  BY <3>4, <3>5
  <2> QED  BY <2>1, <2>2 DEF BitsIn, Banks, Table, Request
<1>5. CASE ToRelay(r)
  <2>1. e = [b EXCEPT ![RelaySlave] = [u \in Table |-> [x \in Addr |->
            IF u \in {"coil", "holding"} /\ Source(r, u, x) \in Taken(r) \cap 1 .. n
            THEN IF r.values[Source(r, u, x)] = On(r.table) THEN On(u) ELSE Off(u)
            ELSE b[RelaySlave][u][x]]]]
    BY <1>5 DEF EffectUpTo, ToRelay
  <2> QED  BY <1>0, <1>1, <2>1 DEF BitsIn, Banks, Table
<1> QED  BY <1>2, <1>3, <1>4, <1>5 DEF Request

\* The seeded banks have bits there.
LEMMA SeededBits == BitsIn(SeededBanks)
<1> DEFINE lab == [s \in Slave |-> [t \in Table |-> [x \in Addr |-> LabCell(s, t, x)]]]
<1>1. lab \in Banks
  BY LabCellType DEF Banks
<1>2. ASSUME NEW s \in Slave, NEW t \in {"coil", "discrete"}, NEW x \in Addr
      PROVE  LabCell(s, t, x) \in {0, 1, Unmapped}
  <2>1. CASE \E i \in DOMAIN LabRanges : Covers(i, s, t, x)
    <3> DEFINE i == CHOOSE i \in DOMAIN LabRanges : Covers(i, s, t, x)
               j == x - LabRanges[i].addr + 1
    <3>1. i \in DOMAIN LabRanges /\ Covers(i, s, t, x)
      BY <2>1
    <3>2. LabRanges \in Seq(LabRange) /\ Word \subseteq Nat
      BY StoreAssumption
    <3>3. LabRanges[i].values \in Seq(Word)
      <4>1. LabRanges[i] \in LabRange
        BY <3>1, <3>2
      <4> QED  BY <4>1 DEF LabRange
    <3>4. LabRanges[i].table = t /\ j \in DOMAIN LabRanges[i].values
      BY <3>1 DEF Covers
    <3>5. LabRanges[i].values[j] <= 1
      BY <3>1, <3>4, StoreAssumption
    <3>6. LabRanges[i].values[j] \in Nat
      <4>1. LabRanges[i].values[j] \in Word
        BY <3>3, <3>4
      <4> QED  BY <4>1, <3>2
    <3>7. LabCell(s, t, x) = LabRanges[i].values[j]
      BY <2>1 DEF LabCell
    <3> HIDE DEF i, j
    <3> QED  BY <3>5, <3>6, <3>7
  <2>2. CASE ~ \E i \in DOMAIN LabRanges : Covers(i, s, t, x)
    BY <2>2 DEF LabCell
  <2> QED  BY <2>1, <2>2
<1>3. BitsIn(lab)
  BY <1>2 DEF BitsIn, Table
<1>4. EnableRelay \in Request /\ Channels \in Nat
  BY StoreAssumption DEF EnableRelay, Request, Table
<1>5. Admitted(EnableRelay)
  BY DEF EnableRelay, Admitted
<1> QED  BY <1>1, <1>3, <1>4, <1>5, EffectUpToBits DEF SeededBanks

\* Nor has a whole call.
LEMMA EffectBits ==
  ASSUME NEW b \in Banks, BitsIn(b), NEW r \in Request
  PROVE  BitsIn(Effect(b, r))
BY EffectUpToBits, RoundsType DEF Effect

-----------------------------------------------------------------------------
(***************************************************************************)
(* The loop of a call, round by round.                                     *)
(***************************************************************************)

\* Two banks with the same cells are the same.
LEMMA SameBanks ==
  ASSUME NEW b \in Banks, NEW d \in Banks,
         \A s \in Slave, t \in Table, x \in Addr : b[s][t][x] = d[s][t][x]
  PROVE  b = d
<1>1. ASSUME NEW s \in Slave, NEW t \in Table
      PROVE  b[s][t] = d[s][t]
  <2>1. b[s][t] \in [Addr -> Cell] /\ d[s][t] \in [Addr -> Cell]
    BY DEF Banks
  <2> QED  BY <2>1
<1>2. ASSUME NEW s \in Slave
      PROVE  b[s] = d[s]
  <2>1. b[s] \in [Table -> [Addr -> Cell]] /\ d[s] \in [Table -> [Addr -> Cell]]
    BY DEF Banks
  <2> QED  BY <1>1, <2>1
<1> QED  BY <1>2 DEF Banks

\* The cells of the banks after n rounds.
LEMMA EffectCell ==
  ASSUME NEW b \in Banks, NEW r \in Request, NEW n \in Nat,
         NEW s \in Slave, NEW t \in Table, NEW x \in Addr
  PROVE  EffectUpTo(b, r, n)[s][t][x] =
           CASE r.op = "read" -> b[s][t][x]
             [] r.op = "relay" ->
                  IF s = RelaySlave /\ t \in {"coil", "holding"} /\ x \in Start(t) .. Start(t) + n - 1
                  THEN Off(t) ELSE b[s][t][x]
             [] r.op \in {"set", "write"} /\ ~ToRelay(r) ->
                  IF s = r.slave /\ t = r.table /\ x - r.addr + 1 \in Taken(r) \cap 1 .. n
                  THEN r.values[x - r.addr + 1] ELSE b[s][t][x]
             [] ToRelay(r) ->
                  IF s = RelaySlave /\ t \in {"coil", "holding"} /\ Source(r, t, x) \in Taken(r) \cap 1 .. n
                  THEN IF r.values[Source(r, t, x)] = On(r.table) THEN On(t) ELSE Off(t)
                  ELSE b[s][t][x]
<1>1. r.slave \in Slave /\ RelaySlave \in Slave /\ r.table \in Table
  BY StoreAssumption DEF Request
<1>2. r.op \in {"read", "set", "write", "relay"}
  BY DEF Request
<1>3. CASE r.op = "read"
  BY <1>3 DEF EffectUpTo, ToRelay
<1>4. CASE r.op = "relay"
  <2>1. EffectUpTo(b, r, n) =
          [b EXCEPT ![RelaySlave] =
            [u \in Table |-> [y \in Addr |->
               IF u \in {"coil", "holding"} /\ y \in Start(u) .. Start(u) + n - 1
               THEN Off(u) ELSE b[RelaySlave][u][y]]]]
    BY <1>4 DEF EffectUpTo, ToRelay
  <2> QED  BY <1>1, <1>4, <2>1 DEF Banks, ToRelay
<1>5. CASE r.op \in {"set", "write"} /\ ~ToRelay(r)
  <2>1. EffectUpTo(b, r, n) =
         [b EXCEPT ![r.slave][r.table] =
            [y \in Addr |->
               IF y - r.addr + 1 \in Taken(r) \cap 1 .. n
               THEN r.values[y - r.addr + 1] ELSE b[r.slave][r.table][y]]]
    BY <1>5 DEF EffectUpTo
  <2> QED  BY <1>1, <1>5, <2>1 DEF Banks
<1>6. CASE ToRelay(r)
  <2>1. EffectUpTo(b, r, n) =
         [b EXCEPT ![RelaySlave] =
            [u \in Table |-> [y \in Addr |->
               IF u \in {"coil", "holding"} /\ Source(r, u, y) \in Taken(r) \cap 1 .. n
               THEN IF r.values[Source(r, u, y)] = On(r.table) THEN On(u) ELSE Off(u)
               ELSE b[RelaySlave][u][y]]]]
    BY <1>6 DEF EffectUpTo, ToRelay
  <2> QED  BY <1>1, <1>6, <2>1 DEF Banks, ToRelay
<1> QED  BY <1>2, <1>3, <1>4, <1>5, <1>6

\* Before its first round a call has done nothing.
LEMMA NoRoundsNoEffect ==
  ASSUME NEW b \in Banks, NEW r \in Request
  PROVE  EffectUpTo(b, r, 0) = b
<1>1. EffectUpTo(b, r, 0) \in Banks
  BY EffectUpToType
<1>2. ASSUME NEW s \in Slave, NEW t \in Table, NEW x \in Addr
      PROVE  EffectUpTo(b, r, 0)[s][t][x] = b[s][t][x]
  <2>1. t \in {"coil", "holding"} => Start(t) \in Nat
    BY ChannelFacts
  <2>2. t \in {"coil", "holding"} => Start(t) .. Start(t) + 0 - 1 = {}
    BY <2>1
  <2>3. 1 .. 0 = {}
    OBVIOUS
  <2> QED  BY <2>2, <2>3, EffectCell DEF Request
<1> QED  BY <1>1, <1>2, SameBanks

\* Only a read looks at the banks to see whether its round fails.
LEMMA FailsWhateverBanks ==
  ASSUME NEW b, NEW d, NEW r \in Request, r.op # "read", NEW i
  PROVE  RoundFails(b, r, i) = RoundFails(d, r, i)
BY DEF RoundFails, Request

\* Once a value has been refused, nothing more of the call takes effect.
LEMMA FailedPrefix ==
  ASSUME NEW b \in Banks, NEW r \in Request, NEW n \in 1 .. Rounds(r), RoundFails(b, r, n)
  PROVE  EffectUpTo(b, r, n - 1) = EffectUpTo(b, r, Rounds(r))
<1>0. Rounds(r) \in Nat /\ n \in Nat /\ n - 1 \in Nat
  BY RoundsType
<1>1. EffectUpTo(b, r, n - 1) \in Banks /\ EffectUpTo(b, r, Rounds(r)) \in Banks
  BY <1>0, EffectUpToType
<1>2. CASE r.op \in {"set", "write"}
  <2>1. ~Takes(r, n) /\ ~Skips(r)
    BY <1>2 DEF RoundFails
  <2>2. Taken(r) \cap 1 .. n - 1 = Taken(r) \cap 1 .. Rounds(r)
    <3>1. ASSUME NEW i \in Taken(r) \cap 1 .. Rounds(r)
          PROVE  i \in 1 .. n - 1
      <4>1. \A j \in 1 .. i : Takes(r, j)
        BY <2>1 DEF Taken
      <4>2. n \notin 1 .. i
        BY <2>1, <4>1
      <4> QED  BY <1>0, <4>2
    <3> QED  BY <1>0, <3>1
  <2>3. \A s \in Slave, t \in Table, x \in Addr :
          EffectUpTo(b, r, n - 1)[s][t][x] = EffectUpTo(b, r, Rounds(r))[s][t][x]
    BY <1>0, <1>2, <2>2, EffectCell
  <2> QED  BY <1>1, <2>3, SameBanks
<1>3. CASE r.op \in {"read", "relay"}
  BY <1>3 DEF RoundFails, EffectUpTo, ToRelay
<1> QED  BY <1>2, <1>3 DEF Request
\* The banks with u and v in the two cells of channel k: see SwitchChannel.
PutChannel(b, k, u, v) ==
  [b EXCEPT ![RelaySlave]["coil"][CoilStart + k] = u,
            ![RelaySlave]["holding"][HoldingStart + k] = v]

\* Switching a channel changes its two cells and no other.
LEMMA SwitchCell ==
  ASSUME NEW b \in Banks, NEW k \in 0 .. Channels - 1, NEW u \in Cell, NEW v \in Cell
  PROVE  /\ PutChannel(b, k, u, v) \in Banks
         /\ \A s \in Slave, t \in Table, x \in Addr :
              PutChannel(b, k, u, v)[s][t][x] =
                IF s = RelaySlave /\ t = "coil" /\ x = CoilStart + k THEN u
                ELSE IF s = RelaySlave /\ t = "holding" /\ x = HoldingStart + k THEN v
                ELSE b[s][t][x]
<1> DEFINE d == [b EXCEPT ![RelaySlave]["coil"][CoilStart + k] = u]
<1>1. RelaySlave \in Slave
  BY StoreAssumption
<1>2. CoilStart + k \in Addr /\ HoldingStart + k \in Addr
  BY ChannelFacts DEF Start
<1>3. d \in Banks
  BY <1>1, <1>2 DEF Banks, Table
<1>4. \A s \in Slave, t \in Table, x \in Addr :
        d[s][t][x] = IF s = RelaySlave /\ t = "coil" /\ x = CoilStart + k THEN u ELSE b[s][t][x]
  BY <1>1, <1>2 DEF Banks, Table
<1>5. PutChannel(b, k, u, v) = [d EXCEPT ![RelaySlave]["holding"][HoldingStart + k] = v]
  BY DEF PutChannel
<1> HIDE DEF d
<1>6. PutChannel(b, k, u, v) \in Banks
  BY <1>1, <1>2, <1>3, <1>5 DEF Banks, Table
<1>7. \A s \in Slave, t \in Table, x \in Addr :
        PutChannel(b, k, u, v)[s][t][x] =
          IF s = RelaySlave /\ t = "holding" /\ x = HoldingStart + k THEN v ELSE d[s][t][x]
  BY <1>1, <1>2, <1>3, <1>5 DEF Banks, Table
<1> QED  BY <1>4, <1>6, <1>7

\* A round that does not fail takes the banks one step nearer to the effect
\* of the call.
LEMMA NextRound ==
  ASSUME NEW b \in Banks, NEW r \in Request, Admitted(r), NEW n \in 1 .. Rounds(r),
         \A i \in 1 .. n : ~RoundFails(b, r, i)
  PROVE  RoundEffect(EffectUpTo(b, r, n - 1), r, n) = EffectUpTo(b, r, n)
<1> DEFINE d == EffectUpTo(b, r, n - 1)
           e == EffectUpTo(b, r, n)
<1>0. Rounds(r) \in Nat /\ n \in Nat /\ n - 1 \in Nat /\ n \in 1 .. n
  BY RoundsType
<1>1. d \in Banks /\ e \in Banks
  BY <1>0, EffectUpToType
<1> HIDE DEF d, e
<1>2. CASE r.op = "read"
  BY <1>2 DEF EffectUpTo, ToRelay, RoundEffect, d, e
<1>3. CASE r.op = "relay"
  <2>1. n - 1 \in 0 .. Channels - 1
    BY <1>3, <1>0, ChannelFacts DEF Rounds
  <2>2. RoundEffect(d, r, n) =
          PutChannel(d, n - 1, CoilOff, HoldingOff)
    BY <1>3 DEF RoundEffect, SwitchChannel, PutChannel
  <2>3. CoilOff \in Cell /\ HoldingOff \in Cell
    BY StoreAssumption DEF Cell
  <2>4. ASSUME NEW s \in Slave, NEW t \in Table, NEW x \in Addr
        PROVE  RoundEffect(d, r, n) \in Banks /\ RoundEffect(d, r, n)[s][t][x] = e[s][t][x]
    <3> DEFINE on(m) == s = RelaySlave /\ t \in {"coil", "holding"} /\ x \in Start(t) .. Start(t) + m - 1
    <3>1. /\ RoundEffect(d, r, n) \in Banks
          /\ RoundEffect(d, r, n)[s][t][x] =
               IF s = RelaySlave /\ t \in {"coil", "holding"} /\ x = Start(t) + (n - 1)
               THEN Off(t) ELSE d[s][t][x]
      BY <1>1, <2>1, <2>2, <2>3, SwitchCell DEF Start, Off
    <3>2. d[s][t][x] = IF on(n - 1) THEN Off(t) ELSE b[s][t][x]
      BY <1>0, <1>3, EffectCell DEF ToRelay, d, e
    <3>3. e[s][t][x] = IF on(n) THEN Off(t) ELSE b[s][t][x]
      BY <1>0, <1>3, EffectCell DEF ToRelay, d, e
    <3>4. x \in Int /\ (t \in {"coil", "holding"} => Start(t) \in Nat)
      BY ChannelFacts, StoreAssumption DEF Addr
    <3>5. on(n) <=> \/ on(n - 1)
                    \/ s = RelaySlave /\ t \in {"coil", "holding"} /\ x = Start(t) + (n - 1)
      BY <1>0, <3>4
    <3> HIDE DEF on
    <3> QED  BY <3>1, <3>2, <3>3, <3>5
  <2>5. RoundEffect(d, r, n) \in Banks
    BY <2>4, StoreAssumption DEF Table, Addr
  <2> QED  BY <1>1, <2>4, <2>5, SameBanks DEF d, e
<1>4. ASSUME r.op \in {"set", "write"}
      PROVE  /\ r.values \in Seq(Word) /\ n \in DOMAIN r.values
             /\ r.table \in Table /\ r.slave \in Slave /\ r.addr \in Nat /\ r.addr + n - 1 \in Addr
             /\ Takes(r, n) \/ Skips(r)
             /\ (n \in Taken(r) <=> Takes(r, n))
  <2>1. r.values \in Seq(Word) /\ r.table \in Table /\ r.slave \in Slave /\ r.addr \in Addr
    BY DEF Request
  <2>2. Rounds(r) = Len(r.values) /\ LastAddr \in Nat /\ r.addr + Len(r.values) <= LastAddr + 1
    BY <1>4, StoreAssumption DEF Rounds, Admitted, InRange
  <2>3. \A i \in 1 .. n : Takes(r, i) \/ Skips(r)
    BY <1>4 DEF RoundFails
  <2>4. n \in DOMAIN r.values /\ r.addr \in Nat /\ r.addr + n - 1 \in Addr
    BY <1>0, <2>1, <2>2 DEF Addr
  <2>5. n \in Taken(r) <=> Takes(r, n)
    BY <1>0, <2>3, <2>4 DEF Taken
  <2> QED  BY <1>0, <2>1, <2>3, <2>4, <2>5
<1>5. ASSUME r.op \in {"set", "write"}
      PROVE  \A i \in Int : i \in Taken(r) \cap 1 .. n <=>
                              i \in Taken(r) \cap 1 .. n - 1 \/ (i = n /\ Takes(r, n))
  BY <1>0, <1>4, <1>5
<1>6. CASE r.op \in {"set", "write"} /\ ~Takes(r, n)
  <2>1. RoundEffect(d, r, n) = d
    BY <1>6 DEF RoundEffect
  <2>2. Taken(r) \cap 1 .. n = Taken(r) \cap 1 .. n - 1
    BY <1>0, <1>4, <1>6
  <2>3. \A s \in Slave, t \in Table, x \in Addr : d[s][t][x] = e[s][t][x]
    BY <1>0, <1>6, <2>2, EffectCell DEF d, e
  <2> QED  BY <1>1, <2>1, <2>3, SameBanks DEF d, e
<1>7. CASE r.op \in {"set", "write"} /\ Takes(r, n) /\ ~ToRelay(r)
  <2>1. RoundEffect(d, r, n) = [d EXCEPT ![r.slave][r.table][r.addr + n - 1] = r.values[n]]
    BY <1>7 DEF RoundEffect
  <2>2. r.values[n] \in Cell
    BY <1>4, <1>7 DEF Cell
  <2>3. RoundEffect(d, r, n) \in Banks
    BY <1>1, <1>4, <1>7, <2>1, <2>2 DEF Banks
  <2>4. ASSUME NEW s \in Slave, NEW t \in Table, NEW x \in Addr
        PROVE  RoundEffect(d, r, n)[s][t][x] = e[s][t][x]
    <3> DEFINE at(m) == s = r.slave /\ t = r.table /\ x - r.addr + 1 \in Taken(r) \cap 1 .. m
    <3>1. RoundEffect(d, r, n)[s][t][x] =
            IF s = r.slave /\ t = r.table /\ x = r.addr + n - 1 THEN r.values[n] ELSE d[s][t][x]
      BY <1>1, <1>4, <1>7, <2>1 DEF Banks
    <3>2. d[s][t][x] = IF at(n - 1) THEN r.values[x - r.addr + 1] ELSE b[s][t][x]
      BY <1>0, <1>7, EffectCell DEF d, e
    <3>3. e[s][t][x] = IF at(n) THEN r.values[x - r.addr + 1] ELSE b[s][t][x]
      BY <1>0, <1>7, EffectCell DEF d, e
    <3>4. x \in Int /\ r.addr \in Int /\ x - r.addr + 1 \in Int
      BY StoreAssumption DEF Addr, Request
    <3>5. x = r.addr + n - 1 <=> x - r.addr + 1 = n
      BY <1>0, <3>4
    <3>6. at(n) <=> at(n - 1) \/ (s = r.slave /\ t = r.table /\ x - r.addr + 1 = n)
      BY <1>5, <1>7, <3>4
    <3> HIDE DEF at
    <3> QED  BY <3>1, <3>2, <3>3, <3>5, <3>6
  <2> QED  BY <1>1, <2>3, <2>4, SameBanks DEF d, e
<1>8. CASE r.op \in {"set", "write"} /\ Takes(r, n) /\ ToRelay(r)
  <2> DEFINE k == r.addr + n - 1 - Start(r.table)
             u == IF r.values[n] = On(r.table) THEN CoilOn ELSE CoilOff
             v == IF r.values[n] = On(r.table) THEN HoldingOn ELSE HoldingOff
  <2>1. RoundEffect(d, r, n) = PutChannel(d, k, u, v)
    BY <1>8 DEF RoundEffect, SwitchChannel, PutChannel
  <2>2. r.table \in {"coil", "holding"}
    BY <1>8 DEF Admitted, ToRelay
  <2>3. k \in 0 .. Channels - 1
    <3>1. r.addr + n - 1 \in ChannelAddr(r.table)
      BY <1>4, <1>8, RelayTakesChannels
    <3>2. r.addr \in Int /\ n \in Int /\ Start(r.table) \in Int /\ Channels \in Int
      BY <1>0, <1>4, <1>8, <2>2, ChannelFacts
    <3> QED  BY <3>1, <3>2 DEF ChannelAddr
  <2>4. ASSUME NEW s \in Slave, NEW t \in Table, NEW x \in Addr
        PROVE  RoundEffect(d, r, n) \in Banks /\ RoundEffect(d, r, n)[s][t][x] = e[s][t][x]
    <3> DEFINE there == s = RelaySlave /\ t \in {"coil", "holding"}
               j == Source(r, t, x)
               driven == IF r.values[j] = On(r.table) THEN On(t) ELSE Off(t)
    <3>1. /\ RoundEffect(d, r, n) \in Banks
          /\ RoundEffect(d, r, n)[s][t][x] =
               IF there /\ x = Start(t) + k
               THEN IF r.values[n] = On(r.table) THEN On(t) ELSE Off(t) ELSE d[s][t][x]
      <4>1. u \in Cell /\ v \in Cell
        BY StoreAssumption DEF Cell
      <4> HIDE DEF k, u, v
      <4>2. /\ RoundEffect(d, r, n) \in Banks
            /\ RoundEffect(d, r, n)[s][t][x] =
                 IF s = RelaySlave /\ t = "coil" /\ x = CoilStart + k THEN u
                 ELSE IF s = RelaySlave /\ t = "holding" /\ x = HoldingStart + k THEN v
                 ELSE d[s][t][x]
        BY <1>1, <2>1, <2>3, <4>1, SwitchCell
      <4> QED  BY <4>2 DEF Start, On, Off, u, v
    <3>2. d[s][t][x] = IF there /\ j \in Taken(r) \cap 1 .. n - 1 THEN driven ELSE b[s][t][x]
      BY <1>0, <1>8, EffectCell DEF ToRelay, d, e
    <3>3. e[s][t][x] = IF there /\ j \in Taken(r) \cap 1 .. n THEN driven ELSE b[s][t][x]
      BY <1>0, <1>8, EffectCell DEF ToRelay, d, e
    <3>4. there => /\ j \in Int
                   /\ x = Start(t) + k <=> j = n
      <4>1. x \in Int /\ r.addr \in Int /\ n \in Int /\ Start(r.table) \in Int
        BY <1>0, <2>2, ChannelFacts, StoreAssumption DEF Addr, Request
      <4>2. there => Start(t) \in Int
        BY ChannelFacts
      <4> QED  BY <4>1, <4>2 DEF Source
    <3>5. there => (j \in Taken(r) \cap 1 .. n <=> j \in Taken(r) \cap 1 .. n - 1 \/ j = n)
      BY <1>5, <1>8, <3>4
    <3> HIDE DEF j, there
    <3> QED  BY <3>1, <3>2, <3>3, <3>4, <3>5
  <2>5. RoundEffect(d, r, n) \in Banks
    BY <2>4, StoreAssumption DEF Table, Addr
  <2> QED  BY <1>1, <2>4, <2>5, SameBanks DEF d, e
<1> QED  BY <1>2, <1>3, <1>6, <1>7, <1>8 DEF Request, d, e

-----------------------------------------------------------------------------
(***************************************************************************)
(* The codec: the encoding of a request by a master and its decoding by a  *)
(* slave agree for every request that passes the validation of types.go.   *)
(***************************************************************************)

\* What the solvers need to know of ranges, one fact at a time.
LEMMA Ranges ==
  /\ MaxUint16 \in Nat
  /\ \A n \in UInt16 : n \in Nat /\ n <= MaxUint16
  /\ \A n \in UInt8 : n \in Nat /\ n <= 255
  /\ \A n \in Nat : (n <= MaxUint16 => n \in UInt16) /\ (n <= 255 => n \in UInt8)
<1>1. MaxUint16 \in Nat
  BY DEF MaxUint16
<1>2. ASSUME NEW n \in UInt16 PROVE n \in Nat /\ n <= MaxUint16
  BY <1>1 DEF UInt16
<1>3. ASSUME NEW n \in UInt8 PROVE n \in Nat /\ n <= 255
  BY DEF UInt8
<1>4. ASSUME NEW n \in Nat, n <= MaxUint16 PROVE n \in UInt16
  BY <1>1, <1>4 DEF UInt16
<1>5. ASSUME NEW n \in Nat, n <= 255 PROVE n \in UInt8
  BY <1>5 DEF UInt8
<1> QED  BY <1>1, <1>2, <1>3, <1>4, <1>5

\* A function on 1 .. n is a sequence of its values.
LEMMA ASequence ==
  ASSUME NEW S, NEW n \in Nat, NEW p, p = [j \in 1 .. n |-> p[j]], \A j \in 1 .. n : p[j] \in S
  PROVE  p \in Seq(S) /\ Len(p) = n
<1>1. p \in [1 .. n -> S]
  BY Zenon
<1>2. p \in Seq(S)
  BY <1>1, SeqDef
<1> QED  BY <1>1, <1>2, LenProperties

\* The bytes of a word, and the word from its bytes.
LEMMA WordOfU16 ==
  ASSUME NEW n \in UInt16
  PROVE  \E k, l \in UInt8 : U16(n) = <<k, l>> /\ 256 * k + l = n
<1>0. n \in Nat /\ n <= 65535
  BY Ranges DEF MaxUint16
<1>1. n \div 256 < 256 /\ n \div 256 >= 0
  BY <1>0, Z3
<1>2. 256 * (n \div 256) + (n % 256) = n
  BY <1>0, Z3
<1>3. n % 256 < 256 /\ n % 256 >= 0
  BY <1>0, Z3
<1>4. n \div 256 \in Nat /\ n % 256 \in Nat
  BY <1>0, <1>1, <1>3
<1> DEFINE k == n \div 256
           l == n % 256
<1>5. k \in UInt8 /\ l \in UInt8
  BY <1>1, <1>3, <1>4 DEF UInt8
<1>6. Byte(k) = k
  <2>1. k \in Nat /\ k < 256
    BY <1>1, <1>4
  <2> HIDE DEF k
  <2> QED  BY <2>1 DEF Byte
<1>7. U16(n) = <<k, l>>
  BY <1>6 DEF U16, Byte
<1> QED  BY <1>2, <1>5, <1>7

\* The bytes that the bits of one PDU take fit its byte count.
LEMMA ByteCountFacts ==
  ASSUME NEW n \in Nat, n <= 2000
  PROVE  ByteCount(n) \in Nat /\ ByteCount(n) <= 250
<1>1. (n + 7) \div 8 <= 250 /\ (n + 7) \div 8 >= 0
  BY Z3
<1>2. (n + 7) \div 8 \in Int
  BY Z3
<1> QED  BY <1>1, <1>2 DEF ByteCount

\* Eight bits survive being packed into a byte.
LEMMA EightBits ==
  ASSUME NEW b, \A k \in 1 .. 8 : b[k] \in {0, 1}
  PROVE  /\ ByteOf(b) \in UInt8
         /\ \A k \in 1 .. 8 : (ByteOf(b) \div Weight[k]) % 2 = b[k]
<1>1. PICK b1 \in {0, 1}, b2 \in {0, 1}, b3 \in {0, 1}, b4 \in {0, 1},
           b5 \in {0, 1}, b6 \in {0, 1}, b7 \in {0, 1}, b8 \in {0, 1} :
        /\ b[1] = b1 /\ b[2] = b2 /\ b[3] = b3 /\ b[4] = b4
        /\ b[5] = b5 /\ b[6] = b6 /\ b[7] = b7 /\ b[8] = b8
  OBVIOUS
<1> DEFINE n == ByteOf(b)
<1>2. n = b1 + 2 * b2 + 4 * b3 + 8 * b4 + 16 * b5 + 32 * b6 + 64 * b7 + 128 * b8
  BY <1>1 DEF ByteOf, Weight
<1> HIDE DEF n
<1>3. /\ n \in Nat /\ n <= 255
      /\ (n \div 1) % 2 = b1 /\ (n \div 2) % 2 = b2 /\ (n \div 4) % 2 = b3
      /\ (n \div 8) % 2 = b4 /\ (n \div 16) % 2 = b5 /\ (n \div 32) % 2 = b6
      /\ (n \div 64) % 2 = b7 /\ (n \div 128) % 2 = b8
  BY <1>2
<1>4. /\ Weight[1] = 1 /\ Weight[2] = 2 /\ Weight[3] = 4 /\ Weight[4] = 8
      /\ Weight[5] = 16 /\ Weight[6] = 32 /\ Weight[7] = 64 /\ Weight[8] = 128
  BY DEF Weight
<1>5. ASSUME NEW k \in 1 .. 8
      PROVE  (n \div Weight[k]) % 2 = b[k]
  <2>1. k \in {1, 2, 3, 4, 5, 6, 7, 8}
    OBVIOUS
  <2> QED  BY <1>1, <1>3, <1>4, <2>1
<1> QED  BY <1>3, <1>5, Ranges DEF n

\* The place of a bit: its byte and its weight in the byte.
LEMMA BitPlace ==
  ASSUME NEW i \in Nat, i >= 1
  PROVE  /\ (i - 1) \div 8 \in Nat /\ (i - 1) % 8 \in 0 .. 7
         /\ i = 8 * ((i - 1) \div 8) + ((i - 1) % 8) + 1
         /\ \A n \in Nat : i <= n => (i - 1) \div 8 + 1 <= ByteCount(n)
<1> DEFINE j == (i - 1) \div 8
           k == (i - 1) % 8
<1>1. j >= 0 /\ k >= 0 /\ k < 8 /\ i = 8 * j + k + 1
  BY Z3
<1>2. j \in Int /\ k \in Int
  BY Z3
<1>3. ASSUME NEW n \in Nat, i <= n
      PROVE  j + 1 <= ByteCount(n)
  <2>1. (i - 1) \div 8 + 1 <= (n + 7) \div 8
    BY <1>3, Z3
  <2> QED  BY <2>1 DEF ByteCount
<1> QED  BY <1>1, <1>2, <1>3

\* Bits survive being packed and unpacked.
LEMMA PackedBits ==
  ASSUME NEW v \in Seq({0, 1}), Len(v) <= 2000
  PROVE  /\ PackBits(v) \in Seq(UInt8)
         /\ Len(PackBits(v)) = ByteCount(Len(v))
         /\ \A i \in 1 .. Len(v) :
               (PackBits(v)[(i - 1) \div 8 + 1] \div Weight[((i - 1) % 8) + 1]) % 2 = v[i]
<1> DEFINE m == ByteCount(Len(v))
           b(j) == [k \in 1 .. 8 |-> BitOf(v, 8 * (j - 1) + k)]
<1>1. m \in Nat
  BY ByteCountFacts
<1>2. \A j \in Int, k \in 1 .. 8 : b(j)[k] \in {0, 1}
  BY DEF BitOf
<1>3. PackBits(v) = [j \in 1 .. m |-> ByteOf(b(j))]
  BY DEF PackBits
<1>4. ASSUME NEW j \in 1 .. m
      PROVE  /\ ByteOf(b(j)) \in UInt8
             /\ \A k \in 1 .. 8 : (ByteOf(b(j)) \div Weight[k]) % 2 = b(j)[k]
  <2>1. \A k \in 1 .. 8 : b(j)[k] \in {0, 1}
    <3> HIDE DEF m, b
    <3>1. j \in Int
      BY <1>1
    <3> QED  BY <3>1, <1>2
  <2> HIDE DEF b
  <2> QED  BY <2>1, EightBits
<1>5. ASSUME NEW i \in 1 .. Len(v)
      PROVE  (PackBits(v)[(i - 1) \div 8 + 1] \div Weight[((i - 1) % 8) + 1]) % 2 = v[i]
  <2> DEFINE j == (i - 1) \div 8 + 1
             k == ((i - 1) % 8) + 1
  <2>1. j \in 1 .. m /\ k \in 1 .. 8 /\ i = 8 * (j - 1) + k
    BY BitPlace, <1>1
  <2>2. b(j)[k] = v[i]
    <3> HIDE DEF j, k
    <3>1. v[i] \in {0, 1} /\ i \in DOMAIN v
      OBVIOUS
    <3> QED  BY <2>1, <3>1 DEF BitOf
  <2> HIDE DEF j, k, b
  <2>3. PackBits(v)[j] = ByteOf(b(j))
    BY <1>3, <2>1
  <2>4. (PackBits(v)[j] \div Weight[k]) % 2 = v[i]
    BY <1>4, <2>1, <2>2, <2>3
  <2> QED  BY <2>4 DEF j, k
<1> HIDE DEF m, b
<1>6. PackBits(v) = [j \in 1 .. m |-> PackBits(v)[j]] /\ \A j \in 1 .. m : PackBits(v)[j] \in UInt8
  BY <1>3, <1>4
<1>7. PackBits(v) \in Seq(UInt8) /\ Len(PackBits(v)) = m
  BY <1>1, <1>6, ASequence
<1> QED  BY <1>5, <1>7 DEF m

\* The byte j belongs to the word (j + 1) \div 2.
LEMMA Halves ==
  ASSUME NEW n \in Nat, NEW j \in Nat, j >= 1, j <= 2 * n
  PROVE  (j + 1) \div 2 \in Nat /\ (j + 1) \div 2 >= 1 /\ (j + 1) \div 2 <= n
<1>1. (j + 1) \div 2 >= 1
  BY Z3
<1>2. (j + 1) \div 2 <= n
  BY Z3
<1>3. (j + 1) \div 2 \in Int
  BY Z3
<1> QED  BY <1>1, <1>2, <1>3

\* The bytes of word i are 2 * i - 1 and 2 * i.
LEMMA Doubles ==
  ASSUME NEW i \in Nat
  PROVE  /\ \A j \in Int : j = 2 * i - 1 => (j + 1) \div 2 = i /\ j % 2 = 1
         /\ \A j \in Int : j = 2 * i => (j + 1) \div 2 = i /\ j % 2 # 1
<1>1. ASSUME NEW j \in Int, j = 2 * i - 1
      PROVE  (j + 1) \div 2 = i /\ j % 2 = 1
  BY <1>1, Z3
<1>2. ASSUME NEW j \in Int, j = 2 * i
      PROVE  (j + 1) \div 2 = i /\ j % 2 # 1
  BY <1>2, Z3
<1> QED  BY <1>1, <1>2

\* Words survive being packed and unpacked.
LEMMA PackedWords ==
  ASSUME NEW v \in Seq(UInt16)
  PROVE  /\ PackWords(v) \in Seq(UInt8)
         /\ Len(PackWords(v)) = 2 * Len(v)
         /\ \A i \in 1 .. Len(v) : 256 * PackWords(v)[2 * i - 1] + PackWords(v)[2 * i] = v[i]
<1> DEFINE n == Len(v)
<1>0. n \in Nat
  OBVIOUS
<1>1. \A i \in 1 .. n : v[i] \in UInt16
  OBVIOUS
<1>2. PackWords(v) =
        [j \in 1 .. 2 * n |-> U16(v[(j + 1) \div 2])[IF j % 2 = 1 THEN 1 ELSE 2]]
  BY DEF PackWords
<1> HIDE DEF n
<1>3. ASSUME NEW j \in 1 .. 2 * n
      PROVE  PackWords(v)[j] \in UInt8
  <2> DEFINE w == v[(j + 1) \div 2]
  <2>1. j \in Nat /\ j >= 1 /\ j <= 2 * n
    BY <1>0
  <2>2. w \in UInt16
    BY <1>0, <1>1, <2>1, Halves
  <2>3. PackWords(v)[j] = U16(w)[IF j % 2 = 1 THEN 1 ELSE 2]
    BY <1>2
  <2> HIDE DEF w
  <2> QED  BY <2>2, <2>3, WordOfU16
<1>4. ASSUME NEW i \in 1 .. n
      PROVE  256 * PackWords(v)[2 * i - 1] + PackWords(v)[2 * i] = v[i]
  <2>1. i \in Nat /\ 2 * i - 1 \in 1 .. 2 * n /\ 2 * i \in 1 .. 2 * n
    BY <1>0
  <2>2. PackWords(v)[2 * i - 1] = U16(v[i])[1]
    BY <1>2, <2>1, Doubles
  <2>3. PackWords(v)[2 * i] = U16(v[i])[2]
    BY <1>2, <2>1, Doubles
  <2> QED  BY <1>1, <2>2, <2>3, WordOfU16
<1>5. PackWords(v) = [j \in 1 .. 2 * n |-> PackWords(v)[j]]
  BY <1>2
<1>6. PackWords(v) \in Seq(UInt8) /\ Len(PackWords(v)) = 2 * n
  <2>1. 2 * n \in Nat
    BY <1>0
  <2> QED  BY <2>1, <1>3, <1>5, ASequence
<1> QED  BY <1>4, <1>6 DEF n

\* After its first `at` bytes, p carries s.
Carries(p, at, s) == \A i \in 1 .. Len(s) : p[at + i] = s[i]

\* Bits are found again wherever in a PDU they have been packed.
LEMMA BitsBack ==
  ASSUME NEW v \in Seq({0, 1}), Len(v) <= 2000, NEW p, NEW at \in Nat,
         Carries(p, at, PackBits(v))
  PROVE  UnpackBits(p, at + 1, Len(v)) = v
<1> DEFINE n == Len(v)
           s == PackBits(v)
           k == ByteCount(n)
<1>1. n \in Nat /\ k \in Nat
  BY ByteCountFacts
<1>2. \A i \in 1 .. n : (s[(i - 1) \div 8 + 1] \div Weight[((i - 1) % 8) + 1]) % 2 = v[i]
  BY PackedBits
<1>3. v = [i \in 1 .. n |-> v[i]]
  OBVIOUS
<1>4. \A i \in 1 .. k : p[at + i] = s[i]
  BY PackedBits DEF Carries
<1> HIDE DEF s
<1>5. ASSUME NEW i \in 1 .. n
      PROVE  UnpackBits(p, at + 1, n)[i] = v[i]
  <2> DEFINE j == (i - 1) \div 8
  <2>1. j \in Nat /\ j + 1 \in 1 .. k
    BY <1>1, BitPlace
  <2>2. UnpackBits(p, at + 1, n)[i] = (p[at + 1 + j] \div Weight[((i - 1) % 8) + 1]) % 2
    BY DEF UnpackBits
  <2> HIDE DEF j
  <2>3. p[at + 1 + j] = s[j + 1]
    <3>1. p[at + (j + 1)] = s[j + 1]
      BY <1>4, <2>1
    <3>2. at + 1 + j = at + (j + 1)
      BY <2>1
    <3> QED  BY <3>1, <3>2
  <2> QED  BY <1>2, <2>2, <2>3 DEF j
<1>6. UnpackBits(p, at + 1, n) = [i \in 1 .. n |-> UnpackBits(p, at + 1, n)[i]]
  BY DEF UnpackBits
<1> QED  BY <1>3, <1>5, <1>6

\* So are words.
LEMMA WordsBack ==
  ASSUME NEW v \in Seq(UInt16), NEW p, NEW at \in Nat,
         Carries(p, at, PackWords(v))
  PROVE  UnpackWords(p, at + 1, Len(v)) = v
<1> DEFINE n == Len(v)
           s == PackWords(v)
<1>1. n \in Nat
  OBVIOUS
<1>2. \A i \in 1 .. n : 256 * s[2 * i - 1] + s[2 * i] = v[i]
  BY PackedWords
<1>3. v = [i \in 1 .. n |-> v[i]]
  OBVIOUS
<1>6. \A i \in 1 .. 2 * n : p[at + i] = s[i]
  BY PackedWords DEF Carries
<1> HIDE DEF s
<1>4. ASSUME NEW i \in 1 .. n
      PROVE  UnpackWords(p, at + 1, n)[i] = v[i]
  <2>1. /\ 2 * i - 1 \in 1 .. 2 * n /\ 2 * i \in 1 .. 2 * n
        /\ at + 1 + 2 * (i - 1) = at + (2 * i - 1) /\ at + 1 + 2 * (i - 1) + 1 = at + 2 * i
    BY <1>1
  <2>2. p[at + 1 + 2 * (i - 1)] = s[2 * i - 1] /\ p[at + 1 + 2 * (i - 1) + 1] = s[2 * i]
    BY <1>6, <2>1
  <2>3. UnpackWords(p, at + 1, n)[i] = 256 * p[at + 1 + 2 * (i - 1)] + p[at + 1 + 2 * (i - 1) + 1]
    BY DEF UnpackWords, WordAt
  <2> QED  BY <1>2, <2>2, <2>3
<1>5. UnpackWords(p, at + 1, n) = [i \in 1 .. n |-> UnpackWords(p, at + 1, n)[i]]
  BY DEF UnpackWords
<1> QED  BY <1>3, <1>4, <1>5

-----------------------------------------------------------------------------
\* A request without and with a payload: function code, two words, the rest.
ShortBytes(f, m, n) == <<f>> \o U16(m) \o U16(n)

LongBytes(f, m, n, k, s) == <<f>> \o U16(m) \o (U16(n) \o <<k>> \o s)

\* What the slave finds in the second.
LongPlaces(p, f, m, n, k, s) ==
  /\ p \in Seq(UInt8) /\ Len(p) = 6 + Len(s)
  /\ Code(p) = f /\ WordAt(p, 2) = m /\ WordAt(p, 4) = n
  /\ p[6] = k /\ \A i \in 1 .. Len(s) : p[6 + i] = s[i]

\* A PDU of two words, as of FC01 to FC06 (client.go:67-86).
LEMMA ShortPDU ==
  ASSUME NEW f \in UInt8, NEW m \in UInt16, NEW n \in UInt16
  PROVE  LET p == ShortBytes(f, m, n)
         IN  /\ p \in Seq(UInt8) /\ Len(p) = 5
             /\ Code(p) = f /\ WordAt(p, 2) = m /\ WordAt(p, 4) = n
<1> DEFINE p == ShortBytes(f, m, n)
<1>1. PICK mh \in UInt8, ml \in UInt8 : U16(m) = <<mh, ml>> /\ 256 * mh + ml = m
  BY WordOfU16
<1>2. PICK nh \in UInt8, nl \in UInt8 : U16(n) = <<nh, nl>> /\ 256 * nh + nl = n
  BY WordOfU16
<1>3. p = <<f>> \o <<mh, ml>> \o <<nh, nl>>
  BY <1>1, <1>2 DEF ShortBytes
<1> HIDE DEF p
<1>4. p \in Seq(UInt8) /\ Len(p) = 5
  BY <1>3
<1>5. p[1] = f /\ p[2] = mh /\ p[3] = ml /\ p[4] = nh /\ p[5] = nl
  BY <1>3
<1>6. p # << >>
  BY <1>4
<1>7. Code(p) = f /\ WordAt(p, 2) = m /\ WordAt(p, 4) = n
  BY <1>1, <1>2, <1>5, <1>6 DEF Code, WordAt
<1> QED  BY <1>4, <1>7 DEF p

\* A PDU with two words and a payload, as of FC15 and FC16 (client.go:87-111).
LEMMA LongPDU ==
  ASSUME NEW f \in UInt8, NEW m \in UInt16, NEW n \in UInt16, NEW k \in UInt8, NEW s \in Seq(UInt8)
  PROVE  LongPlaces(LongBytes(f, m, n, k, s), f, m, n, k, s)
<1> DEFINE p == LongBytes(f, m, n, k, s)
<1>1. PICK mh \in UInt8, ml \in UInt8 : U16(m) = <<mh, ml>> /\ 256 * mh + ml = m
  BY WordOfU16
<1>2. PICK nh \in UInt8, nl \in UInt8 : U16(n) = <<nh, nl>> /\ 256 * nh + nl = n
  BY WordOfU16
<1>3. p = <<f>> \o <<mh, ml>> \o (<<nh, nl>> \o <<k>> \o s)
  BY <1>1, <1>2 DEF LongBytes
<1> HIDE DEF p
<1>4. p \in Seq(UInt8) /\ Len(p) = 6 + Len(s)
  BY <1>3
<1>5. p[1] = f /\ p[2] = mh /\ p[3] = ml /\ p[4] = nh /\ p[5] = nl /\ p[6] = k
  BY <1>3
<1>6. \A i \in 1 .. Len(s) : p[6 + i] = s[i]
  BY <1>3
<1>7. p # << >>
  BY <1>4
<1>8. Code(p) = f /\ WordAt(p, 2) = m /\ WordAt(p, 4) = n
  BY <1>1, <1>2, <1>5, <1>7 DEF Code, WordAt
<1>9. LongPlaces(p, f, m, n, k, s)
  BY <1>4, <1>5, <1>6, <1>8 DEF LongPlaces
<1> QED  BY <1>9 DEF p

\* What makes a PDU mean a request.
LEMMA SameCall ==
  ASSUME NEW q, NEW p, q.fc \in FunctionCodes, Code(p) = q.fc, WordAt(p, 2) = q.addr,
         q.fc \in ReadCodes => WordAt(p, 4) = q.qty,
         q.fc = 5 => (IF WordAt(p, 4) = FF00 THEN 1 ELSE 0) = q.value,
         q.fc = 6 => WordAt(p, 4) = q.value,
         q.fc = 15 => UnpackBits(p, 7, WordAt(p, 4)) = q.values,
         q.fc = 16 => UnpackWords(p, 7, WordAt(p, 4)) = q.values
  PROVE  StoreCall(q.slave, p) = Meant(q)
<1>1. q.fc \in {1, 2, 3, 4, 5, 6, 15, 16}
  BY DEF FunctionCodes, MultiCodes
<1>2. /\ (Code(p) \in ReadCodes) <=> (q.fc \in {1, 2, 3, 4})
      /\ (q.fc \in ReadCodes) <=> (q.fc \in {1, 2, 3, 4})
      /\ (q.fc \in MultiCodes) <=> (q.fc \in {15, 16})
  BY DEF ReadCodes, MultiCodes
<1>3. CASE q.fc \in {1, 2, 3, 4}
  BY <1>2, <1>3 DEF StoreCall, Meant
<1>4. CASE q.fc = 5
  BY <1>2, <1>4 DEF StoreCall, Meant
<1>5. CASE q.fc = 6
  BY <1>2, <1>5 DEF StoreCall, Meant
<1>6. CASE q.fc = 15
  BY <1>2, <1>6 DEF StoreCall, Meant
<1>7. CASE q.fc = 16
  BY <1>2, <1>7 DEF StoreCall, Meant
<1> QED  BY <1>1, <1>3, <1>4, <1>5, <1>6, <1>7

\* The two sides have the same limits, and none overflows a byte count.
LEMMA SameLimits ==
  /\ \A fc \in ReadCodes \cup MultiCodes : AskLimit(fc) = ServeLimit(fc) /\ AskLimit(fc) \in Nat
  /\ AskLimit(15) <= 1968 /\ AskLimit(16) <= 123
<1>1. \A fc \in ReadCodes \cup MultiCodes : AskLimit(fc) = ServeLimit(fc) /\ AskLimit(fc) \in Nat
  BY DEF MultiCodes, ReadCodes, AskLimit, ServeLimit
<1>2. AskLimit(15) <= 1968 /\ AskLimit(16) <= 123
  BY DEF AskLimit
<1> QED  BY <1>1, <1>2

\* The fields of a request that its PDU carries.
LEMMA FieldsOfRequest ==
  ASSUME NEW q \in MasterRequest
  PROVE  /\ q.fc \in UInt8 /\ q.addr \in UInt16 /\ q.qty \in UInt16
         /\ q.value \in UInt16 /\ q.values \in Seq(UInt16)
<1>1. /\ q.fc \in UInt8 /\ q.addr \in Addr /\ q.qty \in UInt16
      /\ q.value \in UInt16 /\ q.values \in Seq(UInt16)
  BY DEF MasterRequest
<1>2. q.addr \in UInt16
  BY <1>1, StoreAssumption, PDUAssumption, Ranges DEF Addr
<1> QED  BY <1>1, <1>2

\* The fields of a request that passes the validation.
LEMMA ValidFields ==
  ASSUME NEW q \in MasterRequest, ValidateProtocol(q)
  PROVE  /\ q.fc \in FunctionCodes
         /\ q.fc \in ReadCodes => q.qty \in 1 .. AskLimit(q.fc)
         /\ q.fc = 5 => q.value \in {0, 1}
         /\ q.fc = 15 => Len(q.values) \in 1 .. AskLimit(15) /\ q.values \in Seq({0, 1})
         /\ q.fc = 16 => Len(q.values) \in 1 .. AskLimit(16)
<1>1. q.fc \in FunctionCodes
  BY DEF ValidateProtocol
<1>2. q.fc \in ReadCodes => q.qty \in 1 .. AskLimit(q.fc)
  BY DEF ValidateProtocol, Quantity, ReadCodes, MultiCodes
<1>3. q.fc = 5 => q.value \in {0, 1}
  <2>1. q.value \in Nat
    BY FieldsOfRequest, Ranges
  <2> QED  BY <2>1 DEF ValidateProtocol
<1>4. ASSUME q.fc = 15
      PROVE  q.values \in Seq({0, 1})
  <2> DEFINE v == q.values
             n == Len(v)
  <2>1. v \in Seq(UInt16)
    BY FieldsOfRequest
  <2>2. \A i \in DOMAIN v : v[i] <= 1
    BY <1>4 DEF ValidateProtocol
  <2> HIDE DEF v
  <2>3. n \in Nat /\ DOMAIN v = 1 .. n /\ v = [i \in 1 .. n |-> v[i]]
    BY <2>1
  <2>4. \A i \in 1 .. n : v[i] \in UInt16
    BY <2>1
  <2> HIDE DEF n
  <2>5. \A i \in 1 .. n : v[i] \in {0, 1}
    BY <2>2, <2>3, <2>4, Ranges
  <2>6. v \in Seq({0, 1})
    BY <2>3, <2>5, ASequence
  <2> QED  BY <2>6 DEF v
<1>5. q.fc \in {15, 16} => Len(q.values) \in 1 .. AskLimit(q.fc)
  BY DEF ValidateProtocol, Quantity, MultiCodes
<1> QED  BY <1>1, <1>2, <1>3, <1>4, <1>5

\* The first five bytes of the PDU of a request, which an acknowledged write
\* gets back.
SecondWord(q) == CASE q.fc \in ReadCodes -> q.qty
                   [] q.fc = 5 -> IF q.value # 0 THEN FF00 ELSE 0
                   [] q.fc = 6 -> q.value
                   [] q.fc \in MultiCodes -> Len(q.values)

Starts(q, p) == /\ p \in Seq(UInt8) /\ Len(p) >= 5
                /\ Code(p) = q.fc /\ WordAt(p, 2) = q.addr /\ WordAt(p, 4) = SecondWord(q)

\* A request says itself how long it is.
RequestSize(p) == Len(p) = IF Code(p) \in MultiCodes THEN 6 + p[6] ELSE 5

\* What a master sends for a valid request, and what the slave makes of it.
LEMMA RequestPDU ==
  ASSUME NEW q \in MasterRequest, ValidateProtocol(q)
  PROVE  /\ Starts(q, BuildPDU(q)) /\ RequestSize(BuildPDU(q))
         /\ WellFormed(BuildPDU(q))
         /\ StoreCall(q.slave, BuildPDU(q)) = Meant(q)
<1> DEFINE p == BuildPDU(q)
           n == Len(q.values)
<1>1. /\ q.fc \in FunctionCodes /\ q.fc \in UInt8 /\ q.addr \in UInt16
      /\ q.qty \in UInt16 /\ q.value \in UInt16 /\ q.values \in Seq(UInt16)
  BY FieldsOfRequest, ValidFields
<1>2. q.fc \in {1, 2, 3, 4, 5, 6, 15, 16}
  BY <1>1 DEF FunctionCodes, MultiCodes
<1>3. CASE q.fc \in {1, 2, 3, 4}
  <2>1. p = ShortBytes(q.fc, q.addr, q.qty)
    <3>1. q.fc \in ReadCodes /\ q.fc # 5 /\ q.fc # 6 /\ q.fc # 15 /\ q.fc # 16
      BY <1>3 DEF ReadCodes
    <3> QED  BY <3>1 DEF BuildPDU, ShortBytes
  <2> HIDE DEF p
  <2>2. /\ p \in Seq(UInt8) /\ Len(p) = 5
        /\ Code(p) = q.fc /\ WordAt(p, 2) = q.addr /\ WordAt(p, 4) = q.qty
    BY <1>1, <2>1, ShortPDU
  <2>3. Code(p) \in ReadCodes /\ WordAt(p, 4) \in 1 .. ServeLimit(Code(p))
    BY <1>3, <2>2, ValidFields, SameLimits DEF ReadCodes
  <2>4. WellFormed(p)
    BY <2>2, <2>3 DEF WellFormed
  <2>5. StoreCall(q.slave, p) = Meant(q)
    BY <1>1, <1>3, <2>2, SameCall
  <2>6. SecondWord(q) = q.qty
    BY <1>3 DEF SecondWord, ReadCodes, MultiCodes
  <2>7. RequestSize(p)
    BY <1>3, <2>2 DEF RequestSize, MultiCodes
  <2> QED  BY <2>2, <2>4, <2>5, <2>6, <2>7 DEF p, Starts
<1>4. CASE q.fc = 5
  <2> DEFINE w == IF q.value # 0 THEN FF00 ELSE 0
  <2>1. w \in UInt16 /\ w \in {0, FF00} /\ FF00 # 0
    <3>1. FF00 \in Nat /\ FF00 <= MaxUint16 /\ FF00 # 0
      BY DEF FF00, MaxUint16
    <3>2. 0 \in UInt16 /\ FF00 \in UInt16
      BY <3>1, Ranges
    <3> QED  BY <3>1, <3>2
  <2>2. (IF w = FF00 THEN 1 ELSE 0) = q.value
    BY <1>4, <2>1, ValidFields
  <2>3. p = ShortBytes(5, q.addr, w)
    BY <1>4 DEF BuildPDU, ReadCodes, ShortBytes
  <2> HIDE DEF p, w
  <2>4. /\ p \in Seq(UInt8) /\ Len(p) = 5
        /\ Code(p) = 5 /\ WordAt(p, 2) = q.addr /\ WordAt(p, 4) = w
    <3>1. 5 \in UInt8 /\ q.addr \in UInt16 /\ w \in UInt16
      BY <1>1, <1>4, <2>1
    <3> QED  BY <2>3, <3>1, ShortPDU
  <2>5. WellFormed(p)
    BY <2>1, <2>4 DEF WellFormed
  <2>6. StoreCall(q.slave, p) = Meant(q)
    BY <1>1, <1>4, <2>2, <2>4, SameCall DEF ReadCodes
  <2>7. SecondWord(q) = w
    BY <1>4 DEF SecondWord, ReadCodes, MultiCodes, w
  <2>8. RequestSize(p)
    BY <2>4 DEF RequestSize, MultiCodes
  <2> QED  BY <1>4, <2>4, <2>5, <2>6, <2>7, <2>8 DEF p, Starts
<1>5. CASE q.fc = 6
  <2>1. p = ShortBytes(6, q.addr, q.value)
    BY <1>5 DEF BuildPDU, ReadCodes, ShortBytes
  <2> HIDE DEF p
  <2>2. /\ p \in Seq(UInt8) /\ Len(p) = 5
        /\ Code(p) = 6 /\ WordAt(p, 2) = q.addr /\ WordAt(p, 4) = q.value
    BY <1>1, <1>5, <2>1, ShortPDU
  <2>3. WellFormed(p)
    BY <2>2 DEF WellFormed
  <2>4. StoreCall(q.slave, p) = Meant(q)
    BY <1>1, <1>5, <2>2, SameCall DEF ReadCodes
  <2>5. SecondWord(q) = q.value
    BY <1>5 DEF SecondWord, ReadCodes, MultiCodes
  <2>6. RequestSize(p)
    BY <2>2 DEF RequestSize, MultiCodes
  <2> QED  BY <1>5, <2>2, <2>3, <2>4, <2>5, <2>6 DEF p, Starts
<1>6. CASE q.fc = 15
  <2> DEFINE v == q.values
             s == PackBits(v)
             k == ByteCount(n)
  <2>1. v \in Seq({0, 1}) /\ v \in Seq(UInt16) /\ n \in 1 .. AskLimit(15)
    BY <1>1, <1>6, ValidFields
  <2>2. n \in Nat /\ n >= 1 /\ n <= 1968
    BY <2>1, SameLimits DEF MultiCodes
  <2>3. n \in UInt16 /\ k \in UInt8 /\ Byte(k) = k
    <3> HIDE DEF n
    <3>1. k \in Nat /\ k <= 250
      BY <2>2, ByteCountFacts
    <3> HIDE DEF k
    <3>2. n <= MaxUint16
      BY <2>2 DEF MaxUint16
    <3>3. Byte(k) = k
      BY <3>1 DEF Byte
    <3> QED  BY <2>2, <3>1, <3>2, <3>3, Ranges
  <2>4. s \in Seq(UInt8) /\ Len(s) = k
    BY <2>1, <2>2, PackedBits
  <2>5. \A i \in 1 .. n : (s[(i - 1) \div 8 + 1] \div Weight[((i - 1) % 8) + 1]) % 2 = v[i]
    BY <2>1, <2>2, PackedBits
  <2>6. p = LongBytes(q.fc, q.addr, n, k, s)
    <3>1. q.fc \notin ReadCodes /\ q.fc # 5 /\ q.fc # 6 /\ q.fc = 15 /\ q.fc # 16
      BY <1>6 DEF ReadCodes
    <3>2. Byte(ByteCount(Len(q.values))) = k
      BY <2>3
    <3> QED  BY <3>1, <3>2 DEF BuildPDU, LongBytes
  <2>7. v = [i \in 1 .. n |-> v[i]]
    BY <2>1
  <2> HIDE DEF p, n, v, s, k
  <2>8. /\ p \in Seq(UInt8) /\ Len(p) = 6 + k
        /\ Code(p) = 15 /\ WordAt(p, 2) = q.addr /\ WordAt(p, 4) = n
        /\ p[6] = k /\ \A i \in 1 .. k : p[6 + i] = s[i]
    <3>1. q.fc \in UInt8 /\ q.addr \in UInt16 /\ n \in UInt16 /\ k \in UInt8 /\ s \in Seq(UInt8)
      BY <1>1, <1>6, <2>3, <2>4
    <3>3. LongPlaces(LongBytes(q.fc, q.addr, n, k, s), q.fc, q.addr, n, k, s)
      BY <3>1, LongPDU, Zenon
    <3> QED  BY <1>6, <2>4, <2>6, <3>3 DEF LongPlaces
  <2>9. WellFormed(p)
    <3>1. n \in 1 .. ServeLimit(15)
      BY <2>1, SameLimits DEF MultiCodes
    <3> QED  BY <2>3, <2>8, <3>1, Ranges DEF WellFormed, MultiCodes, k
  <2>10. UnpackBits(p, 7, n) = v
    <3>1. Carries(p, 6, PackBits(v))
      BY <2>4, <2>8 DEF s, Carries
    <3>2. v \in Seq({0, 1})
      BY <2>1
    <3>3. Len(v) <= 2000
      BY <2>2 DEF n, v
    <3>4. UnpackBits(p, 6 + 1, Len(v)) = v
      BY <3>1, <3>2, <3>3, BitsBack
    <3> QED  BY <3>4 DEF n, v
  <2>11. StoreCall(q.slave, p) = Meant(q)
    BY <1>1, <1>6, <2>8, <2>10, SameCall DEF ReadCodes, v
  <2>12. SecondWord(q) = n /\ Len(p) >= 5
    <3>1. SecondWord(q) = n
      BY <1>6 DEF SecondWord, ReadCodes, MultiCodes, n
    <3>2. k \in Nat
      BY <2>3, Ranges
    <3> QED  BY <2>8, <3>1, <3>2
  <2>13. RequestSize(p)
    BY <2>8 DEF RequestSize, MultiCodes
  <2> QED  BY <1>6, <2>8, <2>9, <2>11, <2>12, <2>13 DEF p, Starts
<1>7. CASE q.fc = 16
  <2> DEFINE v == q.values
             s == PackWords(v)
             k == 2 * n
  <2>1. v \in Seq(UInt16) /\ n \in 1 .. AskLimit(16)
    BY <1>1, <1>7, ValidFields
  <2>2. n \in Nat /\ n >= 1 /\ n <= 123
    BY <2>1, SameLimits DEF MultiCodes
  <2>3. n \in UInt16 /\ k \in UInt8 /\ Byte(k) = k
    <3> HIDE DEF n
    <3>1. k \in Nat /\ k <= 246
      BY <2>2
    <3> HIDE DEF k
    <3>2. n <= MaxUint16
      BY <2>2 DEF MaxUint16
    <3>3. Byte(k) = k
      BY <3>1 DEF Byte
    <3> QED  BY <2>2, <3>1, <3>2, <3>3, Ranges
  <2>4. s \in Seq(UInt8) /\ Len(s) = k /\ \A i \in 1 .. n : 256 * s[2 * i - 1] + s[2 * i] = v[i]
    BY <2>1, PackedWords
  <2>5. p = LongBytes(q.fc, q.addr, n, k, s)
    <3>1. q.fc \notin ReadCodes /\ q.fc # 5 /\ q.fc # 6 /\ q.fc # 15 /\ q.fc = 16
      BY <1>7 DEF ReadCodes
    <3>2. Byte(2 * Len(q.values)) = k
      BY <2>3
    <3> QED  BY <3>1, <3>2 DEF BuildPDU, LongBytes
  <2>6. v = [i \in 1 .. n |-> v[i]]
    BY <2>1
  <2> HIDE DEF p, n, v, s
  <2>7. /\ p \in Seq(UInt8) /\ Len(p) = 6 + k
        /\ Code(p) = 16 /\ WordAt(p, 2) = q.addr /\ WordAt(p, 4) = n
        /\ p[6] = k /\ \A i \in 1 .. k : p[6 + i] = s[i]
    <3> HIDE DEF k
    <3>1. q.fc \in UInt8 /\ q.addr \in UInt16 /\ n \in UInt16 /\ k \in UInt8 /\ s \in Seq(UInt8)
      BY <1>1, <1>7, <2>3, <2>4
    <3>2. Len(s) = k
      BY <2>4
    <3>3. LongPlaces(LongBytes(q.fc, q.addr, n, k, s), q.fc, q.addr, n, k, s)
      BY <3>1, LongPDU, Zenon
    <3> QED  BY <1>7, <2>5, <3>2, <3>3 DEF LongPlaces
  <2>8. WellFormed(p)
    <3>1. n \in 1 .. ServeLimit(16)
      BY <2>1, SameLimits DEF MultiCodes
    <3> QED  BY <2>2, <2>7, <3>1 DEF WellFormed, MultiCodes
  <2>9. UnpackWords(p, 7, n) = v
    <3>1. Carries(p, 6, PackWords(v))
      BY <2>4, <2>7 DEF s, Carries
    <3>2. UnpackWords(p, 6 + 1, Len(v)) = v
      BY <2>1, <3>1, WordsBack
    <3> QED  BY <3>2 DEF n, v
  <2>10. StoreCall(q.slave, p) = Meant(q)
    BY <1>1, <1>7, <2>7, <2>9, SameCall DEF ReadCodes, v
  <2>11. SecondWord(q) = n /\ Len(p) >= 5
    <3>1. SecondWord(q) = n
      BY <1>7 DEF SecondWord, ReadCodes, MultiCodes, n
    <3>2. k \in Nat
      BY <2>2
    <3> QED  BY <2>7, <3>1, <3>2
  <2>12. RequestSize(p)
    <3> HIDE DEF k
    <3> QED  BY <2>7 DEF RequestSize, MultiCodes
  <2> QED  BY <1>7, <2>7, <2>8, <2>10, <2>11, <2>12 DEF p, Starts
<1> QED  BY <1>2, <1>3, <1>4, <1>5, <1>6, <1>7

(***************************************************************************)
(* Every request that a master lets through is a PDU that a slave accepts, *)
(* and the slave's call on its store is the one the user meant: the limits *)
(* of types.go:75-110 fit those of server.go:133-218, no length or byte    *)
(* count is cut off, and neither codec loses a bit.                        *)
(***************************************************************************)
THEOREM CodecAgrees ==
  ASSUME NEW q \in MasterRequest, ValidateProtocol(q)
  PROVE  /\ BuildPDU(q) \in Seq(UInt8)
         /\ WellFormed(BuildPDU(q))
         /\ StoreCall(q.slave, BuildPDU(q)) = Meant(q)
BY RequestPDU DEF Starts

-----------------------------------------------------------------------------
(***************************************************************************)
(* The way back: the slave's response and the master's result.             *)
(***************************************************************************)

\* An outcome of the store that fits a request: as many values as were asked
\* for, bits where bits were asked for.
Fits(q, o) ==
  /\ o.values \in Seq(UInt16)
  /\ q.fc \in ReadCodes /\ o.ok =>
       /\ Len(o.values) = q.qty
       /\ q.fc \in {1, 2} => o.values \in Seq({0, 1})

\* What a user should be shown of it.
Truth(q, o) == IF o.ok
               THEN Result("values", 0, IF q.fc \in ReadCodes THEN o.values ELSE Meant(q).values)
               ELSE Result("exception", IllegalAddress, << >>)

\* A response with a payload, as to FC01 to FC04 (server.go:146-168).
ReadPlaces(p, f, k, s) ==
  /\ p \in Seq(UInt8) /\ Len(p) = 2 + Len(s)
  /\ p[1] = f /\ p[2] = k /\ Carries(p, 2, s)

\* The places of its parts.
LEMMA ReadPDU ==
  ASSUME NEW f \in UInt8, NEW k \in UInt8, NEW s \in Seq(UInt8)
  PROVE  ReadPlaces(<<f, k>> \o s, f, k, s)
<1> DEFINE p == <<f, k>> \o s
<1>1. p \in Seq(UInt8) /\ Len(p) = 2 + Len(s)
  OBVIOUS
<1>2. p[1] = f /\ p[2] = k
  OBVIOUS
<1>3. \A i \in 1 .. Len(s) : p[2 + i] = s[i]
  OBVIOUS
<1> QED  BY <1>1, <1>2, <1>3 DEF Carries, ReadPlaces

\* The echo of an acknowledged write (server.go:236).
LEMMA EchoPDU ==
  ASSUME NEW p \in Seq(UInt8), Len(p) >= 5
  PROVE  LET e == SubSeq(p, 1, 5)
         IN  /\ e \in Seq(UInt8) /\ Len(e) = 5 /\ e[1] = Code(p)
             /\ WordAt(e, 2) = WordAt(p, 2) /\ WordAt(e, 4) = WordAt(p, 4)
<1> DEFINE e == SubSeq(p, 1, 5)
<1>1. e \in Seq(UInt8) /\ Len(e) = 5 /\ \A i \in 1 .. 5 : e[i] = p[i]
  <2>1. Len(p) \in Nat
    OBVIOUS
  <2> QED  BY <2>1, SubSeqProperties
<1>2. p # << >>
  OBVIOUS
<1> HIDE DEF e
<1>3. e[1] = Code(p)
  BY <1>1, <1>2 DEF Code
<1>4. WordAt(e, 2) = WordAt(p, 2) /\ WordAt(e, 4) = WordAt(p, 4)
  BY <1>1 DEF WordAt
<1> QED  BY <1>1, <1>3, <1>4 DEF e

\* The checks that the master makes of a response, one kind of request at a
\* time (client.go:160-211).
LEMMA AcceptedReads ==
  ASSUME NEW q, NEW p, p[1] = q.fc
  PROVE  /\ q.fc \in {1, 2} /\ Len(p) >= 2 + p[2] => Accepted(q, p)
         /\ q.fc \in {3, 4} /\ p[2] = 2 * q.qty /\ Len(p) >= 2 + p[2] => Accepted(q, p)
<1>1. ASSUME q.fc \in {1, 2}, Len(p) >= 2 + p[2]
      PROVE  Accepted(q, p)
  <2>1. q.fc \notin {3, 4} /\ q.fc # 5 /\ q.fc # 6 /\ q.fc \notin MultiCodes
    BY <1>1 DEF MultiCodes
  <2> QED  BY <1>1, <2>1 DEF Accepted
<1>2. ASSUME q.fc \in {3, 4}, p[2] = 2 * q.qty, Len(p) >= 2 + p[2]
      PROVE  Accepted(q, p)
  <2>1. q.fc \notin {1, 2} /\ q.fc # 5 /\ q.fc # 6 /\ q.fc \notin MultiCodes
    BY <1>2 DEF MultiCodes
  <2> QED  BY <1>2, <2>1 DEF Accepted
<1> QED  BY <1>1, <1>2

\* An acknowledgement must repeat the address, and the quantity or a value
\* for a coil.
LEMMA AcceptedWrites ==
  ASSUME NEW q, NEW p, p[1] = q.fc, Len(p) >= 5, WordAt(p, 2) = q.addr
  PROVE  /\ q.fc = 5 /\ WordAt(p, 4) \in {0, FF00} => Accepted(q, p)
         /\ q.fc = 6 => Accepted(q, p)
         /\ q.fc \in {15, 16} /\ WordAt(p, 4) = Len(q.values) => Accepted(q, p)
<1>1. ASSUME q.fc = 5, WordAt(p, 4) \in {0, FF00}
      PROVE  Accepted(q, p)
  BY <1>1 DEF Accepted, MultiCodes
<1>2. ASSUME q.fc = 6
      PROVE  Accepted(q, p)
  BY <1>2 DEF Accepted, MultiCodes
<1>3. ASSUME q.fc \in {15, 16}, WordAt(p, 4) = Len(q.values)
      PROVE  Accepted(q, p)
  <2>1. q.fc \notin {1, 2} /\ q.fc \notin {3, 4} /\ q.fc # 5 /\ q.fc # 6
    BY <1>3
  <2> QED  BY <1>3, <2>1 DEF Accepted, MultiCodes
<1> QED  BY <1>1, <1>2, <1>3

\* A response that says yes is taken for what it says.
LEMMA TakenAsValues ==
  ASSUME NEW q, NEW p, Len(p) \in Nat, Len(p) >= 2, q.fc \in FunctionCodes,
         Accepted(q, p), ~IndexOutOfRange(q, p)
  PROVE  Parse(q, p) = Result("values", 0, Values(q, p))
<1>1. p[1] = q.fc /\ ~(p[1] >= 128) /\ p[1] < 128
  BY DEF Accepted, FunctionCodes, MultiCodes
<1> QED  BY <1>1 DEF Parse

\* So does a response, and its code is one that a master knows.
ResponseSize(e) ==
  /\ Len(e) >= 2
  /\ \/ e[1] >= 128 /\ Len(e) = 2
     \/ e[1] \in ReadCodes /\ Len(e) = 2 + e[2]
     \/ e[1] \in FunctionCodes \ ReadCodes /\ Len(e) = 5

\* What a slave answers with an outcome of its store, and what the master makes of it.
LEMMA ResponsePDU ==
  ASSUME NEW q \in MasterRequest, ValidateProtocol(q), NEW o, Fits(q, o)
  PROVE  /\ Response(BuildPDU(q), o) \in Seq(UInt8)
         /\ ResponseSize(Response(BuildPDU(q), o))
         /\ Parse(q, Response(BuildPDU(q), o)) = Truth(q, o)
<1> DEFINE p == BuildPDU(q)
           e == Response(p, o)
<1>1. /\ q.fc \in FunctionCodes /\ q.fc \in UInt8 /\ q.qty \in UInt16
      /\ q.value \in UInt16 /\ q.values \in Seq(UInt16)
  BY FieldsOfRequest, ValidFields
<1>2. q.fc \in {1, 2, 3, 4, 5, 6, 15, 16}
  BY <1>1 DEF FunctionCodes, MultiCodes
<1>3. Starts(q, p)
  BY RequestPDU
<1>4. o.values \in Seq(UInt16)
  BY DEF Fits
<1> HIDE DEF p
<1>5. Code(p) = q.fc /\ WordAt(p, 2) = q.addr /\ WordAt(p, 4) = SecondWord(q)
  BY <1>3 DEF Starts
<1>6. CASE ~o.ok
  <2>1. e = <<q.fc + 128, 2>>
    <3>1. q.fc < 128
      BY <1>2
    <3>2. e = ExceptionPDU(p, 2)
      BY <1>6 DEF Response, IllegalAddress
    <3> QED  BY <1>5, <3>1, <3>2 DEF ExceptionPDU
  <2> HIDE DEF e
  <2>2. q.fc + 128 \in UInt8 /\ q.fc + 128 >= 128 /\ 2 \in UInt8
    BY <1>2 DEF UInt8
  <2>3. e \in Seq(UInt8) /\ Len(e) = 2 /\ e[1] = q.fc + 128 /\ e[2] = 2
    BY <2>1, <2>2
  <2>4. Parse(q, e) = Result("exception", 2, << >>)
    <3>1. ~(Len(e) < 2) /\ Len(e) >= 2 /\ e[1] >= 128 /\ ~(e[1] < 128)
      BY <1>1, <2>2, <2>3, Ranges
    <3> QED  BY <2>3, <3>1, Zenon DEF Parse
  <2>5. Truth(q, o) = Result("exception", 2, << >>)
    BY <1>6 DEF Truth, IllegalAddress
  <2>6. ResponseSize(e)
    BY <2>2, <2>3 DEF ResponseSize
  <2> QED  BY <2>3, <2>4, <2>5, <2>6 DEF e, p
<1>7. CASE o.ok /\ q.fc \in {1, 2}
  <2> DEFINE v == o.values
             k == ByteCount(q.qty)
             s == PackBits(v)
  <2>1. v \in Seq({0, 1}) /\ Len(v) = q.qty
    BY <1>7 DEF Fits, ReadCodes
  <2>2. q.qty \in Nat /\ q.qty >= 1 /\ q.qty <= 2000
    <3>1. q.qty \in 1 .. AskLimit(q.fc)
      BY <1>7, ValidFields DEF ReadCodes
    <3>2. AskLimit(q.fc) = 2000
      BY <1>7 DEF AskLimit
    <3>3. AskLimit(q.fc) \in Nat
      BY <3>2
    <3>4. q.qty \in Nat /\ q.qty >= 1 /\ q.qty <= AskLimit(q.fc)
      BY <3>1, <3>3
    <3> QED  BY <3>2, <3>4
  <2>3. Len(v) <= 2000
    BY <2>1, <2>2
  <2>4. s \in Seq(UInt8) /\ Len(s) = k
    BY <2>1, <2>3, PackedBits
  <2>5. k \in UInt8 /\ k \in Nat /\ Byte(k) = k
    <3>1. k \in Nat /\ k <= 250
      BY <2>2, ByteCountFacts
    <3> HIDE DEF k
    <3>2. Byte(k) = k
      BY <3>1 DEF Byte
    <3> QED  BY <3>1, <3>2, Ranges
  <2>6. e = <<q.fc, k>> \o s
    <3>1. WordAt(p, 4) = q.qty
      BY <1>5, <1>7 DEF SecondWord, ReadCodes, MultiCodes
    <3>2. Byte(ByteCount(WordAt(p, 4))) = k
      BY <2>5, <3>1
    <3>3. e = <<Code(p), Byte(ByteCount(WordAt(p, 4)))>> \o PackBits(o.values)
      BY <1>5, <1>7 DEF Response, ReadCodes
    <3> QED  BY <1>5, <3>2, <3>3
  <2> HIDE DEF e, k, s, v
  <2>7. /\ e \in Seq(UInt8) /\ Len(e) = 2 + k
        /\ e[1] = q.fc /\ e[2] = k /\ Carries(e, 2, s)
    <3>1. q.fc \in UInt8 /\ k \in UInt8 /\ s \in Seq(UInt8)
      BY <1>1, <2>4, <2>5
    <3>2. ReadPlaces(<<q.fc, k>> \o s, q.fc, k, s)
      BY <3>1, ReadPDU, Zenon
    <3> QED  BY <2>4, <2>6, <3>2 DEF ReadPlaces
  <2>8. Accepted(q, e)
    <3>1. e[1] = q.fc /\ Len(e) >= 2 + e[2]
      BY <2>5, <2>7
    <3> QED  BY <1>7, <3>1, AcceptedReads
  <2>9. ~IndexOutOfRange(q, e)
    BY <2>5, <2>7 DEF IndexOutOfRange, k
  <2>10. Values(q, e) = v
    <3>1. Carries(e, 2, PackBits(v))
      BY <2>7 DEF s
    <3>2. UnpackBits(e, 2 + 1, Len(v)) = v
      BY <2>1, <2>3, <3>1, BitsBack
    <3>3. Values(q, e) = UnpackBits(e, 3, q.qty)
      BY <1>7 DEF Values, MultiCodes
    <3> QED  BY <2>1, <3>2, <3>3
  <2>11. Parse(q, e) = Result("values", 0, v)
    BY <1>1, <2>5, <2>7, <2>8, <2>9, <2>10, TakenAsValues
  <2>12. Truth(q, o) = Result("values", 0, v)
    BY <1>7 DEF Truth, ReadCodes, v
  <2>13. ResponseSize(e)
    BY <1>7, <2>5, <2>7 DEF ResponseSize, ReadCodes
  <2> QED  BY <2>7, <2>11, <2>12, <2>13 DEF e, p
<1>8. CASE o.ok /\ q.fc \in {3, 4}
  <2> DEFINE v == o.values
             k == 2 * q.qty
             s == PackWords(v)
  <2>1. v \in Seq(UInt16) /\ Len(v) = q.qty
    BY <1>4, <1>8 DEF Fits, ReadCodes
  <2>2. q.qty \in Nat /\ q.qty >= 1 /\ q.qty <= 125
    <3>1. q.qty \in 1 .. AskLimit(q.fc)
      BY <1>8, ValidFields DEF ReadCodes
    <3>2. AskLimit(q.fc) = 125
      BY <1>8 DEF AskLimit
    <3> QED  BY <3>1, <3>2
  <2>3. s \in Seq(UInt8) /\ Len(s) = k
    BY <2>1, PackedWords
  <2>4. k \in UInt8 /\ k \in Nat /\ Byte(k) = k
    <3>1. k \in Nat /\ k <= 250
      BY <2>2
    <3> HIDE DEF k
    <3>2. Byte(k) = k
      BY <3>1 DEF Byte
    <3> QED  BY <3>1, <3>2, Ranges
  <2>5. e = <<q.fc, k>> \o s
    <3>1. Byte(2 * Len(o.values)) = k
      BY <2>1, <2>4
    <3>2. e = <<Code(p), Byte(2 * Len(o.values))>> \o PackWords(o.values)
      BY <1>5, <1>8 DEF Response, ReadCodes
    <3> QED  BY <1>5, <3>1, <3>2
  <2> HIDE DEF e, k, s, v
  <2>6. /\ e \in Seq(UInt8) /\ Len(e) = 2 + k
        /\ e[1] = q.fc /\ e[2] = k /\ Carries(e, 2, s)
    <3>1. q.fc \in UInt8 /\ k \in UInt8 /\ s \in Seq(UInt8)
      BY <1>1, <2>3, <2>4
    <3>2. ReadPlaces(<<q.fc, k>> \o s, q.fc, k, s)
      BY <3>1, ReadPDU, Zenon
    <3> QED  BY <2>3, <2>5, <3>2 DEF ReadPlaces
  <2>7. Accepted(q, e)
    <3>1. e[1] = q.fc /\ e[2] = 2 * q.qty /\ Len(e) >= 2 + e[2]
      BY <2>4, <2>6 DEF k
    <3> QED  BY <1>8, <3>1, AcceptedReads
  <2>8. ~IndexOutOfRange(q, e)
    BY <1>8 DEF IndexOutOfRange
  <2>9. Values(q, e) = v
    <3>1. Carries(e, 2, PackWords(v))
      BY <2>6 DEF s
    <3>2. UnpackWords(e, 2 + 1, Len(v)) = v
      BY <2>1, <3>1, WordsBack
    <3>3. Values(q, e) = UnpackWords(e, 3, q.qty)
      BY <1>8 DEF Values, MultiCodes, FunctionCodes, ReadCodes
    <3> QED  BY <2>1, <3>2, <3>3
  <2>10. Parse(q, e) = Result("values", 0, v)
    BY <1>1, <2>4, <2>6, <2>7, <2>8, <2>9, TakenAsValues
  <2>11. Truth(q, o) = Result("values", 0, v)
    BY <1>8 DEF Truth, ReadCodes, v
  <2>12. ResponseSize(e)
    BY <1>8, <2>4, <2>6 DEF ResponseSize, ReadCodes
  <2> QED  BY <2>6, <2>10, <2>11, <2>12 DEF e, p
<1>9. CASE o.ok /\ q.fc \in {5, 6, 15, 16}
  <2>1. e = SubSeq(p, 1, 5)
    BY <1>5, <1>9 DEF Response, ReadCodes
  <2>2. /\ e \in Seq(UInt8) /\ Len(e) = 5 /\ e[1] = q.fc
        /\ WordAt(e, 2) = q.addr /\ WordAt(e, 4) = SecondWord(q)
    <3>1. p \in Seq(UInt8) /\ Len(p) >= 5
      BY <1>3 DEF Starts
    <3> QED  BY <1>5, <2>1, <3>1, EchoPDU
  <2> HIDE DEF e
  <2>3. SecondWord(q) = CASE q.fc = 5 -> IF q.value # 0 THEN FF00 ELSE 0
                          [] q.fc = 6 -> q.value
                          [] q.fc \in {15, 16} -> Len(q.values)
    BY <1>9 DEF SecondWord, ReadCodes, MultiCodes
  <2>4. Accepted(q, e)
    <3>1. e[1] = q.fc /\ Len(e) >= 5 /\ WordAt(e, 2) = q.addr
      BY <2>2
    <3>2. q.fc = 5 => WordAt(e, 4) \in {0, FF00}
      BY <2>2, <2>3
    <3>3. q.fc \in {15, 16} => WordAt(e, 4) = Len(q.values)
      BY <2>2, <2>3
    <3> QED  BY <1>9, <3>1, <3>2, <3>3, AcceptedWrites
  <2>5. ~IndexOutOfRange(q, e)
    BY <1>9 DEF IndexOutOfRange
  <2>6. FF00 # 0 /\ (q.fc = 5 => q.value \in {0, 1})
    BY ValidFields DEF FF00
  <2>7. Values(q, e) = Meant(q).values
    BY <1>9, <2>2, <2>3, <2>6 DEF Values, Meant, MultiCodes, FunctionCodes, ReadCodes
  <2>8. Parse(q, e) = Result("values", 0, Meant(q).values)
    <3>1. Len(e) \in Nat /\ Len(e) >= 2
      BY <2>2
    <3> QED  BY <1>1, <2>4, <2>5, <2>7, <3>1, TakenAsValues
  <2>9. Truth(q, o) = Result("values", 0, Meant(q).values)
    BY <1>9 DEF Truth, ReadCodes
  <2>10. ResponseSize(e)
    BY <1>1, <1>9, <2>2 DEF ResponseSize, ReadCodes
  <2> QED  BY <2>2, <2>8, <2>9, <2>10 DEF e, p
<1> QED  BY <1>2, <1>6, <1>7, <1>8, <1>9

(***************************************************************************)
(* Whatever the store says to the call that a request means, the response  *)
(* of the slave (server.go:121-236) is a sequence of bytes that the master *)
(* (client.go:144-214) reads as just that: its values, an acknowledgement  *)
(* of what was asked, or exception 2.                                      *)
(***************************************************************************)
THEOREM AnswersAgree ==
  ASSUME NEW q \in MasterRequest, ValidateProtocol(q), NEW o, Fits(q, o)
  PROVE  /\ Response(BuildPDU(q), o) \in Seq(UInt8)
         /\ Parse(q, Response(BuildPDU(q), o)) = Truth(q, o)
BY ResponsePDU

-----------------------------------------------------------------------------
(***************************************************************************)
(* What a result can be, whatever a device sends.                          *)
(***************************************************************************)

\* As many values as were asked for, and those of coils and inputs are bits.
FitsRequest(q, values) ==
  /\ Len(values) = Quantity(q)
  /\ q.fc \in {1, 2, 5, 15} => \A i \in DOMAIN values : values[i] \in {0, 1}

\* A bit of a byte is a bit.
LEMMA ABit ==
  ASSUME NEW n \in UInt8, NEW k \in 1 .. 8
  PROVE  (n \div Weight[k]) % 2 \in {0, 1}
<1>1. n \in Nat
  BY Ranges
<1>2. k \in {1, 2, 3, 4, 5, 6, 7, 8}
  OBVIOUS
<1>3. Weight[k] \in {1, 2, 4, 8, 16, 32, 64, 128}
  BY <1>2 DEF Weight
<1>4. \A w \in {1, 2, 4, 8, 16, 32, 64, 128} : n \div w \in Nat
  BY <1>1, Z3
<1> DEFINE m == n \div Weight[k]
<1>5. m \in Nat
  BY <1>3, <1>4
<1> HIDE DEF m
<1>6. m % 2 \in {0, 1}
  BY <1>5
<1> QED  BY <1>6 DEF m

\* Unpacked bits are as many bits as there are bytes for.
LEMMA UnpackedBits ==
  ASSUME NEW p \in Seq(UInt8), NEW at \in Nat, NEW n \in Nat, n <= 2000,
         Len(p) >= at + ByteCount(n)
  PROVE  UnpackBits(p, at + 1, n) \in Seq({0, 1}) /\ Len(UnpackBits(p, at + 1, n)) = n
<1> DEFINE u == UnpackBits(p, at + 1, n)
<1>1. ASSUME NEW i \in 1 .. n
      PROVE  u[i] \in {0, 1}
  <2> DEFINE j == (i - 1) \div 8
             k == ((i - 1) % 8) + 1
  <2>1. i \in Nat /\ i >= 1 /\ i <= n
    OBVIOUS
  <2>2. j \in Nat /\ k \in 1 .. 8 /\ j + 1 <= ByteCount(n)
    BY <2>1, BitPlace
  <2>3. u[i] = (p[at + 1 + j] \div Weight[k]) % 2
    BY DEF UnpackBits
  <2> HIDE DEF j, k, u
  <2>4. at + 1 + j \in DOMAIN p
    <3>1. Len(p) \in Nat /\ ByteCount(n) \in Nat
      BY ByteCountFacts
    <3> QED  BY <2>2, <3>1
  <2>5. p[at + 1 + j] \in UInt8
    BY <2>4
  <2>6. k \in 1 .. 8
    BY <2>2
  <2> DEFINE b == p[at + 1 + j]
  <2> HIDE DEF b
  <2>7. b \in UInt8 /\ u[i] = (b \div Weight[k]) % 2
    BY <2>3, <2>5 DEF b
  <2> QED  BY <2>6, <2>7, ABit, SMTT(30)
<1>2. u = [i \in 1 .. n |-> u[i]]
  BY DEF UnpackBits
<1> HIDE DEF u
<1>3. u \in Seq({0, 1}) /\ Len(u) = n
  BY <1>1, <1>2, ASequence
<1> QED  BY <1>3 DEF u

\* Two bytes are a word.
LEMMA AWord ==
  ASSUME NEW p \in Seq(UInt8), NEW i \in 1 .. Len(p), i + 1 <= Len(p)
  PROVE  WordAt(p, i) \in UInt16
<1>1. p[i] \in UInt8 /\ p[i + 1] \in UInt8
  OBVIOUS
<1>2. ASSUME NEW k \in UInt8, NEW l \in UInt8
      PROVE  256 * k + l \in UInt16
  <2>1. k \in Nat /\ l \in Nat /\ k <= 255 /\ l <= 255
    BY Ranges
  <2>2. 256 * k + l \in Nat /\ 256 * k + l <= MaxUint16
    BY <2>1 DEF MaxUint16
  <2> QED  BY <2>2, Ranges
<1> QED  BY <1>1, <1>2 DEF WordAt

\* Unpacked words are as many words as there are bytes for.
LEMMA UnpackedWords ==
  ASSUME NEW p \in Seq(UInt8), NEW at \in Nat, NEW n \in Nat, Len(p) >= at + 2 * n
  PROVE  UnpackWords(p, at + 1, n) \in Seq(UInt16) /\ Len(UnpackWords(p, at + 1, n)) = n
<1> DEFINE u == UnpackWords(p, at + 1, n)
<1>1. ASSUME NEW i \in 1 .. n
      PROVE  u[i] \in UInt16
  <2>1. at + 1 + 2 * (i - 1) \in 1 .. Len(p) /\ at + 1 + 2 * (i - 1) + 1 <= Len(p)
    <3>1. Len(p) \in Nat /\ i \in Nat /\ i >= 1 /\ i <= n
      OBVIOUS
    <3> QED  BY <3>1
  <2>2. u[i] = WordAt(p, at + 1 + 2 * (i - 1))
    BY DEF UnpackWords
  <2> QED  BY <2>1, <2>2, AWord
<1>2. u = [i \in 1 .. n |-> u[i]]
  BY DEF UnpackWords
<1> HIDE DEF u
<1>3. u \in Seq(UInt16) /\ Len(u) = n
  BY <1>1, <1>2, ASequence
<1> QED  BY <1>3 DEF u

\* Bits are words, too.
LEMMA BitsAreWords ==
  ASSUME NEW v \in Seq({0, 1})
  PROVE  v \in Seq(UInt16) /\ \A i \in DOMAIN v : v[i] \in {0, 1}
<1>1. 0 \in UInt16 /\ 1 \in UInt16
  <2>1. MaxUint16 \in Nat /\ 1 <= MaxUint16
    BY DEF MaxUint16
  <2> QED  BY <2>1, Ranges
<1>2. \A i \in 1 .. Len(v) : v[i] \in {0, 1} /\ v[i] \in UInt16
  BY <1>1
<1>3. v = [i \in 1 .. Len(v) |-> v[i]] /\ Len(v) \in Nat /\ DOMAIN v = 1 .. Len(v)
  OBVIOUS
<1>4. v \in Seq(UInt16)
  BY <1>2, <1>3, ASequence
<1> QED  BY <1>2, <1>3, <1>4

\* The values of a response that passes the checks (client.go:160-211).
LEMMA ValuesFit ==
  ASSUME NEW q \in MasterRequest, ValidateProtocol(q), NEW p \in Seq(UInt8), Len(p) >= 2,
         Accepted(q, p), ~IndexOutOfRange(q, p)
  PROVE  Values(q, p) \in Seq(UInt16) /\ FitsRequest(q, Values(q, p))
<1> DEFINE v == Values(q, p)
<1>1. q.fc \in {1, 2, 3, 4, 5, 6, 15, 16}
  BY ValidFields DEF FunctionCodes, MultiCodes
<1>2. CASE q.fc \in {1, 2}
  <2>1. q.qty \in Nat /\ q.qty <= 2000
    <3>1. q.qty \in 1 .. AskLimit(q.fc) /\ q.qty \in Nat
      BY <1>2, ValidFields, FieldsOfRequest, Ranges DEF ReadCodes
    <3>2. AskLimit(q.fc) = 2000
      BY <1>2 DEF AskLimit
    <3>3. AskLimit(q.fc) \in Nat
      BY <3>2
    <3>4. q.qty <= AskLimit(q.fc)
      BY <3>1, <3>3
    <3> QED  BY <3>1, <3>2, <3>4
  <2>2. Len(p) >= 2 + ByteCount(q.qty)
    <3>1. Len(p) \in Nat
      OBVIOUS
    <3>3. ByteCount(q.qty) \in Nat
      <4>1. \A n \in Nat : ByteCount(n) \in Nat
        BY Z3 DEF ByteCount
      <4>2. q.qty \in Nat
        BY <2>1
      <4> QED  BY <4>1, <4>2, Zenon
    <3>2. ~(Len(p) < 2 + ByteCount(q.qty))
      BY <1>2 DEF IndexOutOfRange
    <3> QED  BY <3>1, <3>2, <3>3
  <2>3. v = UnpackBits(p, 3, q.qty)
    BY <1>2 DEF Values, MultiCodes
  <2>4. v \in Seq({0, 1}) /\ Len(v) = q.qty
    <3>1. UnpackBits(p, 2 + 1, q.qty) \in Seq({0, 1}) /\ Len(UnpackBits(p, 2 + 1, q.qty)) = q.qty
      BY <2>1, <2>2, UnpackedBits
    <3> QED  BY <2>3, <3>1
  <2>5. Quantity(q) = q.qty
    BY <1>2 DEF Quantity, MultiCodes
  <2> HIDE DEF v
  <2>6. v \in Seq(UInt16) /\ \A i \in DOMAIN v : v[i] \in {0, 1}
    BY <2>4, BitsAreWords
  <2>7. FitsRequest(q, v)
    BY <2>4, <2>5, <2>6 DEF FitsRequest
  <2> QED  BY <2>6, <2>7 DEF v
<1>3. CASE q.fc \in {3, 4}
  <2>1. q.qty \in Nat
    BY FieldsOfRequest, Ranges
  <2>2. Len(p) >= 2 + 2 * q.qty
    <3>1. q.fc \notin {1, 2} /\ q.fc # 5 /\ q.fc # 6 /\ q.fc \notin MultiCodes
      BY <1>3 DEF MultiCodes
    <3>2. p[2] = 2 * q.qty /\ Len(p) >= 2 + p[2]
      BY <1>3, <3>1 DEF Accepted
    <3> QED  BY <3>2
  <2>3. v = UnpackWords(p, 3, q.qty)
    BY <1>3 DEF Values, MultiCodes
  <2>4. v \in Seq(UInt16) /\ Len(v) = q.qty
    <3>1. UnpackWords(p, 2 + 1, q.qty) \in Seq(UInt16) /\ Len(UnpackWords(p, 2 + 1, q.qty)) = q.qty
      BY <2>1, <2>2, UnpackedWords
    <3> QED  BY <2>3, <3>1
  <2>5. Quantity(q) = q.qty
    BY <1>3 DEF Quantity, MultiCodes
  <2> HIDE DEF v
  <2> QED  BY <1>3, <2>4, <2>5 DEF FitsRequest, v
<1>4. CASE q.fc = 5
  <2> DEFINE w == IF WordAt(p, 4) = FF00 THEN 1 ELSE 0
  <2>1. v = <<w>>
    BY <1>4 DEF Values, MultiCodes
  <2> HIDE DEF v
  <2>2. v \in Seq({0, 1}) /\ Len(v) = 1
    BY <2>1
  <2>3. Quantity(q) = 1
    BY <1>4 DEF Quantity, MultiCodes
  <2>4. v \in Seq(UInt16) /\ \A i \in DOMAIN v : v[i] \in {0, 1}
    BY <2>2, BitsAreWords
  <2> QED  BY <2>2, <2>3, <2>4 DEF FitsRequest, v
<1>5. CASE q.fc = 6
  <2>1. Len(p) >= 5 /\ Len(p) \in Nat
    BY <1>5 DEF Accepted, MultiCodes
  <2>2. WordAt(p, 4) \in UInt16
    BY <2>1, AWord
  <2>3. v = <<WordAt(p, 4)>>
    BY <1>5 DEF Values, MultiCodes
  <2>4. Quantity(q) = 1
    BY <1>5 DEF Quantity, MultiCodes
  <2> HIDE DEF v
  <2>5. v \in Seq(UInt16) /\ Len(v) = 1
    BY <2>2, <2>3
  <2> QED  BY <1>5, <2>4, <2>5 DEF FitsRequest, v
<1>6. CASE q.fc \in {15, 16}
  <2>1. v = q.values /\ Quantity(q) = Len(q.values)
    BY <1>6 DEF Values, MultiCodes, FunctionCodes, ReadCodes, Quantity
  <2>2. q.values \in Seq(UInt16)
    BY FieldsOfRequest
  <2>3. q.fc = 15 => \A i \in DOMAIN q.values : q.values[i] \in {0, 1}
    BY ValidFields, BitsAreWords
  <2> HIDE DEF v
  <2> QED  BY <1>6, <2>1, <2>2, <2>3 DEF FitsRequest, v
<1> QED  BY <1>1, <1>2, <1>3, <1>4, <1>5, <1>6

\* Whatever bytes come, the master has a result of its type, and values only
\* if they fit.
LEMMA ParseResult ==
  ASSUME NEW q \in MasterRequest, ValidateProtocol(q), NEW p \in Seq(UInt8)
  PROVE  /\ Parse(q, p) \in ResultType
         /\ Parse(q, p).kind = "values" => FitsRequest(q, Parse(q, p).values)
<1>0. Len(p) \in Nat /\ 0 \in UInt8 /\ << >> \in Seq(UInt16)
  BY DEF UInt8
<1>1. CASE Len(p) < 2
  <2>1. Parse(q, p) = Error
    BY <1>0, <1>1 DEF Parse
  <2> QED  BY <1>0, <2>1 DEF Error, Result, ResultType
<1>2. CASE Len(p) >= 2
  <2>1. p[1] \in UInt8 /\ p[2] \in UInt8
    BY <1>0, <1>2
  <2>2. p[1] \in Nat
    BY <2>1, Ranges
  <2>3. CASE p[1] >= 128
    <3>1. Parse(q, p) = Result("exception", p[2], << >>)
      BY <1>0, <1>2, <2>2, <2>3 DEF Parse
    <3> QED  BY <1>0, <2>1, <3>1 DEF Result, ResultType
  <2>4. CASE p[1] < 128
    <3>0. ~(Len(p) < 2) /\ ~(p[1] >= 128)
      BY <1>0, <1>2, <2>2, <2>4
    <3>1. CASE ~Accepted(q, p)
      <4>1. Parse(q, p) = Error
        BY <1>2, <2>4, <3>0, <3>1 DEF Parse
      <4> QED  BY <1>0, <4>1 DEF Error, Result, ResultType
    <3>2. CASE Accepted(q, p) /\ IndexOutOfRange(q, p)
      <4>1. Parse(q, p) = Result("panic", 0, << >>)
        BY <1>2, <2>4, <3>0, <3>2 DEF Parse
      <4> QED  BY <1>0, <4>1 DEF Result, ResultType
    <3>3. CASE Accepted(q, p) /\ ~IndexOutOfRange(q, p)
      <4>1. Parse(q, p) = Result("values", 0, Values(q, p))
        BY <1>2, <2>4, <3>0, <3>3 DEF Parse
      <4>2. Values(q, p) \in Seq(UInt16) /\ FitsRequest(q, Values(q, p))
        BY <1>2, <3>3, ValuesFit
      <4> HIDE DEF FitsRequest
      <4> QED  BY <1>0, <4>1, <4>2 DEF Result, ResultType
    <3> QED  BY <3>1, <3>2, <3>3
  <2> QED  BY <2>2, <2>3, <2>4
<1> QED  BY <1>0, <1>1, <1>2

-----------------------------------------------------------------------------
\* The values that the store returns are words, as many as were asked for, and
\* bits where the table has bits.
LEMMA StoreReads ==
  ASSUME NEW b \in Banks, BitsIn(b), NEW r \in Request, Word \subseteq UInt16
  PROVE  /\ Outcome(b, r).values \in Seq(UInt16)
         /\ r.op = "read" /\ Outcome(b, r).ok =>
              /\ Len(Outcome(b, r).values) = r.qty
              /\ r.table \in {"coil", "discrete"} => Outcome(b, r).values \in Seq({0, 1})
<1> DEFINE o == Outcome(b, r)
<1>1. o \in Reply
  BY OutcomeType
<1>2. o.values \in Seq(UInt16)
  <2>1. o.values \in Seq(Word)
    BY <1>1 DEF Reply
  <2> HIDE DEF o
  <2>3. o.values = [i \in 1 .. Len(o.values) |-> o.values[i]] /\ Len(o.values) \in Nat
    BY <2>1
  <2>4. \A i \in 1 .. Len(o.values) : o.values[i] \in UInt16
    BY <2>1
  <2> QED  BY <2>3, <2>4, ASequence
<1>3. ASSUME r.op = "read", o.ok
      PROVE  /\ Len(o.values) = r.qty
             /\ r.table \in {"coil", "discrete"} => o.values \in Seq({0, 1})
  <2> DEFINE cell(i) == b[r.slave][r.table][r.addr + i - 1]
             got == [i \in 1 .. r.qty |-> ValueOf(cell(i))]
  <2>1. Admitted(r) /\ o.values = got
    BY <1>3 DEF Outcome
  <2>2. r.qty \in Nat
    BY DEF Request
  <2>3. r.addr \in Nat /\ LastAddr \in Nat /\ r.addr + r.qty <= LastAddr + 1
    <3>1. r.addr \in Addr /\ LastAddr \in Nat
      BY StoreAssumption DEF Request
    <3> QED  BY <1>3, <2>1, <3>1 DEF Admitted, InRange, Addr
  <2>4. ASSUME r.table \in {"coil", "discrete"}, NEW i \in 1 .. r.qty
        PROVE  got[i] \in {0, 1}
    <3>1. r.addr + i - 1 \in Addr
      BY <2>2, <2>3 DEF Addr
    <3>2. r.slave \in Slave
      BY DEF Request
    <3>3. cell(i) \in {0, 1, Unmapped}
      BY <2>4, <3>1, <3>2 DEF BitsIn
    <3>4. ValueOf(cell(i)) \in {0, 1}
      BY <3>3 DEF ValueOf
    <3> QED  BY <3>4
  <2>5. got = [i \in 1 .. r.qty |-> got[i]] /\ Len(got) = r.qty
    BY <2>2
  <2> HIDE DEF got
  <2>6. r.table \in {"coil", "discrete"} => got \in Seq({0, 1})
    BY <2>2, <2>4, <2>5, ASequence
  <2> QED  BY <2>1, <2>5, <2>6
<1> QED  BY <1>2, <1>3

\* The store's outcome of the call that a request means fits the request.
LEMMA StoreAnswers ==
  ASSUME NEW b \in Banks, BitsIn(b), NEW q \in MasterRequest, ValidateProtocol(q),
         Meant(q) \in Request, Word \subseteq UInt16
  PROVE  Outcome(b, Meant(q)) \in Reply /\ Fits(q, Outcome(b, Meant(q)))
<1> DEFINE r == Meant(q)
<1>1. q.fc \in ReadCodes => r.op = "read" /\ r.qty = q.qty
  BY DEF Meant
<1>2. q.fc \in {1, 2} => r.table \in {"coil", "discrete"}
  BY DEF Meant
<1> HIDE DEF r
<1>3. r \in Request
  BY DEF r
<1>4. Outcome(b, r) \in Reply
  BY <1>3, OutcomeType
<1>5. Fits(q, Outcome(b, r))
  BY <1>1, <1>2, <1>3, StoreReads DEF Fits
<1> QED  BY <1>4, <1>5 DEF r
=============================================================================
