------------------------------ MODULE StoreOps ------------------------------
(***************************************************************************)
(* The register banks of core/internal/modbus/store.go and what one call   *)
(* of Store.Read, Store.Set, Store.Write and Store.EnableRelay does to     *)
(* them.  There is no state here: the modules that follow say who calls    *)
(* these operations and when.                                              *)
(*                                                                         *)
(* A bank is one Go map per table; Unmapped stands for an absent key.  A   *)
(* unit without a `banks` object behaves as one whose four maps are empty, *)
(* in strict and in lenient mode, so `ensure` has no counterpart.          *)
(***************************************************************************)
EXTENDS Integers, Sequences

CONSTANTS
  Slave,        \* unit ids that occur (a uint8 in the code)
  LastAddr,     \* the highest register address, 65535 in the code
  Word,         \* register values that occur (a uint16 in the code)
  Unmapped,     \* no key in the map
  Strict,       \* Store.Strict, the -strict-addressing flag
  RelaySlave, Channels,      \* the RelaySpec given to EnableRelay
  CoilStart, HoldingStart,
  CoilOn, CoilOff, HoldingOn, HoldingOff,
  LabRanges,    \* the sensor ranges of SWSLabProfile
  Client,       \* the goroutines that call the store
  Requests,     \* the calls they make
  NoCall, NoReply

Table == {"coil", "discrete", "holding", "input"}
Addr == 0 .. LastAddr
ValidSlave == 1 .. 247
Cell == Word \cup {Unmapped}
Banks == [Slave -> [Table -> [Addr -> Cell]]]

(***************************************************************************)
(* A call on the store: op "relay" is EnableRelay, which takes its spec    *)
(* from the constants.                                                     *)
(***************************************************************************)
Request == [op : {"read", "set", "write", "relay"}, table : Table,
            slave : Slave, addr : Addr, qty : Nat, values : Seq(Word)]
Reply == [ok : BOOLEAN, values : Seq(Word)]

LabRange == [table : Table, slave : Slave, addr : Addr, values : Seq(Word)]

Covers(i, s, t, x) ==
  /\ LabRanges[i].slave = s /\ LabRanges[i].table = t
  /\ x - LabRanges[i].addr + 1 \in DOMAIN LabRanges[i].values

ASSUME StoreAssumption ==
  /\ Slave \subseteq 0 .. 255
  /\ LastAddr \in Nat
  /\ Word \subseteq Nat /\ 0 \in Word
  /\ Unmapped \notin Word
  /\ Strict \in BOOLEAN
  /\ RelaySlave \in Slave \cap ValidSlave
  /\ Channels \in 1 .. 64
  /\ CoilStart \in Addr /\ CoilStart + Channels - 1 \in Addr
  /\ HoldingStart \in Addr /\ HoldingStart + Channels - 1 \in Addr
  /\ {CoilOn, CoilOff, HoldingOn, HoldingOff} \subseteq Word
  /\ {CoilOn, CoilOff} = {0, 1} /\ HoldingOn # HoldingOff
  /\ LabRanges \in Seq(LabRange)
  /\ \A i \in DOMAIN LabRanges :
        /\ LabRanges[i].slave \in ValidSlave \ {RelaySlave}
        /\ LabRanges[i].values # << >>
        /\ LabRanges[i].addr + Len(LabRanges[i].values) <= LastAddr + 1
        /\ LabRanges[i].table \in {"coil", "discrete"} =>
              \A j \in DOMAIN LabRanges[i].values : LabRanges[i].values[j] <= 1
  /\ \A i, j \in DOMAIN LabRanges, s \in Slave, t \in Table, x \in Addr :
        Covers(i, s, t, x) /\ Covers(j, s, t, x) => i = j

(***************************************************************************)
(* The API calls Set for the input and discrete tables only, the rest goes *)
(* through Write (api/server.go:263), and a reset skips the relay's ranges *)
(* (simulator.go:60).  A JSON body carries any uint16 to either.           *)
(***************************************************************************)
ASSUME ClientAssumption ==
  /\ Requests \subseteq Request
  /\ \A r \in Requests :
        r.op = "set" /\ r.slave = RelaySlave => r.table \in {"input", "discrete"}
  /\ NoCall \notin Request
  /\ NoReply \notin Reply

-----------------------------------------------------------------------------
InRange(r, n) == r.addr + n <= LastAddr + 1

(***************************************************************************)
(* The parts of the RelaySpec that belong to one of its two tables.        *)
(***************************************************************************)
Start(t) == IF t = "coil" THEN CoilStart ELSE HoldingStart
On(t) == IF t = "coil" THEN CoilOn ELSE HoldingOn
Off(t) == IF t = "coil" THEN CoilOff ELSE HoldingOff
ChannelAddr(t) == Start(t) .. Start(t) + Channels - 1

\* Mutant: the upper bound of the channels is off by one.
RelayAcceptsOneMore(t, a, v) == a \in Start(t) .. Start(t) + Channels /\ v \in {On(t), Off(t)}

RelayAccepts(t, a, v) == a \in ChannelAddr(t) /\ v \in {On(t), Off(t)}

(***************************************************************************)
(* Only Write knows the relay; Set treats its unit as any other.           *)
(***************************************************************************)
ToRelay(r) == r.op = "write" /\ r.slave = RelaySlave

\* Mutant: Set looks at the coils only, as Write may.
TakesAnyDiscrete(r, i) ==
  IF ToRelay(r) THEN RelayAccepts(r.table, r.addr + i - 1, r.values[i])
                ELSE r.table = "coil" => r.values[i] <= 1

(***************************************************************************)
(* Does the body of the loop over the values take value i of the request,  *)
(* or leave with (relay: report) an error?                                 *)
(***************************************************************************)
Takes(r, i) ==
  IF ToRelay(r) THEN RelayAccepts(r.table, r.addr + i - 1, r.values[i])
                ELSE r.table \in {"coil", "discrete"} => r.values[i] <= 1

\* A refused value ends the loop, except on the relay of a lenient store.
Skips(r) == ToRelay(r) /\ ~Strict

Taken(r) ==
  {i \in DOMAIN r.values : IF Skips(r) THEN Takes(r, i)
                                       ELSE \A j \in 1 .. i : Takes(r, j)}

-----------------------------------------------------------------------------
(***************************************************************************)
(* Which calls get as far as the lock, and which of those answer with an   *)
(* error.  Write does not look at the slave id.                            *)
(***************************************************************************)
Admitted(r) ==
  CASE r.op = "read"  -> r.slave \in ValidSlave /\ r.qty >= 1 /\ InRange(r, r.qty)
    [] r.op = "set"   -> /\ r.slave \in ValidSlave
                         /\ r.values # << >>
                         /\ InRange(r, Len(r.values))
    [] r.op = "write" -> /\ r.table \in {"holding", "coil"}
                         /\ r.values # << >>
                         /\ InRange(r, Len(r.values))
    [] r.op = "relay" -> TRUE

\* The cell of table u of the relay that value i of a write to table t drives.
Source(r, u, x) == x - Start(u) + Start(r.table) - r.addr + 1

(***************************************************************************)
(* The banks after the first n rounds of the loop of an admitted call.     *)
(***************************************************************************)
EffectUpTo(b, r, n) ==
  CASE r.op = "read" -> b
    [] r.op = "relay" ->
         [b EXCEPT ![RelaySlave] =
            [u \in Table |-> [x \in Addr |->
               IF u \in {"coil", "holding"} /\ x \in Start(u) .. Start(u) + n - 1
               THEN Off(u) ELSE b[RelaySlave][u][x]]]]
    [] r.op \in {"set", "write"} /\ ~ToRelay(r) ->
         [b EXCEPT ![r.slave][r.table] =
            [x \in Addr |->
               IF x - r.addr + 1 \in Taken(r) \cap 1 .. n
               THEN r.values[x - r.addr + 1] ELSE b[r.slave][r.table][x]]]
    [] ToRelay(r) ->
         [b EXCEPT ![RelaySlave] =
            [u \in Table |-> [x \in Addr |->
               IF u \in {"coil", "holding"} /\ Source(r, u, x) \in Taken(r) \cap 1 .. n
               THEN IF r.values[Source(r, u, x)] = On(r.table) THEN On(u) ELSE Off(u)
               ELSE b[RelaySlave][u][x]]]]

\* The number of rounds the loop of an admitted call makes when none fails.
Rounds(r) == CASE r.op = "read" -> r.qty
               [] r.op = "relay" -> Channels
               [] OTHER -> Len(r.values)

Effect(b, r) == IF Admitted(r) THEN EffectUpTo(b, r, Rounds(r)) ELSE b

\* A key that is not in the map reads as Go's zero value.
ValueOf(cell) == IF cell = Unmapped THEN 0 ELSE cell

\* Mutant: a refused value ends the loop without an error.
RoundFailsSilently(b, r, i) ==
  r.op = "read" /\ Strict /\ b[r.slave][r.table][r.addr + i - 1] = Unmapped

RoundFails(b, r, i) ==
  CASE r.op = "read" -> Strict /\ b[r.slave][r.table][r.addr + i - 1] = Unmapped
    [] r.op = "relay" -> FALSE
    [] OTHER -> ~Takes(r, i) /\ ~Skips(r)

Outcome(b, r) ==
  IF Admitted(r) /\ \A i \in 1 .. Rounds(r) : ~RoundFails(b, r, i)
  THEN [ok |-> TRUE,
        values |-> IF r.op = "read"
                   THEN [i \in 1 .. r.qty |-> ValueOf(b[r.slave][r.table][r.addr + i - 1])]
                   ELSE << >>]
  ELSE [ok |-> FALSE, values |-> << >>]

-----------------------------------------------------------------------------
(***************************************************************************)
(* What the body of the loop does in round i, as the code writes it.       *)
(***************************************************************************)
SwitchChannel(b, k, on) ==
  [b EXCEPT ![RelaySlave]["coil"][CoilStart + k] = IF on THEN CoilOn ELSE CoilOff,
            ![RelaySlave]["holding"][HoldingStart + k] = IF on THEN HoldingOn ELSE HoldingOff]

RoundEffect(b, r, i) ==
  CASE r.op = "read" -> b
    [] r.op = "relay" -> SwitchChannel(b, i - 1, FALSE)
    [] r.op \in {"set", "write"} /\ ~Takes(r, i) -> b
    [] r.op \in {"set", "write"} /\ Takes(r, i) /\ ToRelay(r) ->
         SwitchChannel(b, r.addr + i - 1 - Start(r.table), r.values[i] = On(r.table))
    [] r.op \in {"set", "write"} /\ Takes(r, i) /\ ~ToRelay(r) ->
         [b EXCEPT ![r.slave][r.table][r.addr + i - 1] = r.values[i]]

-----------------------------------------------------------------------------
(***************************************************************************)
(* The banks main() starts with: SeedSWS, which is ResetSWSLab, on an      *)
(* empty store.  No two sensor ranges overlap; the relay comes last.       *)
(***************************************************************************)
LabRequest(i) == [op |-> "set", table |-> LabRanges[i].table, slave |-> LabRanges[i].slave,
                  addr |-> LabRanges[i].addr, qty |-> 0, values |-> LabRanges[i].values]
EnableRelay == [op |-> "relay", table |-> "coil", slave |-> RelaySlave,
                addr |-> CoilStart, qty |-> 0, values |-> << >>]

LabCell(s, t, x) ==
  IF \E i \in DOMAIN LabRanges : Covers(i, s, t, x)
  THEN LET i == CHOOSE i \in DOMAIN LabRanges : Covers(i, s, t, x)
       IN  LabRanges[i].values[x - LabRanges[i].addr + 1]
  ELSE Unmapped

SeededBanks ==
  EffectUpTo([s \in Slave |-> [t \in Table |-> [x \in Addr |-> LabCell(s, t, x)]]],
             EnableRelay, Channels)

\* Coils and discrete inputs are bits.
BitsIn(b) ==
  \A s \in Slave, t \in {"coil", "discrete"}, x \in Addr :
    b[s][t][x] \in {0, 1, Unmapped}
=============================================================================
