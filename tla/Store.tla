-------------------------------- MODULE Store --------------------------------
(***************************************************************************)
(* What the register store promises its callers: every call takes effect   *)
(* at one instant between its invocation and its return.  The callers are  *)
(* goroutines: a handleConn of the TCP slave, the loop of the RTU slave, a *)
(* handler of the control API.  LockedStore is the code's way to do it.    *)
(***************************************************************************)
EXTENDS StoreOps

VARIABLES
  bank,         \* Store.slaves
  call,         \* the call each client has not returned from
  reply         \* what that call is going to return

vars == <<bank, call, reply>>

Init ==
  /\ bank = SeededBanks
  /\ call = [c \in Client |-> NoCall]
  /\ reply = [c \in Client |-> NoReply]

Invoke(c, r) ==
  /\ call[c] = NoCall
  /\ call' = [call EXCEPT ![c] = r]
  /\ UNCHANGED <<bank, reply>>

Perform(c) ==
  /\ call[c] # NoCall /\ reply[c] = NoReply
  /\ bank' = Effect(bank, call[c])
  /\ reply' = [reply EXCEPT ![c] = Outcome(bank, call[c])]
  /\ UNCHANGED call

\* Mutant: the reply of one call is still there for the next.
ReturnKeepsReply(c) ==
  /\ reply[c] # NoReply
  /\ call' = [call EXCEPT ![c] = NoCall]
  /\ UNCHANGED <<bank, reply>>

Return(c) ==
  /\ reply[c] # NoReply
  /\ call' = [call EXCEPT ![c] = NoCall]
  /\ reply' = [reply EXCEPT ![c] = NoReply]
  /\ UNCHANGED bank

Next == \E c \in Client :
  \/ \E r \in Requests : Invoke(c, r)
  \/ Perform(c)
  \/ Return(c)

Spec == Init /\ [][Next]_vars

-----------------------------------------------------------------------------
(***************************************************************************)
(* Every variable has its type; a reply belongs to a call.                 *)
(***************************************************************************)
TypeOK ==
  /\ bank \in Banks
  /\ call \in [Client -> Requests \cup {NoCall}]
  /\ reply \in [Client -> Reply \cup {NoReply}]
  /\ \A c \in Client : call[c] = NoCall => reply[c] = NoReply

Synchronized(b) ==
  /\ \A k \in 0 .. Channels - 1 :
       LET coil == b[RelaySlave]["coil"][CoilStart + k]
           holding == b[RelaySlave]["holding"][HoldingStart + k]
       IN  \/ coil = CoilOn /\ holding = HoldingOn
           \/ coil = CoilOff /\ holding = HoldingOff
  /\ \A t \in {"coil", "holding"} : \A x \in Addr \ ChannelAddr(t) :
       b[RelaySlave][t][x] = Unmapped

(***************************************************************************)
(* "Coil and holding views stay synchronized" (simulator.go:47): whoever   *)
(* writes whichever table of the relay, with good and bad values mixed in  *)
(* one call, a channel is on in both tables or off in both, and no cell    *)
(* outside the channels comes into being.                                  *)
(***************************************************************************)
RelaySync == Synchronized(bank)

(***************************************************************************)
(* A coil or a discrete input is a bit, in every unit.  FC01 and FC02 send *)
(* one bit per cell and the API sends the cell itself, so they would       *)
(* disagree about any other value.                                         *)
(***************************************************************************)
BitTables == BitsIn(bank)

(***************************************************************************)
(* A write that is acknowledged has stored every one of its values, though *)
(* a loop that meets a bad value has stored a prefix.  The relay of a      *)
(* lenient store is excepted: it acknowledges what it skips.               *)
(***************************************************************************)
Acknowledged(c) == reply[c] = NoReply /\ reply'[c] # NoReply /\ reply'[c].ok

Stored(r) ==
  \A i \in DOMAIN r.values : bank'[r.slave][r.table][r.addr + i - 1] = r.values[i]

AckedWriteApplied ==
  [][\A c \in Client :
       /\ Acknowledged(c)
       /\ call[c].op \in {"set", "write"} /\ ~Skips(call[c])
       => Stored(call[c])]_vars
=============================================================================
