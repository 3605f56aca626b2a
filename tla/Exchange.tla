------------------------------ MODULE Exchange ------------------------------
(***************************************************************************)
(* A request through the TCP master (ExecuteTCP, run by a goroutine of the *)
(* control API) to the TCP slave of the same program, or to a device that  *)
(* is not ours: validate, encode, send, serve, answer, decode.             *)
(*                                                                         *)
(* Each exchange has a connection of its own.  A master that gives up      *)
(* closes it, and the slave may still serve the request it finds there.    *)
(* The store is atomic, which LockedStore shows.                           *)
(***************************************************************************)
EXTENDS PDU

CONSTANTS
  Asks,         \* what the users of each master may ask, one choice per behaviour
  Elsewhere,    \* the units that are on another device, which is not ours
  TxIds,        \* the number of transaction ids, 65536 in the code
  Foreign       \* the PDUs with which such a device answers

\* The store has the registers that the slave is asked for, and the words.
ASSUME ExchangeAssumption ==
  /\ Word \subseteq UInt16
  /\ Asks \subseteq [Client -> SUBSET MasterRequest]
  /\ \A requests \in Asks, c \in Client : \A q \in requests[c] :
        ValidateProtocol(q) /\ q.slave \notin Elsewhere => Meant(q) \in Request
  /\ Elsewhere \subseteq UInt8
  /\ TxIds \in Nat \ {0}
  /\ Foreign \subseteq Seq(UInt8)

VARIABLES
  asks,         \* the member of Asks, which never changes
  bank,         \* Store.slaves
  transactionID,  \* the last id handed out
  tx,           \* the id of each master's exchange
  phase,        \* where each master is
  ask,          \* its request
  wire,         \* the frame on its connection, NoCall if none
  answer,       \* the response on its connection, NoReply if none
  left,         \* a frame on a connection it has given up
  served,       \* history: the store's outcome of its request
  result        \* what it returns

vars == <<asks, bank, transactionID, tx, phase, ask, wire, answer, left, served, result>>
ids == <<transactionID, tx>>

Frame(id, unit, pdu) == [tx |-> id, unit |-> unit, pdu |-> pdu]

Ours(f) == f # NoCall /\ f.unit \notin Elsewhere

Init ==
  /\ asks \in Asks
  /\ bank = SeededBanks
  /\ transactionID = 0 /\ tx = [c \in Client |-> 0]
  /\ phase = [c \in Client |-> "idle"]
  /\ ask = [c \in Client |-> NoCall]
  /\ wire = [c \in Client |-> NoCall]
  /\ answer = [c \in Client |-> NoReply]
  /\ left = [c \in Client |-> NoCall]
  /\ served = [c \in Client |-> NoReply]
  /\ result = [c \in Client |-> NoReply]

-----------------------------------------------------------------------------
(***************************************************************************)
(* The master.                                                             *)
(***************************************************************************)
Finish(c, r) ==
  /\ phase' = [phase EXCEPT ![c] = "done"]
  /\ result' = [result EXCEPT ![c] = r]

Reject(c, q) ==
  /\ phase[c] = "idle" /\ ~ValidateProtocol(q)
  /\ ask' = [ask EXCEPT ![c] = q]
  /\ Finish(c, Error)
  /\ UNCHANGED <<bank, ids, wire, answer, left, served>>

\* transactionID.Add(1), cut to 16 bits.
TakeId(c) ==
  /\ transactionID' = (transactionID + 1) % TxIds
  /\ tx' = [tx EXCEPT ![c] = transactionID']

DialFails(c, q) ==
  /\ phase[c] = "idle" /\ ValidateProtocol(q)
  /\ ask' = [ask EXCEPT ![c] = q]
  /\ TakeId(c)
  /\ Finish(c, Error)
  /\ UNCHANGED <<bank, wire, answer, left, served>>

Send(c, q) ==
  /\ phase[c] = "idle" /\ ValidateProtocol(q)
  /\ ask' = [ask EXCEPT ![c] = q]
  /\ TakeId(c)
  /\ wire' = [wire EXCEPT ![c] = Frame(tx'[c], q.slave, BuildPDU(q))]
  /\ phase' = [phase EXCEPT ![c] = "waiting"]
  /\ UNCHANGED <<bank, answer, left, served, result>>

\* Mutant: the response is compared with the last id handed out.
ReceiveLatestId(c) ==
  /\ phase[c] = "waiting" /\ answer[c] # NoReply
  /\ Finish(c, IF answer[c].tx = transactionID THEN Parse(ask[c], answer[c].pdu) ELSE Error)
  /\ answer' = [answer EXCEPT ![c] = NoReply]
  /\ UNCHANGED <<bank, ids, ask, wire, left, served>>

\* parseResponse: the header, then the PDU.
Receive(c) ==
  /\ phase[c] = "waiting" /\ answer[c] # NoReply
  /\ Finish(c, IF answer[c].tx = tx[c] /\ answer[c].unit = ask[c].slave
               THEN Parse(ask[c], answer[c].pdu) ELSE Error)
  /\ answer' = [answer EXCEPT ![c] = NoReply]
  /\ UNCHANGED <<bank, ids, ask, wire, left, served>>

\* Mutant: the connection is kept for the next exchange, with what is on it.
GiveUpKeepsAnswer(c) ==
  /\ phase[c] = "waiting" /\ wire[c] = NoCall
  /\ Finish(c, Error)
  /\ UNCHANGED <<bank, ids, ask, wire, answer, left, served>>

\* The deadline, or the connection broke.  Bound: one request left behind on our
\* slave for each master.
GiveUp(c) ==
  /\ phase[c] = "waiting"
  /\ Ours(wire[c]) => left[c] = NoCall
  /\ left' = IF Ours(wire[c]) THEN [left EXCEPT ![c] = wire[c]] ELSE left
  /\ wire' = [wire EXCEPT ![c] = NoCall]
  /\ answer' = [answer EXCEPT ![c] = NoReply]
  /\ Finish(c, Error)
  /\ UNCHANGED <<bank, ids, ask, served>>

Return(c) ==
  /\ phase[c] = "done"
  /\ phase' = [phase EXCEPT ![c] = "idle"]
  /\ ask' = [ask EXCEPT ![c] = NoCall]
  /\ served' = [served EXCEPT ![c] = NoReply]
  /\ result' = [result EXCEPT ![c] = NoReply]
  /\ UNCHANGED <<bank, ids, wire, answer, left>>
-----------------------------------------------------------------------------
(***************************************************************************)
(* The slave: handleConn and dispatch.                                     *)
(***************************************************************************)
Outcomes(f) == IF WellFormed(f.pdu) THEN Outcome(bank, StoreCall(f.unit, f.pdu)) ELSE NoReply

Effects(f) == IF WellFormed(f.pdu) THEN Effect(bank, StoreCall(f.unit, f.pdu)) ELSE bank

Serve(c) ==
  /\ Ours(wire[c])
  /\ bank' = Effects(wire[c])
  /\ served' = [served EXCEPT ![c] = Outcomes(wire[c])]
  /\ answer' = [answer EXCEPT ![c] = Frame(wire[c].tx, wire[c].unit,
        IF WellFormed(wire[c].pdu) THEN Response(wire[c].pdu, Outcomes(wire[c]))
                                   ELSE Refusal(wire[c].pdu))]
  /\ wire' = [wire EXCEPT ![c] = NoCall]
  /\ UNCHANGED <<ids, phase, ask, left, result>>

\* The connection is closed: the request is served or lost, nobody is told.
ServeLeft(c) ==
  /\ left[c] # NoCall
  /\ bank' = Effects(left[c])
  /\ left' = [left EXCEPT ![c] = NoCall]
  /\ UNCHANGED <<ids, phase, ask, wire, answer, served, result>>

LoseLeft(c) ==
  /\ left[c] # NoCall
  /\ left' = [left EXCEPT ![c] = NoCall]
  /\ UNCHANGED <<bank, ids, phase, ask, wire, answer, served, result>>

(***************************************************************************)
(* A device that is not ours may answer as it likes, with an old id or for *)
(* another unit too.                                                       *)
(***************************************************************************)
ForeignAnswer(c) ==
  /\ wire[c] # NoCall /\ ~Ours(wire[c])
  /\ \E p \in Foreign, id \in {tx[c], (tx[c] + 1) % TxIds}, u \in {ask[c].slave, 0} :
       answer' = [answer EXCEPT ![c] = Frame(id, u, p)]
  /\ wire' = [wire EXCEPT ![c] = NoCall]
  /\ UNCHANGED <<bank, ids, phase, ask, left, served, result>>

Next == UNCHANGED asks /\ \E c \in Client :
  \/ \E q \in asks[c] : Reject(c, q) \/ DialFails(c, q) \/ Send(c, q)
  \/ Receive(c) \/ GiveUp(c) \/ Return(c)
  \/ Serve(c) \/ ServeLeft(c) \/ LoseLeft(c) \/ ForeignAnswer(c)

Spec == Init /\ [][Next]_vars

-----------------------------------------------------------------------------
(***************************************************************************)
(* Every variable has its type.                                            *)
(***************************************************************************)
FrameType == [tx : 0 .. TxIds - 1, unit : UInt8, pdu : Seq(UInt8)]

TypeOK ==
  /\ asks \in Asks
  /\ bank \in Banks
  /\ transactionID \in 0 .. TxIds - 1 /\ tx \in [Client -> 0 .. TxIds - 1]
  /\ phase \in [Client -> {"idle", "waiting", "done"}]
  /\ ask \in [Client -> MasterRequest \cup {NoCall}]
  /\ wire \in [Client -> FrameType \cup {NoCall}]
  /\ left \in [Client -> FrameType \cup {NoCall}]
  /\ answer \in [Client -> FrameType \cup {NoReply}]
  /\ served \in [Client -> Reply \cup {NoReply}]
  /\ result \in [Client -> ResultType \cup {NoReply}]

(***************************************************************************)
(* A request that passes the master's validation is understood by the      *)
(* slave, as the call the user meant: the limits of types.go:75-110 and of *)
(* server.go:133-218 agree, and so do the two codecs.                      *)
(***************************************************************************)
AskedIsUnderstood ==
  \A c \in Client : wire[c] # NoCall =>
    /\ WellFormed(wire[c].pdu)
    /\ StoreCall(wire[c].unit, wire[c].pdu) = Meant(ask[c])

(***************************************************************************)
(* A user who is shown values of our slave gets what its store returned    *)
(* for his own request, or what it was made to store, however many         *)
(* exchanges and late requests are under way (client.go:144-214).          *)
(***************************************************************************)
ResultTrue ==
  \A c \in Client :
    /\ result[c] # NoReply /\ result[c].kind = "values"
    /\ ask[c].slave \notin Elsewhere
    => /\ served[c] # NoReply /\ served[c].ok
       /\ result[c].values =
            IF ask[c].fc \in ReadCodes THEN served[c].values ELSE Meant(ask[c]).values

(***************************************************************************)
(* Every answer of our slave is values or exception 2, and the exception   *)
(* means that the store refused: no answer of server.go:121-236 is one     *)
(* that client.go:144-214 cannot read.                                     *)
(***************************************************************************)
AnswersUnderstood ==
  [][\A c \in Client : Receive(c) /\ ask[c].slave \notin Elsewhere =>
       \/ result'[c].kind = "values"
       \/ result'[c].kind = "exception" /\ result'[c].code = IllegalAddress /\ ~served[c].ok]_vars

(***************************************************************************)
(* Whatever a device answers, a result has as many values as were asked    *)
(* for, and those of coils and discrete inputs are bits.                   *)
(***************************************************************************)
ResultFitsRequest ==
  \A c \in Client : result[c] # NoReply /\ result[c].kind = "values" =>
    /\ Len(result[c].values) = Quantity(ask[c])
    /\ ask[c].fc \in {1, 2, 5, 15} =>
         \A i \in DOMAIN result[c].values : result[c].values[i] \in {0, 1}

(***************************************************************************)
(* "truncated bit response" (client.go:168, rtu.go:286): an answer with    *)
(* fewer bits than were asked for is refused with an error.                *)
(***************************************************************************)
ShortBitsRefused ==
  \A c \in Client : result[c] # NoReply => result[c].kind # "panic"
=============================================================================
