--------------------------- MODULE ExchangeProofs ---------------------------
(***************************************************************************)
(* What the users of the TCP master are shown, for every set of requests,  *)
(* any number of masters and any foreign devices: the agreement of the     *)
(* codecs (OperatorProofs), carried along the exchanges by an invariant of *)
(* the connections.                                                        *)
(***************************************************************************)
EXTENDS Exchange, OperatorProofs

-----------------------------------------------------------------------------
(***************************************************************************)
(* The invariant: a conversation of each master.                           *)
(***************************************************************************)

\* A master that waits does so for a valid request; nothing is on the
\* connection of one that does not.
Asked(c) ==
  IF phase[c] = "waiting" THEN ask[c] \in asks[c] /\ ValidateProtocol(ask[c])
                          ELSE wire[c] = NoCall /\ answer[c] = NoReply

\* On a connection is the request that its master waits for, and no answer yet,
OnItsWay(c) ==
  wire[c] # NoCall => /\ answer[c] = NoReply
                      /\ wire[c] = Frame(tx[c], ask[c].slave, BuildPDU(ask[c]))

\* or the answer of our slave to it.
Answered(c) ==
  answer[c] # NoReply /\ ask[c].slave \notin Elsewhere =>
    /\ served[c] # NoReply /\ Fits(ask[c], served[c])
    /\ answer[c] = Frame(tx[c], ask[c].slave, Response(BuildPDU(ask[c]), served[c]))

\* A request left behind was a valid one to our slave.
LeftBehind(c) ==
  left[c] # NoCall =>
    \E q \in asks[c] : /\ ValidateProtocol(q) /\ q.slave \notin Elsewhere
                       /\ left[c].unit = q.slave /\ left[c].pdu = BuildPDU(q)

\* A result is true, and fits what was asked.
Shown(c) ==
  result[c] # NoReply =>
    /\ phase[c] = "done"
    /\ result[c].kind = "values" =>
         /\ FitsRequest(ask[c], result[c].values)
         /\ ask[c].slave \notin Elsewhere =>
              /\ served[c] # NoReply /\ served[c].ok
              /\ result[c].values = IF ask[c].fc \in ReadCodes THEN served[c].values
                                                               ELSE Meant(ask[c]).values

Conversation(c) == Asked(c) /\ OnItsWay(c) /\ Answered(c) /\ LeftBehind(c) /\ Shown(c)

ExchangeInv == TypeOK /\ BitsIn(bank) /\ \A c \in Client : Conversation(c)

-----------------------------------------------------------------------------
(***************************************************************************)
(* What the slave does with a request.                                     *)
(***************************************************************************)

\* A request of this behaviour is one, and the store knows what it means.
LEMMA AsksAreRequests ==
  ASSUME asks \in Asks, NEW c \in Client, NEW q \in asks[c]
  PROVE  /\ q \in MasterRequest
         /\ ValidateProtocol(q) /\ q.slave \notin Elsewhere => Meant(q) \in Request
BY ExchangeAssumption

\* A frame with a request of this behaviour is served as what it means.
LEMMA ServedAsMeant ==
  ASSUME TypeOK, BitsIn(bank), NEW c \in Client, NEW q \in asks[c], ValidateProtocol(q),
         q.slave \notin Elsewhere, NEW f, f.unit = q.slave, f.pdu = BuildPDU(q)
  PROVE  /\ WellFormed(f.pdu)
         /\ Outcomes(f) \in Reply /\ Fits(q, Outcomes(f))
         /\ Effects(f) \in Banks /\ BitsIn(Effects(f))
<1>1. q \in MasterRequest /\ Meant(q) \in Request
  BY AsksAreRequests DEF TypeOK
<1>2. WellFormed(f.pdu) /\ StoreCall(f.unit, f.pdu) = Meant(q)
  BY <1>1, CodecAgrees
<1>3. Outcomes(f) = Outcome(bank, Meant(q)) /\ Effects(f) = Effect(bank, Meant(q))
  BY <1>2 DEF Outcomes, Effects
<1>4. bank \in Banks
  BY DEF TypeOK
<1>5. Outcome(bank, Meant(q)) \in Reply /\ Fits(q, Outcome(bank, Meant(q)))
  BY <1>1, <1>4, StoreAnswers, ExchangeAssumption
<1>6. Effect(bank, Meant(q)) \in Banks /\ BitsIn(Effect(bank, Meant(q)))
  BY <1>1, <1>4, EffectType, EffectBits
<1> QED  BY <1>2, <1>3, <1>5, <1>6

\* The bytes of a valid request.
LEMMA RequestBytes ==
  ASSUME NEW q \in MasterRequest, ValidateProtocol(q)
  PROVE  q.slave \in UInt8 /\ BuildPDU(q) \in Seq(UInt8)
<1>1. q.slave \in UInt8
  BY DEF MasterRequest
<1> QED  BY <1>1, CodecAgrees

\* A step of one master leaves the conversations of the others alone.
LEMMA Untouched ==
  ASSUME NEW d \in Client, Conversation(d), asks' = asks,
         phase'[d] = phase[d], ask'[d] = ask[d], tx'[d] = tx[d], wire'[d] = wire[d],
         answer'[d] = answer[d], left'[d] = left[d], served'[d] = served[d],
         result'[d] = result[d]
  PROVE  Conversation(d)'
BY DEF Conversation, Asked, OnItsWay, Answered, LeftBehind, Shown

-----------------------------------------------------------------------------
(***************************************************************************)
(* The invariant is kept.                                                  *)
(***************************************************************************)

\* Nothing is under way at first.
LEMMA InitExchange == Init => ExchangeInv
<1> SUFFICES ASSUME Init
             PROVE  ExchangeInv
  OBVIOUS
<1>1. bank \in Banks /\ BitsIn(bank)
  BY SeededBanksType, SeededBits DEF Init
<1>2. 0 \in 0 .. TxIds - 1
  BY ExchangeAssumption
<1>3. TypeOK
  BY <1>1, <1>2 DEF Init, TypeOK
<1>4. \A c \in Client : Conversation(c)
  BY DEF Init, Conversation, Asked, OnItsWay, Answered, LeftBehind, Shown
<1> QED  BY <1>1, <1>3, <1>4 DEF ExchangeInv

\* The next id is one.
LEMMA NextId ==
  ASSUME NEW n \in 0 .. TxIds - 1
  PROVE  (n + 1) % TxIds \in 0 .. TxIds - 1
<1>1. TxIds \in Nat /\ TxIds > 0 /\ n + 1 \in Nat
  BY ExchangeAssumption
<1> QED  BY <1>1

\* The master's own errors are results.
LEMMA ErrorIsResult == Error \in ResultType /\ Error.kind # "values"
<1>1. 0 \in UInt8 /\ << >> \in Seq(UInt16)
  BY DEF UInt8
<1> QED  BY <1>1 DEF Error, Result, ResultType

\* Refused before anything is sent, for what it asks or for want of a
\* connection.
LEMMA RefusedAtOnce ==
  ASSUME ExchangeInv, asks' = asks, NEW c \in Client, NEW q \in asks[c],
         Reject(c, q) \/ DialFails(c, q)
  PROVE  ExchangeInv'
<1>1. q \in MasterRequest
  BY AsksAreRequests DEF ExchangeInv, TypeOK
<1>2. /\ phase[c] = "idle" /\ phase' = [phase EXCEPT ![c] = "done"]
      /\ ask' = [ask EXCEPT ![c] = q] /\ result' = [result EXCEPT ![c] = Error]
      /\ bank' = bank /\ wire' = wire /\ answer' = answer /\ left' = left /\ served' = served
  BY DEF Reject, DialFails, Finish
<1>3. /\ transactionID' \in 0 .. TxIds - 1 /\ tx' \in [Client -> 0 .. TxIds - 1]
      /\ \A d \in Client \ {c} : tx'[d] = tx[d]
  <2>1. transactionID \in 0 .. TxIds - 1 /\ tx \in [Client -> 0 .. TxIds - 1]
    BY DEF ExchangeInv, TypeOK
  <2>2. CASE Reject(c, q)
    BY <2>1, <2>2 DEF Reject, ids
  <2>3. CASE DialFails(c, q)
    BY <2>1, <2>3, NextId DEF DialFails, TakeId
  <2> QED  BY <2>2, <2>3
<1>4. TypeOK' /\ BitsIn(bank)'
  BY <1>1, <1>2, <1>3, ErrorIsResult DEF ExchangeInv, TypeOK
<1>5. ASSUME NEW d \in Client \ {c}
      PROVE  Conversation(d)'
  BY <1>2, <1>3, Untouched DEF ExchangeInv, TypeOK
<1>6. Conversation(c)'
  <2>1. Conversation(c)
    BY DEF ExchangeInv
  <2>2. phase'[c] = "done" /\ result'[c] = Error
    BY <1>2 DEF ExchangeInv, TypeOK
  <2>3. wire[c] = NoCall /\ answer[c] = NoReply
    BY <1>2, <2>1 DEF Conversation, Asked
  <2> QED  BY <1>2, <2>1, <2>2, <2>3, ErrorIsResult
           DEF Conversation, Asked, OnItsWay, Answered, LeftBehind, Shown
<1> QED  BY <1>4, <1>5, <1>6 DEF ExchangeInv

\* Sending.
LEMMA Sent ==
  ASSUME ExchangeInv, asks' = asks, NEW c \in Client, NEW q \in asks[c], Send(c, q)
  PROVE  ExchangeInv'
<1>1. q \in MasterRequest /\ ValidateProtocol(q)
  BY AsksAreRequests DEF ExchangeInv, TypeOK, Send
<1>2. TypeOK
  BY DEF ExchangeInv
<1>3. tx' \in [Client -> 0 .. TxIds - 1] /\ transactionID' \in 0 .. TxIds - 1
  BY <1>2, NextId DEF Send, TakeId, TypeOK
<1>4. Frame(tx'[c], q.slave, BuildPDU(q)) \in FrameType
  BY <1>1, <1>3, RequestBytes DEF Frame, FrameType
<1>5. TypeOK' /\ BitsIn(bank)'
  BY <1>1, <1>2, <1>3, <1>4 DEF Send, TypeOK, ExchangeInv
<1>6. ASSUME NEW d \in Client \ {c}
      PROVE  Conversation(d)'
  BY <1>2, Untouched DEF ExchangeInv, TypeOK, Send, TakeId
<1>7. Conversation(c)'
  <2>1. Conversation(c)
    BY DEF ExchangeInv
  <2>2. answer[c] = NoReply /\ result[c] = NoReply
    BY <2>1 DEF Send, Conversation, Asked, Shown
  <2>3. /\ phase'[c] = "waiting" /\ ask'[c] = q
        /\ wire'[c] = Frame(tx'[c], q.slave, BuildPDU(q))
    BY <1>2 DEF Send, TypeOK
  <2>4. answer' = answer /\ left' = left /\ served' = served /\ result' = result
    BY DEF Send
  <2> QED  BY <1>1, <2>1, <2>2, <2>3, <2>4
           DEF Conversation, Asked, OnItsWay, Answered, LeftBehind, Shown
<1> QED  BY <1>5, <1>6, <1>7 DEF ExchangeInv

\* An answer comes: the master makes the truth of ours, and of any other
\* nothing that does not fit.
LEMMA Received ==
  ASSUME ExchangeInv, NEW c \in Client, Receive(c)
  PROVE  /\ ask[c] \in asks[c] /\ ask[c] \in MasterRequest /\ ValidateProtocol(ask[c])
         /\ result'[c] \in ResultType
         /\ result'[c].kind = "values" => FitsRequest(ask[c], result'[c].values)
         /\ ask[c].slave \notin Elsewhere =>
              /\ served[c] # NoReply /\ Fits(ask[c], served[c])
              /\ result'[c] = Truth(ask[c], served[c])
<1> DEFINE q == ask[c]
           e == answer[c]
<1>1. TypeOK /\ Conversation(c) /\ phase[c] = "waiting" /\ e # NoReply
  BY DEF ExchangeInv, Receive
<1>2. q \in asks[c] /\ ValidateProtocol(q)
  BY <1>1 DEF Conversation, Asked
<1>3. q \in MasterRequest
  BY <1>1, <1>2, AsksAreRequests DEF TypeOK
<1>4. e \in FrameType
  BY <1>1 DEF TypeOK
<1>5. e.pdu \in Seq(UInt8)
  BY <1>4 DEF FrameType
<1>6. result'[c] = IF e.tx = tx[c] /\ e.unit = q.slave THEN Parse(q, e.pdu) ELSE Error
  BY <1>1 DEF Receive, Finish, TypeOK
<1> HIDE DEF q, e
<1>7. /\ result'[c] \in ResultType
      /\ result'[c].kind = "values" => FitsRequest(q, result'[c].values)
  BY <1>2, <1>3, <1>5, <1>6, ParseResult, ErrorIsResult
<1>8. ASSUME q.slave \notin Elsewhere
      PROVE  /\ served[c] # NoReply /\ Fits(q, served[c])
             /\ result'[c] = Truth(q, served[c])
  <2>1. /\ served[c] # NoReply /\ Fits(q, served[c])
        /\ e = Frame(tx[c], q.slave, Response(BuildPDU(q), served[c]))
    BY <1>1, <1>8 DEF Conversation, Answered, q, e
  <2>2. e.tx = tx[c] /\ e.unit = q.slave /\ e.pdu = Response(BuildPDU(q), served[c])
    BY <2>1 DEF Frame
  <2>3. Parse(q, e.pdu) = Truth(q, served[c])
    BY <1>2, <1>3, <2>1, <2>2, AnswersAgree
  <2> QED  BY <1>6, <2>1, <2>2, <2>3
<1> QED  BY <1>2, <1>3, <1>7, <1>8 DEF q

\* Reading an answer keeps the invariant.
LEMMA ReceiveKeeps ==
  ASSUME ExchangeInv, asks' = asks, NEW c \in Client, Receive(c)
  PROVE  ExchangeInv'
<1>1. TypeOK /\ Conversation(c)
  BY DEF ExchangeInv
<1>2. result'[c] \in ResultType
  BY Received
<1>3. PICK r : result' = [result EXCEPT ![c] = r]
  BY DEF Receive, Finish
<1>4. result' \in [Client -> ResultType \cup {NoReply}]
  BY <1>1, <1>2, <1>3 DEF TypeOK
<1>5. TypeOK' /\ BitsIn(bank)'
  <2>1. answer' \in [Client -> FrameType \cup {NoReply}]
    BY <1>1 DEF Receive, TypeOK
  <2>2. phase' \in [Client -> {"idle", "waiting", "done"}]
    BY <1>1 DEF Receive, Finish, TypeOK
  <2> QED  BY <1>1, <1>4, <2>1, <2>2 DEF Receive, ids, TypeOK, ExchangeInv
<1>6. ASSUME NEW d \in Client \ {c}
      PROVE  Conversation(d)'
  <2>1. result'[d] = result[d] /\ phase'[d] = phase[d] /\ answer'[d] = answer[d]
    BY <1>1 DEF Receive, Finish, TypeOK
  <2>2. /\ ask' = ask /\ tx' = tx /\ wire' = wire /\ left' = left /\ served' = served
    BY DEF Receive, ids
  <2> QED  BY <2>1, <2>2, Untouched DEF ExchangeInv
<1>7. Conversation(c)'
  <2>1. phase'[c] = "done" /\ answer'[c] = NoReply
    BY <1>1 DEF Receive, Finish, TypeOK
  <2>2. ask' = ask /\ tx' = tx /\ wire' = wire /\ left' = left /\ served' = served
    BY DEF Receive, ids
  <2>3. wire[c] = NoCall
    BY <1>1 DEF Conversation, OnItsWay, Receive
  <2>4. ASSUME result'[c].kind = "values"
        PROVE  /\ FitsRequest(ask[c], result'[c].values)
               /\ ask[c].slave \notin Elsewhere =>
                    /\ served[c] # NoReply /\ served[c].ok
                    /\ result'[c].values = IF ask[c].fc \in ReadCodes THEN served[c].values
                                                                     ELSE Meant(ask[c]).values
    <3>1. FitsRequest(ask[c], result'[c].values)
      BY <2>4, Received
    <3>2. ASSUME ask[c].slave \notin Elsewhere
          PROVE  /\ served[c] # NoReply /\ served[c].ok
                 /\ result'[c].values = IF ask[c].fc \in ReadCodes THEN served[c].values
                                                                   ELSE Meant(ask[c]).values
      <4>1. served[c] # NoReply /\ result'[c] = Truth(ask[c], served[c])
        BY <3>2, Received
      <4> QED  BY <2>4, <4>1 DEF Truth, Result
    <3> QED  BY <3>1, <3>2
  <2> QED  BY <1>1, <2>1, <2>2, <2>3, <2>4
           DEF Conversation, Asked, OnItsWay, Answered, LeftBehind, Shown
<1> QED  BY <1>5, <1>6, <1>7 DEF ExchangeInv

\* A master gives up, and what it leaves on our slave was its valid request.
LEMMA GiveUpKeeps ==
  ASSUME ExchangeInv, asks' = asks, NEW c \in Client, GiveUp(c)
  PROVE  ExchangeInv'
<1>1. TypeOK /\ Conversation(c)
  BY DEF ExchangeInv
<1>2. left' = IF Ours(wire[c]) THEN [left EXCEPT ![c] = wire[c]] ELSE left
  BY DEF GiveUp
<1>3. TypeOK' /\ BitsIn(bank)'
  <2>1. left' \in [Client -> FrameType \cup {NoCall}]
    BY <1>1, <1>2 DEF TypeOK
  <2> QED  BY <1>1, <2>1, ErrorIsResult DEF GiveUp, Finish, ids, TypeOK, ExchangeInv
<1>4. ASSUME NEW d \in Client \ {c}
      PROVE  Conversation(d)'
  BY <1>1, <1>2, Untouched DEF ExchangeInv, TypeOK, GiveUp, Finish, ids
<1>5. Conversation(c)'
  <2>1. /\ phase'[c] = "done" /\ answer'[c] = NoReply /\ wire'[c] = NoCall
        /\ result'[c] = Error /\ ask' = ask
    BY <1>1 DEF GiveUp, Finish, TypeOK
  <2>2. LeftBehind(c)'
    <3>1. CASE Ours(wire[c])
      <4>1. left'[c] = wire[c]
        BY <1>1, <1>2, <3>1 DEF TypeOK
      <4>2. ask[c] \in asks[c] /\ ValidateProtocol(ask[c])
        BY <1>1 DEF GiveUp, Conversation, Asked
      <4>3. wire[c] = Frame(tx[c], ask[c].slave, BuildPDU(ask[c]))
        BY <1>1, <3>1 DEF Conversation, OnItsWay, Ours
      <4>4. /\ wire[c].unit = ask[c].slave /\ wire[c].pdu = BuildPDU(ask[c])
            /\ ask[c].slave \notin Elsewhere
        BY <3>1, <4>3 DEF Frame, Ours
      <4> QED  BY <4>1, <4>2, <4>4 DEF LeftBehind
    <3>2. CASE ~Ours(wire[c])
      BY <1>1, <1>2, <3>2 DEF Conversation, LeftBehind
    <3> QED  BY <3>1, <3>2
  <2> QED  BY <2>1, <2>2, ErrorIsResult DEF Conversation, Asked, OnItsWay, Answered, Shown
<1> QED  BY <1>3, <1>4, <1>5 DEF ExchangeInv

\* The user has what there is to see.
LEMMA ReturnKeeps ==
  ASSUME ExchangeInv, asks' = asks, NEW c \in Client, Return(c)
  PROVE  ExchangeInv'
<1>1. TypeOK /\ Conversation(c)
  BY DEF ExchangeInv
<1>2. TypeOK' /\ BitsIn(bank)'
  BY <1>1 DEF Return, ids, TypeOK, ExchangeInv
<1>3. ASSUME NEW d \in Client \ {c}
      PROVE  Conversation(d)'
  BY <1>1, Untouched DEF ExchangeInv, TypeOK, Return, ids
<1>4. Conversation(c)'
  <2>1. phase'[c] = "idle" /\ result'[c] = NoReply
    BY <1>1 DEF Return, TypeOK
  <2>2. wire' = wire /\ answer' = answer /\ left' = left
    BY DEF Return
  <2>3. wire[c] = NoCall /\ answer[c] = NoReply
    BY <1>1 DEF Return, Conversation, Asked
  <2> QED  BY <1>1, <2>1, <2>2, <2>3 DEF Conversation, Asked, OnItsWay, Answered, LeftBehind, Shown
<1> QED  BY <1>2, <1>3, <1>4 DEF ExchangeInv

\* Our slave serves what is on a connection and answers it.
LEMMA ServeKeeps ==
  ASSUME ExchangeInv, asks' = asks, NEW c \in Client, Serve(c)
  PROVE  ExchangeInv'
<1> DEFINE q == ask[c]
           f == wire[c]
           o == Outcomes(f)
           e == Frame(f.tx, f.unit, Response(f.pdu, o))
<1>1. TypeOK /\ BitsIn(bank) /\ Conversation(c)
  BY DEF ExchangeInv
<1>2. f # NoCall /\ f.unit \notin Elsewhere
  BY DEF Serve, Ours
<1>3. phase[c] = "waiting" /\ q \in asks[c] /\ ValidateProtocol(q)
  BY <1>1, <1>2 DEF Conversation, Asked
<1>4. f = Frame(tx[c], q.slave, BuildPDU(q))
  BY <1>1, <1>2 DEF Conversation, OnItsWay
<1>5. f.tx = tx[c] /\ f.unit = q.slave /\ f.pdu = BuildPDU(q) /\ q.slave \notin Elsewhere
  BY <1>2, <1>4 DEF Frame
<1>6. /\ WellFormed(f.pdu) /\ o \in Reply /\ Fits(q, o)
      /\ Effects(f) \in Banks /\ BitsIn(Effects(f))
  BY <1>1, <1>3, <1>5, ServedAsMeant
<1>7. q \in MasterRequest
  BY <1>1, <1>3, AsksAreRequests DEF TypeOK
<1>8. /\ bank' = Effects(f) /\ served' = [served EXCEPT ![c] = o]
      /\ answer' = [answer EXCEPT ![c] = e] /\ wire' = [wire EXCEPT ![c] = NoCall]
      /\ transactionID' = transactionID /\ tx' = tx /\ phase' = phase /\ ask' = ask
      /\ left' = left /\ result' = result
  BY <1>6 DEF Serve, ids
<1>9. e \in FrameType
  <2>1. Response(BuildPDU(q), o) \in Seq(UInt8)
    BY <1>3, <1>6, <1>7, AnswersAgree
  <2>2. tx[c] \in 0 .. TxIds - 1 /\ q.slave \in UInt8
    BY <1>1, <1>3, <1>7, RequestBytes DEF TypeOK
  <2> HIDE DEF o
  <2> QED  BY <1>5, <2>1, <2>2 DEF Frame, FrameType
<1> HIDE DEF o, f, e
<1>10. TypeOK' /\ BitsIn(bank)'
  BY <1>1, <1>6, <1>8, <1>9 DEF TypeOK
<1>11. ASSUME NEW d \in Client \ {c}
       PROVE  Conversation(d)'
  BY <1>1, <1>8, Untouched DEF ExchangeInv, TypeOK
<1>12. Conversation(c)'
  <2>1. served'[c] = o /\ answer'[c] = e /\ wire'[c] = NoCall
    BY <1>1, <1>8 DEF TypeOK
  <2>2. o # NoReply
    BY <1>6, ClientAssumption
  <2>3. e = Frame(tx[c], q.slave, Response(BuildPDU(q), o))
    BY <1>5 DEF e
  <2>4. result[c] = NoReply
    BY <1>1, <1>3 DEF Conversation, Shown
  <2> QED  BY <1>1, <1>3, <1>6, <1>8, <2>1, <2>2, <2>3, <2>4
           DEF Conversation, Asked, OnItsWay, Answered, LeftBehind, Shown
<1> QED  BY <1>10, <1>11, <1>12 DEF ExchangeInv

\* A request left behind is served or lost.
LEMMA LeftKeeps ==
  ASSUME ExchangeInv, asks' = asks, NEW c \in Client, ServeLeft(c) \/ LoseLeft(c)
  PROVE  ExchangeInv'
<1>1. TypeOK /\ BitsIn(bank) /\ Conversation(c) /\ left[c] # NoCall
  BY DEF ExchangeInv, ServeLeft, LoseLeft
<1>2. /\ left' = [left EXCEPT ![c] = NoCall]
      /\ transactionID' = transactionID /\ tx' = tx /\ phase' = phase /\ ask' = ask
      /\ wire' = wire /\ answer' = answer /\ served' = served /\ result' = result
  BY DEF ServeLeft, LoseLeft, ids
<1>3. bank' \in Banks /\ BitsIn(bank')
  <2>1. CASE ServeLeft(c)
    <3>1. PICK q \in asks[c] : /\ ValidateProtocol(q) /\ q.slave \notin Elsewhere
                               /\ left[c].unit = q.slave /\ left[c].pdu = BuildPDU(q)
      BY <1>1 DEF Conversation, LeftBehind
    <3>2. Effects(left[c]) \in Banks /\ BitsIn(Effects(left[c]))
      BY <1>1, <3>1, ServedAsMeant
    <3> QED  BY <2>1, <3>2 DEF ServeLeft
  <2>2. CASE LoseLeft(c)
    BY <1>1, <2>2 DEF LoseLeft, TypeOK
  <2> QED  BY <2>1, <2>2
<1>4. TypeOK' /\ BitsIn(bank)'
  BY <1>1, <1>2, <1>3 DEF TypeOK
<1>5. ASSUME NEW d \in Client \ {c}
      PROVE  Conversation(d)'
  BY <1>1, <1>2, Untouched DEF ExchangeInv, TypeOK
<1>6. Conversation(c)'
  <2>1. left'[c] = NoCall
    BY <1>1, <1>2 DEF TypeOK
  <2> QED  BY <1>1, <1>2, <2>1 DEF Conversation, Asked, OnItsWay, Answered, LeftBehind, Shown
<1> QED  BY <1>4, <1>5, <1>6 DEF ExchangeInv

\* A device that is not ours answers.
LEMMA ForeignKeeps ==
  ASSUME ExchangeInv, asks' = asks, NEW c \in Client, ForeignAnswer(c)
  PROVE  ExchangeInv'
<1>1. TypeOK /\ Conversation(c) /\ wire[c] # NoCall /\ wire[c].unit \in Elsewhere
  BY DEF ExchangeInv, ForeignAnswer, Ours
<1>2. phase[c] = "waiting" /\ ask[c] \in asks[c]
  BY <1>1 DEF Conversation, Asked
<1>3. ask[c].slave \in Elsewhere
  BY <1>1 DEF Conversation, OnItsWay, Frame
<1>4. PICK p \in Foreign, id \in {tx[c], (tx[c] + 1) % TxIds}, u \in {ask[c].slave, 0} :
        answer' = [answer EXCEPT ![c] = Frame(id, u, p)]
  BY DEF ForeignAnswer
<1>5. Frame(id, u, p) \in FrameType
  <2>1. tx[c] \in 0 .. TxIds - 1
    BY <1>1 DEF TypeOK
  <2>2. id \in 0 .. TxIds - 1
    BY <2>1, NextId
  <2>3. ask[c] \in MasterRequest
    BY <1>1, <1>2, AsksAreRequests DEF TypeOK
  <2>4. u \in UInt8
    <3>1. ask[c].slave \in UInt8
      BY <2>3 DEF MasterRequest
    <3>2. 0 \in UInt8
      BY DEF UInt8
    <3> QED  BY <3>1, <3>2
  <2>5. p \in Seq(UInt8)
    BY ExchangeAssumption
  <2> QED  BY <2>2, <2>4, <2>5 DEF Frame, FrameType
<1>6. /\ wire' = [wire EXCEPT ![c] = NoCall]
      /\ bank' = bank /\ transactionID' = transactionID /\ tx' = tx /\ phase' = phase
      /\ ask' = ask /\ left' = left /\ served' = served /\ result' = result
  BY DEF ForeignAnswer, ids
<1>7. TypeOK' /\ BitsIn(bank)'
  BY <1>1, <1>4, <1>5, <1>6 DEF TypeOK, ExchangeInv
<1>8. ASSUME NEW d \in Client \ {c}
      PROVE  Conversation(d)'
  BY <1>1, <1>4, <1>6, Untouched DEF ExchangeInv, TypeOK
<1>9. Conversation(c)'
  <2>1. wire'[c] = NoCall
    BY <1>1, <1>6 DEF TypeOK
  <2> QED  BY <1>1, <1>2, <1>3, <1>6, <2>1
           DEF Conversation, Asked, OnItsWay, Answered, LeftBehind, Shown
<1> QED  BY <1>7, <1>8, <1>9 DEF ExchangeInv

\* Every step keeps the invariant.
LEMMA NextExchange == ExchangeInv /\ [Next]_vars => ExchangeInv'
<1> SUFFICES ASSUME ExchangeInv, [Next]_vars
             PROVE  ExchangeInv'
  OBVIOUS
<1>1. CASE UNCHANGED vars
  <2>1. ASSUME NEW c \in Client
        PROVE  Conversation(c)'
    BY <1>1, Untouched DEF vars, ExchangeInv
  <2> QED  BY <1>1, <2>1 DEF vars, ExchangeInv, TypeOK
<1>2. CASE Next
  <2>1. asks' = asks
    BY <1>2 DEF Next
  <2>2. PICK c \in Client :
          \/ \E q \in asks[c] : Reject(c, q) \/ DialFails(c, q) \/ Send(c, q)
          \/ Receive(c) \/ GiveUp(c) \/ Return(c)
          \/ Serve(c) \/ ServeLeft(c) \/ LoseLeft(c) \/ ForeignAnswer(c)
    BY <1>2 DEF Next
  <2> QED  BY <2>1, <2>2, RefusedAtOnce, Sent, ReceiveKeeps, GiveUpKeeps, ReturnKeeps,
              ServeKeeps, LeftKeeps, ForeignKeeps
<1> QED  BY <1>1, <1>2

\* The conversations hold in every reachable state.
THEOREM ExchangeInvariant == Spec => []ExchangeInv
BY InitExchange, NextExchange, PTL DEF Spec

-----------------------------------------------------------------------------
(***************************************************************************)
(* The properties of the exchanges.                                        *)
(***************************************************************************)

\* Every reachable state of the exchanges is well typed: the banks of the slave
\* whatever reaches them, the ids (client.go:15), the frames on the connections,
\* and what the masters return.
THEOREM ExchangeTypeCorrect == Spec => []TypeOK
<1>1. ExchangeInv => TypeOK
  BY DEF ExchangeInv
<1> QED  BY <1>1, ExchangeInvariant, PTL

(***************************************************************************)
(* A request that passes the master's validation (types.go:68-113) is      *)
(* understood by the slave (server.go:121-225) as the call the user meant, *)
(* in every reachable state.                                               *)
(***************************************************************************)
THEOREM RequestsUnderstood == Spec => []AskedIsUnderstood
<1>1. ExchangeInv => AskedIsUnderstood
  <2> SUFFICES ASSUME ExchangeInv, NEW c \in Client, wire[c] # NoCall
               PROVE  /\ WellFormed(wire[c].pdu)
                      /\ StoreCall(wire[c].unit, wire[c].pdu) = Meant(ask[c])
    BY DEF AskedIsUnderstood
  <2>1. TypeOK /\ Conversation(c)
    BY DEF ExchangeInv
  <2>2. ask[c] \in asks[c] /\ ValidateProtocol(ask[c])
    BY <2>1 DEF Conversation, Asked
  <2>3. wire[c].unit = ask[c].slave /\ wire[c].pdu = BuildPDU(ask[c])
    BY <2>1 DEF Conversation, OnItsWay, Frame
  <2>4. ask[c] \in MasterRequest
    BY <2>1, <2>2, AsksAreRequests DEF TypeOK
  <2> QED  BY <2>2, <2>3, <2>4, CodecAgrees
<1> QED  BY <1>1, ExchangeInvariant, PTL

(***************************************************************************)
(* A user who is shown values of our slave is shown what its store         *)
(* returned for his own request, or what it was made to store: neither a   *)
(* late answer, nor another master's, nor a change made by the codecs      *)
(* (client.go:15-63, 144-214, server.go:84-236) gets through.              *)
(***************************************************************************)
THEOREM ResultsTrue == Spec => []ResultTrue
<1>1. ExchangeInv => ResultTrue
  <2> SUFFICES ASSUME ExchangeInv, NEW c \in Client,
                      result[c] # NoReply, result[c].kind = "values",
                      ask[c].slave \notin Elsewhere
               PROVE  /\ served[c] # NoReply /\ served[c].ok
                      /\ result[c].values = IF ask[c].fc \in ReadCodes THEN served[c].values
                                                                       ELSE Meant(ask[c]).values
    BY DEF ResultTrue
  <2>1. Shown(c)
    BY DEF ExchangeInv, Conversation
  <2> QED  BY <2>1 DEF Shown
<1> QED  BY <1>1, ExchangeInvariant, PTL

(***************************************************************************)
(* Whatever a device answers, a result has as many values as were asked    *)
(* for, and those of coils and discrete inputs are bits                    *)
(* (client.go:144-214).                                                    *)
(***************************************************************************)
THEOREM ResultsFit == Spec => []ResultFitsRequest
<1>1. ExchangeInv => ResultFitsRequest
  <2> SUFFICES ASSUME ExchangeInv, NEW c \in Client,
                      result[c] # NoReply, result[c].kind = "values"
               PROVE  /\ Len(result[c].values) = Quantity(ask[c])
                      /\ ask[c].fc \in {1, 2, 5, 15} =>
                           \A i \in DOMAIN result[c].values : result[c].values[i] \in {0, 1}
    BY DEF ResultFitsRequest
  <2>1. Shown(c)
    BY DEF ExchangeInv, Conversation
  <2> QED  BY <2>1 DEF Shown, FitsRequest
<1> QED  BY <1>1, ExchangeInvariant, PTL

(***************************************************************************)
(* Every answer of our slave is read as values or as exception 2, and the  *)
(* exception means that the store refused: no answer of server.go:121-236  *)
(* is one that client.go:144-214 cannot read.                              *)
(***************************************************************************)
THEOREM AnswersRead == Spec => AnswersUnderstood
<1>1. ASSUME ExchangeInv, [Next]_vars
      PROVE  [\A c \in Client : Receive(c) /\ ask[c].slave \notin Elsewhere =>
                 \/ result'[c].kind = "values"
                 \/ result'[c].kind = "exception" /\ result'[c].code = IllegalAddress /\ ~served[c].ok]_vars
  <2> SUFFICES ASSUME NEW c \in Client, Receive(c), ask[c].slave \notin Elsewhere
               PROVE  \/ result'[c].kind = "values"
                      \/ result'[c].kind = "exception" /\ result'[c].code = IllegalAddress /\ ~served[c].ok
    OBVIOUS
  <2>1. result'[c] = Truth(ask[c], served[c])
    BY <1>1, Received
  <2> QED  BY <2>1 DEF Truth, Result
<1> QED  BY <1>1, ExchangeInvariant, PTL DEF Spec, AnswersUnderstood
=============================================================================
