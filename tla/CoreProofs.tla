----------------------------- MODULE CoreProofs -----------------------------
(***************************************************************************)
(* Theorems about the processes of the Core and the TCP slave in one of    *)
(* them, through every start, shutdown and death: the pairing token, for   *)
(* any number of tokens to choose from, and the goroutines of the slave,   *)
(* for any number of connections.                                          *)
(***************************************************************************)
EXTENDS CoreProcess, FiniteSetTheorems, TLAPS

-----------------------------------------------------------------------------
(***************************************************************************)
(* The pairing token.                                                      *)
(***************************************************************************)
Making == {"create", "write"}
Stages == {"off", "load", "create", "write", "listen", "up"}

TokenTypeOK ==
  /\ file \in Token \cup {None, Short}
  /\ stage \in [Core -> Stages]
  /\ token \in [Core -> Token \cup {Given, None}]
  /\ unseen \in BOOLEAN

(***************************************************************************)
(* What makes TokenOnFile inductive: while one start makes a token and     *)
(* nothing has gone unseen, there is no whole token in the file, the other *)
(* process makes none, and a process past its start has the token of the   *)
(* environment.                                                            *)
(***************************************************************************)
TokenInv ==
  /\ TokenTypeOK
  /\ \A p \in Core :
       /\ stage[p] \in Making => token[p] \in Token
       /\ stage[p] \in {"listen", "up"} =>
            token[p] \in Token \cup {Given} /\ (token[p] = Given \/ token[p] = file \/ unseen)
       /\ stage[p] \in Making /\ ~unseen =>
            file = (IF stage[p] = "create" THEN None ELSE Short) /\ stage[Rival(p)] \notin Making

\* There are two processes.
LEMMA Rivals ==
  ASSUME NEW p \in Core
  PROVE  Rival(p) \in Core /\ Rival(p) # p /\ Core = {p, Rival(p)} /\ Rival(Rival(p)) = p
BY CoreAssumption DEF Core, Rival

\* TokenInv holds at first.
LEMMA TokenInvInit == CoreInit => TokenInv
BY DEF CoreInit, TokenInv, TokenTypeOK, Making, Stages

\* A step that only ends a start, or a process, keeps TokenInv.
LEMMA TokenInvOff ==
  ASSUME TokenInv, NEW p \in Core,
         stage' = [stage EXCEPT ![p] = "off"], token' = [token EXCEPT ![p] = None],
         UNCHANGED <<file, unseen>>
  PROVE  TokenInv'
BY Rivals DEF TokenInv, TokenTypeOK, Making, Stages

\* Every step of a start keeps TokenInv.
LEMMA TokenInvStart ==
  ASSUME TokenInv, NEW p \in Core,
         Launch(p) \/ ReadFile(p) \/ Generate(p) \/ Truncate(p) \/ WriteToken(p)
  PROVE  TokenInv'
<1> USE DEF TokenInv, TokenTypeOK, Making, Stages, Step
<1>1. CASE Launch(p)
  BY <1>1, Rivals DEF Launch
<1>2. CASE ReadFile(p)
  BY <1>2, Rivals, TokenInvOff DEF ReadFile, Fatal
<1>3. CASE Generate(p)
  <2> DEFINE q == Rival(p)
  <2>1. q \in Core /\ q # p /\ Core = {p, q} /\ Rival(p) = q /\ Rival(q) = p
    BY Rivals
  <2>2. PICK t \in Token : token' = [token EXCEPT ![p] = t]
    BY <1>3 DEF Generate
  <2>3. stage' = [stage EXCEPT ![p] = "create"] /\ file' = file
    BY <1>3 DEF Generate
  <2>4. unseen' \in BOOLEAN /\ (unseen => unseen')
    BY <1>3 DEF Generate
  <2>5. ~unseen' => ~unseen /\ file = None /\ stage[q] \notin Making
    BY <1>3 DEF Generate
  <2> HIDE DEF q
  <2>6. TokenTypeOK'
    BY <2>2, <2>3, <2>4
  <2>7. stage'[p] = "create" /\ token'[p] = t /\ stage'[q] = stage[q] /\ token'[q] = token[q]
    BY <2>1, <2>2, <2>3
  <2>8. stage[q] \in Making => unseen'
    BY <2>5
  <2> QED  BY <2>1, <2>3, <2>4, <2>5, <2>6, <2>7, <2>8
<1>4. CASE Truncate(p)
  BY <1>4, Rivals, TokenInvOff, CoreAssumption DEF Truncate, Fatal
<1>5. CASE WriteToken(p)
  BY <1>5, Rivals, TokenInvOff, CoreAssumption DEF WriteToken, Fatal
<1> QED  BY <1>1, <1>2, <1>3, <1>4, <1>5

\* So does every other step.
LEMMA TokenInvStep == TokenInv /\ [CoreNext]_cvars => TokenInv'
<1> SUFFICES ASSUME TokenInv, [CoreNext]_cvars PROVE TokenInv'
  OBVIOUS
<1>0. This \in Core /\ Other \in Core
  BY DEF Core
<1>1. CASE UNCHANGED starting
  BY <1>1 DEF starting, TokenInv, TokenTypeOK
<1>2. CASE \E p \in Core : Launch(p) \/ ReadFile(p) \/ Generate(p) \/ Truncate(p) \/ WriteToken(p)
  BY <1>2, TokenInvStart
<1>3. ASSUME NEW p \in Core, StartFails(p) \/ Die(p)
      PROVE  TokenInv'
  BY <1>3, TokenInvOff DEF StartFails, Die, Fatal, Step
<1>4. CASE Start \/ StartOther
  BY <1>0, <1>4, Rivals DEF Start, StartOther, Step, TokenInv, TokenTypeOK, Making, Stages
<1>5. CASE End
  BY <1>0, <1>5, TokenInvOff DEF End, Step
<1> QED  BY <1>1, <1>2, <1>3, <1>4, <1>5 DEF CoreNext, cvars

(***************************************************************************)
(* A Core that is up has a whole token, the one in the file or in the      *)
(* environment, unless a start did not see the file.                       *)
(***************************************************************************)
THEOREM TokenOfTheCore == CoreSpec => []TokenOnFile
<1>1. TokenInv => TokenOnFile
  BY DEF TokenInv, TokenOnFile
<1> QED  BY <1>1, TokenInvInit, TokenInvStep, PTL DEF CoreSpec

(***************************************************************************)
(* A whole token in the file is never replaced or cut short, unless a      *)
(* start did not see it, whatever dies or fails at any point.              *)
(***************************************************************************)
THEOREM TokenSurvives == CoreSpec => TokenKept
<1>1. TokenInv /\ [CoreNext]_cvars => [(file \in Token /\ ~unseen) => file' = file]_cvars
  <2> SUFFICES ASSUME TokenInv, CoreNext, file \in Token, ~unseen
               PROVE  file' = file
    OBVIOUS
  <2>1. \A p \in Core : stage[p] \notin Making
    BY CoreAssumption DEF TokenInv, Making
  <2>2. ASSUME NEW p \in Core, Truncate(p) \/ WriteToken(p)
        PROVE  FALSE
    BY <2>1, <2>2 DEF Truncate, WriteToken, Fatal, Step, Making
  <2> QED  BY <2>2 DEF CoreNext, starting, Launch, ReadFile, Generate, StartFails, Die, Start, StartOther, End
<1> QED  BY <1>1, TokenInvInit, TokenInvStep, PTL DEF CoreSpec, TokenKept

-----------------------------------------------------------------------------
(***************************************************************************)
(* The goroutines of the TCP slave: its counters are exact and its Close   *)
(* leaves nothing behind.                                                  *)
(***************************************************************************)
Handling == {"reading", "serving", "close", "uncount", "done"}

SlaveTypeOK ==
  /\ backlog \in Seq(Conn)
  /\ accept \in {"accept", "count", "add", "go", "done"}
  /\ taken \in Conn \cup {NoConn}
  /\ handler \in [Conn -> Handling \cup {"none"}]
  /\ clients \in Int /\ wg \in Int

\* A connection has one place: the queue, the accept loop or a handler.
OnePlace ==
  /\ taken # NoConn <=> accept \in {"count", "add", "go"}
  /\ taken # NoConn => handler[taken] = "none"
  /\ \A i \in 1 .. Len(backlog) : handler[backlog[i]] = "none" /\ backlog[i] # taken
  /\ \A i, j \in 1 .. Len(backlog) : backlog[i] = backlog[j] => i = j

\* There is nothing to count while there is no slave.
NoSlave ==
  /\ main = "exit" => accept = "done" /\ Running = {} /\ backlog = << >> /\ ~listening
  /\ stage[This] # "up" => main = "exit"
  /\ main \in {"wait", "exit"} => ~listening /\ backlog = << >>

SlaveInv == SlaveTypeOK /\ OnePlace /\ Accounting /\ NoSlave /\ DOMAIN stage = Core

-----------------------------------------------------------------------------
\* Both sets of connections are finite.
LEMMA FiniteConns ==
  /\ IsFiniteSet(Running) /\ Cardinality(Running) \in Nat
  /\ IsFiniteSet(Counted) /\ Cardinality(Counted) \in Nat
<1>1. Running \in SUBSET Conn /\ Counted \in SUBSET Conn
  BY DEF Running, Counted
<1> QED  BY <1>1, ConnAssumption, FS_Subset, FS_CardinalityType

\* The size of a set with an element more.
LEMMA SizeWith ==
  ASSUME NEW S, IsFiniteSet(S), Cardinality(S) \in Nat, NEW x
  PROVE  Cardinality(S \cup {x}) = Cardinality(S) + IF x \in S THEN 0 ELSE 1
<1>1. Cardinality(S \cup {x}) = IF x \in S THEN Cardinality(S) ELSE Cardinality(S) + 1
  BY FS_AddElement, Zenon
<1> QED  BY <1>1

\* The size of a set with an element less.
LEMMA SizeWithout ==
  ASSUME NEW S, IsFiniteSet(S), Cardinality(S) \in Nat, NEW x
  PROVE  Cardinality(S \ {x}) = Cardinality(S) - IF x \in S THEN 1 ELSE 0
<1>1. Cardinality(S \ {x}) = IF x \in S THEN Cardinality(S) - 1 ELSE Cardinality(S)
  BY FS_RemoveElement, Zenon
<1> QED  BY <1>1

\* When a handler starts, moves or ends the sets follow it.
LEMMA SetsFollow ==
  ASSUME handler \in [Conn -> Handling \cup {"none"}],
         NEW c \in Conn, NEW to \in Handling \cup {"none"},
         handler' = [handler EXCEPT ![c] = to]
  PROVE  /\ Running' = IF to = "none" THEN Running \ {c} ELSE Running \cup {c}
         /\ Counted' = IF to \in {"none", "done"} THEN Counted \ {c} ELSE Counted \cup {c}
BY DEF Running, Counted, Handling

\* So do their sizes.
LEMMA SizesFollow ==
  ASSUME handler \in [Conn -> Handling \cup {"none"}],
         NEW c \in Conn, NEW to \in Handling \cup {"none"},
         handler' = [handler EXCEPT ![c] = to]
  PROVE  /\ Cardinality(Running') = Cardinality(Running)
              + (IF to = "none" THEN 0 ELSE 1) - (IF handler[c] = "none" THEN 0 ELSE 1)
         /\ Cardinality(Counted') = Cardinality(Counted)
              + (IF to \in {"none", "done"} THEN 0 ELSE 1)
              - (IF handler[c] \in {"none", "done"} THEN 0 ELSE 1)
<1> DEFINE runs == handler[c] # "none"  counts == handler[c] \notin {"none", "done"}
           starts == to # "none"        enters == to \notin {"none", "done"}
<1>1. (c \in Running <=> runs) /\ (c \in Counted <=> counts)
  BY DEF Running, Counted, Handling
<1>2. /\ Running' = IF starts THEN Running \cup {c} ELSE Running \ {c}
      /\ Counted' = IF enters THEN Counted \cup {c} ELSE Counted \ {c}
  BY SetsFollow
<1>3. /\ starts => Cardinality(Running') = Cardinality(Running) + (IF runs THEN 0 ELSE 1)
      /\ ~starts => Cardinality(Running') = Cardinality(Running) - (IF runs THEN 1 ELSE 0)
  BY <1>1, <1>2, FiniteConns, SizeWith, SizeWithout
<1>4. /\ enters => Cardinality(Counted') = Cardinality(Counted) + (IF counts THEN 0 ELSE 1)
      /\ ~enters => Cardinality(Counted') = Cardinality(Counted) - (IF counts THEN 1 ELSE 0)
  BY <1>1, <1>2, FiniteConns, SizeWith, SizeWithout
<1>5. Cardinality(Running) \in Nat /\ Cardinality(Counted) \in Nat
  BY FiniteConns
<1> QED  BY <1>3, <1>4, <1>5

\* SlaveInv holds before there is a slave.
LEMMA SlaveInvInit == CoreInit => SlaveInv
<1> SUFFICES ASSUME CoreInit PROVE SlaveInv
  OBVIOUS
<1>1. Running = {} /\ Counted = {}
  BY DEF CoreInit, Running, Counted
<1>2. Cardinality({}) = 0
  BY FS_EmptySet
<1>3. This \in Core
  BY DEF Core
<1>4. SlaveTypeOK /\ DOMAIN stage = Core
  BY DEF CoreInit, SlaveTypeOK, Handling
<1>5. OnePlace
  BY DEF CoreInit, OnePlace
<1>6. Accounting
  BY <1>1, <1>2 DEF CoreInit, Accounting
<1>7. NoSlave
  BY <1>1, <1>3 DEF CoreInit, NoSlave
<1> QED  BY <1>4, <1>5, <1>6, <1>7 DEF SlaveInv

-----------------------------------------------------------------------------
\* A step of a handler, and what it does to the counters.
Moves(c, from, to) ==
  /\ handler[c] = from /\ handler' = [handler EXCEPT ![c] = to]
  /\ clients' = IF from = "uncount" THEN clients - 1 ELSE clients
  /\ wg' = IF from = "done" THEN wg - 1 ELSE wg
  /\ UNCHANGED <<main, listening, backlog, accept, taken, stage>>

\* It keeps SlaveInv, if it uncounts its client before it is done and is gone
\* after that.
LEMMA HandlerKeeps ==
  ASSUME SlaveInv, NEW c \in Conn, NEW from \in Handling, NEW to \in Handling \cup {"none"},
         Moves(c, from, to), to = "done" <=> from = "uncount", from = "done" <=> to = "none"
  PROVE  SlaveInv'
<1> USE DEF SlaveInv, Moves
<1>0. handler \in [Conn -> Handling \cup {"none"}] /\ from # "none"
  BY DEF SlaveTypeOK, Handling
<1>1. SlaveTypeOK'
  BY DEF SlaveTypeOK
<1>2. OnePlace'
  BY <1>0 DEF OnePlace, SlaveTypeOK
<1>3. Accounting'
  <2>1. wg \in Int /\ clients \in Int
    BY DEF SlaveTypeOK
  <2>2. Cardinality(Running) \in Nat /\ Cardinality(Counted) \in Nat
    BY FiniteConns
  <2>3. /\ Cardinality(Running') = Cardinality(Running)
              + (IF to = "none" THEN 0 ELSE 1) - (IF from = "none" THEN 0 ELSE 1)
        /\ Cardinality(Counted') = Cardinality(Counted)
              + (IF to \in {"none", "done"} THEN 0 ELSE 1)
              - (IF from \in {"none", "done"} THEN 0 ELSE 1)
    BY <1>0, SizesFollow, Zenon
  <2>4. /\ Cardinality(Running') = Cardinality(Running) - (IF from = "done" THEN 1 ELSE 0)
        /\ Cardinality(Counted') = Cardinality(Counted) - (IF from = "uncount" THEN 1 ELSE 0)
    BY <1>0, <2>2, <2>3
  <2> QED  BY <2>1, <2>2, <2>4 DEF Accounting
<1>4. NoSlave'
  <2>1. main # "exit"
    BY <1>0 DEF NoSlave, Running
  <2> QED  BY <2>1 DEF NoSlave
<1> QED  BY <1>1, <1>2, <1>3, <1>4

\* Every step of a handler keeps SlaveInv.
LEMMA HandlerStepKeeps ==
  ASSUME SlaveInv, NEW c \in Conn, HandlerStep(c), UNCHANGED starting
  PROVE  SlaveInv'
<1>1. UNCHANGED <<main, listening, backlog, accept, taken, stage>>
  BY DEF HandlerStep, ReadRequest, ReadFails, Reply, WriteFails, CloseConn, UncountClient,
         HandlerDone, starting, closing, network, accepting
<1>2. CASE ReadRequest(c)
  <2>1. Moves(c, "reading", "serving")
    BY <1>1, <1>2 DEF ReadRequest, Goto, Moves
  <2> QED  BY <2>1, HandlerKeeps DEF Handling
<1>3. CASE ReadFails(c)
  <2>1. Moves(c, "reading", "close")
    BY <1>1, <1>3 DEF ReadFails, Goto, Moves
  <2> QED  BY <2>1, HandlerKeeps DEF Handling
<1>4. CASE Reply(c)
  <2>1. Moves(c, "serving", "reading")
    BY <1>1, <1>4 DEF Reply, Goto, Moves
  <2> QED  BY <2>1, HandlerKeeps DEF Handling
<1>5. CASE WriteFails(c)
  <2>1. Moves(c, "serving", "close")
    BY <1>1, <1>5 DEF WriteFails, Goto, Moves
  <2> QED  BY <2>1, HandlerKeeps DEF Handling
<1>6. CASE CloseConn(c)
  <2>1. Moves(c, "close", "uncount")
    BY <1>1, <1>6 DEF CloseConn, Goto, Moves
  <2> QED  BY <2>1, HandlerKeeps DEF Handling
<1>7. CASE UncountClient(c)
  <2>1. Moves(c, "uncount", "done")
    BY <1>1, <1>7 DEF UncountClient, Goto, Moves
  <2> QED  BY <2>1, HandlerKeeps DEF Handling
<1>8. CASE HandlerDone(c)
  <2>1. Moves(c, "done", "none")
    BY <1>1, <1>8 DEF HandlerDone, Goto, Moves
  <2> QED  BY <2>1, HandlerKeeps DEF Handling
<1> QED  BY <1>2, <1>3, <1>4, <1>5, <1>6, <1>7, <1>8 DEF HandlerStep

\* A step that leaves the handlers alone leaves their sets alone.
LEMMA SetsStay ==
  ASSUME UNCHANGED handler
  PROVE  /\ Running' = Running /\ Counted' = Counted
         /\ Cardinality(Running') = Cardinality(Running)
         /\ Cardinality(Counted') = Cardinality(Counted)
<1>1. Running' = Running /\ Counted' = Counted
  BY DEF Running, Counted
<1> QED  BY <1>1

\* The accept loop keeps SlaveInv.
LEMMA AcceptKeeps ==
  ASSUME SlaveInv, AcceptStep, UNCHANGED starting
  PROVE  SlaveInv'
<1> USE DEF SlaveInv
<1>0. /\ Cardinality(Running) \in Nat /\ Cardinality(Counted) \in Nat
      /\ accept # "done" => main # "exit"
  BY FiniteConns DEF NoSlave
<1>1. CASE Accept
  <2>1. /\ backlog \in Seq(Conn) /\ backlog # << >>
        /\ taken' = Head(backlog) /\ backlog' = Tail(backlog) /\ UNCHANGED handler
    BY <1>1 DEF Accept, SlaveTypeOK
  <2>2. taken' \in Conn /\ backlog' \in Seq(Conn) /\ Len(backlog') = Len(backlog) - 1
    BY <2>1
  <2>3. \A i \in 1 .. Len(backlog') : i + 1 \in 1 .. Len(backlog) /\ backlog'[i] = backlog[i + 1]
    BY <2>1
  <2>4. taken' = backlog[1] /\ 1 \in 1 .. Len(backlog)
    BY <2>1
  <2>5. OnePlace'
    BY <1>1, <2>1, <2>2, <2>3, <2>4, ConnAssumption DEF Accept, OnePlace
  <2>6. Accounting'
    BY <1>0, <1>1, SetsStay DEF Accept, Accounting
  <2>7. NoSlave'
    BY <1>0, <1>1, <2>1 DEF Accept, NoSlave, closing, starting
  <2> QED  BY <1>1, <2>2, <2>5, <2>6, <2>7 DEF Accept, SlaveTypeOK, starting
<1>2. CASE AcceptFails
  <2>1. Accounting'
    BY <1>0, <1>2, SetsStay DEF AcceptFails, Accounting, SlaveTypeOK
  <2> QED  BY <1>0, <1>2, <2>1
           DEF AcceptFails, SlaveTypeOK, OnePlace, NoSlave, closing, network, starting
<1>3. CASE CountClient \/ AddHandler
  <2>1. Accounting'
    BY <1>0, <1>3, SetsStay DEF CountClient, AddHandler, Accounting, SlaveTypeOK
  <2> QED  BY <1>0, <1>3, <2>1
           DEF CountClient, AddHandler, SlaveTypeOK, OnePlace, NoSlave, closing, network, starting
<1>4. CASE GoHandler
  <2>1. taken \in Conn /\ handler[taken] = "none" /\ handler' = [handler EXCEPT ![taken] = "reading"]
    BY <1>4 DEF GoHandler, OnePlace, SlaveTypeOK
  <2>2. handler \in [Conn -> Handling \cup {"none"}] /\ wg \in Int /\ clients \in Int
    BY DEF SlaveTypeOK
  <2>9. /\ Cardinality(Running') = Cardinality(Running)
              + (IF "reading" = "none" THEN 0 ELSE 1) - (IF handler[taken] = "none" THEN 0 ELSE 1)
        /\ Cardinality(Counted') = Cardinality(Counted)
              + (IF "reading" \in {"none", "done"} THEN 0 ELSE 1)
              - (IF handler[taken] \in {"none", "done"} THEN 0 ELSE 1)
    <3>1. "reading" \in Handling \cup {"none"}
      BY DEF Handling
    <3> QED  BY <2>1, <2>2, <3>1, SizesFollow, Zenon
  <2>3. /\ Cardinality(Running') = Cardinality(Running) + 1
        /\ Cardinality(Counted') = Cardinality(Counted) + 1
    BY <1>0, <2>1, <2>9
  <2>4. Accounting'
    BY <1>0, <1>4, <2>2, <2>3 DEF GoHandler, Accounting
  <2>5. SlaveTypeOK' /\ OnePlace'
    BY <1>4, <2>1, <2>2, ConnAssumption DEF GoHandler, SlaveTypeOK, OnePlace, Handling, network
  <2>6. NoSlave'
    BY <1>0, <1>4 DEF GoHandler, NoSlave, closing, network, starting
  <2> QED  BY <1>4, <2>4, <2>5, <2>6 DEF GoHandler, starting
<1> QED  BY <1>1, <1>2, <1>3, <1>4 DEF AcceptStep

\* The clients keep SlaveInv.
LEMMA ClientKeeps ==
  ASSUME SlaveInv, NEW c \in Conn, Connect(c) \/ Send(c), UNCHANGED starting
  PROVE  SlaveInv'
<1> USE DEF SlaveInv
<1>0. /\ UNCHANGED <<main, listening, accept, taken, handler, clients, wg, stage>>
  BY DEF Connect, Send, closing, accepting, starting
<1>1. Accounting'
  BY <1>0, SetsStay DEF Accounting
<1>2. CASE Connect(c)
  <2>1. /\ backlog' = Append(backlog, c) /\ backlog \in Seq(Conn) /\ listening
        /\ handler[c] = "none" /\ c # taken
        /\ \A i \in 1 .. Len(backlog) : backlog[i] # c
    BY <1>2 DEF Connect, Connected, Queued, ToSet, SlaveTypeOK
  <2>2. /\ backlog' \in Seq(Conn) /\ Len(backlog') = Len(backlog) + 1
        /\ backlog'[Len(backlog) + 1] = c /\ Len(backlog) \in Nat
        /\ \A i \in 1 .. Len(backlog) : backlog'[i] = backlog[i]
    BY <2>1
  <2>3. OnePlace'
    BY <1>0, <2>1, <2>2 DEF OnePlace
  <2>4. NoSlave'
    BY <1>0, <2>1 DEF NoSlave
  <2> QED  BY <1>0, <1>1, <2>2, <2>3, <2>4 DEF SlaveTypeOK
<1>3. CASE Send(c)
  BY <1>0, <1>1, <1>3, SetsStay DEF Send, SlaveTypeOK, OnePlace, NoSlave
<1> QED  BY <1>2, <1>3

\* main() keeps SlaveInv.
LEMMA MainKeeps ==
  ASSUME SlaveInv, Signal \/ MainStep, UNCHANGED starting
  PROVE  SlaveInv'
<1> USE DEF SlaveInv
<1>0. UNCHANGED <<accept, taken, handler, clients, wg, stage>>
  BY DEF Signal, MainStep, PrintStopped, CloseRTU, CloseClosed, CloseListener, WaitReturns,
         accepting, starting
<1>1. Accounting'
  BY <1>0, SetsStay DEF Accounting
<1>2. CASE WaitReturns
  <2>1. UNCHANGED <<listening, backlog>> /\ main = "wait" /\ wg = 0
    BY <1>2 DEF WaitReturns, MainGoto, network
  <2>2. accept = "done" /\ Cardinality(Running) = 0
    BY <2>1, FiniteConns DEF Accounting, SlaveTypeOK
  <2>3. Running = {}
    BY <2>2, FiniteConns, FS_EmptySet
  <2>4. NoSlave'
    BY <1>0, <1>2, <2>1, <2>2, <2>3, SetsStay DEF NoSlave, WaitReturns, MainGoto
  <2> QED  BY <1>0, <1>1, <2>1, <2>4 DEF SlaveTypeOK, OnePlace
<1>3. CASE CloseListener
  <2>1. backlog' = << >> /\ ~listening' /\ main = "close listener" /\ main' = "wait"
    BY <1>3 DEF CloseListener, MainGoto
  <2>2. backlog' \in Seq(Conn) /\ Len(backlog') = 0
    <3>1. << >> \in Seq(Conn) /\ Len(<< >>) = 0
      OBVIOUS
    <3> QED  BY <2>1, <3>1, Zenon
  <2>3. SlaveTypeOK'
    BY <1>0, <2>2 DEF SlaveTypeOK
  <2>4. OnePlace'
    BY <1>0, <2>2 DEF OnePlace
  <2>5. NoSlave'
    BY <1>0, <2>1, SetsStay DEF NoSlave
  <2> QED  BY <1>0, <1>1, <2>3, <2>4, <2>5
<1>4. CASE Signal \/ PrintStopped \/ CloseRTU \/ CloseClosed
  <2>1. UNCHANGED <<listening, backlog>> /\ main \notin {"wait", "exit"} /\ main' \notin {"wait", "exit"}
    BY <1>4 DEF Signal, PrintStopped, CloseRTU, CloseClosed, MainGoto, network
  <2> QED  BY <1>0, <1>1, <2>1, SetsStay DEF SlaveTypeOK, OnePlace, NoSlave
<1> QED  BY <1>2, <1>3, <1>4 DEF MainStep

\* Starts, ends and deaths keep SlaveInv.
LEMMA ProcessKeeps ==
  ASSUME SlaveInv,
         \/ \E p \in Core : Launch(p) \/ ReadFile(p) \/ Generate(p) \/ Truncate(p) \/ WriteToken(p)
                            \/ StartFails(p) \/ Die(p)
         \/ Start \/ StartOther \/ End
  PROVE  SlaveInv'
<1> USE DEF SlaveInv
<1>0. This \in Core /\ Other \in Core /\ This # Other /\ Cardinality({}) = 0
  BY CoreAssumption, FS_EmptySet DEF Core
<1>1. ASSUME UNCHANGED vars, DOMAIN stage' = Core,
             stage'[This] # "up" => stage[This] # "up" \/ main = "exit"
      PROVE  SlaveInv'
  <2>1. UNCHANGED <<main, listening, backlog, accept, taken, handler, clients, wg>>
    BY <1>1 DEF vars
  <2>2. Accounting'
    BY <2>1, SetsStay DEF Accounting
  <2> QED  BY <1>1, <2>1, <2>2, SetsStay DEF SlaveTypeOK, OnePlace, NoSlave
<1>2. ASSUME NEW p \in Core,
             Launch(p) \/ ReadFile(p) \/ Generate(p) \/ Truncate(p) \/ WriteToken(p) \/ StartFails(p)
      PROVE  SlaveInv'
  <2>1. UNCHANGED vars
    BY <1>2 DEF Launch, ReadFile, Generate, Truncate, WriteToken, StartFails
  <2>2. stage[p] # "up" /\ \E s : stage' = [stage EXCEPT ![p] = s]
    BY <1>2 DEF Launch, ReadFile, Generate, Truncate, WriteToken, StartFails, Fatal, Step
  <2> QED  BY <1>0, <1>1, <2>1, <2>2
<1>3. CASE StartOther \/ End
  <2>1. UNCHANGED vars /\ \E p \in Core : \E s : stage' = [stage EXCEPT ![p] = s]
    BY <1>0, <1>3 DEF StartOther, End, Step
  <2>2. stage'[This] # "up" => stage[This] # "up" \/ main = "exit"
    BY <1>0, <1>3 DEF StartOther, End, Step
  <2> QED  BY <1>1, <2>1, <2>2
<1>4. CASE Start
  <2>1. /\ stage[This] # "up" /\ stage' = [stage EXCEPT ![This] = "up"]
        /\ main' = "running" /\ accept' = "accept" /\ wg' = 1
        /\ UNCHANGED <<backlog, taken, handler, clients>>
    BY <1>4 DEF Start, Step
  <2>2. accept = "done" /\ Running = {} /\ backlog = << >>
    BY <2>1 DEF NoSlave
  <2>3. clients = Cardinality(Counted) /\ clients \in Int
    <3>1. clients = (IF accept \in {"add", "go"} THEN 1 ELSE 0) + Cardinality(Counted)
      BY DEF Accounting
    <3> QED  BY <2>2, <3>1, FiniteConns DEF SlaveTypeOK
  <2>4. Accounting'
    BY <1>0, <2>1, <2>2, <2>3, SetsStay DEF Accounting
  <2> QED  BY <1>0, <2>1, <2>2, <2>4 DEF SlaveTypeOK, OnePlace, NoSlave
<1>5. ASSUME NEW p \in Core, Die(p)
      PROVE  SlaveInv'
  <2>1. stage' = [stage EXCEPT ![p] = "off"]
    BY <1>5 DEF Die
  <2>2. CASE ~(p = This /\ stage[p] = "up")
    BY <1>0, <1>1, <1>5, <2>1, <2>2 DEF Die
  <2>3. CASE p = This /\ stage[p] = "up"
    <3>1. /\ main' = "exit" /\ ~listening' /\ backlog' = << >>
          /\ accept' = "done" /\ taken' = NoConn /\ handler' = [c \in Conn |-> "none"]
          /\ clients' = 0 /\ wg' = 0
      BY <1>5, <2>3 DEF Die
    <3>2. Running' = {} /\ Counted' = {}
      BY <3>1 DEF Running, Counted
    <3>3. Accounting'
      BY <1>0, <3>1, <3>2 DEF Accounting
    <3> QED  BY <2>1, <3>1, <3>2, <3>3 DEF SlaveTypeOK, OnePlace, NoSlave, Handling
  <2> QED  BY <2>2, <2>3
<1> QED  BY <1>2, <1>3, <1>4, <1>5

\* SlaveInv is inductive.
LEMMA SlaveInvStep == SlaveInv /\ [CoreNext]_cvars => SlaveInv'
<1> SUFFICES ASSUME SlaveInv, [CoreNext]_cvars PROVE SlaveInv'
  OBVIOUS
<1>1. CASE UNCHANGED cvars
  <2>1. UNCHANGED <<main, listening, backlog, accept, taken, handler, clients, wg, stage>>
    BY <1>1 DEF cvars, vars, starting
  <2>2. Accounting'
    BY <2>1, SetsStay DEF SlaveInv, Accounting
  <2> QED  BY <2>1, <2>2, SetsStay DEF SlaveInv, SlaveTypeOK, OnePlace, NoSlave
<1>2. CASE Next /\ UNCHANGED starting
  BY <1>2, HandlerStepKeeps, AcceptKeeps, ClientKeeps, MainKeeps DEF Next
<1>3. CASE CoreNext /\ ~(Next /\ UNCHANGED starting)
  BY <1>3, ProcessKeeps DEF CoreNext
<1> QED  BY <1>1, <1>2, <1>3

(***************************************************************************)
(* The wait group counts the server's goroutines and Stats().Clients its   *)
(* connections, for any number of connections.                             *)
(***************************************************************************)
THEOREM CountersExact == CoreSpec => []Accounting
<1>1. SlaveInv => Accounting
  BY DEF SlaveInv
<1> QED  BY <1>1, SlaveInvInit, SlaveInvStep, PTL DEF CoreSpec

(***************************************************************************)
(* When Close has returned, or the process has died, no goroutine of the   *)
(* server is left.                                                         *)
(***************************************************************************)
THEOREM NothingLeftBehind == CoreSpec => []QuietAfterClose
<1>1. SlaveInv => QuietAfterClose
  <2> SUFFICES ASSUME SlaveInv, main = "exit"
               PROVE  accept = "done" /\ taken = NoConn /\ Running = {} /\ clients = 0
    BY DEF QuietAfterClose
  <2>1. accept = "done" /\ taken = NoConn /\ Running = {}
    BY DEF SlaveInv, NoSlave, OnePlace
  <2>2. Counted = {}
    BY <2>1 DEF Running, Counted
  <2>3. Cardinality(Counted) = 0
    BY <2>2, FS_EmptySet
  <2> QED  BY <2>1, <2>3 DEF SlaveInv, Accounting
<1> QED  BY <1>1, SlaveInvInit, SlaveInvStep, PTL DEF CoreSpec

-----------------------------------------------------------------------------
\* The variables that neither TokenInv nor SlaveInv speaks of.
OthersTypeOK ==
  /\ main \in {"running", "shutdown", "stopped", "rtu closed", "close listener",
               "wait", "exit"}
  /\ closed \in BOOLEAN /\ listening \in BOOLEAN
  /\ inbox \in [Conn -> 0 .. Window]
  /\ \A p \in Core : token[p] # None <=> stage[p] \notin {"off", "load"}

\* A window has room for no request at all.
LEMMA EmptyInbox == 0 \in 0 .. Window
<1>1. Window \in Nat
  BY ConnAssumption
<1> QED  BY <1>1

\* No client has more requests on the wire than its window.
LEMMA InboxKept ==
  ASSUME inbox \in [Conn -> 0 .. Window], NEW c \in Conn, Connect(c) \/ Send(c) \/ HandlerStep(c)
  PROVE  inbox' \in [Conn -> 0 .. Window]
<1>1. Window \in Nat /\ inbox[c] \in Nat /\ inbox[c] <= Window
  BY ConnAssumption
<1>2. CASE Connect(c) \/ CloseConn(c)
  <2>1. inbox' = [inbox EXCEPT ![c] = 0]
    BY <1>2 DEF Connect, CloseConn
  <2>2. 0 \in 0 .. Window
    BY <1>1
  <2> QED  BY <2>1, <2>2
<1>3. CASE Send(c)
  <2>1. inbox' = [inbox EXCEPT ![c] = inbox[c] + 1] /\ inbox[c] < Window
    BY <1>3 DEF Send
  <2>2. inbox[c] + 1 \in 0 .. Window
    BY <1>1, <2>1
  <2> QED  BY <2>1, <2>2
<1>4. CASE ReadRequest(c)
  <2>1. inbox' = [inbox EXCEPT ![c] = inbox[c] - 1] /\ inbox[c] > 0
    BY <1>4 DEF ReadRequest
  <2>2. inbox[c] - 1 \in 0 .. Window
    BY <1>1, <2>1
  <2> QED  BY <2>1, <2>2
<1>5. CASE ReadFails(c) \/ Reply(c) \/ WriteFails(c) \/ UncountClient(c) \/ HandlerDone(c)
  BY <1>5 DEF ReadFails, Reply, WriteFails, UncountClient, HandlerDone, network
<1> QED  BY <1>2, <1>3, <1>4, <1>5 DEF HandlerStep

\* The slave keeps the types of its variables.
LEMMA OthersSlave ==
  ASSUME OthersTypeOK, Next, UNCHANGED starting
  PROVE  OthersTypeOK'
<1>1. \A p \in Core : token'[p] # None <=> stage'[p] \notin {"off", "load"}
  BY DEF OthersTypeOK, starting
<1>2. ASSUME NEW c \in Conn, Connect(c) \/ Send(c) \/ HandlerStep(c)
      PROVE  OthersTypeOK'
  <2>1. inbox' \in [Conn -> 0 .. Window]
    BY <1>2, InboxKept DEF OthersTypeOK
  <2>2. UNCHANGED closing
    BY <1>2 DEF Connect, Send, HandlerStep, ReadRequest, ReadFails, Reply, WriteFails, CloseConn,
                UncountClient, HandlerDone
  <2> QED  BY <1>1, <2>1, <2>2 DEF OthersTypeOK, closing
<1>3. CASE AcceptStep
  <2>1. UNCHANGED <<closing, inbox>>
    BY <1>3 DEF AcceptStep, Accept, AcceptFails, CountClient, AddHandler, GoHandler, network
  <2> QED  BY <1>1, <2>1 DEF OthersTypeOK, closing
<1>4. CASE Signal \/ MainStep
  <2>1. /\ UNCHANGED inbox
        /\ main' \in {"shutdown", "stopped", "rtu closed", "close listener", "wait", "exit"}
        /\ closed' \in {closed, TRUE} /\ listening' \in {listening, FALSE}
    BY <1>4 DEF Signal, MainStep, PrintStopped, CloseRTU, CloseClosed, CloseListener, WaitReturns,
                MainGoto, network
  <2> QED  BY <1>1, <2>1 DEF OthersTypeOK
<1> QED  BY <1>2, <1>3, <1>4 DEF Next

\* A process that is off or about to load its token has none, the others
\* have one.
HasToken == \A p \in Core : token[p] # None <=> stage[p] \notin {"off", "load"}

\* A process that moves keeps HasToken when its token moves with it.
LEMMA TokenStages ==
  ASSUME TokenInv, HasToken,
         NEW p \in Core, NEW to \in Stages, NEW t,
         stage' = [stage EXCEPT ![p] = to], token' = [token EXCEPT ![p] = t],
         t # None <=> to \notin {"off", "load"}
  PROVE  HasToken'
<1>1. stage'[p] = to /\ token'[p] = t
  BY DEF TokenInv, TokenTypeOK
<1>2. \A q \in Core \ {p} : stage'[q] = stage[q] /\ token'[q] = token[q]
  BY DEF TokenInv, TokenTypeOK
<1> QED  BY <1>1, <1>2 DEF HasToken

\* So do the steps of the processes.
LEMMA OthersProcess ==
  ASSUME TokenInv, OthersTypeOK,
         \/ \E p \in Core : Launch(p) \/ ReadFile(p) \/ Generate(p) \/ Truncate(p) \/ WriteToken(p)
                            \/ StartFails(p) \/ Die(p)
         \/ Start \/ StartOther \/ End
  PROVE  OthersTypeOK'
<1>0. /\ This \in Core /\ Other \in Core
      /\ Given # None /\ None \notin Token
      /\ HasToken
  BY CoreAssumption DEF Core, OthersTypeOK, HasToken
<1>1. \E p \in Core, to \in Stages : \E t :
        /\ stage' = [stage EXCEPT ![p] = to] /\ token' = [token EXCEPT ![p] = t]
        /\ t # None <=> to \notin {"off", "load"}
  <2>1. ASSUME NEW p \in Core, Launch(p)
        PROVE  \/ stage' = [stage EXCEPT ![p] = "load"] /\ token' = token /\ token[p] = None
               \/ stage' = [stage EXCEPT ![p] = "listen"] /\ token' = [token EXCEPT ![p] = Given]
    BY <1>0, <2>1 DEF Launch, Step, HasToken
  <2>2. ASSUME NEW p \in Core, ReadFile(p) \/ Generate(p)
        PROVE  \/ /\ \E to \in {"listen", "create"} : stage' = [stage EXCEPT ![p] = to]
                  /\ \E t \in Token : token' = [token EXCEPT ![p] = t]
               \/ stage' = [stage EXCEPT ![p] = "off"] /\ token' = [token EXCEPT ![p] = None]
    BY <2>2 DEF ReadFile, Generate, Step, Fatal
  <2>3. ASSUME NEW p \in Core, Truncate(p) \/ WriteToken(p)
        PROVE  \/ /\ \E to \in {"write", "listen"} : stage' = [stage EXCEPT ![p] = to]
                  /\ token' = token /\ token[p] # None
               \/ stage' = [stage EXCEPT ![p] = "off"] /\ token' = [token EXCEPT ![p] = None]
    BY <1>0, <2>3 DEF Truncate, WriteToken, Step, Fatal, HasToken
  <2>4. ASSUME NEW p \in Core, StartFails(p) \/ Die(p)
        PROVE  stage' = [stage EXCEPT ![p] = "off"] /\ token' = [token EXCEPT ![p] = None]
    BY <2>4 DEF StartFails, Die, Step, Fatal
  <2>5. ASSUME Start \/ StartOther
        PROVE  \E p \in Core : /\ stage' = [stage EXCEPT ![p] = "up"]
                               /\ token' = token /\ token[p] # None
    BY <1>0, <2>5 DEF Start, StartOther, Step, HasToken
  <2>6. ASSUME End
        PROVE  stage' = [stage EXCEPT ![This] = "off"] /\ token' = [token EXCEPT ![This] = None]
    BY <2>6 DEF End, Step
  <2>7. \A p \in Core : token = [token EXCEPT ![p] = token[p]]
    BY DEF TokenInv, TokenTypeOK
  <2> DEFINE moved(p, to, t) == /\ stage' = [stage EXCEPT ![p] = to] /\ token' = [token EXCEPT ![p] = t]
                                /\ t # None <=> to \notin {"off", "load"}
  <2>8. ASSUME NEW p \in Core, Launch(p)
        PROVE  \E to \in Stages : \E t : moved(p, to, t)
    BY <1>0, <2>1, <2>7, <2>8 DEF Stages
  <2>9. ASSUME NEW p \in Core, ReadFile(p) \/ Generate(p)
        PROVE  \E to \in Stages : \E t : moved(p, to, t)
    BY <1>0, <2>2, <2>9 DEF Stages
  <2>10. ASSUME NEW p \in Core, Truncate(p) \/ WriteToken(p)
        PROVE  \E to \in Stages : \E t : moved(p, to, t)
    BY <2>3, <2>7, <2>10 DEF Stages
  <2>11. ASSUME NEW p \in Core, StartFails(p) \/ Die(p)
         PROVE  \E to \in Stages : \E t : moved(p, to, t)
    BY <2>4, <2>11 DEF Stages
  <2>12. ASSUME Start \/ StartOther \/ End
         PROVE  \E p \in Core, to \in Stages : \E t : moved(p, to, t)
    BY <1>0, <2>5, <2>6, <2>7, <2>12 DEF Stages
  <2> HIDE DEF moved
  <2>13. \E p \in Core, to \in Stages : \E t : moved(p, to, t)
    BY <2>8, <2>9, <2>10, <2>11, <2>12
  <2> QED  BY <2>13 DEF moved
<1>2. HasToken'
  <2>1. PICK p \in Core, to \in Stages :
          \E t : /\ stage' = [stage EXCEPT ![p] = to] /\ token' = [token EXCEPT ![p] = t]
                 /\ t # None <=> to \notin {"off", "load"}
    BY <1>1
  <2>2. PICK t : /\ stage' = [stage EXCEPT ![p] = to] /\ token' = [token EXCEPT ![p] = t]
                 /\ t # None <=> to \notin {"off", "load"}
    BY <2>1
  <2> QED  BY <1>0, <2>2, TokenStages
<1>3. \/ UNCHANGED vars
      \/ main' \in {"running", "exit"} /\ closed' \in BOOLEAN /\ listening' \in BOOLEAN
         /\ inbox' = [c \in Conn |-> 0]
  BY DEF Launch, ReadFile, Generate, Truncate, WriteToken, StartFails, Die, Start, StartOther, End
<1>4. inbox' \in [Conn -> 0 .. Window]
  BY <1>3, EmptyInbox DEF OthersTypeOK, vars
<1> QED  BY <1>2, <1>3, <1>4 DEF OthersTypeOK, HasToken, vars

(***************************************************************************)
(* The type invariant holds in every behaviour; in particular a process    *)
(* has a token exactly from the moment LoadOrCreateToken has one.          *)
(***************************************************************************)
THEOREM CoreTypeCorrect == CoreSpec => []CoreTypeOK
<1>1. CoreInit => OthersTypeOK
  <2> SUFFICES ASSUME CoreInit PROVE OthersTypeOK
    OBVIOUS
  <2>1. inbox \in [Conn -> 0 .. Window]
    BY EmptyInbox DEF CoreInit
  <2>2. \A p \in Core : token[p] = None /\ stage[p] = "off"
    BY DEF CoreInit
  <2> QED  BY <2>1, <2>2 DEF CoreInit, OthersTypeOK
<1>2. TokenInv /\ OthersTypeOK /\ [CoreNext]_cvars => OthersTypeOK'
  <2>1. CASE UNCHANGED cvars
    BY <2>1 DEF cvars, vars, starting, OthersTypeOK
  <2> QED  BY <2>1, OthersSlave, OthersProcess DEF CoreNext
<1>3. TokenInv /\ SlaveInv /\ OthersTypeOK => CoreTypeOK
  BY DEF TokenInv, TokenTypeOK, Stages, SlaveInv, SlaveTypeOK, Handling, OthersTypeOK,
         CoreTypeOK, TypeOK
<1> QED  BY <1>1, <1>2, <1>3, TokenInvInit, TokenInvStep, SlaveInvInit, SlaveInvStep, PTL
         DEF CoreSpec
=============================================================================
