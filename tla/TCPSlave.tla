------------------------------ MODULE TCPSlave ------------------------------
(***************************************************************************)
(* The life of the Modbus TCP slave: the accept loop, a goroutine for each *)
(* connection, and the shutdown of the program that waits for them         *)
(* (core/internal/modbus/server.go, core/cmd/modbus-console-core/main.go). *)
(*                                                                         *)
(* What a request does to the registers is the subject of LockedStore; the *)
(* counters of requests and errors are left out.  A slot of Conn is one    *)
(* connection after another.                                               *)
(***************************************************************************)
EXTENDS Integers, Sequences, SequencesExt

CONSTANTS
  Conn,         \* connections that can exist at a time
  Window,       \* requests a client has on the wire at most
  NoConn

ASSUME ConnAssumption ==
  /\ IsFiniteSet(Conn) /\ NoConn \notin Conn
  /\ Window \in Nat \ {0}

VARIABLES
  main,         \* where main() is
  closed,       \* Server.closed is closed
  listening,    \* the listener is open
  backlog,      \* connections the kernel holds for Accept, the oldest first
  inbox,        \* requests of each client that the slave has not read
  accept,       \* where acceptLoop is
  taken,        \* its local conn
  handler,      \* where the handleConn of each connection is
  clients,      \* Server.clients
  wg            \* the counter of Server.wg

vars == <<main, closed, listening, backlog, inbox, accept, taken, handler, clients, wg>>
network == <<backlog, inbox>>
closing == <<main, closed, listening>>
accepting == <<accept, taken>>

\* After Start has returned.
Init ==
  /\ main = "running" /\ closed = FALSE /\ listening = TRUE
  /\ backlog = << >> /\ inbox = [c \in Conn |-> 0]
  /\ accept = "accept" /\ taken = NoConn
  /\ handler = [c \in Conn |-> "none"]
  /\ clients = 0 /\ wg = 1

-----------------------------------------------------------------------------
(***************************************************************************)
(* The clients.                                                            *)
(***************************************************************************)
Queued(c) == c \in ToSet(backlog)

Connected(c) == Queued(c) \/ taken = c \/ handler[c] \in {"reading", "serving"}

Connect(c) ==
  /\ listening /\ ~Connected(c) /\ handler[c] = "none"
  /\ backlog' = Append(backlog, c)
  /\ inbox' = [inbox EXCEPT ![c] = 0]
  /\ UNCHANGED <<closing, accepting, handler, clients, wg>>

Send(c) ==
  /\ Connected(c) /\ inbox[c] < Window
  /\ inbox' = [inbox EXCEPT ![c] = @ + 1]
  /\ UNCHANGED <<closing, backlog, accepting, handler, clients, wg>>

-----------------------------------------------------------------------------
(***************************************************************************)
(* acceptLoop.  An error of Accept before Close is counted and the loop    *)
(* goes on, which changes nothing here.                                    *)
(***************************************************************************)
Accept ==
  /\ accept = "accept" /\ listening /\ backlog # << >>
  /\ taken' = Head(backlog)
  /\ backlog' = Tail(backlog)
  /\ accept' = "count"
  /\ UNCHANGED <<closing, inbox, handler, clients, wg>>

\* Mutant: the loop goes on after Close as it does after any other error.
AcceptFailsAgain ==
  /\ accept = "accept" /\ closed
  /\ UNCHANGED vars

AcceptFails ==
  /\ accept = "accept" /\ closed
  /\ accept' = "done"
  /\ wg' = wg - 1
  /\ UNCHANGED <<closing, network, taken, handler, clients>>

CountClient ==
  /\ accept = "count"
  /\ clients' = clients + 1
  /\ accept' = "add"
  /\ UNCHANGED <<closing, network, taken, handler, wg>>

\* Mutant: the handler is not added to the wait group.
AddHandlerMissing ==
  /\ accept = "add"
  /\ accept' = "go"
  /\ UNCHANGED <<closing, network, taken, handler, clients, wg>>

AddHandler ==
  /\ accept = "add"
  /\ wg' = wg + 1
  /\ accept' = "go"
  /\ UNCHANGED <<closing, network, taken, handler, clients>>

GoHandler ==
  /\ accept = "go"
  /\ handler' = [handler EXCEPT ![taken] = "reading"]
  /\ taken' = NoConn
  /\ accept' = "accept"
  /\ UNCHANGED <<closing, network, clients, wg>>

AcceptStep == Accept \/ AcceptFails \/ CountClient \/ AddHandler \/ GoHandler

-----------------------------------------------------------------------------
(***************************************************************************)
(* handleConn.  It never looks at Server.closed.                           *)
(***************************************************************************)
Goto(c, from, to) == handler[c] = from /\ handler' = [handler EXCEPT ![c] = to]

\* Mutant: the handler serves what it has not read.
ReadRequestEarly(c) ==
  /\ Goto(c, "reading", "serving")
  /\ inbox' = [inbox EXCEPT ![c] = @ - 1]
  /\ UNCHANGED <<closing, backlog, accepting, clients, wg>>

ReadRequest(c) ==
  /\ inbox[c] > 0
  /\ Goto(c, "reading", "serving")
  /\ inbox' = [inbox EXCEPT ![c] = @ - 1]
  /\ UNCHANGED <<closing, backlog, accepting, clients, wg>>

\* The client is gone, was silent for 30 s or sent a bad header.
ReadFails(c) ==
  /\ Goto(c, "reading", "close")
  /\ UNCHANGED <<closing, network, accepting, clients, wg>>

Reply(c) ==
  /\ Goto(c, "serving", "reading")
  /\ UNCHANGED <<closing, network, accepting, clients, wg>>

\* Mutant: this return skips the deferred calls but for wg.Done.
WriteFailsUncounted(c) ==
  /\ Goto(c, "serving", "done")
  /\ UNCHANGED <<closing, network, accepting, clients, wg>>

WriteFails(c) ==
  /\ Goto(c, "serving", "close")
  /\ UNCHANGED <<closing, network, accepting, clients, wg>>

\* The deferred calls, the last one first.
CloseConn(c) ==
  /\ Goto(c, "close", "uncount")
  /\ inbox' = [inbox EXCEPT ![c] = 0]
  /\ UNCHANGED <<closing, backlog, accepting, clients, wg>>

UncountClient(c) ==
  /\ Goto(c, "uncount", "done")
  /\ clients' = clients - 1
  /\ UNCHANGED <<closing, network, accepting, wg>>

HandlerDone(c) ==
  /\ Goto(c, "done", "none")
  /\ wg' = wg - 1
  /\ UNCHANGED <<closing, network, accepting, clients>>

HandlerStep(c) ==
  \/ ReadRequest(c) \/ ReadFails(c) \/ Reply(c) \/ WriteFails(c)
  \/ CloseConn(c) \/ UncountClient(c) \/ HandlerDone(c)

-----------------------------------------------------------------------------
(***************************************************************************)
(* main() from the signal to the end: it shuts the control API down, says  *)
(* that it has stopped, and its deferred calls close the RTU sessions and  *)
(* then this server.                                                       *)
(***************************************************************************)
MainGoto(from, to) == main = from /\ main' = to

Signal ==
  /\ MainGoto("running", "shutdown")
  /\ UNCHANGED <<closed, listening, network, accepting, handler, clients, wg>>

PrintStopped ==
  /\ MainGoto("shutdown", "stopped")
  /\ UNCHANGED <<closed, listening, network, accepting, handler, clients, wg>>

CloseRTU ==
  /\ MainGoto("stopped", "rtu closed")
  /\ UNCHANGED <<closed, listening, network, accepting, handler, clients, wg>>

CloseClosed ==
  /\ MainGoto("rtu closed", "close listener")
  /\ closed' = TRUE
  /\ UNCHANGED <<listening, network, accepting, handler, clients, wg>>

\* Mutant: Close forgets the listener.
CloseListenerMissing ==
  /\ MainGoto("close listener", "wait")
  /\ UNCHANGED <<closed, listening, network, accepting, handler, clients, wg>>

CloseListener ==
  /\ MainGoto("close listener", "wait")
  /\ listening' = FALSE
  /\ backlog' = << >>
  /\ UNCHANGED <<closed, inbox, accepting, handler, clients, wg>>

WaitReturns ==
  /\ wg = 0
  /\ MainGoto("wait", "exit")
  /\ UNCHANGED <<closed, listening, network, accepting, handler, clients, wg>>

MainStep == PrintStopped \/ CloseRTU \/ CloseClosed \/ CloseListener \/ WaitReturns

Next ==
  \/ \E c \in Conn : Connect(c) \/ Send(c) \/ HandlerStep(c)
  \/ AcceptStep
  \/ Signal \/ MainStep

\* Goroutines run, and a read ends after 30 s at the latest.
Fairness ==
  /\ WF_vars(AcceptStep) /\ WF_vars(MainStep)
  /\ \A c \in Conn : WF_vars(HandlerStep(c))

Spec == Init /\ [][Next]_vars /\ Fairness

-----------------------------------------------------------------------------
(***************************************************************************)
(* Every variable has its type.                                            *)
(***************************************************************************)
TypeOK ==
  /\ main \in {"running", "shutdown", "stopped", "rtu closed", "close listener",
               "wait", "exit"}
  /\ closed \in BOOLEAN /\ listening \in BOOLEAN
  /\ backlog \in Seq(Conn) /\ inbox \in [Conn -> 0 .. Window]
  /\ accept \in {"accept", "count", "add", "go", "done"} /\ taken \in Conn \cup {NoConn}
  /\ handler \in [Conn -> {"none", "reading", "serving", "close", "uncount", "done"}]
  /\ clients \in Int /\ wg \in Int

(***************************************************************************)
(* The wait group counts the accept loop and the handlers, those about to  *)
(* start included, and Stats().Clients the connections in use, although    *)
(* four goroutines' steps change them (server.go:40, 64, 76-78, 83-84).    *)
(***************************************************************************)
Running == {c \in Conn : handler[c] # "none"}
Counted == {c \in Conn : handler[c] \in {"reading", "serving", "close", "uncount"}}

Accounting ==
  /\ wg = (IF accept = "done" THEN 0 ELSE 1) + (IF accept = "go" THEN 1 ELSE 0)
          + Cardinality(Running)
  /\ clients = (IF accept \in {"add", "go"} THEN 1 ELSE 0) + Cardinality(Counted)

(***************************************************************************)
(* When Close has returned no goroutine of the server is left, not even    *)
(* one for a connection that was accepted while the listener was being     *)
(* closed (server.go:50-56, 66-78).                                        *)
(***************************************************************************)
QuietAfterClose ==
  main = "exit" => accept = "done" /\ taken = NoConn /\ Running = {} /\ clients = 0

(***************************************************************************)
(* If the clients stop sending, Close returns: neither the accept loop nor *)
(* a handler keeps it waiting.  Without that condition it need not:        *)
(* handleConn serves a client that polls for as long as it polls.          *)
(***************************************************************************)
CloseReturns ==
  (<>[][\A c \in Conn : ~Send(c)]_vars) => (main = "shutdown" ~> main = "exit")

(***************************************************************************)
(* A connection in the kernel's queue is taken, or reset at Close.         *)
(***************************************************************************)
ConnectionsTaken == \A c \in Conn : Queued(c) ~> ~Queued(c)
=============================================================================
