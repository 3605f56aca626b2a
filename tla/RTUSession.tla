----------------------------- MODULE RTUSession -----------------------------
(***************************************************************************)
(* The sessions of the RTU master and the RTU slave: the handlers of the   *)
(* control API that open, use and close serial ports, and the goroutine    *)
(* that serves an open slave port (core/internal/modbus/rtu.go,            *)
(* core/internal/api/server.go).                                           *)
(*                                                                         *)
(* A handle is a serial.Port value.  The operating system gives a port to  *)
(* one handle at a time; a handle that is closed and that no variable      *)
(* holds any more may be handed out again.  A section under RTUSlave.mu is *)
(* one step, since nothing in it blocks; RTUMaster.mu is held while a      *)
(* request is on the wire, so it is a variable.                            *)
(***************************************************************************)
EXTENDS Integers, FiniteSets

CONSTANTS
  Operator,     \* goroutines that run the handlers a user's clicks cause
  Poller,       \* goroutines that run the requests of an automatic poll
  Loop,         \* goroutines that run RTUSlave.loop
  Handle,       \* serial.Port values
  Port,         \* the machine's serial ports
  None          \* nil, and "not open"

Handler == Operator \cup Poller

ASSUME SessionAssumption == None \notin Handle \cup Port \cup Handler

VARIABLES
  open,         \* the port each handle holds, None when closed
  mPort,        \* RTUMaster.port
  mMu,          \* the handler that holds RTUMaster.mu with a request on the wire
  sPort,        \* RTUSlave.port
  stopped,      \* the sessions, named by their handle, whose stop channel is closed
  wg,           \* the counter of RTUSlave.wg
  hpc,          \* where each handler is
  hport,        \* its local p
  lpc,          \* where each loop is
  lport         \* its local p

vars == <<open, mPort, mMu, sPort, stopped, wg, hpc, hport, lpc, lport>>
master == <<mPort, mMu>>
slave == <<sPort, stopped, wg>>
loops == <<lpc, lport>>

Init ==
  /\ open = [x \in Handle |-> None]
  /\ mPort = None /\ mMu = None
  /\ sPort = None /\ stopped = {} /\ wg = 0
  /\ hpc = [h \in Handler |-> "idle"] /\ hport = [h \in Handler |-> None]
  /\ lpc = [l \in Loop |-> "none"] /\ lport = [l \in Loop |-> None]

-----------------------------------------------------------------------------
(***************************************************************************)
(* The serial library.                                                     *)
(***************************************************************************)
Free(p) == \A x \in Handle : open[x] # p

Unreferenced(x) ==
  /\ open[x] = None
  /\ x \notin {mPort, sPort}
  /\ \A h \in Handler : hport[h] # x
  /\ \A l \in Loop : lport[l] # x

Live == {l \in Loop : lpc[l] # "none"}

At(h, label, next) == hpc[h] = label /\ hpc' = [hpc EXCEPT ![h] = next]

(***************************************************************************)
(* Open and Start call serial.Open before they take their lock.  It can    *)
(* fail for reasons of its own, and does when the port is held.            *)
(***************************************************************************)
SerialOpens(h, label, next) ==
  /\ At(h, label, next)
  /\ \E x \in Handle, p \in Port :
       /\ Unreferenced(x) /\ Free(p)
       /\ open' = [open EXCEPT ![x] = p]
       /\ hport' = [hport EXCEPT ![h] = x]
       /\ stopped' = stopped \ {x}
  /\ UNCHANGED <<master, sPort, wg, loops>>

SerialFails(h, label) ==
  /\ At(h, label, "idle")
  /\ UNCHANGED <<open, master, slave, hport, loops>>

-----------------------------------------------------------------------------
(***************************************************************************)
(* POST and DELETE of the RTU master, and a request through it.            *)
(***************************************************************************)
\* Mutant: the conflict check is missing.
MasterCheckMissing(h) ==
  /\ At(h, "idle", "master open")
  /\ UNCHANGED <<open, master, slave, hport, loops>>

MasterCheck(h) ==
  /\ At(h, "idle", IF sPort # None THEN "idle" ELSE "master open")
  /\ UNCHANGED <<open, master, slave, hport, loops>>

MasterSet(h) ==
  /\ At(h, "master set", "idle")
  /\ mMu = None
  /\ open' = IF mPort # None THEN [open EXCEPT ![mPort] = None] ELSE open
  /\ mPort' = hport[h]
  /\ hport' = [hport EXCEPT ![h] = None]
  /\ UNCHANGED <<mMu, slave, loops>>

MasterClose(h) ==
  /\ At(h, "idle", "idle")
  /\ mMu = None /\ mPort # None
  /\ open' = [open EXCEPT ![mPort] = None]
  /\ mPort' = None
  /\ UNCHANGED <<mMu, slave, hport, loops>>

Execute(h) ==
  /\ At(h, "idle", "executing")
  /\ mMu = None /\ mPort # None
  /\ mMu' = h
  /\ UNCHANGED <<open, mPort, slave, hport, loops>>

\* An answer, an exception or an answer that does not parse.
Answered(h) ==
  /\ At(h, "executing", "idle")
  /\ mMu' = None
  /\ UNCHANGED <<open, mPort, slave, hport, loops>>

\* A write, drain or read error: the master drops its port.
TransportError(h) ==
  /\ At(h, "executing", "idle")
  /\ mMu' = None
  /\ open' = [open EXCEPT ![mPort] = None]
  /\ mPort' = None
  /\ UNCHANGED <<slave, hport, loops>>

-----------------------------------------------------------------------------
(***************************************************************************)
(* POST and DELETE of the RTU slave.                                       *)
(***************************************************************************)
SlaveCheck(h) ==
  /\ mMu = None
  /\ At(h, "idle", IF mPort # None THEN "idle" ELSE "slave open")
  /\ UNCHANGED <<open, master, slave, hport, loops>>

\* Mutant: the loop is added to the wait group nowhere.
SlaveSetWithoutAdd(h) ==
  /\ sPort = None
  /\ At(h, "slave set", "go loop")
  /\ sPort' = hport[h]
  /\ hport' = [hport EXCEPT ![h] = None]
  /\ UNCHANGED <<open, master, stopped, wg, loops>>

SlaveSet(h) ==
  /\ sPort = None
  /\ At(h, "slave set", "go loop")
  /\ sPort' = hport[h]
  /\ wg' = wg + 1
  /\ hport' = [hport EXCEPT ![h] = None]
  /\ UNCHANGED <<open, master, stopped, loops>>

\* Mutant: Start returns its error without closing the port it opened.
AlreadyRunningLeaks(h) ==
  /\ sPort # None
  /\ At(h, "slave set", "idle")
  /\ hport' = [hport EXCEPT ![h] = None]
  /\ UNCHANGED <<open, master, slave, loops>>

AlreadyRunning(h) ==
  /\ sPort # None
  /\ At(h, "slave set", "already running")
  /\ UNCHANGED <<open, master, slave, hport, loops>>

CloseOwn(h) ==
  /\ At(h, "already running", "idle")
  /\ open' = [open EXCEPT ![hport[h]] = None]
  /\ hport' = [hport EXCEPT ![h] = None]
  /\ UNCHANGED <<master, slave, loops>>

GoLoop(h) ==
  /\ At(h, "go loop", "idle")
  /\ \E l \in Loop : lpc[l] = "none" /\ lpc' = [lpc EXCEPT ![l] = "top"]
  /\ UNCHANGED <<open, master, slave, hport, lport>>

\* Mutant: Close of a closed slave closes a nil channel.
SlaveStopUnguarded(h) ==
  /\ At(h, "idle", "slave close")
  /\ stopped' = stopped \cup {sPort}
  /\ hport' = [hport EXCEPT ![h] = sPort]
  /\ sPort' = None
  /\ UNCHANGED <<open, master, wg, loops>>

SlaveStop(h) ==
  /\ sPort # None
  /\ At(h, "idle", "slave close")
  /\ stopped' = stopped \cup {sPort}
  /\ hport' = [hport EXCEPT ![h] = sPort]
  /\ sPort' = None
  /\ UNCHANGED <<open, master, wg, loops>>

\* Mutant: Close does not wait for the loop.
SlaveCloseAtOnce(h) ==
  /\ At(h, "slave close", "idle")
  /\ open' = [open EXCEPT ![hport[h]] = None]
  /\ hport' = [hport EXCEPT ![h] = None]
  /\ UNCHANGED <<master, slave, loops>>

SlaveClose(h) ==
  /\ At(h, "slave close", IF wg = 0 THEN "idle" ELSE "waiting")
  /\ open' = [open EXCEPT ![hport[h]] = None]
  /\ hport' = [hport EXCEPT ![h] = None]
  /\ UNCHANGED <<master, slave, loops>>

(***************************************************************************)
(* A waiter that was woken finds the counter at 0 or panics; net/http      *)
(* recovers the panic of a handler.                                        *)
(***************************************************************************)
Woken(h) ==
  /\ At(h, "woken", IF wg = 0 THEN "idle" ELSE "panicked")
  /\ UNCHANGED <<open, master, slave, hport, loops>>

Recover(h) ==
  /\ At(h, "panicked", "idle")
  /\ UNCHANGED <<open, master, slave, hport, loops>>

-----------------------------------------------------------------------------
(***************************************************************************)
(* RTUSlave.loop.                                                          *)
(***************************************************************************)
LoopGoto(l, label) == lpc' = [lpc EXCEPT ![l] = label]

\* Mutant: the loop returns without wg.Done.
ExitWithoutDone(l) ==
  /\ LoopGoto(l, "none")
  /\ lport' = [lport EXCEPT ![l] = None]
  /\ UNCHANGED <<open, master, slave, hpc, hport>>

\* The deferred wg.Done.
Exit(l) ==
  /\ LoopGoto(l, "none")
  /\ lport' = [lport EXCEPT ![l] = None]
  /\ wg' = wg - 1
  /\ hpc' = IF wg = 1
            THEN [h \in Handler |-> IF hpc[h] = "waiting" THEN "woken" ELSE hpc[h]]
            ELSE hpc
  /\ UNCHANGED <<open, master, sPort, stopped, hport>>

Snapshot(l) ==
  /\ lpc[l] = "top" /\ sPort # None
  /\ lport' = [lport EXCEPT ![l] = sPort]
  /\ LoopGoto(l, "check")
  /\ UNCHANGED <<open, master, slave, hpc, hport>>

PortGone(l) == lpc[l] = "top" /\ sPort = None /\ Exit(l)

StopSeen(l) == lpc[l] = "check" /\ lport[l] \in stopped /\ Exit(l)

NotStopped(l) ==
  /\ lpc[l] = "check" /\ lport[l] \notin stopped
  /\ LoopGoto(l, "read")
  /\ UNCHANGED <<open, master, slave, hpc, hport, lport>>

\* A timeout, an error, a bad CRC or a broadcast.
ReadNothing(l) ==
  /\ lpc[l] = "read"
  /\ LoopGoto(l, "top")
  /\ UNCHANGED <<open, master, slave, hpc, hport, lport>>

ReadFrame(l) ==
  /\ lpc[l] = "read" /\ open[lport[l]] # None
  /\ LoopGoto(l, "reply")
  /\ UNCHANGED <<open, master, slave, hpc, hport, lport>>

Replied(l) ==
  /\ lpc[l] = "reply" /\ open[lport[l]] # None
  /\ LoopGoto(l, "top")
  /\ UNCHANGED <<open, master, slave, hpc, hport, lport>>

ReplyFails(l) == lpc[l] = "reply" /\ Exit(l)

-----------------------------------------------------------------------------
HandlerStep(h) ==
  \/ SerialOpens(h, "master open", "master set") \/ SerialFails(h, "master open")
  \/ MasterSet(h) \/ Answered(h) \/ TransportError(h)
  \/ SerialOpens(h, "slave open", "slave set") \/ SerialFails(h, "slave open")
  \/ SlaveSet(h) \/ AlreadyRunning(h) \/ CloseOwn(h) \/ GoLoop(h)
  \/ SlaveClose(h) \/ Woken(h) \/ Recover(h)

SessionCall(h) == MasterCheck(h) \/ MasterClose(h) \/ SlaveCheck(h) \/ SlaveStop(h)

LoopStep(l) ==
  \/ Snapshot(l) \/ PortGone(l) \/ StopSeen(l) \/ NotStopped(l)
  \/ ReadNothing(l) \/ ReadFrame(l) \/ Replied(l) \/ ReplyFails(l)

Next ==
  \/ \E h \in Handler : HandlerStep(h) \/ Execute(h)
  \/ \E h \in Operator : SessionCall(h)
  \/ \E l \in Loop : LoopStep(l)

(***************************************************************************)
(* Goroutines run.  A serial call returns: reads and writes have timeouts, *)
(* and a read of a port that is closed fails.  A mutex of Go is handed to  *)
(* a waiter that has starved for a millisecond, so Open gets its lock from *)
(* a poll that keeps taking it.                                            *)
(***************************************************************************)
Fairness ==
  /\ \A h \in Handler : WF_vars(HandlerStep(h)) /\ SF_vars(MasterSet(h))
  /\ \A l \in Loop : WF_vars(LoopStep(l))

Spec == Init /\ [][Next]_vars /\ Fairness

-----------------------------------------------------------------------------
(***************************************************************************)
(* Every variable has its type.                                            *)
(***************************************************************************)
HandlerLabel == {"idle", "master open", "master set", "executing", "slave open",
                 "slave set", "already running", "go loop", "slave close", "waiting",
                 "woken", "panicked"}
LoopLabel == {"none", "top", "check", "read", "reply"}

TypeOK ==
  /\ open \in [Handle -> Port \cup {None}]
  /\ mPort \in Handle \cup {None} /\ mMu \in Handler \cup {None}
  /\ sPort \in Handle \cup {None} /\ stopped \subseteq Handle /\ wg \in Int
  /\ hpc \in [Handler -> HandlerLabel] /\ hport \in [Handler -> Handle \cup {None}]
  /\ lpc \in [Loop -> LoopLabel] /\ lport \in [Loop -> Handle \cup {None}]

(***************************************************************************)
(* The open handles are exactly those that the master, the slave or one    *)
(* handler on its way to store or close them holds, each held once: none   *)
(* leaks, none is closed twice, none is used by a session after it was     *)
(* closed (rtu.go:125-138, 179-194, 367-378, 393-396).                     *)
(***************************************************************************)
HandlesAccounted ==
  /\ {x \in Handle : open[x] # None} =
       ({mPort, sPort} \cup {hport[h] : h \in Handler}) \ {None}
  /\ mPort # None => mPort # sPort
  /\ \A g, h \in Handler :
       hport[h] # None => hport[h] \notin {mPort, sPort} /\ (g # h => hport[g] # hport[h])

(***************************************************************************)
(* The wait group counts the loops that run and those about to be started, *)
(* and nobody waits for a counter that is 0 (rtu.go:381-383, 397, 406).    *)
(***************************************************************************)
WaitGroupExact ==
  /\ wg = Cardinality(Live) + Cardinality({h \in Handler : hpc[h] = "go loop"})
  /\ \A h \in Handler : hpc[h] = "waiting" => wg > 0

(***************************************************************************)
(* When the slave is closed and no Close is under way, its goroutines are  *)
(* gone, also if it was started again while an earlier Close still waited  *)
(* (rtu.go:392-397, 408-418).                                              *)
(***************************************************************************)
QuietWhenClosed ==
  sPort = None /\ (\A h \in Handler : hpc[h] \notin {"slave close", "waiting", "woken"})
    => wg = 0

(***************************************************************************)
(* One operator, whose session calls do not overlap, gets one goroutine at *)
(* a time, each serves the session it was started for, and no handler      *)
(* panics (page.tsx disables its buttons while a call is under way).       *)
(***************************************************************************)
OneServer ==
  /\ Cardinality(Live) <= 1
  /\ \A l \in Live : lport[l] # None =>
       lport[l] = sPort \/ lport[l] \in stopped
  /\ \A h \in Handler : hpc[h] # "panicked"

(***************************************************************************)
(* "close RTU slave before opening RTU master" (api/server.go:144) and     *)
(* back (183): not both sessions at once, whatever their ports.            *)
(***************************************************************************)
MasterSlaveExclusive == mPort = None \/ sPort = None

(***************************************************************************)
(* "safe close/reopen after USB transport errors" (README.md:13): a slave  *)
(* that says it is open is served, or it has dropped its port so that it   *)
(* can be opened again.                                                    *)
(***************************************************************************)
ServedWhenOpen == sPort # None => wg > 0

(***************************************************************************)
(* Every handler comes to its end; Close of the slave in particular is not *)
(* left waiting for a goroutine that goes on (rtu.go:397).                 *)
(***************************************************************************)
HandlersReturn == \A h \in Handler : hpc[h] # "idle" ~> hpc[h] = "idle"
=============================================================================
