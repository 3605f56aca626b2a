---------------------------- MODULE SessionProofs ----------------------------
(***************************************************************************)
(* Theorems about the RTU sessions: what holds however many operators,     *)
(* polls, goroutines, ports and handles there are, and what holds besides  *)
(* when one operator makes the session calls.                              *)
(***************************************************************************)
EXTENDS RTUSession, FiniteSetTheorems, TLAPS

\* Where a handler has a port of its own: opened and not yet stored, or
\* taken from the slave to be closed.
Holding == {"master set", "slave set", "already running", "slave close"}
Starting == {h \in Handler : hpc[h] = "go loop"}

(***************************************************************************)
(* Every open handle has one owner, and who has none is not open.          *)
(***************************************************************************)
Owned(x) == x \in {mPort, sPort} \/ \E h \in Handler : hport[h] = x

PortsInv ==
  /\ \A h \in Handler : hport[h] # None <=> hpc[h] \in Holding
  /\ \A x \in Handle : open[x] # None <=> Owned(x)
  /\ mPort # None => mPort # sPort
  /\ \A g, h \in Handler :
       hport[h] # None => hport[h] \notin {mPort, sPort} /\ (g # h => hport[g] # hport[h])

\* Who holds RTUMaster.mu with a request on the wire has a port to send it by.
MutexInv ==
  /\ \A h \in Handler : mMu = h <=> hpc[h] = "executing"
  /\ mMu # None => mPort # None

(***************************************************************************)
(* A goroutine that runs or is about to has a slave to serve, or a Close   *)
(* that is going to wait for it; the port it reads is the slave's or one   *)
(* whose session is stopped.                                               *)
(***************************************************************************)
LoopsInv ==
  /\ IsFiniteSet(Live) /\ IsFiniteSet(Starting)
  /\ wg = Cardinality(Live) + Cardinality(Starting)
  /\ \A h \in Handler : hpc[h] = "waiting" => wg > 0
  /\ wg > 0 => sPort # None \/ \E h \in Handler : hpc[h] \in {"slave close", "waiting"}
  /\ \A l \in Loop : lport[l] # None => lport[l] = sPort \/ lport[l] \in stopped

SessionInv == TypeOK /\ PortsInv /\ MutexInv /\ LoopsInv

-----------------------------------------------------------------------------
\* A handler that moves, and the others.
LEMMA Moved ==
  ASSUME TypeOK, NEW h \in Handler, NEW label, NEW next, At(h, label, next)
  PROVE  hpc[h] = label /\ hpc'[h] = next /\ \A g \in Handler \ {h} : hpc'[g] = hpc[g]
BY DEF TypeOK, At

\* At the start nothing is open and nobody is inside a call.
LEMMA SessionInit == Init => SessionInv
<1> SUFFICES ASSUME Init PROVE SessionInv
  OBVIOUS
<1>1. TypeOK
  BY DEF Init, TypeOK, HandlerLabel, LoopLabel
<1>2. PortsInv
  BY SessionAssumption DEF Init, PortsInv, Owned, Holding
<1>3. MutexInv
  BY SessionAssumption DEF Init, MutexInv
<1>4. LoopsInv
  <2>1. Live = {} /\ Starting = {}
    BY DEF Init, Live, Starting
  <2>2. IsFiniteSet({}) /\ Cardinality({}) = 0
    BY FS_EmptySet
  <2> QED  BY <2>1, <2>2 DEF Init, LoopsInv
<1> QED  BY <1>1, <1>2, <1>3, <1>4 DEF SessionInv

-----------------------------------------------------------------------------
(***************************************************************************)
(* What keeps each part of SessionInv.                                     *)
(***************************************************************************)

\* A handler that moves is somewhere.
LEMMA HandlerType ==
  ASSUME TypeOK, NEW h \in Handler, NEW label, NEW next \in HandlerLabel, At(h, label, next)
  PROVE  hpc' \in [Handler -> HandlerLabel]
BY DEF TypeOK, At

\* Ports that are left alone, by handlers that keep theirs.
LEMMA PortsStay ==
  ASSUME PortsInv, UNCHANGED <<open, mPort, sPort, hport>>,
         \A h \in Handler : hpc'[h] \in Holding <=> hpc[h] \in Holding
  PROVE  PortsInv'
BY DEF PortsInv, Owned

\* A mutex that is left alone, by handlers that do not have it.
LEMMA MutexStays ==
  ASSUME MutexInv, UNCHANGED <<mMu, mPort>>,
         \A h \in Handler : hpc'[h] = "executing" <=> hpc[h] = "executing"
  PROVE  MutexInv'
BY DEF MutexInv

\* Goroutines that are left alone, by handlers that do not start, stop or
\* await one.
LEMMA LoopsStay ==
  ASSUME LoopsInv, UNCHANGED <<sPort, wg, loops>>,
         \A l \in Loop : lport[l] \in stopped => lport[l] \in stopped',
         \A h \in Handler : /\ hpc'[h] = "go loop" <=> hpc[h] = "go loop"
                            /\ hpc'[h] = "waiting" <=> hpc[h] = "waiting"
                            /\ hpc'[h] = "slave close" <=> hpc[h] = "slave close"
  PROVE  LoopsInv'
<1>1. Live' = Live /\ Starting' = Starting
  BY DEF Live, Starting, loops
<1> QED  BY <1>1 DEF LoopsInv, loops

-----------------------------------------------------------------------------
(***************************************************************************)
(* The steps of the handlers.                                              *)
(***************************************************************************)

\* serial.Open returns a port.
LEMMA OpensKeeps ==
  ASSUME SessionInv, NEW h \in Handler, NEW label, NEW next, SerialOpens(h, label, next),
         \/ label = "master open" /\ next = "master set"
         \/ label = "slave open" /\ next = "slave set"
  PROVE  SessionInv'
<1> USE DEF SessionInv
<1>1. PICK x \in Handle, p \in Port :
        /\ Unreferenced(x)
        /\ open' = [open EXCEPT ![x] = p]
        /\ hport' = [hport EXCEPT ![h] = x]
        /\ stopped' = stopped \ {x}
  BY DEF SerialOpens
<1>2. /\ UNCHANGED <<mPort, mMu, sPort, wg, lpc, lport>>
      /\ At(h, label, next)
      /\ p # None /\ x # None
  BY SessionAssumption DEF SerialOpens, master, loops
<1>3. hpc[h] = label /\ hpc'[h] = next /\ \A g \in Handler \ {h} : hpc'[g] = hpc[g]
  BY <1>2, Moved
<1>4. TypeOK'
  <2>1. hpc' \in [Handler -> HandlerLabel]
    BY <1>2, HandlerType DEF HandlerLabel
  <2> QED  BY <1>1, <1>2, <2>1 DEF TypeOK
<1>5. /\ x \notin {mPort, sPort} /\ \A g \in Handler : hport[g] # x
      /\ open[x] = None
      /\ \A l \in Loop : lport[l] # x
  BY <1>1 DEF Unreferenced
<1>6. /\ open'[x] = p /\ \A y \in Handle \ {x} : open'[y] = open[y]
      /\ hport'[h] = x /\ \A g \in Handler \ {h} : hport'[g] = hport[g]
  BY <1>1 DEF TypeOK
<1>7. hport[h] = None /\ \A y \in Handle \ {x} : Owned(y)' <=> Owned(y)
  <2>1. hport[h] = None
    BY <1>3 DEF PortsInv, Holding
  <2>2. ASSUME NEW y \in Handle \ {x}
        PROVE  Owned(y)' <=> Owned(y)
    <3>1. y # None
      BY SessionAssumption
    <3> QED  BY <1>2, <1>6, <2>1, <3>1 DEF Owned
  <2> QED  BY <2>1, <2>2
<1>8. PortsInv'
  <2>1. \A g \in Handler : hport'[g] # None <=> hpc'[g] \in Holding
    <3>1. hport'[h] # None /\ hpc'[h] \in Holding
      BY <1>2, <1>3, <1>6 DEF Holding
    <3>2. \A g \in Handler \ {h} : hport'[g] # None <=> hpc'[g] \in Holding
      BY <1>3, <1>6 DEF PortsInv
    <3> QED  BY <3>1, <3>2
  <2>2. \A y \in Handle : open'[y] # None <=> Owned(y)'
    <3>1. Owned(x)'
      BY <1>6 DEF Owned
    <3> QED  BY <1>2, <1>6, <1>7, <3>1 DEF PortsInv
  <2>3. ASSUME NEW f \in Handler, hport'[f] # None
        PROVE  hport'[f] \notin {mPort, sPort} /\ \A g \in Handler : f # g => hport'[f] # hport'[g]
    <3>1. CASE f = h
      BY <1>5, <1>6, <3>1
    <3>2. CASE f # h
      <4>1. hport'[f] = hport[f] /\ hport[f] # x
        BY <1>5, <1>6, <3>2
      <4> QED  BY <1>6, <2>3, <4>1 DEF PortsInv
    <3> QED  BY <3>1, <3>2
  <2> QED  BY <1>2, <2>1, <2>2, <2>3 DEF PortsInv
<1>9. MutexInv'
  BY <1>2, <1>3, MutexStays
<1>10. LoopsInv'
  BY <1>1, <1>2, <1>3, <1>5, LoopsStay DEF loops
<1> QED  BY <1>4, <1>8, <1>9, <1>10

\* A step that only moves its handler.
LEMMA WalkKeeps ==
  ASSUME SessionInv, NEW h \in Handler, NEW label, NEW next \in HandlerLabel, At(h, label, next),
         UNCHANGED <<open, master, slave, hport, loops>>,
         label \in Holding <=> next \in Holding,
         {label, next} \cap {"executing", "go loop", "waiting", "slave close"} = {}
  PROVE  SessionInv'
<1> USE DEF SessionInv
<1>1. hpc[h] = label /\ hpc'[h] = next /\ \A g \in Handler \ {h} : hpc'[g] = hpc[g]
  BY Moved
<1>2. TypeOK'
  BY HandlerType DEF TypeOK, master, slave, loops
<1>3. PortsInv'
  BY <1>1, PortsStay DEF master, slave
<1>4. MutexInv'
  BY <1>1, MutexStays DEF master
<1>5. LoopsInv'
  BY <1>1, LoopsStay DEF slave
<1> QED  BY <1>2, <1>3, <1>4, <1>5

\* The steps that only move their handler.
LEMMA WalksKeep ==
  ASSUME SessionInv, NEW h \in Handler,
         \/ SerialFails(h, "master open") \/ SerialFails(h, "slave open")
         \/ MasterCheck(h) \/ SlaveCheck(h) \/ AlreadyRunning(h) \/ Woken(h) \/ Recover(h)
  PROVE  SessionInv'
<1> USE DEF HandlerLabel, Holding
<1>1. CASE SerialFails(h, "master open") \/ SerialFails(h, "slave open")
  BY <1>1, WalkKeeps DEF SerialFails
<1>2. CASE MasterCheck(h)
  BY <1>2, WalkKeeps DEF MasterCheck
<1>3. CASE SlaveCheck(h)
  BY <1>3, WalkKeeps DEF SlaveCheck
<1>4. CASE AlreadyRunning(h)
  BY <1>4, WalkKeeps DEF AlreadyRunning
<1>5. CASE Woken(h)
  BY <1>5, WalkKeeps DEF Woken
<1>6. CASE Recover(h)
  BY <1>6, WalkKeeps DEF Recover
<1> QED  BY <1>1, <1>2, <1>3, <1>4, <1>5, <1>6

\* What PortsInv says of one handler that has a port.
LEMMA HolderFacts ==
  ASSUME TypeOK, PortsInv, NEW h \in Handler, hpc[h] \in Holding
  PROVE  /\ hport[h] \in Handle /\ hport[h] \notin {None, mPort, sPort}
         /\ \A g \in Handler \ {h} : hport[g] # hport[h]
<1>1. hport[h] # None
  BY DEF PortsInv
<1> QED  BY <1>1 DEF TypeOK, PortsInv

\* Open stores its port and closes the one it replaces.
LEMMA MasterSetKeeps ==
  ASSUME SessionInv, NEW h \in Handler, MasterSet(h)
  PROVE  SessionInv'
<1> USE DEF SessionInv
<1> DEFINE x == hport[h]
<1>1. /\ hpc[h] = "master set" /\ hpc'[h] = "idle" /\ \A g \in Handler \ {h} : hpc'[g] = hpc[g]
      /\ mMu = None
  BY Moved DEF MasterSet
<1>2. /\ x \in Handle /\ x \notin {None, mPort, sPort} /\ \A g \in Handler \ {h} : hport[g] # x
  BY <1>1, HolderFacts DEF Holding
<1>3. /\ mPort' = x /\ hport' = [hport EXCEPT ![h] = None]
      /\ UNCHANGED <<mMu, sPort, stopped, wg, lpc, lport>>
  BY DEF MasterSet, slave, loops
<1>4. hport'[h] = None /\ \A g \in Handler \ {h} : hport'[g] = hport[g]
  BY <1>3 DEF TypeOK
<1>5. /\ open' \in [Handle -> Port \cup {None}]
      /\ \A y \in Handle : open'[y] = IF y = mPort THEN None ELSE open[y]
  BY SessionAssumption DEF MasterSet, TypeOK
<1>6. TypeOK'
  <2>1. hpc' \in [Handler -> HandlerLabel]
    BY HandlerType DEF HandlerLabel, MasterSet
  <2> QED  BY <1>2, <1>3, <1>5, <2>1 DEF TypeOK
<1> HIDE DEF x
<1>7. PortsInv'
  <2>1. \A g \in Handler : hport'[g] # None <=> hpc'[g] \in Holding
    <3>1. hport'[h] = None /\ hpc'[h] \notin Holding
      BY <1>1, <1>4 DEF Holding
    <3>2. \A g \in Handler \ {h} : hport'[g] # None <=> hpc'[g] \in Holding
      BY <1>1, <1>4 DEF PortsInv
    <3> QED  BY <3>1, <3>2
  <2>2. ASSUME NEW y \in Handle
        PROVE  open'[y] # None <=> Owned(y)'
    <3>1. y # None
      BY SessionAssumption
    <3>2. Owned(y)' <=> Owned(y) /\ y # mPort
      BY <1>2, <1>3, <1>4, <3>1 DEF Owned, PortsInv, x
    <3> QED  BY <1>5, <3>2 DEF PortsInv
  <2>3. \A f, g \in Handler : hport'[f] # None =>
          hport'[f] \notin {mPort', sPort'} /\ (f # g => hport'[f] # hport'[g])
    BY <1>2, <1>3, <1>4 DEF PortsInv
  <2> QED  BY <1>2, <1>3, <2>1, <2>2, <2>3 DEF PortsInv
<1>8. MutexInv'
  BY <1>1, <1>2, <1>3 DEF MutexInv
<1>9. LoopsInv'
  BY <1>1, <1>3, LoopsStay DEF loops
<1> QED  BY <1>6, <1>7, <1>8, <1>9

\* Close of the master and a transport error close its port.
LEMMA MasterClosesKeeps ==
  ASSUME SessionInv, NEW h \in Handler, MasterClose(h) \/ TransportError(h)
  PROVE  SessionInv'
<1> USE DEF SessionInv
<1>1. /\ hpc[h] \in {"idle", "executing"} /\ hpc'[h] = "idle"
      /\ \A g \in Handler \ {h} : hpc'[g] = hpc[g]
  BY Moved DEF MasterClose, TransportError
<1>2. /\ mPort \in Handle /\ mPort # None
      /\ mMu = None \/ mMu = h
      /\ mMu' = None /\ \A g \in Handler \ {h} : hpc'[g] # "executing"
  <2>1. CASE MasterClose(h)
    BY <1>1, <2>1, SessionAssumption DEF MasterClose, MutexInv, TypeOK
  <2>2. CASE TransportError(h)
    <3>1. hpc[h] = "executing"
      BY <2>2, Moved DEF TransportError
    <3>2. mMu = h
      BY <3>1 DEF MutexInv
    <3> QED  BY <1>1, <2>2, <3>2, SessionAssumption DEF TransportError, MutexInv, TypeOK
  <2> QED  BY <2>1, <2>2
<1>3. /\ mPort' = None /\ open' = [open EXCEPT ![mPort] = None]
      /\ UNCHANGED <<sPort, stopped, wg, hport, lpc, lport>>
  BY DEF MasterClose, TransportError, slave, loops
<1>4. \A y \in Handle : open'[y] = IF y = mPort THEN None ELSE open[y]
  BY <1>3 DEF TypeOK
<1>5. TypeOK'
  <2>1. hpc' \in [Handler -> HandlerLabel]
    BY HandlerType DEF HandlerLabel, MasterClose, TransportError
  <2> QED  BY <1>2, <1>3, <2>1 DEF TypeOK
<1>6. PortsInv'
  <2>1. \A g \in Handler : hport'[g] # None <=> hpc'[g] \in Holding
    BY <1>1, <1>3 DEF PortsInv, Holding
  <2>2. ASSUME NEW y \in Handle
        PROVE  open'[y] # None <=> Owned(y)'
    <3>1. y # None
      BY SessionAssumption
    <3>2. Owned(y)' <=> Owned(y) /\ y # mPort
      BY <1>2, <1>3, <3>1 DEF Owned, PortsInv
    <3> QED  BY <1>4, <3>2 DEF PortsInv
  <2> QED  BY <1>3, <2>1, <2>2 DEF PortsInv
<1>7. MutexInv'
  BY <1>1, <1>2, SessionAssumption DEF MutexInv
<1>8. LoopsInv'
  BY <1>1, <1>3, LoopsStay DEF loops
<1> QED  BY <1>5, <1>6, <1>7, <1>8

\* A request takes the master's mutex, and its answer gives it back.
LEMMA ExecuteKeeps ==
  ASSUME SessionInv, NEW h \in Handler, Execute(h) \/ Answered(h)
  PROVE  SessionInv'
<1> USE DEF SessionInv
<1>1. /\ hpc[h] \in {"idle", "executing"} /\ hpc'[h] \in {"idle", "executing"}
      /\ \A g \in Handler \ {h} : hpc'[g] = hpc[g]
  BY Moved DEF Execute, Answered
<1>2. UNCHANGED <<open, mPort, sPort, stopped, wg, hport, lpc, lport>>
  BY DEF Execute, Answered, slave, loops
<1>3. TypeOK'
  <2>1. hpc' \in [Handler -> HandlerLabel]
    BY HandlerType DEF HandlerLabel, Execute, Answered
  <2> QED  BY <1>2, <2>1 DEF TypeOK, Execute, Answered
<1>4. PortsInv'
  BY <1>1, <1>2, PortsStay DEF Holding
<1>5. MutexInv'
  <2>1. CASE Execute(h)
    <3>1. hpc'[h] = "executing" /\ mMu = None /\ mMu' = h /\ mPort # None
      BY <2>1, Moved DEF Execute
    <3> QED  BY <1>1, <1>2, <3>1, SessionAssumption DEF MutexInv
  <2>2. CASE Answered(h)
    <3>1. hpc[h] = "executing" /\ hpc'[h] = "idle" /\ mMu' = None
      BY <2>2, Moved DEF Answered
    <3> QED  BY <1>1, <1>2, <3>1, SessionAssumption DEF MutexInv
  <2> QED  BY <2>1, <2>2
<1>6. LoopsInv'
  BY <1>1, <1>2, LoopsStay DEF loops
<1> QED  BY <1>3, <1>4, <1>5, <1>6

\* Counting one element more or less.
LEMMA SizeWith ==
  ASSUME NEW S, IsFiniteSet(S), NEW e, e \notin S
  PROVE  IsFiniteSet(S \cup {e}) /\ Cardinality(S \cup {e}) = Cardinality(S) + 1
BY FS_AddElement

\* The same, for an element that is taken away.
LEMMA SizeWithout ==
  ASSUME NEW S, IsFiniteSet(S), NEW e \in S
  PROVE  IsFiniteSet(S \ {e}) /\ Cardinality(S) = Cardinality(S \ {e}) + 1
<1>1. IsFiniteSet(S \ {e}) /\ Cardinality(S \ {e}) = Cardinality(S) - 1
  BY FS_RemoveElement
<1>2. Cardinality(S) \in Nat
  BY FS_CardinalityType
<1> QED  BY <1>1, <1>2

\* What the counter counts.
LEMMA Counter ==
  ASSUME LoopsInv
  PROVE  /\ Cardinality(Live) \in Nat /\ Cardinality(Starting) \in Nat
         /\ wg = Cardinality(Live) + Cardinality(Starting)
         /\ wg \in Nat
<1>1. IsFiniteSet(Live) /\ IsFiniteSet(Starting) /\ wg = Cardinality(Live) + Cardinality(Starting)
  BY DEF LoopsInv
<1>2. Cardinality(Live) \in Nat
  BY <1>1, FS_CardinalityType
<1>3. Cardinality(Starting) \in Nat
  BY <1>1, FS_CardinalityType
<1>4. Cardinality(Live) + Cardinality(Starting) \in Nat
  BY <1>2, <1>3
<1> QED  BY <1>1, <1>2, <1>3, <1>4

\* Start stores its port and counts the goroutine it is about to start.
LEMMA SlaveSetKeeps ==
  ASSUME SessionInv, NEW h \in Handler, SlaveSet(h)
  PROVE  SessionInv'
<1> USE DEF SessionInv
<1> DEFINE x == hport[h]
<1>1. /\ hpc[h] = "slave set" /\ hpc'[h] = "go loop" /\ \A g \in Handler \ {h} : hpc'[g] = hpc[g]
      /\ sPort = None
  BY Moved DEF SlaveSet
<1>2. /\ x \in Handle /\ x \notin {None, mPort, sPort} /\ \A g \in Handler \ {h} : hport[g] # x
  BY <1>1, HolderFacts DEF Holding
<1>3. /\ sPort' = x /\ wg' = wg + 1 /\ hport' = [hport EXCEPT ![h] = None]
      /\ UNCHANGED <<open, mPort, mMu, stopped, lpc, lport>>
  BY DEF SlaveSet, master, loops
<1>4. hport'[h] = None /\ \A g \in Handler \ {h} : hport'[g] = hport[g]
  BY <1>3 DEF TypeOK
<1>5. TypeOK'
  <2>1. hpc' \in [Handler -> HandlerLabel]
    BY HandlerType DEF HandlerLabel, SlaveSet
  <2>2. sPort' \in Handle \cup {None} /\ wg' \in Int /\ hport' \in [Handler -> Handle \cup {None}]
    BY <1>2, <1>3 DEF TypeOK
  <2> QED  BY <1>3, <2>1, <2>2 DEF TypeOK
<1> HIDE DEF x
<1>6. PortsInv'
  <2>1. \A g \in Handler : hport'[g] # None <=> hpc'[g] \in Holding
    <3>1. hport'[h] = None /\ hpc'[h] \notin Holding
      BY <1>1, <1>4 DEF Holding
    <3>2. \A g \in Handler \ {h} : hport'[g] # None <=> hpc'[g] \in Holding
      BY <1>1, <1>4 DEF PortsInv
    <3> QED  BY <3>1, <3>2
  <2>2. ASSUME NEW y \in Handle
        PROVE  open'[y] # None <=> Owned(y)'
    <3>1. y # None
      BY SessionAssumption
    <3>2. Owned(y)' <=> Owned(y)
      BY <1>1, <1>2, <1>3, <1>4, <3>1 DEF Owned, x
    <3> QED  BY <1>3, <3>2 DEF PortsInv
  <2>3. \A f, g \in Handler : hport'[f] # None =>
          hport'[f] \notin {mPort', sPort'} /\ (f # g => hport'[f] # hport'[g])
    BY <1>2, <1>3, <1>4 DEF PortsInv
  <2> QED  BY <1>2, <1>3, <2>1, <2>2, <2>3 DEF PortsInv
<1>7. MutexInv'
  BY <1>1, <1>3, MutexStays
<1>8. LoopsInv'
  <2>1. Live' = Live /\ Starting' = Starting \cup {h} /\ h \notin Starting
    BY <1>1, <1>3 DEF Live, Starting
  <2>2. IsFiniteSet(Live') /\ IsFiniteSet(Starting')
    BY <2>1, SizeWith DEF LoopsInv
  <2>3. wg' = Cardinality(Live') + Cardinality(Starting')
    <3>1. Cardinality(Starting') = Cardinality(Starting) + 1
      BY <2>1, SizeWith DEF LoopsInv
    <3>2. /\ Cardinality(Live) \in Nat /\ Cardinality(Starting) \in Nat
          /\ wg = Cardinality(Live) + Cardinality(Starting)
      BY Counter
    <3>3. wg' = wg + 1 /\ Live' = Live
      BY <1>3, <2>1
    <3> QED  BY <3>1, <3>2, <3>3
  <2>4. \A g \in Handler : hpc'[g] = "waiting" => wg' > 0
    <3>1. wg \in Nat /\ wg' = wg + 1
      BY <1>3, Counter
    <3>2. wg' > 0
      BY <3>1
    <3> QED  BY <3>2
  <2>5. sPort' # None
    BY <1>2, <1>3
  <2>6. \A l \in Loop : lport'[l] # None => lport'[l] = sPort' \/ lport'[l] \in stopped'
    BY <1>1, <1>3 DEF LoopsInv
  <2> QED  BY <2>2, <2>3, <2>4, <2>5, <2>6 DEF LoopsInv
<1> QED  BY <1>5, <1>6, <1>7, <1>8

\* A port that was opened in vain, or taken from the slave, is closed: by
\* Start, or by Close before it waits for the goroutine.
LEMMA OwnClosed ==
  ASSUME TypeOK, PortsInv, NEW h \in Handler, hpc[h] \in Holding, hpc'[h] \notin Holding,
         \A g \in Handler \ {h} : hpc'[g] = hpc[g],
         open' = [open EXCEPT ![hport[h]] = None], hport' = [hport EXCEPT ![h] = None],
         UNCHANGED <<mPort, sPort>>
  PROVE  PortsInv'
<1> DEFINE x == hport[h]
<1>1. /\ x \in Handle /\ x \notin {None, mPort, sPort} /\ \A g \in Handler \ {h} : hport[g] # x
  BY HolderFacts
<1>2. hport'[h] = None /\ \A g \in Handler \ {h} : hport'[g] = hport[g]
  BY DEF TypeOK
<1>3. \A y \in Handle : open'[y] = IF y = x THEN None ELSE open[y]
  BY DEF TypeOK
<1> HIDE DEF x
<1>4. \A g \in Handler : hport'[g] # None <=> hpc'[g] \in Holding
  <2>1. \A g \in Handler \ {h} : hport'[g] # None <=> hpc'[g] \in Holding
    BY <1>2 DEF PortsInv
  <2> QED  BY <1>2, <2>1
<1>5. ASSUME NEW y \in Handle
      PROVE  open'[y] # None <=> Owned(y)'
  <2>1. y # None
    BY SessionAssumption
  <2>2. Owned(y)' <=> Owned(y) /\ y # x
    BY <1>1, <1>2, <2>1 DEF Owned, x
  <2> QED  BY <1>3, <2>2 DEF PortsInv
<1>6. \A f, g \in Handler : hport'[f] # None =>
        hport'[f] \notin {mPort', sPort'} /\ (f # g => hport'[f] # hport'[g])
  BY <1>2 DEF PortsInv
<1> QED  BY <1>4, <1>5, <1>6 DEF PortsInv

\* Start, when the slave is running already, closes the port it opened.
LEMMA CloseOwnKeeps ==
  ASSUME SessionInv, NEW h \in Handler, CloseOwn(h)
  PROVE  SessionInv'
<1> USE DEF SessionInv
<1>1. /\ hpc[h] = "already running" /\ hpc'[h] = "idle"
      /\ \A g \in Handler \ {h} : hpc'[g] = hpc[g]
  BY Moved DEF CloseOwn
<1>2. /\ open' = [open EXCEPT ![hport[h]] = None] /\ hport' = [hport EXCEPT ![h] = None]
      /\ UNCHANGED <<mPort, mMu, sPort, stopped, wg, lpc, lport>>
  BY DEF CloseOwn, master, slave, loops
<1>3. TypeOK'
  <2>1. hpc' \in [Handler -> HandlerLabel]
    BY HandlerType DEF HandlerLabel, CloseOwn
  <2> QED  BY <1>2, <2>1 DEF TypeOK
<1>4. PortsInv'
  BY <1>1, <1>2, OwnClosed DEF Holding
<1>5. MutexInv'
  BY <1>1, <1>2, MutexStays
<1>6. LoopsInv'
  BY <1>1, <1>2, LoopsStay DEF loops
<1> QED  BY <1>3, <1>4, <1>5, <1>6

\* Close closes its port, and waits if a goroutine is left.
LEMMA SlaveCloseKeeps ==
  ASSUME SessionInv, NEW h \in Handler, SlaveClose(h)
  PROVE  SessionInv'
<1> USE DEF SessionInv
<1>1. /\ hpc[h] = "slave close" /\ hpc'[h] = IF wg = 0 THEN "idle" ELSE "waiting"
      /\ \A g \in Handler \ {h} : hpc'[g] = hpc[g]
  BY Moved DEF SlaveClose
<1>2. /\ open' = [open EXCEPT ![hport[h]] = None] /\ hport' = [hport EXCEPT ![h] = None]
      /\ UNCHANGED <<mPort, mMu, sPort, stopped, wg, lpc, lport>>
  BY DEF SlaveClose, master, slave, loops
<1>3. TypeOK'
  <2>1. hpc' \in [Handler -> HandlerLabel]
    BY HandlerType DEF HandlerLabel, SlaveClose
  <2> QED  BY <1>2, <2>1 DEF TypeOK
<1>4. PortsInv'
  BY <1>1, <1>2, OwnClosed DEF Holding
<1>5. MutexInv'
  BY <1>1, <1>2, MutexStays
<1>6. LoopsInv'
  <2>1. Live' = Live /\ Starting' = Starting
    BY <1>1, <1>2 DEF Live, Starting
  <2>2. wg \in Nat
    BY Counter
  <2>3. \A g \in Handler : hpc'[g] = "waiting" => wg > 0
    <3>1. wg = 0 \/ wg > 0
      BY <2>2
    <3> QED  BY <1>1, <3>1 DEF LoopsInv
  <2>4. wg > 0 => sPort # None \/ \E g \in Handler : hpc'[g] \in {"slave close", "waiting"}
    <3>1. wg > 0 => wg # 0
      BY <2>2
    <3> QED  BY <1>1, <3>1
  <2>5. \A l \in Loop : lport[l] # None => lport[l] = sPort \/ lport[l] \in stopped
    BY DEF LoopsInv
  <2> QED  BY <1>2, <2>1, <2>3, <2>4, <2>5 DEF LoopsInv
<1> QED  BY <1>3, <1>4, <1>5, <1>6

\* Start starts its goroutine.
LEMMA GoLoopKeeps ==
  ASSUME SessionInv, NEW h \in Handler, GoLoop(h)
  PROVE  SessionInv'
<1> USE DEF SessionInv
<1>1. /\ hpc[h] = "go loop" /\ hpc'[h] = "idle" /\ \A g \in Handler \ {h} : hpc'[g] = hpc[g]
  BY Moved DEF GoLoop
<1>2. PICK l \in Loop : lpc[l] = "none" /\ lpc' = [lpc EXCEPT ![l] = "top"]
  BY DEF GoLoop
<1>3. UNCHANGED <<open, mPort, mMu, sPort, stopped, wg, hport, lport>>
  BY DEF GoLoop, master, slave
<1>4. TypeOK'
  <2>1. hpc' \in [Handler -> HandlerLabel]
    BY HandlerType DEF HandlerLabel, GoLoop
  <2>2. lpc' \in [Loop -> LoopLabel]
    BY <1>2 DEF TypeOK, LoopLabel
  <2> QED  BY <1>3, <2>1, <2>2 DEF TypeOK
<1>5. PortsInv'
  BY <1>1, <1>3, PortsStay DEF Holding
<1>6. MutexInv'
  BY <1>1, <1>3, MutexStays
<1>7. LoopsInv'
  <2>1. Live' = Live \cup {l} /\ l \notin Live
    BY <1>2 DEF Live, TypeOK
  <2>2. Starting' = Starting \ {h} /\ h \in Starting
    BY <1>1 DEF Starting
  <2>3. IsFiniteSet(Live) /\ IsFiniteSet(Starting)
    BY DEF LoopsInv
  <2>4. IsFiniteSet(Live') /\ Cardinality(Live') = Cardinality(Live) + 1
    BY <2>1, <2>3, SizeWith
  <2>5. IsFiniteSet(Starting') /\ Cardinality(Starting) = Cardinality(Starting') + 1
    BY <2>2, <2>3, SizeWithout
  <2>6. wg = Cardinality(Live') + Cardinality(Starting')
    <3>1. wg = Cardinality(Live) + Cardinality(Starting) /\ Cardinality(Live) \in Nat
      BY Counter
    <3>2. Cardinality(Starting') \in Nat
      BY <2>5, FS_CardinalityType
    <3> QED  BY <2>4, <2>5, <3>1, <3>2
  <2>7. \A g \in Handler : hpc'[g] = "waiting" => wg > 0
    BY <1>1 DEF LoopsInv
  <2>8. wg > 0 => sPort # None \/ \E g \in Handler : hpc'[g] \in {"slave close", "waiting"}
    BY <1>1 DEF LoopsInv
  <2>9. \A m \in Loop : lport[m] # None => lport[m] = sPort \/ lport[m] \in stopped
    BY DEF LoopsInv
  <2> QED  BY <1>3, <2>4, <2>5, <2>6, <2>7, <2>8, <2>9 DEF LoopsInv
<1> QED  BY <1>4, <1>5, <1>6, <1>7

\* Close takes the port of the slave and stops its session.
LEMMA SlaveStopKeeps ==
  ASSUME SessionInv, NEW h \in Handler, SlaveStop(h)
  PROVE  SessionInv'
<1> USE DEF SessionInv
<1>1. /\ hpc[h] = "idle" /\ hpc'[h] = "slave close" /\ \A g \in Handler \ {h} : hpc'[g] = hpc[g]
      /\ sPort # None /\ sPort \in Handle
  BY Moved DEF SlaveStop, TypeOK
<1>2. /\ stopped' = stopped \cup {sPort} /\ hport' = [hport EXCEPT ![h] = sPort] /\ sPort' = None
      /\ UNCHANGED <<open, mPort, mMu, wg, lpc, lport>>
  BY DEF SlaveStop, master, loops
<1>3. /\ hport'[h] = sPort /\ \A g \in Handler \ {h} : hport'[g] = hport[g]
      /\ hport[h] = None
  BY <1>1, <1>2 DEF TypeOK, PortsInv, Holding
<1>4. TypeOK'
  <2>1. hpc' \in [Handler -> HandlerLabel]
    BY HandlerType DEF HandlerLabel, SlaveStop
  <2> QED  BY <1>1, <1>2, <2>1 DEF TypeOK
<1>5. PortsInv'
  <2>1. \A g \in Handler : hport'[g] # None <=> hpc'[g] \in Holding
    <3>1. hport'[h] # None /\ hpc'[h] \in Holding
      BY <1>1, <1>3 DEF Holding
    <3>2. \A g \in Handler \ {h} : hport'[g] # None <=> hpc'[g] \in Holding
      BY <1>1, <1>3 DEF PortsInv
    <3> QED  BY <3>1, <3>2
  <2>2. ASSUME NEW y \in Handle
        PROVE  open'[y] # None <=> Owned(y)'
    <3>1. y # None
      BY SessionAssumption
    <3>2. Owned(y)' <=> Owned(y)
      BY <1>2, <1>3, <3>1 DEF Owned
    <3> QED  BY <1>2, <3>2 DEF PortsInv
  <2>3. mPort' # None => mPort' # sPort'
    BY <1>2
  <2>4. ASSUME NEW f \in Handler, NEW g \in Handler, hport'[f] # None
        PROVE  hport'[f] \notin {mPort', sPort'} /\ (f # g => hport'[f] # hport'[g])
    <3>1. CASE f = h
      <4>1. hport[g] # sPort /\ mPort # sPort
        BY <1>1 DEF PortsInv
      <4>2. hport'[f] = sPort /\ mPort' = mPort /\ sPort' = None
        BY <1>2, <1>3, <3>1
      <4>3. f # g => hport'[g] = hport[g]
        BY <1>3, <3>1
      <4> QED  BY <1>1, <4>1, <4>2, <4>3
    <3>2. CASE f # h
      <4>1. hport'[f] = hport[f] /\ hport[f] \notin {None, mPort, sPort}
        BY <1>3, <2>4, <3>2 DEF PortsInv
      <4> QED  BY <1>2, <1>3, <2>4, <3>2, <4>1 DEF PortsInv
    <3> QED  BY <3>1, <3>2
  <2> QED  BY <2>1, <2>2, <2>3, <2>4 DEF PortsInv
<1>6. MutexInv'
  BY <1>1, <1>2, MutexStays
<1>7. LoopsInv'
  <2>1. Live' = Live /\ Starting' = Starting
    BY <1>1, <1>2 DEF Live, Starting
  <2>2. \A g \in Handler : hpc'[g] = "waiting" => wg > 0
    BY <1>1 DEF LoopsInv
  <2>3. \E g \in Handler : hpc'[g] \in {"slave close", "waiting"}
    BY <1>1
  <2>4. \A l \in Loop : lport[l] # None => lport[l] \in stopped'
    BY <1>2 DEF LoopsInv
  <2> QED  BY <1>2, <2>1, <2>2, <2>3, <2>4 DEF LoopsInv
<1> QED  BY <1>4, <1>5, <1>6, <1>7

\* All steps of the handlers.
LEMMA HandlersKeep ==
  ASSUME SessionInv, NEW h \in Handler, HandlerStep(h) \/ Execute(h) \/ SessionCall(h)
  PROVE  SessionInv'
<1>1. CASE SerialOpens(h, "master open", "master set") \/ SerialOpens(h, "slave open", "slave set")
  BY <1>1, OpensKeeps
<1>2. CASE \/ SerialFails(h, "master open") \/ SerialFails(h, "slave open")
           \/ MasterCheck(h) \/ SlaveCheck(h) \/ AlreadyRunning(h) \/ Woken(h) \/ Recover(h)
  BY <1>2, WalksKeep
<1>3. CASE MasterSet(h)
  BY <1>3, MasterSetKeeps
<1>4. CASE MasterClose(h) \/ TransportError(h)
  BY <1>4, MasterClosesKeeps
<1>5. CASE Execute(h) \/ Answered(h)
  BY <1>5, ExecuteKeeps
<1>6. CASE SlaveSet(h)
  BY <1>6, SlaveSetKeeps
<1>7. CASE CloseOwn(h)
  BY <1>7, CloseOwnKeeps
<1>8. CASE GoLoop(h)
  BY <1>8, GoLoopKeeps
<1>9. CASE SlaveStop(h)
  BY <1>9, SlaveStopKeeps
<1>10. CASE SlaveClose(h)
  BY <1>10, SlaveCloseKeeps
<1> QED  BY <1>1, <1>2, <1>3, <1>4, <1>5, <1>6, <1>7, <1>8, <1>9, <1>10 DEF HandlerStep, SessionCall

-----------------------------------------------------------------------------
(***************************************************************************)
(* The steps of the goroutines.                                            *)
(***************************************************************************)

\* A goroutine that stays, with the port it had or the one of the slave.
LEMMA StaysKeep ==
  ASSUME SessionInv, NEW l \in Loop,
         Snapshot(l) \/ NotStopped(l) \/ ReadNothing(l) \/ ReadFrame(l) \/ Replied(l)
  PROVE  SessionInv'
<1> USE DEF SessionInv
<1>1. UNCHANGED <<open, mPort, mMu, sPort, stopped, wg, hpc, hport>>
  BY DEF Snapshot, NotStopped, ReadNothing, ReadFrame, Replied, master, slave
<1>2. PICK label \in LoopLabel \ {"none"} : lpc' = [lpc EXCEPT ![l] = label]
  BY DEF Snapshot, NotStopped, ReadNothing, ReadFrame, Replied, LoopGoto, LoopLabel
<1>3. lport' = [lport EXCEPT ![l] = sPort] \/ lport' = lport
  BY DEF Snapshot, NotStopped, ReadNothing, ReadFrame, Replied
<1>4. lpc[l] # "none"
  BY DEF Snapshot, NotStopped, ReadNothing, ReadFrame, Replied
<1>5. TypeOK'
  BY <1>1, <1>2, <1>3 DEF TypeOK
<1>6. PortsInv'
  BY <1>1, PortsStay
<1>7. MutexInv'
  BY <1>1, MutexStays
<1>8. LoopsInv'
  <2>1. Live' = Live /\ Starting' = Starting
    BY <1>1, <1>2, <1>4 DEF Live, Starting, TypeOK
  <2>2. \A m \in Loop : lport'[m] # None => lport'[m] = sPort \/ lport'[m] \in stopped
    BY <1>3 DEF LoopsInv, TypeOK
  <2> QED  BY <1>1, <2>1, <2>2 DEF LoopsInv
<1> QED  BY <1>5, <1>6, <1>7, <1>8

\* A goroutine that returns wakes who waits for the last one.
LEMMA ExitKeeps ==
  ASSUME SessionInv, NEW l \in Loop, lpc[l] # "none", Exit(l)
  PROVE  SessionInv'
<1> USE DEF SessionInv
<1>1. /\ UNCHANGED <<open, mPort, mMu, sPort, stopped, hport>>
      /\ lpc' = [lpc EXCEPT ![l] = "none"] /\ lport' = [lport EXCEPT ![l] = None]
      /\ wg' = wg - 1
  BY DEF Exit, LoopGoto, master
<1>2. \A h \in Handler : hpc'[h] = IF wg = 1 /\ hpc[h] = "waiting" THEN "woken" ELSE hpc[h]
  BY DEF Exit
<1>3. TypeOK'
  <2>1. hpc' \in [Handler -> HandlerLabel]
    BY DEF Exit, TypeOK, HandlerLabel
  <2>2. wg' \in Int /\ lpc' \in [Loop -> LoopLabel] /\ lport' \in [Loop -> Handle \cup {None}]
    BY <1>1 DEF TypeOK, LoopLabel
  <2> QED  BY <1>1, <2>1, <2>2 DEF TypeOK
<1>4. PortsInv'
  BY <1>1, <1>2, PortsStay DEF Holding
<1>5. MutexInv'
  BY <1>1, <1>2, MutexStays
<1>6. LoopsInv'
  <2>1. Live' = Live \ {l} /\ l \in Live /\ Starting' = Starting
    BY <1>1, <1>2 DEF Live, Starting, TypeOK
  <2>2. IsFiniteSet(Live) /\ IsFiniteSet(Starting)
    BY DEF LoopsInv
  <2>3. IsFiniteSet(Live') /\ Cardinality(Live) = Cardinality(Live') + 1
    BY <2>1, <2>2, SizeWithout
  <2>4. wg' = Cardinality(Live') + Cardinality(Starting') /\ wg' \in Nat
    <3>1. wg = Cardinality(Live) + Cardinality(Starting) /\ Cardinality(Starting) \in Nat
      BY Counter
    <3>2. Cardinality(Live') \in Nat
      BY <2>3, FS_CardinalityType
    <3>3. Cardinality(Starting') = Cardinality(Starting)
      BY <2>1
    <3> QED  BY <1>1, <2>3, <3>1, <3>2, <3>3
  <2>5. wg \in Nat
    BY Counter
  <2>6. wg = 1 \/ wg' > 0
    BY <1>1, <2>4, <2>5
  <2>7. wg = 1 => ~(wg' > 0)
    BY <1>1
  <2>8. wg' > 0 => wg > 0 /\ wg # 1
    BY <1>1, <2>4, <2>5
  <2>9. \A h \in Handler : hpc'[h] = "waiting" => wg' > 0
    BY <1>2, <2>6
  <2>10. wg' > 0 => sPort # None \/ \E h \in Handler : hpc'[h] \in {"slave close", "waiting"}
    BY <1>2, <2>8 DEF LoopsInv
  <2>11. \A m \in Loop : lport'[m] # None => lport'[m] = sPort \/ lport'[m] \in stopped
    BY <1>1 DEF LoopsInv, TypeOK
  <2> QED  BY <1>1, <2>1, <2>2, <2>3, <2>4, <2>9, <2>10, <2>11 DEF LoopsInv
<1> QED  BY <1>3, <1>4, <1>5, <1>6

\* All steps of the goroutines.
LEMMA LoopsKeep ==
  ASSUME SessionInv, NEW l \in Loop, LoopStep(l)
  PROVE  SessionInv'
<1>1. CASE Snapshot(l) \/ NotStopped(l) \/ ReadNothing(l) \/ ReadFrame(l) \/ Replied(l)
  BY <1>1, StaysKeep
<1>2. CASE PortGone(l) \/ StopSeen(l) \/ ReplyFails(l)
  BY <1>2, ExitKeeps DEF PortGone, StopSeen, ReplyFails
<1> QED  BY <1>1, <1>2 DEF LoopStep

-----------------------------------------------------------------------------
\* SessionInv is inductive.
LEMMA SessionStep == SessionInv /\ [Next]_vars => SessionInv'
<1> SUFFICES ASSUME SessionInv, [Next]_vars PROVE SessionInv'
  OBVIOUS
<1>1. CASE UNCHANGED vars
  <2>1. UNCHANGED <<open, mPort, mMu, sPort, stopped, wg, hpc, hport, lpc, lport>>
    BY <1>1 DEF vars
  <2>2. TypeOK'
    BY <2>1 DEF SessionInv, TypeOK
  <2> QED  BY <2>1, <2>2, PortsStay, MutexStays, LoopsStay DEF SessionInv, loops
<1>2. CASE \E h \in Handler : HandlerStep(h) \/ Execute(h) \/ SessionCall(h)
  BY <1>2, HandlersKeep
<1>3. CASE \E l \in Loop : LoopStep(l)
  BY <1>3, LoopsKeep
<1> QED  BY <1>1, <1>2, <1>3 DEF Next, Handler

(***************************************************************************)
(* The inductive invariant, for any numbers of goroutines and handles.     *)
(***************************************************************************)
THEOREM SessionInvariant == Spec => []SessionInv
BY SessionInit, SessionStep, PTL DEF Spec

(***************************************************************************)
(* Every variable has its type.                                            *)
(***************************************************************************)
THEOREM SessionTypeCorrect == Spec => []TypeOK
<1>1. SessionInv => TypeOK
  BY DEF SessionInv
<1> QED  BY <1>1, SessionInvariant, PTL

(***************************************************************************)
(* No serial port leaks, none is closed twice and none is used by a        *)
(* session after it was closed, however the handlers of the master, the    *)
(* slave and the polls interleave and whatever call of the library fails.  *)
(***************************************************************************)
THEOREM NoHandleLost == Spec => []HandlesAccounted
<1>1. ASSUME TypeOK, PortsInv
      PROVE  HandlesAccounted
  <2> DEFINE kept == ({mPort, sPort} \cup {hport[h] : h \in Handler}) \ {None}
  <2>1. ASSUME NEW x \in Handle
        PROVE  open[x] # None <=> x \in kept
    BY <1>1, SessionAssumption DEF PortsInv, Owned
  <2>2. kept \subseteq Handle
    BY <1>1 DEF TypeOK
  <2>3. {x \in Handle : open[x] # None} = kept
    BY <2>1, <2>2
  <2> QED  BY <1>1, <2>3 DEF HandlesAccounted, PortsInv
<1>2. SessionInv => HandlesAccounted
  BY <1>1 DEF SessionInv
<1> QED  BY <1>2, SessionInvariant, PTL

(***************************************************************************)
(* The wait group counts the goroutines that run or are about to, and      *)
(* nobody waits for a counter that is 0.                                   *)
(***************************************************************************)
THEOREM CountExact == Spec => []WaitGroupExact
<1>1. SessionInv => WaitGroupExact
  BY DEF SessionInv, LoopsInv, Starting, WaitGroupExact
<1> QED  BY <1>1, SessionInvariant, PTL

(***************************************************************************)
(* No goroutine is left when the slave is closed and every Close has       *)
(* returned, also after a Start that overtook the Close before it.         *)
(***************************************************************************)
THEOREM ClosedIsQuiet == Spec => []QuietWhenClosed
<1>1. ASSUME LoopsInv
      PROVE  QuietWhenClosed
  <2>1. wg \in Nat
    BY <1>1, Counter
  <2>2. wg = 0 \/ wg > 0
    BY <2>1
  <2> QED  BY <1>1, <2>2 DEF LoopsInv, QuietWhenClosed
<1>2. SessionInv => QuietWhenClosed
  BY <1>1 DEF SessionInv
<1> QED  BY <1>2, SessionInvariant, PTL

-----------------------------------------------------------------------------
(***************************************************************************)
(* One operator: the buttons of the page make one session call at a time.  *)
(* The polls stay as many as they are.                                     *)
(***************************************************************************)
OneOperator == \E o : Operator = {o}

(***************************************************************************)
(* Only the operator is between two sections of a session call, so what a  *)
(* session call checked still holds where it acts on it.                   *)
(***************************************************************************)
OneInv ==
  /\ \A h \in Handler \ Operator : hpc[h] \in {"idle", "executing"}
  /\ \A h \in Operator :
       /\ hpc[h] \in {"master open", "master set"} => sPort = None
       /\ hpc[h] \in {"slave open", "slave set"} => mPort = None
       /\ hpc[h] = "woken" => wg = 0
       /\ hpc[h] # "panicked"
  /\ wg <= 1
  /\ MasterSlaveExclusive

\* At the start nobody is inside a call.
LEMMA OneInit == Init => OneInv
BY DEF Init, OneInv, Handler, MasterSlaveExclusive

\* A step of the operator, where nobody else is inside a session call.
LEMMA OperatorKeeps ==
  ASSUME OneOperator, SessionInv, OneInv, NEW h \in Operator,
         HandlerStep(h) \/ Execute(h) \/ SessionCall(h)
  PROVE  OneInv'
<1> USE DEF SessionInv
<1> h \in Handler
  BY DEF Handler
<1>1. Operator = {h}
  BY DEF OneOperator
<1>2. \A g \in Handler \ {h} : hpc'[g] = hpc[g]
  BY DEF HandlerStep, SessionCall, Execute, At, TypeOK, SerialOpens, SerialFails, MasterSet,
         Answered, TransportError, SlaveSet, AlreadyRunning, CloseOwn, GoLoop, SlaveClose, Woken,
         Recover, MasterCheck, MasterClose, SlaveCheck, SlaveStop
<1>3. \A g \in Handler \ Operator : hpc'[g] \in {"idle", "executing"}
  BY <1>1, <1>2 DEF OneInv
<1>4. ASSUME /\ hpc'[h] \in {"master open", "master set"} => sPort' = None
             /\ hpc'[h] \in {"slave open", "slave set"} => mPort' = None
             /\ hpc'[h] = "woken" => wg' = 0
             /\ hpc'[h] # "panicked",
             wg' <= 1, MasterSlaveExclusive'
      PROVE  OneInv'
  BY <1>1, <1>3, <1>4 DEF OneInv
<1>5. CASE SerialOpens(h, "master open", "master set") \/ SerialFails(h, "master open")
  <2>1. hpc[h] = "master open" /\ hpc'[h] \in {"master set", "idle"} /\ UNCHANGED <<mPort, sPort, wg>>
    BY <1>5, Moved DEF SerialOpens, SerialFails, master, slave
  <2> QED  BY <1>4, <2>1 DEF OneInv, MasterSlaveExclusive
<1>6. CASE SerialOpens(h, "slave open", "slave set") \/ SerialFails(h, "slave open")
  <2>1. hpc[h] = "slave open" /\ hpc'[h] \in {"slave set", "idle"} /\ UNCHANGED <<mPort, sPort, wg>>
    BY <1>6, Moved DEF SerialOpens, SerialFails, master, slave
  <2> QED  BY <1>4, <2>1 DEF OneInv, MasterSlaveExclusive
<1>7. CASE MasterCheck(h) \/ SlaveCheck(h)
  <2>1. /\ UNCHANGED <<mPort, sPort, wg>>
        /\ \/ hpc'[h] = "idle"
           \/ hpc'[h] = "master open" /\ sPort = None
           \/ hpc'[h] = "slave open" /\ mPort = None
    BY <1>7, Moved DEF MasterCheck, SlaveCheck, master, slave
  <2> QED  BY <1>4, <2>1 DEF OneInv, MasterSlaveExclusive
<1>8. CASE MasterSet(h)
  <2>1. hpc[h] = "master set" /\ hpc'[h] = "idle" /\ UNCHANGED <<sPort, wg>>
    BY <1>8, Moved DEF MasterSet, slave
  <2> QED  BY <1>4, <2>1 DEF OneInv, MasterSlaveExclusive
<1>9. CASE MasterClose(h) \/ TransportError(h)
  <2>1. hpc'[h] = "idle" /\ mPort' = None /\ UNCHANGED <<sPort, wg>>
    BY <1>9, Moved DEF MasterClose, TransportError, slave
  <2> QED  BY <1>4, <2>1 DEF OneInv, MasterSlaveExclusive
<1>10. CASE \/ Execute(h) \/ Answered(h) \/ AlreadyRunning(h) \/ CloseOwn(h) \/ GoLoop(h)
            \/ SlaveClose(h) \/ Recover(h)
  <2>1. /\ UNCHANGED <<mPort, sPort, wg>>
        /\ hpc'[h] \in {"executing", "idle", "already running", "waiting"}
    BY <1>10, Moved DEF Execute, Answered, AlreadyRunning, CloseOwn, GoLoop, SlaveClose, Recover,
                        master, slave
  <2> QED  BY <1>4, <2>1 DEF OneInv, MasterSlaveExclusive
<1>11. CASE Woken(h)
  <2>1. /\ UNCHANGED <<mPort, sPort, wg>>
        /\ hpc[h] = "woken" /\ hpc'[h] = IF wg = 0 THEN "idle" ELSE "panicked"
    BY <1>11, Moved DEF Woken, master, slave
  <2> QED  BY <1>4, <2>1 DEF OneInv, MasterSlaveExclusive
<1>12. CASE SlaveSet(h)
  <2>1. /\ hpc[h] = "slave set" /\ hpc'[h] = "go loop" /\ sPort = None
        /\ mPort' = mPort /\ wg' = wg + 1
    BY <1>12, Moved DEF SlaveSet, master
  <2>2. ~ \E g \in Handler : hpc[g] \in {"slave close", "waiting"}
    BY <1>1, <2>1 DEF OneInv
  <2>3. ~(wg > 0)
    BY <2>1, <2>2 DEF LoopsInv
  <2>4. wg' <= 1
    <3>1. wg \in Nat
      BY Counter
    <3>2. wg = 0
      BY <2>3, <3>1
    <3>3. wg' = wg + 1
      BY <2>1
    <3> QED  BY <3>2, <3>3
  <2> QED  BY <1>4, <2>1, <2>4 DEF OneInv, MasterSlaveExclusive
<1>13. CASE SlaveStop(h)
  <2>1. hpc'[h] = "slave close" /\ sPort' = None /\ UNCHANGED <<mPort, wg>>
    BY <1>13, Moved DEF SlaveStop, master
  <2> QED  BY <1>4, <2>1 DEF OneInv, MasterSlaveExclusive
<1> QED  BY <1>5, <1>6, <1>7, <1>8, <1>9, <1>10, <1>11, <1>12, <1>13 DEF HandlerStep, SessionCall

\* A step of a poll: a request, which may drop the port of the master.
LEMMA PollKeeps ==
  ASSUME SessionInv, OneInv, NEW h \in Handler \ Operator, HandlerStep(h) \/ Execute(h)
  PROVE  OneInv'
<1> USE DEF SessionInv
<1>1. hpc[h] \in {"idle", "executing"}
  BY DEF OneInv
<1>2. Answered(h) \/ TransportError(h) \/ Execute(h)
  BY <1>1 DEF HandlerStep, At, SerialOpens, SerialFails, MasterSet, SlaveSet, AlreadyRunning,
              CloseOwn, GoLoop, SlaveClose, Woken, Recover
<1>3. /\ hpc'[h] \in {"idle", "executing"} /\ \A g \in Handler \ {h} : hpc'[g] = hpc[g]
      /\ mPort' = mPort \/ mPort' = None
      /\ UNCHANGED <<sPort, wg>>
  BY <1>2, Moved DEF Answered, TransportError, Execute, slave
<1> QED  BY <1>3 DEF OneInv, MasterSlaveExclusive, Handler

\* A step of a goroutine; the last one that returns leaves the counter at 0.
LEMMA LoopKeepsOne ==
  ASSUME SessionInv, OneInv, NEW l \in Loop, LoopStep(l)
  PROVE  OneInv'
<1> USE DEF SessionInv
<1>1. CASE Snapshot(l) \/ NotStopped(l) \/ ReadNothing(l) \/ ReadFrame(l) \/ Replied(l)
  <2>1. UNCHANGED <<mPort, sPort, wg, hpc>>
    BY <1>1 DEF Snapshot, NotStopped, ReadNothing, ReadFrame, Replied, master, slave
  <2> QED  BY <2>1 DEF OneInv, MasterSlaveExclusive
<1>2. CASE PortGone(l) \/ StopSeen(l) \/ ReplyFails(l)
  <2>1. Exit(l) /\ lpc[l] # "none"
    BY <1>2 DEF PortGone, StopSeen, ReplyFails
  <2>2. UNCHANGED <<mPort, sPort>> /\ wg' = wg - 1
    BY <2>1 DEF Exit, master
  <2>3. \A h \in Handler : hpc'[h] = IF wg = 1 /\ hpc[h] = "waiting" THEN "woken" ELSE hpc[h]
    BY <2>1 DEF Exit
  <2>4. wg \in Nat /\ wg <= 1
    BY Counter DEF OneInv
  <2>5. wg' <= 1 /\ (wg = 1 => wg' = 0)
    BY <2>2, <2>4
  <2>6. wg # 0
    <3>1. l \in Live /\ IsFiniteSet(Live)
      BY <2>1 DEF Live, LoopsInv
    <3>2. Cardinality(Live) # 0
      BY <3>1, FS_EmptySet
    <3>3. /\ Cardinality(Live) \in Nat /\ Cardinality(Starting) \in Nat
          /\ wg = Cardinality(Live) + Cardinality(Starting)
      BY Counter
    <3> QED  BY <3>2, <3>3
  <2>7. wg' = 0
    BY <2>2, <2>4, <2>6
  <2> QED  BY <2>2, <2>3, <2>5, <2>7 DEF OneInv, MasterSlaveExclusive, Handler
<1> QED  BY <1>1, <1>2 DEF LoopStep

\* OneInv is inductive relative to SessionInv.
LEMMA OneStep == OneOperator /\ SessionInv /\ OneInv /\ [Next]_vars => OneInv'
<1> SUFFICES ASSUME OneOperator, SessionInv, OneInv, [Next]_vars PROVE OneInv'
  OBVIOUS
<1>1. CASE UNCHANGED vars
  BY <1>1 DEF vars, OneInv, MasterSlaveExclusive
<1>2. CASE \E h \in Operator : HandlerStep(h) \/ Execute(h) \/ SessionCall(h)
  BY <1>2, OperatorKeeps
<1>3. CASE \E h \in Handler \ Operator : HandlerStep(h) \/ Execute(h)
  BY <1>3, PollKeeps
<1>4. CASE \E l \in Loop : LoopStep(l)
  BY <1>4, LoopKeepsOne
<1> QED  BY <1>1, <1>2, <1>3, <1>4 DEF Next

(***************************************************************************)
(* With one operator the slave has one goroutine at most, which serves the *)
(* session it was started for or one that is being closed, and no handler  *)
(* panics, for any number of polls.                                        *)
(***************************************************************************)
THEOREM OneServerAtATime == ASSUME OneOperator PROVE Spec => []OneServer
<1>1. ASSUME LoopsInv, OneInv
      PROVE  OneServer
  <2>1. Cardinality(Live) <= 1
    <3>1. /\ Cardinality(Live) \in Nat /\ Cardinality(Starting) \in Nat
          /\ wg = Cardinality(Live) + Cardinality(Starting)
      BY <1>1, Counter
    <3>2. wg <= 1
      BY <1>1 DEF OneInv
    <3> QED  BY <3>1, <3>2
  <2>2. \A h \in Handler : hpc[h] # "panicked"
    BY <1>1 DEF OneInv
  <2>3. \A l \in Live : lport[l] # None => lport[l] = sPort \/ lport[l] \in stopped
    BY <1>1 DEF LoopsInv, Live
  <2> QED  BY <2>1, <2>2, <2>3 DEF OneServer
<1>2. SessionInv /\ OneInv => OneServer
  BY <1>1 DEF SessionInv
<1> QED  BY <1>2, SessionInvariant, OneInit, OneStep, PTL DEF Spec

(***************************************************************************)
(* With one operator the two sessions are never open at once: the conflict *)
(* checks suffice, although they are made before the port is opened and    *)
(* under no lock of both (api/server.go:144, 183).                         *)
(***************************************************************************)
THEOREM OneSessionAtATime == ASSUME OneOperator PROVE Spec => []MasterSlaveExclusive
<1>1. OneInv => MasterSlaveExclusive
  BY DEF OneInv
<1> QED  BY <1>1, SessionInvariant, OneInit, OneStep, PTL DEF Spec
=============================================================================
