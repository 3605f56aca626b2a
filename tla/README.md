# Modbus Console in TLA+

Models of Modbus Console, checked with TLC and in part proved with TLAPS. Modbus
Console is a Go program (the *Core*) that is a Modbus master and a Modbus slave
over TCP and RTU at the same time, with an HTTP control API, and a web UI that
drives it. A module names the files it stands for in its header;
`PROJECT.json` maps each definition to its lines.

## 1. The system

| Part | State | Operations | Talks to |
| --- | --- | --- | --- |
| **Register store** (`core/internal/modbus/store.go`, `simulator.go`) | four tables per unit id, the relay's specification, `Strict`, a `sync.RWMutex` | `Read`, `Set`, `Write`, `EnableRelay`; the seed and reset of the lab bus | called by every goroutine below |
| **PDU codec** (`types.go`, `client.go`, `server.go`, `rtu.go`) | none | validate, build, decode, answer, parse | used by both masters and both slaves |
| **TCP master** (`client.go`) | `transactionID`; a connection per exchange | `ExecuteTCP` | a TCP slave, ours or another; called by the API |
| **TCP slave** (`server.go`) | listener, `closed`, `wg`, `clients` | `Start`, accept loop, `handleConn`, `Close` | the store; `main` starts and closes it |
| **RTU sessions** (`rtu.go`, handlers in `api/server.go`) | master: `port`, a mutex held for a whole request; slave: `port`, `stop`, `wg` and a serving goroutine | open, close, execute; start, close, serve | the serial library; each handler looks at the other session first |
| **RTU framing** (`rtu.go`) | a byte stream with timeouts | `readExact`, request and response readers, CRC | the serial line |
| **Control API** (`api/server.go`) | none of its own; a request is a few calls on the store | registers, simulator, reset, RTU, TCP requests; token and origin checks | all of the above |
| **Process** (`cmd/.../main.go`) | the Modbus port, which one process can have | start, `log.Fatalf`, a signal, `Shutdown`, deferred closes | token, API, RTU, TCP slave |
| **Pairing token** (`engine/token.go`) | a file | read or create | `main`, in every process of the user |
| **Poll loop of the web UI** (`apps/web/app/page.tsx`) | React state, an effect with a timer | start, stop, edit, send, connect, disconnect | the Core client, the browser's RTU master |
| **Panels of the web UI** (`page.tsx`) | a selection, the text of the values, the last answer | read, write, inject, reset | the Core client |
| **Browser RTU master** (`lib/browser-rtu.ts`) | a port, its locks, a queue of promises | `connect`, `request`, `disconnect` | Web Serial |

What is hard in it, and what makes each part correct:

* *Store.* Five kinds of goroutine call it, a call visits its registers one by
  one, and the relay shows each channel twice (coil 0 = on, holding 256 = on). A
  call must take effect at one instant; the two views must agree after any mix of
  good and bad values; coils must stay bits; no write may be acknowledged that
  was stored in part; nobody may starve.
* *Control API.* A PATCH writes and reads back in two calls, a reset is a call
  per range, and others get in between. What is shown must be what was stored, a
  read-back must not be refused, a reset must restore everything.
* *Codec.* Limits, byte counts, padding and byte order are written down three
  times. What one side builds the other must take, and take for what was meant.
* *Exchanges.* Requests time out, are served late, and share an id counter. A
  result must be that of the request; a device that answers badly must give an
  error.
* *TCP slave.* Connections come while the listener is being closed. `Close` must
  leave nothing behind, wait for everybody, and return.
* *Process and token.* Two Cores start on one home directory, and a process may
  die between any two steps. A pairing must survive that, and the token on file
  must be the one the Core that is up asks for.
* *RTU sessions.* Ports are opened before a lock is taken; the check of the other
  session and the opening are two steps; a goroutine re-reads the session it
  serves. No port may leak or be closed twice, one goroutine per session, master
  and slave exclude each other.
* *RTU framing.* A frame has no length field and no id. After noise, a timeout or
  a late answer both ends must find back to the start of a frame, the slave must
  not serve a half, and a result must not be an earlier request's.
* *Web UI.* Answers come after the loop was stopped or restarted and in any
  order; they must be silent then. The browser's port is locked by whoever uses
  it and closed by a function outside the queue.

`PROJECT.json` lists each of these, and a few that no property covers, as a
hazard at its line.

## 2. The modules

```
StoreOps ─┬─ Store ── ControlPlane ── ControlProofs
          │    ╎
          ├─ LockedStore ── LockProofs
          └─ PDU ─┬─ Exchange ── ExchangeProofs
                  ├─ RTULine ── RTULineProofs
                  └─ OperatorProofs   (extended by the four proofs above)
TCPSlave ── CoreProcess ── CoreProofs
AutoPoll ── WebRtu ─── WebProofs
               ╎
            BrowserRtu
RTUSession ── SessionProofs
```

A solid line is EXTENDS. `LockedStore` instantiates `Store` as its abstract
specification, and `WebRtu` instantiates `BrowserRtu` for the calls that the
page makes. What is shown on one level is used on the next: `ControlPlane`,
`Exchange` and `RTULine` take a call on the store to be atomic, which is what
`LockedStore` shows of the code; `Exchange` and `RTULine` carry the same PDUs.
`RTUSession` and `TCPSlave` say when goroutines live and leave the registers
out; they interact with the rest only by calling the store.

### StoreOps, Store, LockedStore

`StoreOps` has no state. `Admitted` is the checks a call makes before the lock;
`Takes` says whether the body of the loop takes a value and `RoundFails`
whether it leaves with an error; `EffectUpTo(b, r, n)` is the banks after `n`
rounds, so that a failed call keeps its prefix, as `Write` does
(`store.go:143-148`), and a lenient relay skips instead (`store.go:134`). An
absent Go map key is `Unmapped`. `SeededBanks` is the lab bus with its sensors
and its relay.

`Store` is the promise: `Invoke`, `Perform` at one instant, `Return`.
`LockedStore` is the code: Go's RWMutex (`writer`, "draining" for a writer that
waits for the readers that are in, "blocked" for a reader that waits for a
writer), `Round` for one register, and unlock after the results are evaluated.
The refinement maps `bank` to `committed`, the banks as the last writer to
unlock left them: inside a writer's loop the two differ, and no reader is in.

### ControlPlane

A goroutine takes a request (`job`) through the checks of the middleware and of
its handler, in their order, with the status each ends in (`Gate`, `Valid`), and
then through its calls on the store (`Plan`): one to read, a change and a
read-back for PATCH and injection, a call per range and `EnableRelay` for the
reset. `GoOn` and `Done` are what the handler does with each reply, the ignored
error of `api/server.go:377` included. The calls themselves are `Store`'s
actions. `dirty` is a history: the cells that others stored to after this
request did; `WriteShown` and `ResetRestores` promise nothing about those. A
goroutine of a slave is a client with a single call.

### PDU, Exchange

`PDU` has requests and responses byte for byte: `ValidateProtocol` and
`BuildPDU` on the master's side, `WellFormed`, `StoreCall`, `Refusal` and
`Response` on the slave's, `Parse` back on the master's, with the run-time
panic of an index out of range as a kind of result. `Meant` is the reference:
the call on the store that a request means, without any encoding. Bits are
packed with weights instead of shifts.

`Exchange` is one master goroutine per client, with a connection per exchange:
`Reject`, `DialFails`, `Send`, `Receive`, `GiveUp`, `Return`. The slave's
`Serve` is a round of `handleConn`. A master that gives up closes its
connection; the request on it may be served all the same (`ServeLeft`) or be
lost. A unit in `Elsewhere` is on a device that is not ours and answers with any
PDU of `Foreign`, with an old id or for another unit too.

### RTUSession, RTULine

In `RTUSession` a handle is a `serial.Port` value; `open` says which port of the
machine it holds, and a port is held by one handle. Handlers are goroutines of
the HTTP server with a program counter: `MasterCheck`, open, `MasterSet`;
`SlaveCheck`, open, `SlaveSet` or `AlreadyRunning`, `GoLoop`; `SlaveStop`,
`SlaveClose`, waiting for the wait group; `Execute`, which keeps the master's
mutex until the answer or a transport error. A loop takes its snapshot of
`s.port`, looks at the stop channel, reads and replies. `Operator`s make the
calls of the session buttons, `Poller`s only execute requests. A stop channel is
named by the handle it was made with.

`RTULine` is what those sessions say to each other: `toSlave` and `toMaster` are
the bytes on the line, each side reads as many as what it has read tells it to
want (`WantedRequest`, `WantedResponse`), and checks a real CRC-16. A timeout
loses what was read and may cut the line at any of `Cuts`. The kind of the line
is chosen at the start: *patient*, where timeouts are longer than what they wait
for, or not; with noise, which damages, loses or inserts a byte, or without.
`session` is a history of the open port: "quiet", "noisy", or "late" when it was
opened while an answer was under way.

### TCPSlave, CoreProcess

`TCPSlave` has the accept loop's steps between `Accept` and `go`, each handler
from its first read to its three deferred calls, the kernel's queue of
connections, and `main` from the signal to the end of `Close`. A slot of `Conn`
is one connection after another.

`CoreProcess` puts a life around it: the token (`ReadFile`, `Generate`,
`Truncate`, `WriteToken`, for `os.WriteFile` truncates before it writes), the
port (`Start`, `StartFails`), the end, and `Die` at any point, after which the
process may be started again. A second process on the same home directory goes
through the same start. `unseen` is a history: a start made a token although
there was one, or one in the making, because every error of `ReadFile` counts as
"no file" (`token.go:25`).

### AutoPoll, BrowserRtu, WebRtu

`AutoPoll` is the effect of `page.tsx:178-192`. A change of what it depends on
asks for a render (`dirty`), and `Commit` cleans the old effect up and runs the
new one some time later, so that a timer may fire and an answer may arrive in
between. A poll keeps the `cancelled` of the effect that made it. `Settings`
stands for the fields of the form, the transport and the connection; those in
`Pollable` have a read function and a connected transport.

`BrowserRtu` is the queue of promises. Only its first call executes: it locks
the port, writes, reads pieces of frames until they are `Enough`, and settles
by an answer, an error or the timer; `finally` clauses give the locks back.
`disconnect` is outside the queue. A stage that is "due" is a microtask: no
click comes before it. The adapter may be unplugged at any time.

`WebRtu` composes the two: a poll or a request by hand is a call in the queue,
made in the step of the page that makes it, and it is answered when the queue
settles it. Two requests for as many registers at different addresses are
alike to `parseResponse` (`Fits`).

## 3. What is checked

| Run | Module, bounds | Shows |
| --- | --- | --- |
| `locked_store` | LockedStore; strict; three goroutines; overlapping writes to both views, one with a bad second value, reads, one of them out of range, EnableRelay | `Exclusive`; `Linearizable`, that is, Store is implemented; `EveryCallReturns` |
| `control_plane` | ControlPlane; lenient; a handler with every kind of request, and a slave's loop or a second reset; units 0 (which only Write accepts), 5 (relay, 2 channels) and 8 (sensor), 3 addresses | `RelaySync`, `BitTables`, `WriteShown`, `ReadBackSucceeds`, `ResetRestores`, `AckedWriteApplied` |
| `rtu_one_operator` | RTUSession; one operator whose calls do not overlap, one poller, 3 handles, 2 ports | `OneServer`, `MasterSlaveExclusive`, `HandlersReturn` |
| `rtu_two_operators` | RTUSession; two operators, 6 handles, 3 loops | `HandlesAccounted`, `WaitGroupExact`, `QuietWhenClosed` |
| `rtu_line` | RTULine; one unit, two registers; three kinds of line: noise and long timeouts, short timeouts without noise, both | `InStep`, `OnlySentFramesServed`, `QuietAnswers` |
| `core_process` | CoreProcess; two processes, 3 tokens; two connections at a time, one request each on the wire | `Accounting`, `QuietAfterClose`, `TokenOnFile`, `CloseReturns`, `ConnectionsTaken`, `TokenKept` |
| `exchange` | Exchange; either one master with 14 requests to our strict slave and 7 to another device with 17 answers, or two masters on the same registers | `AskedIsUnderstood`, `ResultTrue`, `ResultFitsRequest`, `AnswersUnderstood` |
| `web_rtu` | WebRtu; two registers, two polls under way and a request by hand | `OffMeansClosed`, `OldPollsSilent`, `PollingStops`, `InStep` |

Each of these also has the type invariant of its module, except
`rtu_two_operators`. Four more runs end in a counterexample, on purpose; they are
section 5.

**Why the bounds are enough.** A call on the store touches a range and one unit,
and the relay's law relates a channel's two cells: two channels and one address
more show a prefix, an address outside the channels and one that belongs to a
channel in one table only. Unit 0 shows the check that `Write` lacks. Three
goroutines are a writer in, a writer that waits and a reader that waits behind
it. A handler's promise is about its own calls and what comes between them, for
which one other goroutine that writes, reads and resets stands. Nine bits need a
second byte; the words 258 and 65280 tell the two bytes of a word apart. Two
masters are the least that can take each other's id or answer. On the serial
line, two reads that differ in the address are alike in every byte of the
answer's head; one damaged byte is enough to lose the start of a frame, and the
rest of an answer with that of another to find a wrong one. Three
handles are the master's, the slave's and one that is just being opened; with
two operators both may hold one of their own and the ports that are being
closed, and no more than six are in use at a time. Two connections are one in
service and one in the queue. Two processes are the least that can take each
other's file and port; the third token is one that neither has. Two polls and a
request by hand are one of the old loop, one of the new and one of the user's.

The bounds themselves: `left` holds one abandoned request per master; `Window`
the requests on a connection; `Slots` the polls under way; `noises` the
disturbances of a line and `unread` the bytes on it when a request is sent;
`Cuts` where it is cut; `MaxStray` the requests and pieces of answers that a
browser's line holds, beyond which a request is lost. `Handle` and `Loop` are reused when nobody refers to them any more.
`TxIds` is 2 instead of 65536, so that ids wrap around. Deadlock is checked
in every run: in all models something can always happen, for a Core that has
ended may be started again.

Every property was tried against a plausible bug, a definition marked *Mutant* in
its module, and caught it: an off-by-one in the relay's channels, a check of the
coils only, an error that is swallowed, a reset that forgets the relay, a handler
that echoes the request, a lock that lets readers in, a reader that goes before a
waiting writer, a missing `wg.Add`, a listener that stays open, a short token
file that is repaired, a port that stays open after a timeout, input that is not
flushed, a CRC that is not checked, a response compared with the latest id, bits
from the wrong end, a dependency the effect forgets, a lock that is not given
back.

### Fairness

* *LockedStore*: every goroutine that can run does (WF). `Lock` is strongly fair:
  Go's mutex goes to the waiter that has starved for a millisecond. Without it
  two other writers may pass the lock between them for ever. That a writer gets
  in between readers is not assumed; it follows from the order of the RWMutex.
* *RTUSession*: every handler and loop runs (WF), a serial call ends because
  reads and writes have timeouts and a closed port fails them. `MasterSet` is
  strongly fair, again because of the mutex: a poll keeps taking the lock that
  Open waits for. Nobody is obliged to click.
* *TCPSlave, CoreProcess*: the goroutines run and a read ends after 30 s at most
  (WF). Nothing obliges a process to start or to die. The clients owe nothing,
  and `CloseReturns` says what is needed of them: `Close` returns if they stop
  sending, since `handleConn` never looks at `closed`.
* *WebRtu*: React commits a render that is due, a promise that is due runs, a
  write to the port ends, and the timer of a read fires (WF). The last two are
  what `PollingStops` rests on: the code has no timer for a write, so a browser
  that never ends one would keep the queue waiting. The device, the polls' own
  timer and the user owe nothing. (`AutoPoll` alone assumes instead that every
  poll ends.)
* *ControlPlane*, *Exchange* and *RTULine* are safety specifications, without
  fairness. That a request on a quiet line is answered is stated as an action
  property, `QuietAnswers`: the step that ends it is not an error.

## 4. What is proved

TLAPS checks these for every value of the constants that satisfies the named
assumptions: any relay within the address range, any sensor bus that keeps
clear of it, any number of goroutines, masters, connections, handlers, serial
handles, tokens and polls under way, and any requests the callers can make. The
first four, about Store, stand in `ControlProofs`, where the handlers inherit
them.

| Theorem | Says |
| --- | --- |
| `ControlProofs!TypeCorrect` | `Spec => []TypeOK` |
| `ControlProofs!RelaySynchronized` | `Spec => []RelaySync`, strict and lenient |
| `ControlProofs!BitTablesHold` | `Spec => []BitTables` |
| `ControlProofs!AcknowledgedWritesApplied` | `Spec => AckedWriteApplied` |
| `LockProofs!LockTypeCorrect`, `LockExclusive` | `Spec => []TypeOK`, `Spec => []Exclusive` of LockedStore |
| `LockProofs!LockRefines` | `Spec => Linearizable`: LockedStore implements Store |
| `ControlProofs!HandlersAreCallers` | `ControlSpec => Spec`: the control API implements Store |
| `ControlProofs!RelayUnderControl` | `ControlSpec => []RelaySync` |
| `ControlProofs!ControlTypeCorrect` | `ControlSpec => []ControlTypeOK` |
| `ControlProofs!ReadBacksSucceed` | `ControlSpec => []ReadBackSucceeds` |
| `ControlProofs!WritesShown` | `ControlSpec => []WriteShown` |
| `ControlProofs!ResetsRestore` | `ControlSpec => []ResetRestores` |
| `OperatorProofs!CodecAgrees` | a request that passes `ValidateProtocol` is a sequence of bytes that is `WellFormed`, and `StoreCall` of it is `Meant` |
| `OperatorProofs!AnswersAgree` | `Parse` of the slave's `Response` to it is what the store said |
| `ExchangeProofs!ExchangeTypeCorrect` | `Spec => []TypeOK` of Exchange |
| `ExchangeProofs!RequestsUnderstood` | `Spec => []AskedIsUnderstood` |
| `ExchangeProofs!ResultsTrue` | `Spec => []ResultTrue` |
| `ExchangeProofs!ResultsFit` | `Spec => []ResultFitsRequest`, for any foreign device |
| `ExchangeProofs!AnswersRead` | `Spec => AnswersUnderstood` |
| `RTULineProofs!FramesFound` | of any part of a request or an answer, what a reader wants next is there and belongs to the frame |
| `RTULineProofs!LineTypeCorrect` | `Spec => []TypeOK` of RTULine |
| `RTULineProofs!QuietAnswered` | `Spec => QuietAnswers` |
| `RTULineProofs!NoiselessInStep` | `Spec => [](Noiseless => InStep)`: no disturbances, and long timeouts or requests that hold no frame |
| `RTULineProofs!SentFramesServed` | `Spec /\ [](kind.patient /\ noises = 0) => OnlySentFramesServed` |
| `SessionProofs!SessionTypeCorrect` | `Spec => []TypeOK` of RTUSession |
| `SessionProofs!NoHandleLost` | `Spec => []HandlesAccounted` |
| `SessionProofs!CountExact` | `Spec => []WaitGroupExact` |
| `SessionProofs!ClosedIsQuiet` | `Spec => []QuietWhenClosed` |
| `SessionProofs!OneServerAtATime` | with one operator, `Spec => []OneServer` |
| `SessionProofs!OneSessionAtATime` | with one operator, `Spec => []MasterSlaveExclusive` |
| `CoreProofs!CoreTypeCorrect` | `CoreSpec => []CoreTypeOK` |
| `CoreProofs!CountersExact` | `CoreSpec => []Accounting` |
| `CoreProofs!NothingLeftBehind` | `CoreSpec => []QuietAfterClose` |
| `CoreProofs!TokenOfTheCore` | `CoreSpec => []TokenOnFile` |
| `CoreProofs!TokenSurvives` | `CoreSpec => TokenKept` |
| `WebProofs!PartsKept` | `WebSpec => Init /\ [][Next]_vars /\ B!Spec`: WebRtu implements AutoPoll, without its fairness, and BrowserRtu |
| `WebProofs!WebTypeCorrect` | `WebSpec => []WebTypeOK` |
| `WebProofs!PortClosed` | `WebSpec => []OffMeansClosed` |
| `WebProofs!StoppedPollsSilent` | `WebSpec => OldPollsSilent` |
| `WebProofs!AnswersInStep` | `WebSpec => InStep` |

*Assumptions.* `StoreAssumption` describes the relay and the lab profile
(`simulator.go:24-48`). `ClientAssumption` says what the callers never do: the
API gives `Set` the input and discrete tables only (`api/server.go:263`), and a
reset leaves the relay's ranges out (`simulator.go:60`). The relay's law rests
on it: a `Set` on the relay's coils would break it. `LockAssumption` keeps the
value that names no goroutine apart from the goroutines. `ControlAssumption`
says that the calls of the requests that pass the checks are among those.
`PDUAssumption` bounds addresses by 65535. `ExchangeAssumption` types the
requests and the answers of other devices, has registers of 16 bits at most,
and says that what a valid request to our slave means is one of the calls the
store is specified for. `LineAssumption` has the kinds of line, and
`AutoPollAssumption` and `WebRtuAssumption` the settings, and the values that
stand for none apart from those and from a poll. `ConnAssumption` has
finitely many connections, `CoreAssumption` two processes and three tokens or
more. TLC evaluates all of them in the runs. The hypothesis `OneOperator` of two
theorems is the page, which makes one session call at a time; that two pages may
break what they state is `rtu_exclusive`. `CodeSizes`, of the theorems about the
serial line, is what a byte and two bytes can name in the code: units are
`uint8`, addresses and registers `uint16`, so that whatever arrives with a right
CRC is a call that the store knows. The run has fewer of each.

*The store.* Only `Perform` changes the banks, so each invariant comes down to a
lemma about `EffectUpTo` for any number of rounds, once for each kind of call:
it keeps the type, keeps the relay's views together (a value the relay takes
drives the two cells of one channel and nothing else), keeps bits. These lemmas
and what a call does to a single cell (`EffectCell`, `SwitchCell`) are in
`OperatorProofs`. `TypeOK` ties a reply to a call and is what the others are
inductive with. For the action property, a reply's `ok` must be carried from
`Perform` to `Return` together with what was stored: the proof shows it for the
step itself, from the lemma that a call without a failing round has taken all of
its values.

*The lock.* `LockInv` says what each place of a goroutine means. A writer in its
loop is alone, and the banks are `EffectUpTo(committed, call, round - 1)`;
without one they are `committed`. A reader's results so far are values of
`committed`, which nobody changes while it is in. So a call that unlocks has the
effect and the outcome of `Store`'s at that instant: `FailedPrefix` and
`NoRoundsNoEffect` are for the calls that leave their loop early or were
refused. Every other step maps to a stutter. The mutex's invariant is the
subtle part: a writer that drains owns `writer` already, and a reader that comes
then is blocked, so that no reader is in when the drain ends.

*The control API.* A step of a handler is a step of Store or leaves its variables
alone, once it is known that a goroutine past the checks is at a call of its
plan (`OnPlan`), whose calls are `Requests`. What is proved of Store carries
over. `HandlerType` has the requests' types and what a place says of the reply.
`ChangeInv` follows a PATCH through its two calls: after the first, each cell
holds the value asked for, was not taken, or is in `dirty`; the read-back of a
range that a change was accepted for is admitted and fails in no round.
`ResetSoFar` says that the calls a reset has performed hold: each of their cells
has its first value or is dirty. Another goroutine's step makes dirty what it
stores (`Aside`), so both are kept; and the calls of a reset together touch all
of the lab (`ResetCovers`).

*The codec.* Bits and words survive packing (`PackedBits`, `PackedWords`) and
unpacking (`BitsBack`, `WordsBack`): a byte is eight bits with weights, a bit's
place is a quotient and a remainder by 8, and the solvers get one arithmetic
fact at a time. `SameLimits` compares the two sides' limits and shows that no
byte count exceeds 255. Then each function code is a case. `AnswersAgree` is the
way back: what the slave puts into a response the master accepts and takes
apart again, without an index out of range. The proof is over the real limits
(2000, 125, 1968, 123), which no run reaches.

*The exchanges.* `ResultTrue` is not inductive: the answer on a connection must
be known to be that to the request its master waits for. `ExchangeInv` says so
for each master's conversation: what is on its connection is `BuildPDU` of a
valid request of its own with the id it waits for (`OnItsWay`), or the slave's
`Response` to that with what the store answered (`Answered`); a request left
behind has no way back to a connection (`LeftBehind`); and a result is what was
parsed from those (`Shown`). With a foreign device nothing is known of the
answer, and `ParseResult` shows that values of the wrong number or kind do not
pass all the same. Each action keeps the invariant.

*The serial line.* The CRC is a recursion over the data and over the bits of a
word, and the provers see such a function as a CHOOSE. `RTULineProofs` therefore
starts with induction from the least-number principle, over a set instead of a
predicate, and with the existence of a function that satisfies a recursion
(`RecursionExists`); of the CRC the rest needs only that it is a word and that
`VerifyCRC` accepts what `AppendCRC` built (`Checksum`). `FramesFound` is about
any cut of a frame in two: the lengths that `readRTURequest` and
`readRTUResponse` work out from what they have are those that `BuildPDU` and
`Response` build, for every function code, outcome and exception.

`SerialInv` is the invariant. Its `Conversation` says of a port that was opened
on a line at rest, and has met no noise since: while Execute reads, either the
request or a tail of it is on its way (`Asking`) or the answer that the store
gave to this very request is (`Answering`), split anywhere between the slave,
the line and the master; otherwise there is nothing that a later request could
meet (`AtRest`). On a patient line the tail is the whole request and nothing can
fail, which is `QuietAnswered`. On an impatient one the slave may have lost the
start, but not serve the rest, as long as the requests hold no frame of their own
(`NoFrameInside`); the master then times out and closes the port. With
`StaysQuiet`, that gives `NoiselessInStep`. For `SentFramesServed`, `Whole` is
the least set that holds the empty line and, with a line, that line behind a
frame; what the slave has read and the line ahead of it are a frame in two parts
and a member of `Whole`, whichever ports were closed and opened meanwhile.

*The RTU sessions.* `SessionInv` gives every open handle one owner, by the
handler's program counter (`PortsInv`), lets only a handler with the mutex
execute (`MutexInv`), and ties the wait group to the goroutines and to a slave
or a `Close` that is there to wait for them (`LoopsInv`). It holds for any
overlap of handlers. `OneInv` adds, for a single operator, that what a handler
checked before it opened a port is still so when it stores it.

*The TCP slave.* The counters are sizes of sets of connections. `SlaveInv` adds
what makes them inductive: a connection is in one place, the queue, the accept
loop's hands or a handler (`OnePlace`), so that a handler that starts is a new
member, and there is nothing to count before `Start` and after the end
(`NoSlave`). `SizesFollow` gives what one handler's step does to both sizes; a
step that leaves the handlers alone leaves them alone.

*The token.* `TokenOnFile` alone is not inductive: a start that is about to write
must not have a rival that has come further. `TokenInv` says that as long as
nothing has gone unseen, a start that makes a token is the only one, the file is
absent or short, and the other process, if past its start, has its token from
the environment.

*The web UI.* `WebInv` is what the composition adds to its parts. A caller waits
for one call at a time, and the calls in the queue are those that are waited
for (`CallsInv`), so that a call that leaves the queue settles the poll or the
request that made it and no other: that is why each part keeps its own
specification (`PartsKept`). `LineInv` is the inductive form of `InStep`: until a
request is given up, what has been read, what is on the stream and what the
device still owes make one answer to the request in execution, in one of seven
divisions, and between requests there is none of it. `PortInv` ties the port to
the page's settings through a connection that is being opened or was refused.

*Only model-checked:* what noise does to a serial line, what an impatient slave
does with what it lost the start of, and all liveness. `InStep` and
`OnlySentFramesServed` are proved under the conditions in the table, for they do
not hold of every request and any disturbances, which RTU cannot help. It has no
mark for the start of a frame: a write of 50906 to address 768 of unit 8 holds,
from its second byte on, a whole frame for unit 16 with its CRC, and with that
request on an impatient line TLC finds a slave that lost one byte to a timeout
and serves the rest, against `OnlySentFramesServed`. (Such a request is what
`NoFrameInside` excludes; the requests of the run satisfy it.) And `InStep` with
noise rests on no damaged frame meeting the 16 bits of the CRC by chance. The run
shows both, with a disturbance and with short timeouts, for frames that do
neither.

The liveness properties are `EveryCallReturns`, `HandlersReturn`, `CloseReturns`,
`ConnectionsTaken` and `PollingStops`. Liveness under fairness and ENABLED are
beyond the proof system used here. No module has a RECURSIVE operator. Outside of
the serial line no proof needs induction over data: packing and unpacking are
functions with an explicit domain, and `EffectUpTo` is defined by the rounds it
has made.

## 5. Where the code differs from what it says

Each of these is a run that ends in a counterexample.

* `rtu_exclusive`: a handler looks at the other RTU session and then opens its
  own; two that overlap leave the master and the slave both open
  (`api/server.go:143`, `:182`), against `docs/architecture.md:15`.
* `rtu_served`: a reply that cannot be written ends the serving goroutine and
  leaves the session open: nothing serves the port, and it cannot be started
  again without being closed (`rtu.go:441`), against `README.md:13`.
* `short_bits`: a bit response that is shorter than the quantity asked for, but
  agrees with its own byte count, is indexed past its end (`client.go:170`,
  `rtu.go:289`), where the code has "truncated bit response" for it.
* `polls_overlap`: the timer starts a poll while one is under way
  (`page.tsx:190`), against "must not overlap requests"
  (`.agents/skills/modbus-console-web/SKILL.md:14`).

Some properties carry an exception that the code makes necessary, and that a
reader should know of:

* `TokenOnFile` and `TokenKept` except a start that did not see the file or that
  ran beside another first start: it replaces the token.
* `InStep` of RTULine excepts a port that was opened while an answer was under
  way, and `InStep` of WebRtu all that comes after a timeout: the browser's
  master discards nothing, so that the answer to the request given up is taken
  for that of the next if it has the same shape.
* `OffMeansClosed` excepts a `disconnect` under a request: the port is dropped
  first and cannot be closed then, and the page has no way to reach it again.
* `CloseReturns` needs the clients to stop.

Some hazards have no property. A request that timed out may be served after a
later one (`client.go:126`), a read error that persists makes the RTU loop spin
(`rtu.go:420`), an error of `Accept` is retried at once (`server.go:67`): nothing
promises otherwise. A status that mixes two instants (`api/server.go:202`) and a
baud rate read without its lock (`rtu.go:440`) reach a display or a pause only.
The answer to an injection fills a field that may by then belong to another
range, and the register map is labelled with an address that may have been edited
since (`page.tsx:97`, `:346`): these wait for the module `Panels`.

## 6. What is left out

*By abstraction:* formatting of results, log lines, latencies, statistics other
than the number of clients; headers and JSON, of which a request keeps what the
checks ask; the read-only endpoints (health, engine, profile, serial ports); the
baud rate and the pauses between RTU frames; in the browser's master the bytes
of a frame and a request that its `buildFrame` refuses; the relay's channels
beyond two in the runs (the proofs have any number). In the shutdown, the HTTP
server's `Shutdown` and the RTU sessions' `Close` are a step each before the TCP
slave's, and the port of the control API is one more reason for `Die`. In
`AutoPoll` the simulator's and the slave's panels are left out.

`Strict` is TRUE in `locked_store`, `exchange` and `rtu_line` and FALSE in
`control_plane`; the theorems about the store hold for both.

*Planned:* `Panels`, the selection and the values of the simulator's and the
slave's panels beside a call that is under way, over the calls of ControlPlane.

*Not modelled:* the Core client and the listing of serial ports, which are single
calls and keep no state; scripts, packaging and CI. Liveness on the serial line
was left out because the enabling conditions compute CRCs and a run took too
long.

## 7. Running it

```
tlc -config MCControlPlane.cfg MCControlPlane.tla    # any run: its cfg and module
tlapm ControlProofs.tla      # and OperatorProofs, LockProofs, ExchangeProofs,
                             # RTULineProofs, SessionProofs, CoreProofs, WebProofs
```

`PROJECT.json` lists the runs with their modules and configurations. The longest,
`web_rtu` and `core_process`, take about two minutes each.
