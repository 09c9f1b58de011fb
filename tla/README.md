# Verification of NanopiProject

TLA+ models of the programs in this repository, checked with TLC on small
instances and, for every safety property but those that a run refutes, proved with
TLAPS for every instance.

## 1. Inventory

The repository holds several small programs for the NanoPi board.

| Component | Source | State | Operations | What is hard |
|---|---|---|---|---|
| Smart car | `remotCar/Matrix-remotecar.c` | thread handles, two kill flags, `carDistance`, the disposition of SIGALRM, a SysV message queue, `/dev/hcsr04`, PWM and GPIO outputs | a receiver thread per client, the automode thread, the ultrasonic thread, two signal handlers | no locks; signal handlers shared by threads; a queue that outlives the process; failing calls |
| Command language | `remotCar/Matrix-remotecar.c` 220-418, `nanopi2/RemoteCar/Matrix-remotecar.c` 47-126 | none | a chain of `strstr` tests per `recv` | TCP has no message boundaries; one command occurs inside another |
| Accept loop | both cars and the bridge | the global `clifd`, the descriptor table | accept, create a thread with `&clifd`, copy, receive, close | the copy races the next accept; descriptors are reused |
| HC-SR04 driver | `Hcsr04/matrix_hcsr04.c` | two pins, an interrupt, `hcsr04_read_flag`, `valid_value`, two times | open, read, close, interrupt handler | an interrupt against a polling read; failing opens; late echoes |
| WiFi-UART bridge | `matrix_wifiuart/Matrix-wifiuart.c`, and a copy with other device names in `nanopi2/matrix_wifiuart` | a doubly linked ring of clients, `clifd`, a semaphore | append, delete, broadcast of the UART, client to UART | the ring is shared by all threads without a lock; `strlen` of binary data |
| Serial port set-up | `open_port`, `set_opt` in the three bridge sources | the `termios` of the port | open, set | parity and the eighth bit hang together |
| Earlier car's echo timing | `nanopi2/RemoteCar/Matrix-remotecar.c` 140-238 | two time stamps | trigger, `poll` twice | no timeout, pairing of edges |
| Single-client bridge | `matrix_wifiuart/Matrix-wificom.c` | `clifd` | accept once, receive and write, read and send | bytes before the accept and after the client has left |
| LED server | `nanopiWIFI/Matrix-wificom.c` | `led0` | accept once, `open`, `close` | the same stream as the cars |
| GPIO library in Go | `nanopi/S3C2451/*.go` | port registers | set direction, set and get data | read-modify-write of registers the kernel writes too |
| BLE and web server | `nanopiBLE/*.go`, `nanopiWebServer/*` | an LED | read, write, toggle | concurrent requests of two programs |

How they interact: clients send commands over TCP to the car's receiver threads;
these create or signal the automode thread, which creates the ultrasonic thread;
the ultrasonic thread reads the driver and sends verdicts (`safe`, `danger`)
through the message queue to the automode thread, which drives the motors.  The
bridges are programs of their own.  The web and the BLE server share the registers
of one GPIO port with each other and with the kernel.

What makes each component correct: the car acts on every change of the verdict,
in order, and never drives both directions; a MENU stops AUTO; the sensor has one
user and is given back; the command obeyed is the one sent; each connection has
one thread and that thread closes it only; a measured duration is the length of
one echo; the client list holds exactly the open connections; the bytes of a client
reach the UART in order and unmixed; a request switches the LED and nothing else.

## 2. Modules

| Module | Models | Checked through |
|---|---|---|
| `CarCommands` | the command chains and the outputs each command drives (constants only) | the modules below |
| `CommandStream` | one client, the TCP stream, the loop of `receiveCommand`, of `directControl` and of the LED server's `do_echo` | `MCCommandStream` |
| `CommandProofs` | theorems about `CommandStream` | `tlapm` |
| `RemoteCar` | the car: all threads, signals, queue, outputs, failures, restart | `MCRemoteCar` |
| `Avoidance` | what obstacle avoidance promises | `CarAvoids` |
| `CarAvoids` | the car implements `Avoidance` (refinement) | `MCCarAvoids` |
| `RemoteCarProofs` | theorems about `RemoteCar` and `CarAvoids` | `tlapm` |
| `AcceptHandoff` | the accept loop shared by the servers | `WifiUart` and `SerialBridge`, which instantiate it |
| `Hcsr04` | the driver, its interrupt, the sensor | `MCHcsr04` |
| `Hcsr04Proofs` | theorems about `Hcsr04` | `tlapm` |
| `EchoPoll` | the earlier car's echo timing, the sensor, the clock | itself |
| `EchoPollProofs` | theorems about `EchoPoll` | `tlapm` |
| `ClientList` | what the client list promises | `ClientRing` |
| `ClientRing` | the ring in the heap, and that it implements `ClientList` | `MCClientRing` |
| `ClientRingProofs` | theorems about `ClientRing` | `tlapm` |
| `WifiUart` | the bridge: `AcceptHandoff` and `ClientRing` joined with the UART thread | `MCWifiUart` |
| `WifiUartProofs` | theorems about `WifiUart`, and about `AcceptHandoff` on the way | `tlapm` |
| `UartPort` | `open_port`, `set_opt`, and what the settings make of a byte (constants only) | `SerialBridge` |
| `SerialPipe` | what a "transparent" bridge promises for the bytes of the clients | `SerialBridge` |
| `SerialBridge` | the bytes through both bridges: `AcceptHandoff` joined with the loops around `recv` and `write`; that they implement `SerialPipe` | `MCSerialBridge` |
| `SerialBridgeProofs` | theorems about `SerialBridge` | `tlapm` |
| `LedSwitch` | the web and the BLE server, the Go library, the registers, the kernel | `MCLedSwitch` |
| `LedSwitchProofs` | theorems about `LedSwitch` | `tlapm` |

An operator marked "mutant" is a plausible mistake in the definition after it;
no specification uses it.  It documents which mistake a property excludes.

### How state and actions correspond to the code

*CarCommands.*  A command is a sequence of words (`LEFTUPSTART` is `<<"LEFT",
"UP", "START">>`) and `strstr` is "occurs in a row".  This keeps the one thing
the chain depends on: which command occurs inside which.  A word cut by the
network matches nothing.

*CommandStream.*  The three servers read the same stream, so one run compares them.
The LED server's buffer holds five bytes and its `recv` asks for 4096: every word
fits, two do not.  A `recv` of more overruns the buffer (`overrun`), and since `memset`
clears only the five bytes, the LED may then do anything for good.  The property about
the LED is claimed of a client that waits and whose commands are single words.  The
cars' buffer of 1024 bytes bounds what their `recv` is let return.

*RemoteCar.*  The variables carry the names of the globals.  An action is one
shared access of the code; a control point (`rpc`, `autoPc`, `ultraPc`) stands
between two accesses that another thread could separate, in particular between
the test of a handle and the `pthread_create` that sets it, and between the stop
and the set call of a reversal.

- `Die` ends the process, from outside, by the default action of SIGALRM, or by
  undefined behaviour; the queue and the outputs stay, `Relaunch` runs `main`
  again, `leftover` counts the notices of the process before.
- `pending` holds the workers with an undelivered SIGALRM.  The worker takes no
  other step before it handles it (`DeliverAuto`, `DeliverUltra`), and the
  process-wide `handler` decides what happens.  A signal that finds its thread
  blocked in `msgrcv` or `msgsnd` makes the call fail with EINTR.
- `autoModePthreadKill` signals `ultrasonicThread`.  If the ultrasonic thread itself
  runs it, because a MENU found it created but its own handler not yet registered, its
  next step is to handle that signal, and so on for ever (`SignalsItself`).
- Undefined behaviour is a choice: `pthread_kill` of the handle 0, or of a
  detached thread that has ended, does nothing, signals the thread that has the
  handle now, or crashes.
- A reading is its verdict; `IsNews` is the pair of tests against `carDistance`.
- `Faults` names the calls that may fail.  A failing output call is printed and
  ignored by the code, hence `Write` may leave outputs unchanged.

`mode`, `carDirection` and `tractionThread` are written or declared and never
read, and are left out, as are printed texts, the waits (`usleep`), the size 8
given to `msgsnd` for four bytes of data, and the contents of the first receive
buffer before it is first cleared.

*AcceptHandoff.*  The kernel's descriptor table gives out the lowest free
descriptor.  `overtaken` records that main stored a new descriptor before a
thread had copied the old one, `unserved` that `pthread_create` failed; in both
cases a connection is left without a thread, and the properties about threads say
what holds otherwise.  What is said of the list holds in these cases too: main
appends a connection whether or not a thread comes to serve it.  It is checked as a
part of `WifiUart` and of `SerialBridge`, whose main loop is the same.

*Hcsr04.*  Claims of pins and interrupt are separate variables, requested and
freed one by one; open can fail at each request and at the directions in between, and
keeps what it has by then.  The sensor answers a trigger after any delay or never; the
interrupt runs after any delay; the handler reads the level at that time.
`early`, `unheard`, `missed` and `leaked` record the circumstances the
properties except.

*EchoPoll.*  The kernel keeps one flag per open sysfs value: an edge sets it, a read
clears it, `poll` returns while it is set, so two edges before a read are one
event.  Time is `tv_nsec` in coarse ticks.  `late` and `turned` say of the current
reading that time passed before a stamp, or that a second ended between the
stamps; `lost` and `silent` are what can leave the thread waiting.  A failed write
of the trigger pin or of `edge` is the silence of the sensor.  A failed `poll`
(`PollFails`) leaves `revents` as it was, or clears it, and the loop goes on; `failed`
records it, and the properties speak of the time before.

*ClientRing, WifiUart.*  `ClientRing` has one operator per branch of
`appendList` and `deleteNode`, on records with the fields of the C struct.
`WifiUart` joins it to `AcceptHandoff`: main accepts, appends, creates; a client
thread deletes, then closes.  An operation on the list has a begin and an end;
if two overlap, or the UART thread reads a freed node, `raced` is set and the
model goes no further but for the death of the process.  The outcomes of such a
race (a lost node, a corrupt ring) are not enumerated, and no property speaks of
states after it.

*UartPort, SerialBridge.*  `SetOpt` has the switches of `set_opt`, including the
defaults; a byte is a number, the line keeps as many bits as the port is set to, and
ISTRIP takes the eighth off what is read.  `program` is chosen in `Init`: the two
bridges differ in how they accept, in the semaphore and in what they write
(`strlen(mesg)` bytes against the `n` received).  The threads of `wifiuart` get their
connections as in `AcceptHandoff`: through `clifd`, which the next accept may
overwrite first, so that one connection may have two threads, which share its bytes,
and another none.  `shared` remembers the clients on whom two threads have waited.
`wificom` accepts once and its main thread is the only loop.  `write` puts its bytes on
the line one at a time, so writes of two threads can mix; it does not fail.  The read
and the send of the UART thread are one action.  `recv` returns any part of the stream
that the buffer holds (`Fits`): what a longer one overruns (`mesg[5]` of the single
bridge, `recv` asks for 4096) is undefined and left out.  `fresh` marks the buffers not
yet cleared, behind whose first message `strlen` may run on into `Noise`.  The test
`n == EINTR` is never true, because `recv` returns -1.  That a thread which does not
find its entry in the client list ends without closing is a choice of `Close` here; when
it happens is in `WifiUart`.

`SerialPipe` is what is left of a "transparent" bridge: carriers take runs of a
client's bytes and deliver each in one piece.  A client with one carrier keeps its
order.  A client in `shared` does not: two threads may receive one after the other and
get the semaphore in the other order.  What `wifiuart` loses after a zero byte and may
add to a first message is part of this specification, so the refinement does not
exclude it; for `wificom`, which counts what it received, the pipe is exact.

*LedSwitch.*  A register is two bits, that of PF2 and that of all other pins, and a
request is status, load, store.  `torn` and `overlapped` mark the two windows in which
an update is lost, which no lock of the code closes.  A GET, a BLE read and a write
without `LedSwitch` change nothing and are left out.

## 3. Runs

| Run | Shows | Bounds |
|---|---|---|
| `CommandStream` | what is obeyed is an in-order part of what was issued, never a composite command, and for drive commands what the earlier car would obey; a client that waits is obeyed, by the LED server too if its commands fit | three commands of the vocabulary in `MCCommandStream`, every cut of the stream |
| `AutoMenu` | the car implements `Avoidance` step by step (`AvoidsObstacles`) and acts on every verdict (`ActsOnEveryVerdict`); the motors show the verdict, settle where the readings settle, and are never opposed; stop requests are kept; an ultrasonic thread asked to stop gives the sensor back unless it waits in `msgsnd` for a reader that has gone, or signals itself (`KilledUltraCloses`), which it then does for ever (`SelfSignalIsForever`) | one client, AUTO and MENU at any time, a queue of three, two automode threads (the second would be one too many) |
| `TwoClients` | notices alternate and the sensor has one holder when clients race; a MENU never kills an armed process | two clients, two automode, two ultrasonic threads, failing `open` and `msgsnd` |
| `Commands` | types; notices alternate across failures and restarts | one client, every command, every fault, restarts |
| `Hcsr04` | one pulse per duration, exclusive claims, final leaks | two callers, two polls per read |
| `EchoPoll` | a reading stamped in time is the width of the echo, less a second if one ended meanwhile; the thread triggers into no echo, hangs only after a merged edge, a silent sensor or a failed open, and then for good, all until a poll fails | a second of four ticks, echoes of up to two |
| `ClientRing` | the ring is closed, leaks nothing, implements the list | four nodes, two descriptors and -1 |
| `WifiUart` | one thread per connection, closing only its own; only open descriptors are listed, each connection once; each client hears each message once; who left is removed and closed | two connections, two threads, two descriptors, two nodes; `accept` and `pthread_create` may fail |
| `SerialBridge` | both bridges implement `SerialPipe`, whatever the races of the hand-off; what a served client sends is received, every thread gets the semaphore and comes back to `recv` (`SentIsWritten`); every byte of the single client leaves on the line (`AllBytesLeave`), and it sees the UART unchanged | a client of two bytes and one of one byte, two threads, two descriptors, two bytes from the UART, out of 0 and 193; set-up and thread creation may fail (a failed `accept` is in `WifiUart`, and in the theorems) |
| `LedSwitch` | the servers change no pin but PF2, and each request switches it, outside the marked windows | two servers, three requests at a time |

The bounds are small because what can go wrong needs few actors: a race needs
two threads of a kind, a stale handle one thread that has ended, reuse of a
descriptor one more connection than there are descriptors, and each branch of
the ring one, two or three nodes; two messages mix as soon as one has two bytes;
a lost switch takes two requests.  A queue of one to three notices is full often.
The two bytes are the one `strlen` stops at, and one with the eighth bit set.  `SYMMETRY` is used
for safety only, on threads, clients, callers and nodes that no definition tells
apart.  Where a run turns deadlock checking off, the
system may stop: the process is dead, all threads have ended or wait for a client
that need not come, or the bound on threads or commands is used up.

The properties of `AutoMenu` are claimed of one client: with two, test (line 246)
and creation (247) of the automode thread are not atomic, `OneAutoThread` is
false although `README.md:220` speaks of one process, and with it the others
fail.
`ActsOnEveryVerdict` and `MotorsTrackObstacle` speak of an automode thread that
survived the MENUs, once the MENUs have ended: a client that sends MENU without
end can keep the thread in its signal handler for ever.  For the same reason
`KilledUltraCloses` speaks of the time after the last MENU.  The two ways in which the
sensor is not given back need one client and one automode thread: the queue filled up
while the automode thread was leaving, or the MENU came between the creation of the
ultrasonic thread (line 146) and its `signal` (450).

Some things the models show and no run singles out.  With no client the ring of
the bridge still has its head node, so the test of `Matrix-wifiuart.c:297` ("Node
list is empty") is never true and the bytes are sent to descriptor 0
(`EveryClientOnce` states it as the `<<0>>` of an empty list).  `README.md:133`
reports negative distances and a hang of unknown cause in the earlier car;
`PromptReadingIsEcho`, `HangsOnlyOnLoss` and `NoReadingAfterLoss` give the causes:
only `tv_nsec` is subtracted, and a thread that is late for an edge by a whole
echo sees two edges as one and then polls without timeout for a third.
The notice of a changed distance goes out at the first such reading
(`remotCar/Matrix-remotecar.c:471-492`), although `README.md:215` says it waits for the next to
confirm it.  `matrix_wifiuart/README.md:5` names odd parity where `main` calls
`set_opt(uartfd,9600,8,'N',1)`; had it asked for odd parity, `set_opt` would set
ISTRIP and `ClientSeesUart` would be false.  The bridge that
`nanopi2/matrix_wifiuart/README.md` calls transparent ends a message at its first
zero byte and may add bytes nobody sent to the first message of a thread; `SerialPipe`
says how far both go.  The single-client
bridge and the LED server never accept again: after their client has left they loop
on a `recv` that returns 0.

### Disagreements with the documents

| Run | What the document says | What the code does |
|---|---|---|
| `AutoAgain` | entering AUTO creates the thread again (`README.md:237`) | line 264 tests `ret`, the result of `strstr`, instead of `result`: `autoModeThread` is never reset, and AUTO after MENU creates nothing |
| `MenuKillsAuto` | entering MENU kills the AUTO thread (`README.md:237`) | the ultrasonic thread's `signal` (450) replaced the handler of line 142 for the whole process: the automode thread runs the wrong handler and goes on |

### Fairness

Threads of a process are scheduled by the kernel, so each thread that can step
does eventually (weak fairness per thread), and signals are delivered.  Clients,
the UART, the user who kills or restarts the process, and the calls of the
driver's users are not fair.  A thread blocked in `recv`, `msgrcv`, `msgsnd` or
`poll` is not enabled and owes nothing.  In `RemoteCar` a receiver owes a step only
inside a command.  In `EchoPoll` time passes, a begun echo ends, and a trigger is
answered or explicitly left unanswered (`Mute`); no `poll` has to fail.  In `SerialBridge` each loop and the UART
thread are fair, clients and the UART are not.  A loop's fairness is weak although
`sem_wait` blocks: messages are few (`MaxSent`), so the others stop taking the
semaphore.  That a thread could be starved by others that never stop is therefore
not excluded by the run, nor by POSIX.  `Hcsr04` and
`LedSwitch` state none.

## 4. Proofs

Every invariant, every action property and every refinement of the passing runs is
also a theorem, `Spec => ...`, for all values of the constants that the assumptions
of the modules allow.  The runs use `FairSpec` where they check liveness; it implies
`Spec`.  Each theorem rests on an inductive invariant stronger than the property.

### The car (`RemoteCarProofs`)

For any sets of clients and threads, any queue capacity, all faults and restarts:

- `TypeCorrect` (`TypeOK`) is inductive as it stands; `TypeStep` goes through the
  actions.
- `DeviceExclusive` (`DeviceHeldByOne`).  In `DeviceInv` holding is determined by the
  control point, and only `UltraOpen`, `UltraClose` and `Die` touch both.
- `VerdictsTold` (`NoticesAlternate`).  A notice is sent at a control point later than
  the test that it is news.  `NoticeInv` adds that at `send` the verdict differs from
  `carDistance`, which stays true only because no other ultrasonic thread writes it
  meanwhile, hence `DeviceInv`.
- `MeasuringCarSurvives` (`ArmedProcessSurvives`), where nobody kills the process from
  outside.  `ArmedInv`: an ultrasonic thread has left its handle, and once it is past
  `signal()` SIGALRM has a handler, be it the other thread's, and nothing but a restart
  takes either back.

For one client (`OneClient`: there is one receiver), which the properties of `AutoMenu`
presuppose:

- `OneClientOneAuto` (`OneAutoThread`).  `SoleAuto`: the test and the creation of the
  automode thread are two steps, but of the same receiver.
- `OneClientKeepsRequests` (`StopRequestsKept`), without restarts.  `StartOrder`:
  a thread registers its handler before it creates the next one, and until then nobody
  can have asked it to stop, so the flag it clears when it starts is clear.
- `NeverOpposed` (`NoOpposedDrive`), when it only changes modes and writes succeed
  (`ModesOnly`, `WritesSucceed`).  `StopBeforeSet`: before the thread, the only one, sets a
  direction it has stopped the other, and nobody sets that in between.
- `MotorsShowVerdict` (`VerdictReachesMotors`), on the same conditions and without a
  restart.  `MotorInv`: a thread at a motor call acts on the notice it read last, and
  between two notices the outputs show the last one.
- `CarImplementsAvoidance` (`AvoidsObstacles`), on these conditions: `AvoidanceStep` shows
  that each action is a step of `Avoidance` under the mapping of `CarAvoids` or, by
  `Stutter`, changes nothing of it.
- `OneClientSelfSignal` (`SelfSignalIsForever`), without these conditions.  `SelfInv`: a
  signal is pending for a living thread only, and from the moment the ultrasonic thread
  has registered, its handler is the installed one.  `OthersSignal` shows that neither
  the receiver nor the automode thread, which has nothing left to register, changes the
  handler under it.

The hypotheses are conditions under which the properties are claimed, not assumptions
of the model: `AutoMenu` is an instance of them, and without each of them the property
it stands before is false (two clients start two automode threads, a direct command
or a failed write leaves a motor running, a restart takes over the outputs and the
queue and has no thread to read a request).

### The driver and the earlier car's echo timing

`Hcsr04Proofs`, for any number of callers and any limit of polls:
`OpenersHoldAll`, `CloseFreesAll` and `LeaksAreFinal` (`OpenedHoldsAll`,
`ClosedIsFree`, `LeakIsFinal`).  `Holds` ties each claim to the places of open and
close at which its owner may be; without it, a close could free a pin that another
caller claimed.  `Tidy` is the converse while no open has failed half way, and
`Stuck` says that after one somebody outside the device keeps the trigger pin, which
then stops every open.  `OnePulseIsMeasured` (`MeasuresOnePulse`) needs that only one caller
reads (`OneReader`, from `Holds`), so nobody lowers the flag under it (`Flagged`).
`Recorded` says that, unless an edge was lost, the rise of an echo is recorded or about
to be, and is recorded when it falls.

`EchoPollProofs`, for any length of second and echo that `EchoAssumption` allows:
`PromptReadingsAreEchoes`, `EchoesEndBeforeTriggers` and `LossesAreFinal`
(`PromptReadingIsEcho`, `TriggersAfterEcho`, `NoReadingAfterLoss`).  `InStep` says for each
control point how far the echo can be, so that after a lost edge the thread waits at a
`poll` for one that will not come, until a `poll` fails; `Accurate` says what the stamps are worth while none
was late, less a second that ended.

### The commands (`CommandProofs`)

For streams of any length and every way to cut them:

- `CompositesAreDead` (`CompositesNeverObeyed`): a composite command has, earlier in the
  chain, the command of its last two words (`CompositeTails`), which `strstr` finds
  wherever it finds the three (`TailOccurs`), so the first test that succeeds is never
  a composite (`DispatchNeverComposite`, from `MinIsLeast`).
- `EarlierClientsObeyed` (`SameAsEarlierCar`): without the modes and the composites the
  later chain has the tests of the earlier one in the same order (`SameOrder`), and
  these two are what is never chosen (`SameDispatch`).
- `InOrderObeyed` (`ObeysInOrder`): every word of the stream has an origin, a place in an
  issued command (`Origin`); a direction is followed by the next word of its own
  command, and after an ending come words of later commands only.  Every command is
  directions and one ending (`CommandsAreShaped`), so what `strstr` finds lies in one
  issued command (`OccursInOne`), and all that was obeyed comes before what is unread
  (`OrderInv`), because `memset` keeps nothing.
- `PacedClientObeyed` (`PacedClientIsObeyed`): while the client waits and nothing is cut,
  at most one command is unread, and it is the whole stream (`PacedInv`); the LED
  server's buffer is then overrun only by a command of several words.  A command
  alone in the buffer is obeyed as itself or, if composite, without its first word
  (`OccursInCommand`, `CarObeys`), and no word of the LED is in a command of the car.

### The client list and the bridge (`ClientRingProofs`, `WifiUartProofs`)

`ClientRingProofs`, for any number of nodes and from `RingAssumption`:
`RingWellLinked`, `RingLeaksNothing` and `RingKeepsTheList` (`WellLinked`,
`NoLeakNoDangling`, `KeepsTheList`).  The invariant is that there is a sequence of distinct
nodes whose neighbours are linked both ways, from the head to the tail (`RingOf`), and
that the allocated nodes are its elements.  That the walk of the C code visits this
sequence is an induction over its length; the library's induction takes an operator,
which no prover instantiates, so it is done from the least number of a set that is
well founded (`IntervalInduction`, `WalkGoesRound`).  An append adds a node at the end (`AppendStep`), a
deletion cuts one out (`Cut`), and cutting the first node with a descriptor is what
the abstract list does (`RemoveFirstIsRemoveAt`).

`WifiUartProofs`, from `BridgeAssumption`, in three layers.  `Live` adds to the ring's
invariant where each open descriptor is: about to be listed by main, in the list, or
about to be closed by the thread that deleted it, and in one of these only (`ListInv`);
`ListedStayOpen` and `OneEntryEach` (`ListedAreOpen`, `ListedOnce`) follow, also after lost
hand-offs.  `HandoffInv` says that, while no `clifd` was overwritten, an open descriptor
has one user, and that what is used is open, and, while every thread could be created,
conversely; a thread of the bridge that does not find its entry ends without closing,
so this needs `ListInv` (`NothingToClose`).  `OneThreadEach` and `ThreadsCloseTheirOwn`
(`OneThreadPerConnection`, `ClosesOnlyItsOwn`) follow, and `CarsServeEach` is the same for
`AcceptHandoff` alone, the loop of the cars.  `WalkInv` says that the UART thread has sent
to the entries before the node it is at; `EveryEntryOnce` (`EveryClientOnce`) follows.

### The bytes (`SerialBridgeProofs`)

For any clients, threads, bytes, noise and failures, from `SerialAssumption`:

- `UartIsSeen` (`ClientSeesUart`), because the port as `main` sets it up keeps eight bits
  (`EightBitsKept`) and the single client, once accepted, gets what was read (`BackInv`).
- `BridgesCarryAsPipe` (`CarriesAsPipe`).  A carrier takes at `Recv` and delivers at
  `BeginWrite`, at which `strlen` has fixed what will be written and, in `wifiuart`, the
  semaphore is held; `Send` is `Send`, a second thread that waits on a connection is
  `Share`, and every other action leaves the pipe alone.  It needs that one loop writes
  at a time (`OneWriter`: the semaphore in `wifiuart`, the only loop in `wificom`, `Single`),
  for otherwise the bytes of two messages mix, and that two loops hold bytes of one
  client only if it is in `shared` (`SharedKnown`).  What `strlen` counts is `Arrives`, by
  the least index of a zero (`UpToZeroStops`, `CountedArrives`).

### The LED (`LedSwitchProofs`)

`ServersKeepPins` and `RequestsSwitch` (`OtherPinsKept`, `EveryRequestSwitches`) for any
number of servers and requests, from `DistinctAssumption`.  `CopiesCurrent` says that a
register about to be stored has the kernel's bit, `OneSwitching` that without an overlap
one request at most is between its reading and its store, and read the level there is.

### Only model-checked

Liveness, because it depends on fairness and ENABLED, which the prover does not
treat: `KilledUltraCloses`, `ActsOnEveryVerdict`, `MotorsTrackObstacle`,
`HangsOnlyOnLoss`, `LeftIsUnlisted`, `SentIsWritten`, `AllBytesLeave`.

## 5. Not modelled, and the plan

Next, in this order:

1. The list operations of `WifiUart` statement by statement, with the rings that
   overlapping operations leave.
2. Theorems that say more of what is there: the parts of the liveness properties that
   are safety (that no step undoes what `ActsOnEveryVerdict` and `LeftIsUnlisted` wait
   for), and the theorems of one client for clients whose commands do not overlap.

Left out for good, because they keep no state that a property is about: the
set-up of the LED server (pin, socket, the single accept); the mapping of the
registers in Go (`CreatePort`, `GetMMap`, `FreePort`) and its setters that nobody
calls; the driver's registration (`hcsr04_init`, `hcsr04_exit`) and its empty `write`;
`operateLed` of the single-client bridge, which nobody calls; the page template,
Makefiles and the notes in `remotCar/Note`.  The GATT package of the BLE server is not
in the repository.
