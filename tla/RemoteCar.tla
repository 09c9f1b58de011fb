----------------------------- MODULE RemoteCar -----------------------------
(***************************************************************************)
(* The smart car of remotCar/Matrix-remotecar.c: one process in which      *)
(*                                                                         *)
(*   - a receiver thread per client runs receiveCommand,                   *)
(*   - the automode thread drives the motors from the notices it reads,    *)
(*   - the ultrasonic thread measures the distance and sends the notices.  *)
(*                                                                         *)
(* They share global variables without a lock, a SysV message queue that   *)
(* the kernel keeps when the process dies, the single-opener ultrasonic    *)
(* device, the motor outputs, and the process-wide disposition of SIGALRM. *)
(*                                                                         *)
(* One action is one shared access of the code.  Steps whose effects no    *)
(* other thread can tell apart (the msgsnd and the carDistance update that *)
(* only its own thread reads) are one action.                              *)
(***************************************************************************)
EXTENDS CarCommands

CONSTANTS
  Receivers,     \* client connections (threads running receiveCommand)
  AutoThreads,   \* bound: the automode threads that can ever be created
  UltraThreads,  \* bound: the ultrasonic threads that can ever be created
  NoThread,      \* the pthread_t 0 of an unset handle
  Buffers,       \* the word sequences a recv may return
  QueueMax,      \* capacity of the message queue (msg_qbytes)
  Faults,        \* the calls that may fail: see FaultKinds
  MayRestart     \* the process may be killed and started again

FaultKinds == {"create", "write", "open", "msgget", "msgsnd"}
Workers == AutoThreads \cup UltraThreads

ASSUME ThreadsAssumption ==
  /\ AutoThreads \cap UltraThreads = {}
  /\ NoThread \notin AutoThreads \cup UltraThreads

ASSUME EnvironmentAssumption ==
  /\ Buffers \subseteq Seq(Words)
  /\ QueueMax \in Nat \ {0}
  /\ Faults \subseteq FaultKinds
  /\ MayRestart \in BOOLEAN

VARIABLES
  running,            \* the process is alive
  rpc,                \* control of the receiver threads
  autoPc,             \* control of the automode threads
  ultraPc,            \* control of the ultrasonic threads
  autoModeThread,     \* handle of the last automode thread created
  ultrasonicThread,   \* handle of the last ultrasonic thread created
  autoModeKillFlag,
  ultrasonicKillFlag,
  handler,            \* disposition of SIGALRM, shared by all threads
  pending,            \* the workers with a SIGALRM not yet delivered
  carDistance,        \* the verdict last sent
  distance,           \* the verdict of the last reading
  deviceOwner,        \* the thread that has /dev/hcsr04 open
  queue,              \* the message queue
  out,                \* level of the motor outputs
  leftover,           \* history: notices of an earlier process at the head
  lastNotice          \* history: last notice of this process read so far

signals == <<autoModeKillFlag, ultrasonicKillFlag, handler, pending>>
threads == <<rpc, autoPc, ultraPc>>
handles == <<autoModeThread, ultrasonicThread>>
sensor  == <<carDistance, distance, deviceOwner>>
notices == <<queue, leftover, lastNotice>>
vars == <<running, threads, handles, signals, sensor, notices, out>>

DISTANCE == {"safe", "danger"}
ReceiverPc == {"closed", "recv", "auto", "autoCreate", "menu"}
AutoPc == {"none", "entry", "register", "spawnTest", "spawn", "forward",
           "msgget", "receive", "stopBackward", "setForward",
           "stopForward", "setBackward", "check", "exited"}
UltraPc == {"none", "entry", "open", "register", "msgget", "read", "send",
            "check", "close", "exited"}
Handlers == {"default", "autoModePthreadKill", "ultralsonicPthreadKill"}

AutoAlive(t)  == autoPc[t] \notin {"none", "exited"}
UltraAlive(u) == ultraPc[u] \notin {"none", "exited"}

Init ==
  /\ running = TRUE
  /\ rpc = [r \in Receivers |-> "closed"]
  /\ autoPc = [t \in AutoThreads |-> "none"]
  /\ ultraPc = [u \in UltraThreads |-> "none"]
  /\ autoModeThread = NoThread
  /\ ultrasonicThread = NoThread
  /\ autoModeKillFlag = FALSE
  /\ ultrasonicKillFlag = FALSE
  /\ handler = "default"
  /\ pending = {}
  /\ carDistance = "safe"
  /\ distance = "safe"
  /\ deviceOwner = NoThread
  /\ lastNotice = "safe"
  /\ queue = << >>
  /\ leftover = 0
  /\ out = [o \in Outputs |-> FALSE]

----------------------------------------------------------------------------
(* The process ends: its threads and descriptors are gone; the queue, the  *)
(* outputs stay.                                                           *)

Die ==
  /\ running' = FALSE
  /\ rpc' = [r \in Receivers |-> "closed"]
  /\ autoPc' = [t \in AutoThreads |-> "none"]
  /\ ultraPc' = [u \in UltraThreads |-> "none"]
  /\ pending' = {}
  /\ deviceOwner' = NoThread
  /\ UNCHANGED <<handles, autoModeKillFlag, ultrasonicKillFlag, handler,
                 carDistance, distance, notices, out>>

Kill == MayRestart /\ running /\ Die

\* main sets the globals again.  A pin that is made an output again starts
\* low; a PWM channel keeps going.
Relaunch ==
  /\ MayRestart /\ ~running
  /\ running' = TRUE
  /\ autoModeThread' = NoThread
  /\ ultrasonicThread' = NoThread
  /\ autoModeKillFlag' = FALSE
  /\ ultrasonicKillFlag' = FALSE
  /\ handler' = "default"
  /\ carDistance' = "safe"
  /\ distance' = "safe"
  /\ lastNotice' = "safe"
  /\ leftover' = Len(queue)
  /\ out' = [o \in Outputs |-> o \in {"PWM0", "PWM1"} /\ out[o]]
  /\ UNCHANGED <<threads, pending, deviceOwner, queue>>

----------------------------------------------------------------------------
(* Signals.  A worker with a pending SIGALRM runs the handler before it    *)
(* takes another step: the kernel delivers it at the end of the system     *)
(* call or of the time slice the thread is in.                             *)

(* The handlers, run by a worker; the signal they handle is no longer in p. *)
(* pthread_kill of a finished ultrasonic thread does nothing: the thread is *)
(* never joined, so its handle stays valid.  When the worker is the         *)
(* ultrasonic thread itself, it has the signal again.                       *)
DispositionAfterSysV(h) == "default"   \* mutant: a handler runs only once
DispositionAfter(h) == h               \* signal() of glibc keeps the handler

autoModePthreadKillOther(p) ==   \* mutant: a thread does not signal itself
  /\ pending' = p \cup {u \in UltraThreads : /\ u = ultrasonicThread /\ UltraAlive(u)
                                             /\ u \notin pending \ p}
  /\ autoModeKillFlag' = TRUE
  /\ handler' = DispositionAfter(handler)
  /\ UNCHANGED ultrasonicKillFlag

autoModePthreadKill(p) ==
  /\ pending' = p \cup {u \in UltraThreads : u = ultrasonicThread /\ UltraAlive(u)}
  /\ autoModeKillFlag' = TRUE
  /\ handler' = DispositionAfter(handler)
  /\ UNCHANGED ultrasonicKillFlag

ultralsonicPthreadKill(p) ==
  /\ pending' = p
  /\ ultrasonicKillFlag' = TRUE
  /\ handler' = DispositionAfter(handler)
  /\ UNCHANGED autoModeKillFlag

RunHandler(p) ==
  \/ handler = "autoModePthreadKill" /\ autoModePthreadKill(p)
  \/ handler = "ultralsonicPthreadKill" /\ ultralsonicPthreadKill(p)

\* The default action of SIGALRM ends the process; pthread_kill of the handle
\* 0 is undefined behaviour, which may crash it.
SignalMayKill ==
  \/ handler = "default"
  \/ handler = "autoModePthreadKill" /\ ultrasonicThread = NoThread

\* msgrcv fails with EINTR when the signal finds the thread blocked in it.
DeliverAuto(t) ==
  /\ running /\ t \in pending
  /\ \/ SignalMayKill /\ Die
     \/ /\ RunHandler(pending \ {t})
        /\ \/ autoPc' = autoPc
           \/ /\ autoPc[t] = "receive" /\ queue = << >>
              /\ autoPc' = [autoPc EXCEPT ![t] = "exited"]
        /\ UNCHANGED <<running, rpc, ultraPc, handles, sensor, notices, out>>

\* So does msgsnd when the queue is full.
DeliverUltra(u) ==
  /\ running /\ u \in pending
  /\ \/ SignalMayKill /\ Die
     \/ /\ RunHandler(pending \ {u})
        /\ \/ ultraPc' = ultraPc
           \/ /\ ultraPc[u] = "send" /\ Len(queue) = QueueMax
              /\ ultraPc' = [ultraPc EXCEPT ![u] = "close"]
        /\ UNCHANGED <<running, rpc, autoPc, handles, sensor, notices, out>>

----------------------------------------------------------------------------
(* The motor outputs.  A failed write is printed and otherwise ignored.    *)

Write(outputs, level) ==
  \E done \in IF "write" \in Faults THEN SUBSET outputs ELSE {outputs} :
     out' = [o \in Outputs |-> IF o \in done THEN level ELSE out[o]]

----------------------------------------------------------------------------
(* The receiver threads: receiveCommand.                                   *)

Accept(r) ==
  /\ running /\ rpc[r] = "closed"
  /\ rpc' = [rpc EXCEPT ![r] = "recv"]
  /\ UNCHANGED <<running, autoPc, ultraPc, handles, signals, sensor, notices, out>>

\* recv returned 0 or an error: the descriptor is closed, nothing else.
Disconnect(r) ==
  /\ running /\ rpc[r] = "recv"
  /\ rpc' = [rpc EXCEPT ![r] = "closed"]
  /\ UNCHANGED <<running, autoPc, ultraPc, handles, signals, sensor, notices, out>>

RecvDrive(r, buf) ==
  LET cmd == Dispatch(buf)
  IN  /\ running /\ rpc[r] = "recv"
      /\ cmd \in DriveCommand
      /\ Write(Targets(cmd), Level(cmd))
      /\ UNCHANGED <<running, threads, handles, signals, sensor, notices>>

RecvMode(r, buf) ==
  LET cmd == Dispatch(buf)
  IN  /\ running /\ rpc[r] = "recv"
      /\ cmd \in {<<"AUTO">>, <<"MENU">>}
      /\ rpc' = [rpc EXCEPT ![r] = IF cmd = <<"AUTO">> THEN "auto" ELSE "menu"]
      /\ UNCHANGED <<running, autoPc, ultraPc, handles, signals, sensor,
                     notices, out>>

\* if(autoModeThread == 0)
TestAuto(r) ==
  /\ running /\ rpc[r] = "auto"
  /\ rpc' = [rpc EXCEPT ![r] = IF autoModeThread = NoThread
                               THEN "autoCreate" ELSE "recv"]
  /\ UNCHANGED <<running, autoPc, ultraPc, handles, signals, sensor, notices, out>>

CreateAuto(r, t) ==
  /\ running /\ rpc[r] = "autoCreate"
  /\ rpc' = [rpc EXCEPT ![r] = "recv"]
  /\ \/ /\ autoPc[t] = "none"
        /\ autoPc' = [autoPc EXCEPT ![t] = "entry"]
        /\ autoModeThread' = t
     \/ /\ "create" \in Faults
        /\ UNCHANGED <<autoPc, autoModeThread>>
  /\ UNCHANGED <<running, ultraPc, ultrasonicThread, signals, sensor, notices, out>>

\* The test after pthread_kill reads ret, the result of strstr, which is
\* never NULL on this branch: every kill is taken to have failed.
KillReportedOk == FALSE

\* The MENU branch.  The automode thread is detached: the handle of one that
\* has finished is undefined behaviour (nothing, a crash, or the signal goes
\* to the thread that now has the handle).
Menu(r) ==
  /\ running /\ rpc[r] = "menu"
  /\ \/ /\ rpc' = [rpc EXCEPT ![r] = "recv"]
        /\ \/ /\ autoModeThread = NoThread
              /\ UNCHANGED signals
           \/ /\ autoModeThread # NoThread /\ AutoAlive(autoModeThread)
              /\ pending' = pending \cup {autoModeThread}
              /\ UNCHANGED <<autoModeKillFlag, ultrasonicKillFlag, handler>>
           \/ /\ autoModeThread # NoThread /\ ~AutoAlive(autoModeThread)
              /\ UNCHANGED signals \/ RunHandler(pending)
        /\ autoModeThread' = IF KillReportedOk THEN NoThread ELSE autoModeThread
        /\ UNCHANGED <<running, autoPc, ultraPc, ultrasonicThread, sensor,
                       notices, out>>
     \/ /\ autoModeThread # NoThread /\ ~AutoAlive(autoModeThread)
        /\ Die

Receiver(r) ==
  \/ Accept(r) \/ Disconnect(r) \/ TestAuto(r) \/ Menu(r)
  \/ \E buf \in Buffers : RecvDrive(r, buf) \/ RecvMode(r, buf)
  \/ \E t \in AutoThreads : CreateAuto(r, t)

----------------------------------------------------------------------------
(* The automode threads: pthread_autoMode.                                 *)

AutoAt(t, pc) == running /\ autoPc[t] = pc /\ t \notin pending
AutoGoto(t, pc) == autoPc' = [autoPc EXCEPT ![t] = pc]

AutoEntry(t) ==
  /\ AutoAt(t, "entry") /\ AutoGoto(t, "register")
  /\ autoModeKillFlag' = FALSE
  /\ UNCHANGED <<running, rpc, ultraPc, handles, ultrasonicKillFlag, handler,
                 pending, sensor, notices, out>>

AutoRegister(t) ==
  /\ AutoAt(t, "register") /\ AutoGoto(t, "spawnTest")
  /\ handler' = "autoModePthreadKill"
  /\ UNCHANGED <<running, rpc, ultraPc, handles, autoModeKillFlag,
                 ultrasonicKillFlag, pending, sensor, notices, out>>

\* Mutant: the kill flag is cleared only after the handler is registered.
AutoSpawnTestLate(t) ==
  /\ AutoAt(t, "spawnTest")
  /\ AutoGoto(t, IF ultrasonicThread = NoThread THEN "spawn" ELSE "forward")
  /\ autoModeKillFlag' = FALSE
  /\ UNCHANGED <<running, rpc, ultraPc, handles, ultrasonicKillFlag, handler,
                 pending, sensor, notices, out>>

AutoSpawnTest(t) ==
  /\ AutoAt(t, "spawnTest")
  /\ AutoGoto(t, IF ultrasonicThread = NoThread THEN "spawn" ELSE "forward")
  /\ UNCHANGED <<running, rpc, ultraPc, handles, signals, sensor, notices, out>>

AutoSpawn(t, u) ==
  /\ AutoAt(t, "spawn") /\ AutoGoto(t, "forward")
  /\ \/ /\ ultraPc[u] = "none"
        /\ ultraPc' = [ultraPc EXCEPT ![u] = "entry"]
        /\ ultrasonicThread' = u
     \/ /\ "create" \in Faults
        /\ UNCHANGED <<ultraPc, ultrasonicThread>>
  /\ UNCHANGED <<running, rpc, autoModeThread, signals, sensor, notices, out>>

AutoForward(t) ==
  /\ AutoAt(t, "forward") /\ AutoGoto(t, "msgget")
  /\ Write({"forwardPin"}, TRUE)
  /\ UNCHANGED <<running, rpc, ultraPc, handles, signals, sensor, notices>>

AutoMsgget(t) ==
  /\ AutoAt(t, "msgget")
  /\ \/ AutoGoto(t, "receive")
     \/ "msgget" \in Faults /\ AutoGoto(t, "exited")
  /\ UNCHANGED <<running, rpc, ultraPc, handles, signals, sensor, notices, out>>

\* msgtype 0: msgrcv takes the first notice, whatever it says.  Mutant: only a
\* danger ends the wait.
DangerWaits == queue # << >> /\ Head(queue) = "danger"
NoticeWaits == queue # << >>

AutoReceive(t) ==
  /\ AutoAt(t, "receive") /\ NoticeWaits
  /\ AutoGoto(t, IF Head(queue) = "safe" THEN "stopBackward" ELSE "stopForward")
  /\ queue' = Tail(queue)
  /\ IF leftover > 0
     THEN leftover' = leftover - 1 /\ UNCHANGED lastNotice
     ELSE lastNotice' = Head(queue) /\ UNCHANGED leftover
  /\ UNCHANGED <<running, rpc, ultraPc, handles, signals, sensor, out>>

\* The four motor calls of the loop, by the control point they are at.
Call(output, level, next) == [output |-> output, level |-> level, next |-> next]

\* Mutants: the motor is reversed before it is stopped; a copied stop call.
AutoMotorHasty ==
  [stopBackward |-> Call("PWM0", TRUE, "setForward"),
   setForward   |-> Call("PWM1", FALSE, "check"),
   stopForward  |-> Call("PWM1", TRUE, "setBackward"),
   setBackward  |-> Call("PWM0", FALSE, "check")]

AutoMotorCopied ==
  [stopBackward |-> Call("PWM0", FALSE, "setForward"),
   setForward   |-> Call("PWM0", TRUE, "check"),
   stopForward  |-> Call("PWM0", FALSE, "setBackward"),
   setBackward  |-> Call("PWM1", TRUE, "check")]

AutoMotor ==
  [stopBackward |-> Call("PWM1", FALSE, "setForward"),
   setForward   |-> Call("PWM0", TRUE, "check"),
   stopForward  |-> Call("PWM0", FALSE, "setBackward"),
   setBackward  |-> Call("PWM1", TRUE, "check")]

\* One of the calls; half a second (usleep) passes before a set call.
AutoDrive(t) ==
  /\ autoPc[t] \in DOMAIN AutoMotor
  /\ LET call == AutoMotor[autoPc[t]]
     IN  /\ AutoAt(t, autoPc[t]) /\ AutoGoto(t, call.next)
         /\ Write({call.output}, call.level)
  /\ UNCHANGED <<running, rpc, ultraPc, handles, signals, sensor, notices>>

AutoCheck(t) ==
  /\ AutoAt(t, "check")
  /\ AutoGoto(t, IF autoModeKillFlag THEN "exited" ELSE "receive")
  /\ UNCHANGED <<running, rpc, ultraPc, handles, signals, sensor, notices, out>>

AutoMode(t) ==
  \/ AutoEntry(t) \/ AutoRegister(t) \/ AutoSpawnTest(t) \/ AutoForward(t)
  \/ AutoMsgget(t) \/ AutoReceive(t) \/ AutoDrive(t) \/ AutoCheck(t)
  \/ \E u \in UltraThreads : AutoSpawn(t, u)

----------------------------------------------------------------------------
(* The ultrasonic threads: pthread_ultralsonic.                            *)

UltraAt(u, pc) == running /\ ultraPc[u] = pc /\ u \notin pending
UltraGoto(u, pc) == ultraPc' = [ultraPc EXCEPT ![u] = pc]

UltraEntry(u) ==
  /\ UltraAt(u, "entry") /\ UltraGoto(u, "open")
  /\ ultrasonicKillFlag' = FALSE
  /\ UNCHANGED <<running, rpc, autoPc, handles, autoModeKillFlag, handler,
                 pending, sensor, notices, out>>

\* hcsr04_open requests the TRIGGER pin, which only one opener gets.
DeviceFreeAlways == TRUE   \* mutant: the driver does not claim its pins
DeviceFree == deviceOwner = NoThread

UltraOpen(u) ==
  /\ UltraAt(u, "open")
  /\ \/ /\ DeviceFree
        /\ deviceOwner' = u /\ UltraGoto(u, "register")
     \/ /\ ~DeviceFree \/ "open" \in Faults
        /\ UltraGoto(u, "exited") /\ UNCHANGED deviceOwner
  /\ UNCHANGED <<running, rpc, autoPc, handles, signals, carDistance, distance,
                 notices, out>>

UltraRegister(u) ==
  /\ UltraAt(u, "register") /\ UltraGoto(u, "msgget")
  /\ handler' = "ultralsonicPthreadKill"
  /\ UNCHANGED <<running, rpc, autoPc, handles, autoModeKillFlag,
                 ultrasonicKillFlag, pending, sensor, notices, out>>

UltraMsgget(u) ==
  /\ UltraAt(u, "msgget")
  /\ \/ UltraGoto(u, "read")
     \/ "msgget" \in Faults /\ UltraGoto(u, "close")
  /\ UNCHANGED <<running, rpc, autoPc, handles, signals, sensor, notices, out>>

\* Is the verdict d news?  Mutant: every danger is sent.
IsNewsLoud(d) == d # carDistance \/ d = "danger"
IsNews(d) == d # carDistance

\* A reading of 1 to 99 cm is danger; any other, and the -1 of a read that
\* timed out, is safe.
UltraRead(u) ==
  /\ UltraAt(u, "read")
  /\ distance' \in DISTANCE
  /\ UltraGoto(u, IF IsNews(distance') THEN "send" ELSE "check")
  /\ UNCHANGED <<running, rpc, autoPc, handles, signals, carDistance,
                 deviceOwner, notices, out>>

QueueHasRoomForOneMore == Len(queue) <= QueueMax   \* mutant: off by one
QueueHasRoom == Len(queue) < QueueMax

UltraSend(u) ==
  /\ UltraAt(u, "send")
  /\ \/ /\ QueueHasRoom
        /\ queue' = Append(queue, distance)
        /\ carDistance' = distance
        /\ UltraGoto(u, "check")
     \/ /\ "msgsnd" \in Faults
        /\ UltraGoto(u, "close")
        /\ UNCHANGED <<queue, carDistance>>
  /\ UNCHANGED <<running, rpc, autoPc, handles, signals, distance, deviceOwner,
                 leftover, lastNotice, out>>

UltraAskedByAuto == autoModeKillFlag   \* mutant: the wrong flag
UltraAsked == ultrasonicKillFlag

UltraCheck(u) ==
  /\ UltraAt(u, "check")
  /\ UltraGoto(u, IF UltraAsked THEN "close" ELSE "read")
  /\ UNCHANGED <<running, rpc, autoPc, handles, signals, sensor, notices, out>>

UltraClose(u) ==
  /\ UltraAt(u, "close")
  /\ deviceOwner' = NoThread
  /\ UltraGoto(u, "exited")
  /\ UNCHANGED <<running, rpc, autoPc, handles, signals, carDistance, distance,
                 notices, out>>

Ultrasonic(u) ==
  \/ UltraEntry(u) \/ UltraOpen(u) \/ UltraRegister(u) \/ UltraMsgget(u)
  \/ UltraRead(u) \/ UltraSend(u) \/ UltraCheck(u) \/ UltraClose(u)

----------------------------------------------------------------------------
Next ==
  \/ \E r \in Receivers : Receiver(r)
  \/ \E t \in AutoThreads : AutoMode(t) \/ DeliverAuto(t)
  \/ \E u \in UltraThreads : Ultrasonic(u) \/ DeliverUltra(u)
  \/ Kill \/ Relaunch

Spec == Init /\ [][Next]_vars

(***************************************************************************)
(* The kernel schedules every runnable thread and delivers every signal; a *)
(* client need not send anything and nobody need restart the process.      *)
(***************************************************************************)
Fairness ==
  /\ \A r \in Receivers :
       WF_vars(TestAuto(r) \/ Menu(r) \/ \E t \in AutoThreads : CreateAuto(r, t))
  /\ \A t \in AutoThreads : WF_vars(AutoMode(t)) /\ WF_vars(DeliverAuto(t))
  /\ \A u \in UltraThreads : WF_vars(Ultrasonic(u)) /\ WF_vars(DeliverUltra(u))

FairSpec == Spec /\ Fairness

----------------------------------------------------------------------------
\* Every variable keeps its type, and msgsnd never overfills the queue.
TypeOK ==
  /\ running \in BOOLEAN
  /\ rpc \in [Receivers -> ReceiverPc]
  /\ autoPc \in [AutoThreads -> AutoPc]
  /\ ultraPc \in [UltraThreads -> UltraPc]
  /\ autoModeThread \in AutoThreads \cup {NoThread}
  /\ ultrasonicThread \in UltraThreads \cup {NoThread}
  /\ autoModeKillFlag \in BOOLEAN
  /\ ultrasonicKillFlag \in BOOLEAN
  /\ handler \in Handlers
  /\ pending \subseteq Workers
  /\ carDistance \in DISTANCE
  /\ distance \in DISTANCE
  /\ deviceOwner \in UltraThreads \cup {NoThread}
  /\ queue \in Seq(DISTANCE)
  /\ Len(queue) <= QueueMax
  /\ out \in [Outputs -> BOOLEAN]
  /\ leftover \in 0 .. Len(queue)
  /\ lastNotice \in DISTANCE

(***************************************************************************)
(* The notices of one process alternate: behind those an earlier process   *)
(* left in the kernel's queue, each notice differs from the one before it, *)
(* the first from the verdict the automode thread acted on last, and the   *)
(* last is carDistance.  So no verdict is lost or repeated, whatever fails *)
(* and however many ultrasonic threads took turns on carDistance.          *)
(***************************************************************************)
Notice(i) == IF i = leftover THEN lastNotice ELSE queue[i]

NoticesAlternate ==
  /\ \A i \in leftover + 1 .. Len(queue) : Notice(i) # Notice(i - 1)
  /\ Notice(Len(queue)) = carDistance

(***************************************************************************)
(* Exactly the ultrasonic thread between a successful open and its close   *)
(* holds the device: two threads created by racing automode threads never  *)
(* measure together, and no exit path keeps the device.                    *)
(***************************************************************************)
HoldsDevice(u) ==
  ultraPc[u] \in {"register", "msgget", "read", "send", "check", "close"}

DeviceHeldByOne ==
  \A u \in UltraThreads : HoldsDevice(u) <=> deviceOwner = u

(***************************************************************************)
(* Once the automode thread has read everything, the motors show the       *)
(* verdict: reverse runs exactly in danger, and forward never with it.     *)
(* Claimed of a car one client drives by AUTO and MENU only.               *)
(***************************************************************************)
AutoWaits == \E t \in AutoThreads : autoPc[t] = "receive"

VerdictReachesMotors ==
  (AutoWaits /\ queue = << >>) =>
     /\ out["PWM1"] <=> carDistance = "danger"
     /\ out["PWM0"] => carDistance = "safe"

\* The two drive channels are never on together, at any step of a reversal.
NoOpposedDrive == ~(out["PWM0"] /\ out["PWM1"])

(***************************************************************************)
(* Once the ultrasonic thread has registered its handler (signal is per    *)
(* process), a MENU to a living automode thread never kills the process:   *)
(* it would by the default action, and by a pthread_kill of the handle 0.  *)
(* Claimed where nobody kills the process from outside.                    *)
(***************************************************************************)
ArmedProcessSurvives ==
  [][ /\ \E u \in UltraThreads : ultraPc[u] \in {"msgget", "read", "send", "check"}
      /\ autoModeThread # NoThread /\ AutoAlive(autoModeThread)
      => running' ]_vars

(***************************************************************************)
(* A stop request is never taken back by a thread that is only starting    *)
(* (it clears its flag, then registers its handler).  Claimed for one      *)
(* client.                                                                 *)
(***************************************************************************)
StopRequestsKept ==
  [][ running' => /\ autoModeKillFlag => autoModeKillFlag'
                  /\ ultrasonicKillFlag => ultrasonicKillFlag' ]_vars

(***************************************************************************)
(* A stop request on its way to the ultrasonic thread, or arrived.         *)
(***************************************************************************)
Asked == ultrasonicKillFlag \/ \E u \in UltraThreads : u \in pending

\* A MENU that finds the ultrasonic thread created but its handler not yet
\* registered makes it run the handler of the automode thread, which signals
\* the ultrasonic thread: itself.
SignalsItself ==
  handler = "autoModePthreadKill" /\ \E u \in UltraThreads : u \in pending

\* It waits in msgsnd for room in a queue nobody reads any more.
WaitsForReader ==
  /\ \E u \in UltraThreads : ultraPc[u] = "send"
  /\ ~QueueHasRoom
  /\ \A t \in AutoThreads : ~AutoAlive(t)

(***************************************************************************)
(* Once the MENUs have ended, an ultrasonic thread that has the device and *)
(* was asked to stop gives it back, unless its automode thread has gone    *)
(* and left it in msgsnd, or the signal found it before it registered its  *)
(* handler.  Claimed for one client.                                       *)
(***************************************************************************)
KilledUltraCloses ==
  <>[](\A r \in Receivers : rpc[r] # "menu") =>
    (Asked /\ deviceOwner # NoThread ~>
       deviceOwner = NoThread \/ WaitsForReader \/ SignalsItself)

(***************************************************************************)
(* An ultrasonic thread that signals itself does so for ever: it takes no  *)
(* further step, so a device it has open stays open until the process      *)
(* ends.  Claimed for one client.                                          *)
(***************************************************************************)
SelfSignalIsForever ==
  [][ \A u \in UltraThreads :
        u \in pending /\ handler = "autoModePthreadKill" /\ running' =>
          /\ u \in pending'
          /\ handler' = handler
          /\ ultraPc'[u] = ultraPc[u]
          /\ deviceOwner = u => deviceOwner' = u ]_vars

(***************************************************************************)
(* Once the MENUs have ended and an automode thread has survived them, the *)
(* car ends up reversing and not driving forward if every reading from     *)
(* then on says danger (not reversing if safe); if a MENU also stopped the *)
(* measuring, what counts is the last verdict told.  For one client.       *)
(***************************************************************************)
AutoStays ==
  /\ <>[](\A r \in Receivers : rpc[r] # "menu")
  /\ <>[](\E t \in AutoThreads : AutoAlive(t))

Settles(verdict) ==
  \/ <>[](distance = verdict /\ \E u \in UltraThreads : HoldsDevice(u))
  \/ <>[](carDistance = verdict)

MotorsTrackObstacle ==
  AutoStays =>
    /\ Settles("danger") => <>[](out["PWM1"] /\ ~out["PWM0"])
    /\ Settles("safe") => <>[](~out["PWM1"])

(***************************************************************************)
(* README.md 3.2.3.1: AUTO starts one process to drive the car and one to  *)
(* watch the distance.                                                     *)
(***************************************************************************)
OneAutoThread ==
  \A t1, t2 \in AutoThreads : AutoAlive(t1) /\ AutoAlive(t2) => t1 = t2

(***************************************************************************)
(* README.md 3.2.4: entering MENU kills the AUTO thread.                   *)
(***************************************************************************)
MenuStopsAuto ==
  (\E r \in Receivers : rpc[r] = "menu") ~> (\A t \in AutoThreads : ~AutoAlive(t))

(***************************************************************************)
(* README.md 3.2.4: entering AUTO creates the AUTO thread again.           *)
(***************************************************************************)
AutoRecreated ==
  [][ \A r \in Receivers : rpc[r] = "auto" /\ rpc'[r] = "recv" =>
        \E t \in AutoThreads : AutoAlive(t) ]_vars
============================================================================
