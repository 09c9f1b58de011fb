-------------------------- MODULE RemoteCarProofs --------------------------
(***************************************************************************)
(* Proofs about the car, for every number of clients and threads, every    *)
(* queue capacity, every set of buffers and faults, with and without       *)
(* restarts; then, under the heading "One client", about a car that one    *)
(* client drives, which implements Avoidance.                              *)
(***************************************************************************)
EXTENDS CarAvoids, SequenceTheorems, TLAPS

----------------------------------------------------------------------------
(* Type correctness. *)

(***************************************************************************)
(* Initially every variable has its type.                                  *)
(***************************************************************************)
LEMMA InitType == Init => TypeOK
<1> SUFFICES ASSUME Init PROVE TypeOK
  OBVIOUS
<1>1. queue \in Seq(DISTANCE) /\ Len(queue) = 0
  BY DEF Init
<1>2. Len(queue) <= QueueMax /\ leftover \in 0 .. Len(queue)
  BY <1>1, EnvironmentAssumption DEF Init
<1>3. QED
  BY <1>1, <1>2
     DEF Init, TypeOK, ReceiverPc, AutoPc, UltraPc, Handlers, DISTANCE, Workers

(***************************************************************************)
(* Every motor call of the automode loop writes a level and goes to a      *)
(* control point.                                                          *)
(***************************************************************************)
LEMMA AutoMotorType ==
  ASSUME NEW pc \in DOMAIN AutoMotor
  PROVE  AutoMotor[pc].next \in AutoPc /\ AutoMotor[pc].level \in BOOLEAN
<1>1. pc \in {"stopBackward", "setForward", "stopForward", "setBackward"}
  BY DEF AutoMotor
<1>2. CASE pc = "stopBackward"
  <2>1. AutoMotor[pc] = Call("PWM1", FALSE, "setForward")
    BY <1>2 DEF AutoMotor
  <2>2. QED
    BY <2>1 DEF Call, AutoPc
<1>3. CASE pc = "setForward"
  <2>1. AutoMotor[pc] = Call("PWM0", TRUE, "check")
    BY <1>3 DEF AutoMotor
  <2>2. QED
    BY <2>1 DEF Call, AutoPc
<1>4. CASE pc = "stopForward"
  <2>1. AutoMotor[pc] = Call("PWM0", FALSE, "setBackward")
    BY <1>4 DEF AutoMotor
  <2>2. QED
    BY <2>1 DEF Call, AutoPc
<1>5. CASE pc = "setBackward"
  <2>1. AutoMotor[pc] = Call("PWM1", TRUE, "check")
    BY <1>5 DEF AutoMotor
  <2>2. QED
    BY <2>1 DEF Call, AutoPc
<1>6. QED
  BY <1>1, <1>2, <1>3, <1>4, <1>5

(***************************************************************************)
(* The end of the process keeps the types.                                 *)
(***************************************************************************)
LEMMA DieType == ASSUME TypeOK, Die PROVE TypeOK'
BY DEF Die, TypeOK, ReceiverPc, AutoPc, UltraPc, handles, notices

(***************************************************************************)
(* Every step keeps the types: in particular no notice overfills the queue *)
(* (UltraSend), and the count of leftovers stays within it (AutoReceive).  *)
(***************************************************************************)
LEMMA TypeStep == ASSUME TypeOK, [Next]_vars PROVE TypeOK'
<1> USE DEF TypeOK, threads, handles, signals, sensor, notices
<1>1. ASSUME NEW r \in Receivers, Accept(r) PROVE TypeOK'
  BY <1>1 DEF Accept, ReceiverPc
<1>2. ASSUME NEW r \in Receivers, Disconnect(r) PROVE TypeOK'
  BY <1>2 DEF Disconnect, ReceiverPc
<1>3. ASSUME NEW r \in Receivers, TestAuto(r) PROVE TypeOK'
  BY <1>3 DEF TestAuto, ReceiverPc
<1>4. ASSUME NEW r \in Receivers, Menu(r) PROVE TypeOK'
  BY <1>4, DieType
     DEF Menu, ReceiverPc, RunHandler, autoModePthreadKill,
         ultralsonicPthreadKill, DispositionAfter, Workers
<1>5. ASSUME NEW r \in Receivers, NEW buf \in Buffers, RecvDrive(r, buf) PROVE TypeOK'
  BY <1>5 DEF RecvDrive, Write, Level
<1>6. ASSUME NEW r \in Receivers, NEW buf \in Buffers, RecvMode(r, buf) PROVE TypeOK'
  BY <1>6 DEF RecvMode, ReceiverPc
<1>7. ASSUME NEW r \in Receivers, NEW t \in AutoThreads, CreateAuto(r, t) PROVE TypeOK'
  BY <1>7 DEF CreateAuto, ReceiverPc, AutoPc
<1>8. ASSUME NEW t \in AutoThreads, AutoEntry(t) PROVE TypeOK'
  BY <1>8 DEF AutoEntry, AutoGoto, AutoPc
<1>9. ASSUME NEW t \in AutoThreads, AutoRegister(t) PROVE TypeOK'
  BY <1>9 DEF AutoRegister, AutoGoto, AutoPc, Handlers
<1>10. ASSUME NEW t \in AutoThreads, AutoSpawnTest(t) PROVE TypeOK'
  BY <1>10 DEF AutoSpawnTest, AutoGoto, AutoPc
<1>11. ASSUME NEW t \in AutoThreads, NEW u \in UltraThreads, AutoSpawn(t, u) PROVE TypeOK'
  BY <1>11 DEF AutoSpawn, AutoGoto, AutoPc, UltraPc
<1>12. ASSUME NEW t \in AutoThreads, AutoForward(t) PROVE TypeOK'
  BY <1>12 DEF AutoForward, AutoGoto, AutoPc, Write
<1>13. ASSUME NEW t \in AutoThreads, AutoMsgget(t) PROVE TypeOK'
  BY <1>13 DEF AutoMsgget, AutoGoto, AutoPc
<1>14. ASSUME NEW t \in AutoThreads, AutoReceive(t) PROVE TypeOK'
  <2>1. queue # << >>
    BY <1>14 DEF AutoReceive, NoticeWaits
  <2>2. Head(queue) \in DISTANCE /\ Tail(queue) \in Seq(DISTANCE)
        /\ Len(Tail(queue)) = Len(queue) - 1
    BY <2>1
  <2>3. leftover' \in 0 .. Len(queue')
    BY <1>14, <2>1, <2>2 DEF AutoReceive, NoticeWaits
  <2>4. queue' \in Seq(DISTANCE) /\ Len(queue') <= QueueMax /\ lastNotice' \in DISTANCE
    BY <1>14, <2>2, EnvironmentAssumption DEF AutoReceive, NoticeWaits
  <2>5. QED
    BY <1>14, <2>3, <2>4 DEF AutoReceive, AutoGoto, AutoPc
<1>15. ASSUME NEW t \in AutoThreads, AutoDrive(t) PROVE TypeOK'
  <2>1. PICK pc \in DOMAIN AutoMotor :
               /\ AutoGoto(t, AutoMotor[pc].next)
               /\ Write({AutoMotor[pc].output}, AutoMotor[pc].level)
    BY <1>15 DEF AutoDrive
  <2>2. AutoMotor[pc].next \in AutoPc /\ AutoMotor[pc].level \in BOOLEAN
    BY AutoMotorType
  <2>3. out' \in [Outputs -> BOOLEAN]
    BY <2>1, <2>2 DEF Write
  <2>4. autoPc' \in [AutoThreads -> AutoPc]
    BY <2>1, <2>2 DEF AutoGoto
  <2>5. QED
    BY <1>15, <2>3, <2>4 DEF AutoDrive
<1>16. ASSUME NEW t \in AutoThreads, AutoCheck(t) PROVE TypeOK'
  BY <1>16 DEF AutoCheck, AutoGoto, AutoPc
<1>17. ASSUME NEW u \in UltraThreads, UltraEntry(u) PROVE TypeOK'
  BY <1>17 DEF UltraEntry, UltraGoto, UltraPc
<1>18. ASSUME NEW u \in UltraThreads, UltraOpen(u) PROVE TypeOK'
  BY <1>18 DEF UltraOpen, UltraGoto, UltraPc
<1>19. ASSUME NEW u \in UltraThreads, UltraRegister(u) PROVE TypeOK'
  BY <1>19 DEF UltraRegister, UltraGoto, UltraPc, Handlers
<1>20. ASSUME NEW u \in UltraThreads, UltraMsgget(u) PROVE TypeOK'
  BY <1>20 DEF UltraMsgget, UltraGoto, UltraPc
<1>21. ASSUME NEW u \in UltraThreads, UltraRead(u) PROVE TypeOK'
  BY <1>21 DEF UltraRead, UltraGoto, UltraPc
<1>22. ASSUME NEW u \in UltraThreads, UltraSend(u) PROVE TypeOK'
  <2>1. ultraPc' \in [UltraThreads -> UltraPc]
    BY <1>22 DEF UltraSend, UltraGoto, UltraPc
  <2>2. CASE UNCHANGED <<queue, carDistance>>
    BY <1>22, <2>1, <2>2 DEF UltraSend
  <2>3. CASE QueueHasRoom /\ queue' = Append(queue, distance) /\ carDistance' = distance
    <3>1. queue' \in Seq(DISTANCE) /\ Len(queue') = Len(queue) + 1
      BY <2>3
    <3>2. Len(queue') <= QueueMax /\ leftover' \in 0 .. Len(queue')
      BY <1>22, <2>3, <3>1, EnvironmentAssumption DEF UltraSend, QueueHasRoom
    <3>3. QED
      BY <1>22, <2>1, <2>3, <3>1, <3>2 DEF UltraSend
  <2>4. QED
    BY <1>22, <2>2, <2>3 DEF UltraSend
<1>23. ASSUME NEW u \in UltraThreads, UltraCheck(u) PROVE TypeOK'
  BY <1>23 DEF UltraCheck, UltraGoto, UltraPc
<1>24. ASSUME NEW u \in UltraThreads, UltraClose(u) PROVE TypeOK'
  BY <1>24 DEF UltraClose, UltraGoto, UltraPc
<1>25. ASSUME NEW t \in AutoThreads, DeliverAuto(t) PROVE TypeOK'
  BY <1>25, DieType
     DEF DeliverAuto, AutoPc, RunHandler, autoModePthreadKill,
         ultralsonicPthreadKill, DispositionAfter, Workers
<1>26. ASSUME NEW u \in UltraThreads, DeliverUltra(u) PROVE TypeOK'
  BY <1>26, DieType
     DEF DeliverUltra, UltraPc, RunHandler, autoModePthreadKill,
         ultralsonicPthreadKill, DispositionAfter, Workers
<1>27. ASSUME Kill PROVE TypeOK'
  BY <1>27, DieType DEF Kill
<1>28. ASSUME Relaunch PROVE TypeOK'
  <2>1. leftover' \in 0 .. Len(queue')
    BY <1>28 DEF Relaunch
  <2>2. out' \in [Outputs -> BOOLEAN]
    BY <1>28 DEF Relaunch
  <2>3. QED
    BY <1>28, <2>1, <2>2 DEF Relaunch, Handlers, DISTANCE
<1>29. ASSUME UNCHANGED vars PROVE TypeOK'
  BY <1>29 DEF vars
<1> HIDE DEF TypeOK, threads, handles, signals, sensor, notices
<1>30. QED
  BY <1>1, <1>2, <1>3, <1>4, <1>5, <1>6, <1>7, <1>8, <1>9, <1>10, <1>11,
     <1>12, <1>13, <1>14, <1>15, <1>16, <1>17, <1>18, <1>19, <1>20, <1>21,
     <1>22, <1>23, <1>24, <1>25, <1>26, <1>27, <1>28, <1>29
     DEF Next, Receiver, AutoMode, Ultrasonic

(***************************************************************************)
(* TypeOK holds of every behaviour of the car.                             *)
(***************************************************************************)
THEOREM TypeCorrect == Spec => []TypeOK
<1>1. Init => TypeOK
  BY InitType
<1>2. TypeOK /\ [Next]_vars => TypeOK'
  BY TypeStep
<1>3. QED
  BY <1>1, <1>2, PTL DEF Spec

----------------------------------------------------------------------------
(* The device and the notices. *)

(***************************************************************************)
(* The steps that leave the ultrasonic threads and the queue alone.        *)
(***************************************************************************)
SensingIdle == UNCHANGED <<running, ultraPc, sensor, notices>>

(***************************************************************************)
(* A step leaves sensing alone, or it is one of those named here.          *)
(***************************************************************************)
LEMMA SensingSteps ==
  ASSUME [Next]_vars
  PROVE  \/ SensingIdle
         \/ Die
         \/ Relaunch
         \/ \E t \in AutoThreads : AutoReceive(t)
         \/ \E t \in AutoThreads, u \in UltraThreads : AutoSpawn(t, u)
         \/ \E u \in UltraThreads : Ultrasonic(u) \/ DeliverUltra(u)
<1> USE DEF SensingIdle
<1>1. ASSUME NEW r \in Receivers, Receiver(r) PROVE SensingIdle \/ Die
  BY <1>1 DEF Receiver, Accept, Disconnect, TestAuto, Menu, RecvDrive, RecvMode,
              CreateAuto, threads, sensor, notices
<1>2. ASSUME NEW t \in AutoThreads, AutoMode(t)
      PROVE  \/ SensingIdle
             \/ AutoReceive(t)
             \/ \E u \in UltraThreads : AutoSpawn(t, u)
  BY <1>2 DEF AutoMode, AutoEntry, AutoRegister, AutoSpawnTest, AutoForward,
              AutoMsgget, AutoDrive, AutoCheck, sensor, notices
<1>3. ASSUME NEW t \in AutoThreads, DeliverAuto(t) PROVE SensingIdle \/ Die
  BY <1>3 DEF DeliverAuto, sensor, notices
<1>4. ASSUME UNCHANGED vars PROVE SensingIdle
  BY <1>4 DEF vars, threads, sensor, notices
<1>5. QED
  BY <1>1, <1>2, <1>3, <1>4 DEF Next, Kill

(***************************************************************************)
(* DeviceHeldByOne is inductive with the fact that the threads of a dead   *)
(* process are gone.                                                       *)
(***************************************************************************)
DeviceInv ==
  /\ DeviceHeldByOne
  /\ ~running => \A u \in UltraThreads : ultraPc[u] = "none"

(***************************************************************************)
(* Every step keeps it: only UltraOpen, UltraClose and Die touch the       *)
(* device, and an open succeeds only while nobody holds it.                *)
(***************************************************************************)
LEMMA DeviceStep ==
  ASSUME TypeOK, DeviceInv, [Next]_vars
  PROVE  DeviceInv'
<1> USE DEF DeviceInv, DeviceHeldByOne, HoldsDevice
<1>1. CASE SensingIdle
  BY <1>1 DEF SensingIdle, sensor
<1>2. CASE Die
  BY <1>2, ThreadsAssumption DEF Die
<1>3. CASE Relaunch
  BY <1>3 DEF Relaunch, threads
<1>4. ASSUME NEW t \in AutoThreads, AutoReceive(t) PROVE DeviceInv'
  BY <1>4 DEF AutoReceive, sensor
<1>5. ASSUME NEW t \in AutoThreads, NEW u \in UltraThreads, AutoSpawn(t, u)
      PROVE  DeviceInv'
  BY <1>5 DEF AutoSpawn, AutoAt, sensor, TypeOK
<1>6. ASSUME NEW u \in UltraThreads, UltraOpen(u) PROVE DeviceInv'
  BY <1>6, ThreadsAssumption DEF UltraOpen, UltraAt, UltraGoto, DeviceFree, TypeOK
<1>7. ASSUME NEW u \in UltraThreads, UltraClose(u) PROVE DeviceInv'
  BY <1>7, ThreadsAssumption DEF UltraClose, UltraAt, UltraGoto, TypeOK
<1>8. ASSUME NEW u \in UltraThreads,
             UltraEntry(u) \/ UltraRegister(u) \/ UltraMsgget(u) \/ UltraRead(u)
      PROVE  DeviceInv'
  BY <1>8 DEF UltraEntry, UltraRegister, UltraMsgget, UltraRead, UltraAt,
              UltraGoto, TypeOK, sensor
<1>9. ASSUME NEW u \in UltraThreads, UltraSend(u) \/ UltraCheck(u)
      PROVE  DeviceInv'
  BY <1>9 DEF UltraSend, UltraCheck, UltraAt, UltraGoto, TypeOK, sensor
<1>10. ASSUME NEW u \in UltraThreads, DeliverUltra(u) PROVE DeviceInv'
  BY <1>10, <1>2 DEF DeliverUltra, TypeOK, sensor
<1>11. QED
  BY <1>1, <1>2, <1>3, <1>4, <1>5, <1>6, <1>7, <1>8, <1>9, <1>10, SensingSteps
     DEF Ultrasonic

(***************************************************************************)
(* DeviceInv holds of every behaviour.                                     *)
(***************************************************************************)
LEMMA AlwaysDevice == Spec => []DeviceInv
<1>1. Init => DeviceInv
  BY ThreadsAssumption DEF Init, DeviceInv, DeviceHeldByOne, HoldsDevice
<1>2. TypeOK /\ DeviceInv /\ [Next]_vars => DeviceInv'
  BY DeviceStep
<1>3. QED
  BY <1>1, <1>2, TypeCorrect, PTL DEF Spec

(***************************************************************************)
(* One ultrasonic thread at a time measures, however many were created and *)
(* whichever call failed.                                                  *)
(***************************************************************************)
THEOREM DeviceExclusive == Spec => []DeviceHeldByOne
<1>1. DeviceInv => DeviceHeldByOne
  BY DEF DeviceInv
<1>2. QED
  BY <1>1, AlwaysDevice, PTL

(***************************************************************************)
(* A notice different from carDistance keeps the alternation when it is    *)
(* appended and becomes carDistance.                                       *)
(***************************************************************************)
LEMMA AppendAlternates ==
  ASSUME TypeOK, NoticesAlternate, NEW d \in DISTANCE, d # carDistance,
         queue' = Append(queue, d), carDistance' = d,
         UNCHANGED <<leftover, lastNotice>>
  PROVE  NoticesAlternate'
<1>. PICK n \in Nat : n = Len(queue)
  BY DEF TypeOK
<1>1. queue \in Seq(DISTANCE) /\ leftover \in 0 .. n
  BY DEF TypeOK
<1>2. Len(queue') = n + 1 /\ queue'[n + 1] = d
  BY <1>1
<1>3. \A i \in 1 .. n : queue'[i] = queue[i]
  BY <1>1
<1>4. \A i \in leftover .. n : Notice(i)' = Notice(i)
  BY <1>1, <1>3 DEF Notice
<1>5. Notice(n + 1)' = d
  BY <1>1, <1>2 DEF Notice
<1>6. ASSUME NEW i \in leftover + 1 .. n + 1
      PROVE  Notice(i)' # Notice(i - 1)'
  <2>1. CASE i = n + 1
    <3>1. Notice(i - 1)' = carDistance
      BY <1>1, <1>4, <2>1 DEF NoticesAlternate
    <3>2. QED
      BY <1>5, <2>1, <3>1
  <2>2. CASE i # n + 1
    <3>1. i \in leftover + 1 .. n
      BY <1>1, <1>2, <1>6, <2>2
    <3>2. Notice(i)' = Notice(i) /\ Notice(i - 1)' = Notice(i - 1)
      BY <1>1, <1>4, <3>1
    <3>3. QED
      BY <3>1, <3>2 DEF NoticesAlternate
  <2>3. QED
    BY <2>1, <2>2
<1>7. Notice(n + 1)' = carDistance'
  BY <1>5
<1>8. QED
  BY <1>2, <1>6, <1>7 DEF NoticesAlternate

(***************************************************************************)
(* So does the msgrcv of the oldest notice, an earlier process's or ours.  *)
(***************************************************************************)
LEMMA ReceiveAlternates ==
  ASSUME TypeOK, NoticesAlternate, NEW t \in AutoThreads, AutoReceive(t)
  PROVE  NoticesAlternate'
<1>1. queue \in Seq(DISTANCE) /\ queue # << >> /\ leftover \in 0 .. Len(queue)
  BY DEF TypeOK, AutoReceive, NoticeWaits
<1>2. /\ Len(queue') = Len(queue) - 1
      /\ \A i \in 1 .. Len(queue) - 1 : queue'[i] = queue[i + 1]
  BY <1>1 DEF AutoReceive, NoticeWaits
<1>3. carDistance' = carDistance
  BY DEF AutoReceive, sensor
<1>4. CASE leftover > 0
  <2>1. leftover' = leftover - 1 /\ lastNotice' = lastNotice
    BY <1>4 DEF AutoReceive, NoticeWaits
  <2>2. \A i \in leftover - 1 .. Len(queue) - 1 : Notice(i)' = Notice(i + 1)
    BY <1>1, <1>2, <1>4, <2>1 DEF Notice
  <2>3. QED
    BY <1>1, <1>2, <1>3, <1>4, <2>1, <2>2 DEF NoticesAlternate
<1>5. CASE leftover = 0
  <2>1. leftover' = 0 /\ lastNotice' = queue[1]
    BY <1>1, <1>5 DEF AutoReceive, NoticeWaits
  <2>2. \A i \in 0 .. Len(queue) - 1 : Notice(i)' = Notice(i + 1)
    BY <1>1, <1>2, <1>5, <2>1 DEF Notice
  <2>3. QED
    BY <1>1, <1>2, <1>3, <1>5, <2>1, <2>2 DEF NoticesAlternate
<1>6. QED
  BY <1>1, <1>4, <1>5

(***************************************************************************)
(* NoticesAlternate is inductive with the fact that a thread about to send *)
(* holds news: its reading differs from carDistance, which no other thread *)
(* can change before it does.                                              *)
(***************************************************************************)
NoticeInv ==
  /\ NoticesAlternate
  /\ \A u \in UltraThreads : ultraPc[u] = "send" => distance # carDistance

(***************************************************************************)
(* Every step keeps it: no other thread writes carDistance between the     *)
(* test that a verdict is news (UltraRead) and its notice (UltraSend).     *)
(***************************************************************************)
LEMMA NoticeStep ==
  ASSUME TypeOK, DeviceInv, NoticeInv, [Next]_vars
  PROVE  NoticeInv'
<1> USE DEF NoticeInv
<1>1. ASSUME UNCHANGED <<carDistance, notices>> PROVE NoticesAlternate'
  BY <1>1 DEF NoticesAlternate, Notice, notices
<1>2. CASE SensingIdle
  BY <1>1, <1>2 DEF SensingIdle, sensor
<1>3. CASE Die
  BY <1>1, <1>3 DEF Die
<1>4. CASE Relaunch
  <2>1. Notice(Len(queue))' = carDistance' /\ leftover' = Len(queue')
    BY <1>4 DEF Relaunch, Notice
  <2>2. NoticesAlternate'
    BY <2>1, <1>4 DEF NoticesAlternate, TypeOK, Relaunch
  <2>3. \A u \in UltraThreads : ultraPc'[u] = "none"
    BY <1>4 DEF Relaunch, DeviceInv, threads
  <2>4. QED
    BY <2>2, <2>3
<1>5. ASSUME NEW t \in AutoThreads, AutoReceive(t) PROVE NoticeInv'
  BY <1>5, ReceiveAlternates DEF AutoReceive, sensor
<1>6. ASSUME NEW t \in AutoThreads, NEW u \in UltraThreads, AutoSpawn(t, u)
      PROVE  NoticeInv'
  BY <1>1, <1>6 DEF AutoSpawn, sensor, TypeOK
<1>7. ASSUME NEW u \in UltraThreads, UltraRead(u) PROVE NoticeInv'
  <2>1. \A v \in UltraThreads : ultraPc[v] = "send" => v = u
    BY <1>7 DEF UltraRead, UltraAt, DeviceInv, DeviceHeldByOne, HoldsDevice
  <2>2. QED
    BY <1>1, <1>7, <2>1 DEF UltraRead, UltraAt, UltraGoto, IsNews, TypeOK
<1>8. ASSUME NEW u \in UltraThreads, UltraSend(u) PROVE NoticeInv'
  <2>1. \A v \in UltraThreads : ultraPc[v] = "send" => v = u
    BY <1>8 DEF UltraSend, UltraAt, DeviceInv, DeviceHeldByOne, HoldsDevice
  <2>2. \A v \in UltraThreads : ultraPc'[v] # "send"
    BY <1>8, <2>1 DEF UltraSend, UltraAt, UltraGoto, TypeOK
  <2>3. distance # carDistance /\ distance \in DISTANCE
    BY <1>8 DEF UltraSend, UltraAt, TypeOK
  <2>4. NoticesAlternate'
    BY <1>1, <1>8, <2>3, AppendAlternates DEF UltraSend, notices
  <2>5. QED
    BY <2>2, <2>4
<1>9. ASSUME NEW u \in UltraThreads,
             \/ UltraEntry(u) \/ UltraOpen(u) \/ UltraRegister(u)
             \/ UltraMsgget(u) \/ UltraCheck(u) \/ UltraClose(u)
      PROVE  NoticeInv'
  BY <1>1, <1>9 DEF UltraEntry, UltraOpen, UltraRegister, UltraMsgget, UltraCheck,
                    UltraClose, UltraGoto, TypeOK, sensor
<1>10. ASSUME NEW u \in UltraThreads, DeliverUltra(u) PROVE NoticeInv'
  BY <1>1, <1>3, <1>10 DEF DeliverUltra, TypeOK, sensor
<1>11. QED
  BY <1>2, <1>3, <1>4, <1>5, <1>6, <1>7, <1>8, <1>9, <1>10, SensingSteps
     DEF Ultrasonic

(***************************************************************************)
(* NoticeInv holds of every behaviour.                                     *)
(***************************************************************************)
LEMMA AlwaysNotices == Spec => []NoticeInv
<1>1. Init => NoticeInv
  BY DEF Init, NoticeInv, NoticesAlternate, Notice
<1>2. TypeOK /\ DeviceInv /\ NoticeInv /\ [Next]_vars => NoticeInv'
  BY NoticeStep
<1>3. QED
  BY <1>1, <1>2, AlwaysDevice, TypeCorrect, PTL DEF Spec

(***************************************************************************)
(* Whatever fails, restarts or races, the notices in the queue alternate   *)
(* and end in the verdict sent last.                                       *)
(***************************************************************************)
THEOREM VerdictsTold == Spec => []NoticesAlternate
<1>1. NoticeInv => NoticesAlternate
  BY DEF NoticeInv
<1>2. QED
  BY <1>1, AlwaysNotices, PTL

----------------------------------------------------------------------------
(* What a MENU finds when the car measures. *)

Registered(u) == ultraPc[u] \in {"msgget", "read", "send", "check", "close"}

(***************************************************************************)
(* An ultrasonic thread has left its handle, and once it is past signal()  *)
(* SIGALRM has a handler, be it the other thread's: nothing but a restart  *)
(* takes either back.                                                      *)
(***************************************************************************)
ArmedInv ==
  /\ \A u \in UltraThreads : ultraPc[u] # "none" => ultrasonicThread # NoThread
  /\ \A u \in UltraThreads : Registered(u) => handler # "default"

(***************************************************************************)
(* The steps that leave the ultrasonic threads, their handle and the       *)
(* disposition of SIGALRM alone, but for a change of handlers.             *)
(***************************************************************************)
ArmedIdle ==
  /\ UNCHANGED <<ultraPc, ultrasonicThread>>
  /\ handler' \in {handler, "autoModePthreadKill", "ultralsonicPthreadKill"}

(***************************************************************************)
(* A step is idle in this sense, or it is one of those named here.         *)
(***************************************************************************)
LEMMA ArmedSteps ==
  ASSUME [Next]_vars
  PROVE  \/ ArmedIdle
         \/ Die
         \/ Relaunch
         \/ \E t \in AutoThreads, u \in UltraThreads : AutoSpawn(t, u)
         \/ \E u \in UltraThreads : Ultrasonic(u) \/ DeliverUltra(u)
<1> USE DEF ArmedIdle, RunHandler, autoModePthreadKill, ultralsonicPthreadKill,
        DispositionAfter, handles, signals
<1>1. ASSUME NEW r \in Receivers, Receiver(r) PROVE ArmedIdle \/ Die
  BY <1>1 DEF Receiver, Accept, Disconnect, TestAuto, Menu, RecvDrive, RecvMode,
              CreateAuto, threads
<1>2. ASSUME NEW t \in AutoThreads, AutoMode(t)
      PROVE  ArmedIdle \/ \E u \in UltraThreads : AutoSpawn(t, u)
  BY <1>2 DEF AutoMode, AutoEntry, AutoRegister, AutoSpawnTest, AutoForward,
              AutoMsgget, AutoReceive, AutoDrive, AutoCheck
<1>3. ASSUME NEW t \in AutoThreads, DeliverAuto(t) PROVE ArmedIdle \/ Die
  BY <1>3 DEF DeliverAuto
<1>4. ASSUME UNCHANGED vars PROVE ArmedIdle
  BY <1>4 DEF vars, threads
<1>5. QED
  BY <1>1, <1>2, <1>3, <1>4 DEF Next, Kill

(***************************************************************************)
(* Every step keeps it.                                                    *)
(***************************************************************************)
LEMMA ArmedStep ==
  ASSUME TypeOK, DeviceInv, ArmedInv, [Next]_vars
  PROVE  ArmedInv'
<1> USE DEF ArmedInv, Registered
<1>1. CASE ArmedIdle
  BY <1>1 DEF ArmedIdle
<1>2. CASE Die
  BY <1>2 DEF Die
<1>3. CASE Relaunch
  BY <1>3 DEF Relaunch, DeviceInv, threads
<1>4. ASSUME NEW t \in AutoThreads, NEW u \in UltraThreads, AutoSpawn(t, u)
      PROVE  ArmedInv'
  BY <1>4, ThreadsAssumption DEF AutoSpawn, TypeOK, signals
<1>5. ASSUME NEW u \in UltraThreads, UltraRegister(u) PROVE ArmedInv'
  BY <1>5 DEF UltraRegister, UltraAt, UltraGoto, TypeOK, handles
<1>6. ASSUME NEW u \in UltraThreads,
             \/ UltraEntry(u) \/ UltraOpen(u) \/ UltraMsgget(u) \/ UltraRead(u)
             \/ UltraSend(u) \/ UltraCheck(u) \/ UltraClose(u)
      PROVE  ArmedInv'
  BY <1>6 DEF UltraEntry, UltraOpen, UltraMsgget, UltraRead, UltraSend, UltraCheck,
              UltraClose, UltraAt, UltraGoto, TypeOK, handles, signals
<1>7. ASSUME NEW u \in UltraThreads, DeliverUltra(u) PROVE ArmedInv'
  BY <1>7, <1>2 DEF DeliverUltra, RunHandler, autoModePthreadKill,
                    ultralsonicPthreadKill, DispositionAfter, TypeOK, handles
<1>8. QED
  BY <1>1, <1>2, <1>3, <1>4, <1>5, <1>6, <1>7, ArmedSteps DEF Ultrasonic

(***************************************************************************)
(* ArmedInv holds of every behaviour.                                      *)
(***************************************************************************)
LEMMA AlwaysArmed == Spec => []ArmedInv
<1>1. Init => ArmedInv
  BY DEF Init, ArmedInv, Registered
<1>2. TypeOK /\ DeviceInv /\ ArmedInv /\ [Next]_vars => ArmedInv'
  BY ArmedStep
<1>3. QED
  BY <1>1, <1>2, AlwaysDevice, TypeCorrect, PTL DEF Spec

(***************************************************************************)
(* While the car measures, a MENU never kills the process of a living      *)
(* automode thread: neither by the default action of SIGALRM nor by a      *)
(* pthread_kill of the handle 0.  (Nobody kills it from outside.)          *)
(***************************************************************************)
THEOREM MeasuringCarSurvives ==
  ASSUME MayRestart = FALSE
  PROVE  Spec => ArmedProcessSurvives
<1>1. DeviceInv /\ ArmedInv /\ [Next]_vars =>
        [ /\ \E u \in UltraThreads : ultraPc[u] \in {"msgget", "read", "send", "check"}
          /\ autoModeThread # NoThread /\ AutoAlive(autoModeThread)
          => running' ]_vars
  <2> SUFFICES ASSUME DeviceInv, ArmedInv, [Next]_vars,
                      NEW u \in UltraThreads, ultraPc[u] \in {"msgget", "read", "send", "check"},
                      autoModeThread # NoThread, AutoAlive(autoModeThread)
               PROVE  running'
    OBVIOUS
  <2>1. running /\ ~SignalMayKill
    BY DEF DeviceInv, ArmedInv, Registered, SignalMayKill
  <2>2. ASSUME NEW r \in Receivers, Receiver(r) PROVE running'
    BY <2>1, <2>2 DEF Receiver, Accept, Disconnect, TestAuto, Menu, RecvDrive,
                      RecvMode, CreateAuto
  <2>3. ASSUME NEW t \in AutoThreads, AutoMode(t) \/ DeliverAuto(t) PROVE running'
    BY <2>1, <2>3 DEF AutoMode, AutoEntry, AutoRegister, AutoSpawnTest, AutoSpawn,
                      AutoForward, AutoMsgget, AutoReceive, AutoDrive, AutoCheck, DeliverAuto
  <2>4. ASSUME NEW v \in UltraThreads, Ultrasonic(v) \/ DeliverUltra(v) PROVE running'
    BY <2>1, <2>4 DEF Ultrasonic, UltraEntry, UltraOpen, UltraRegister, UltraMsgget,
                      UltraRead, UltraSend, UltraCheck, UltraClose, DeliverUltra
  <2>5. ASSUME UNCHANGED vars PROVE running'
    BY <2>1, <2>5 DEF vars
  <2>6. QED
    BY <2>2, <2>3, <2>4, <2>5 DEF Next, Kill, Relaunch
<1>2. QED
  BY <1>1, AlwaysDevice, AlwaysArmed, PTL DEF Spec, ArmedProcessSurvives

----------------------------------------------------------------------------
(* One client.  Any number of threads, any queue capacity and, where       *)
(* nothing else is said, every command, fault and restart.                 *)

OneClient == \A r1, r2 \in Receivers : r1 = r2

----------------------------------------------------------------------------
(* One client, one automode thread. *)

(***************************************************************************)
(* The handle names the automode thread there is.  The client tests it and *)
(* creates the thread in two steps; no other client comes between them.    *)
(***************************************************************************)
SoleAuto ==
  /\ \A t \in AutoThreads : autoPc[t] # "none" => t = autoModeThread
  /\ \A r \in Receivers : rpc[r] = "autoCreate" => autoModeThread = NoThread
  /\ ~running => /\ \A t \in AutoThreads : autoPc[t] = "none"
                 /\ \A r \in Receivers : rpc[r] = "closed"

(***************************************************************************)
(* What a step does to the automode threads when it creates none: they go  *)
(* on where they are, or all of them end with the process.                 *)
(***************************************************************************)
LEMMA AutoThreadSteps ==
  ASSUME TypeOK, [Next]_vars
  PROVE  \/ Die
         \/ Relaunch
         \/ \E r \in Receivers, t \in AutoThreads : CreateAuto(r, t)
         \/ /\ UNCHANGED <<running, autoModeThread>>
            /\ \A t \in AutoThreads : autoPc[t] = "none" => autoPc'[t] = "none"
            /\ \/ UNCHANGED rpc
               \/ \E r \in Receivers : Receiver(r)
<1> USE DEF threads, handles, TypeOK
<1>1. ASSUME NEW r \in Receivers, Receiver(r),
             ~Die, \A t \in AutoThreads : ~CreateAuto(r, t)
      PROVE  UNCHANGED <<running, autoModeThread, autoPc>>
  BY <1>1 DEF Receiver, Accept, Disconnect, TestAuto, Menu, RecvDrive, RecvMode, KillReportedOk
<1>2. ASSUME NEW t \in AutoThreads, AutoMode(t)
      PROVE  /\ UNCHANGED <<running, autoModeThread, rpc>>
             /\ autoPc[t] # "none"
             /\ \A s \in AutoThreads : s # t => autoPc'[s] = autoPc[s]
  BY <1>2 DEF AutoMode, AutoEntry, AutoRegister, AutoSpawnTest, AutoSpawn, AutoForward,
              AutoMsgget, AutoReceive, AutoDrive, AutoMotor, AutoCheck, AutoAt, AutoGoto
<1>3. ASSUME NEW t \in AutoThreads, DeliverAuto(t), ~Die
      PROVE  /\ UNCHANGED <<running, autoModeThread, rpc>>
             /\ \A s \in AutoThreads : autoPc[s] = "none" => autoPc'[s] = "none"
  BY <1>3 DEF DeliverAuto
<1>4. ASSUME NEW u \in UltraThreads, Ultrasonic(u) \/ DeliverUltra(u), ~Die
      PROVE  UNCHANGED <<running, autoModeThread, rpc, autoPc>>
  BY <1>4 DEF Ultrasonic, UltraEntry, UltraOpen, UltraRegister, UltraMsgget, UltraRead,
              UltraSend, UltraCheck, UltraClose, DeliverUltra
<1>5. ASSUME UNCHANGED vars PROVE UNCHANGED <<running, autoModeThread, rpc, autoPc>>
  BY <1>5 DEF vars
<1> HIDE DEF threads, handles, TypeOK
<1>6. QED
  BY <1>1, <1>2, <1>3, <1>4, <1>5 DEF Next, Kill

(***************************************************************************)
(* Every step keeps it.                                                    *)
(***************************************************************************)
LEMMA SoleStep ==
  ASSUME OneClient, TypeOK, SoleAuto, [Next]_vars
  PROVE  SoleAuto'
<1> USE DEF SoleAuto
<1>1. CASE Die
  BY <1>1 DEF Die
<1>2. CASE Relaunch
  BY <1>2 DEF Relaunch, threads
<1>3. ASSUME NEW r \in Receivers, NEW t \in AutoThreads, CreateAuto(r, t) PROVE SoleAuto'
  <2>1. autoModeThread = NoThread /\ running /\ running'
    BY <1>3 DEF CreateAuto
  <2>2. \A s \in AutoThreads : autoPc[s] = "none"
    BY <2>1, ThreadsAssumption
  <2>3. \A q \in Receivers : rpc'[q] # "autoCreate"
    BY <1>3 DEF CreateAuto, OneClient, TypeOK
  <2>4. QED
    BY <1>3, <2>1, <2>2, <2>3 DEF CreateAuto, TypeOK
<1>4. ASSUME /\ UNCHANGED <<running, autoModeThread>>
             /\ \A t \in AutoThreads : autoPc[t] = "none" => autoPc'[t] = "none"
             /\ \/ UNCHANGED rpc
                \/ \E r \in Receivers : Receiver(r)
      PROVE  SoleAuto'
  <2>1. CASE UNCHANGED rpc
    BY <1>4, <2>1
  <2>2. ASSUME NEW r \in Receivers, Receiver(r) PROVE SoleAuto'
    <3>1. CASE Die
      BY <1>1, <3>1
    <3>2. ASSUME ~Die
          PROVE  running /\ \A q \in Receivers : rpc'[q] = "autoCreate" => autoModeThread = NoThread
      BY <2>2, <3>2 DEF Receiver, Accept, Disconnect, TestAuto, Menu, RecvDrive, RecvMode,
                        CreateAuto, OneClient, TypeOK, threads
    <3>3. QED
      BY <1>4, <3>1, <3>2
  <2>3. QED
    BY <1>4, <2>1, <2>2
<1>5. QED
  BY <1>1, <1>2, <1>3, <1>4, AutoThreadSteps

(***************************************************************************)
(* SoleAuto holds of every behaviour of a car with one client.             *)
(***************************************************************************)
LEMMA AlwaysSole == ASSUME OneClient PROVE Spec => []SoleAuto
<1>1. Init => SoleAuto
  BY DEF Init, SoleAuto
<1>2. TypeOK /\ SoleAuto /\ [Next]_vars => SoleAuto'
  BY SoleStep
<1>3. QED
  BY <1>1, <1>2, TypeCorrect, PTL DEF Spec

(***************************************************************************)
(* However often AUTO and MENU are sent, one client never has two automode *)
(* threads at once: the handle that is not reset sees to it.               *)
(***************************************************************************)
THEOREM OneClientOneAuto == ASSUME OneClient PROVE Spec => []OneAutoThread
<1>1. SoleAuto => OneAutoThread
  BY DEF SoleAuto, OneAutoThread, AutoAlive
<1>2. QED
  BY <1>1, AlwaysSole, PTL

----------------------------------------------------------------------------
(* The order in which the threads of one client start. *)

Nothing == ultrasonicThread = NoThread /\ \A u \in UltraThreads : ultraPc[u] = "none"
NoRequest == ~autoModeKillFlag /\ ~ultrasonicKillFlag

(***************************************************************************)
(* Until the automode thread has registered its handler nobody can have    *)
(* asked for anything; it does so before it creates the ultrasonic thread, *)
(* the only one, and until that has registered its own, nobody can have    *)
(* asked it to stop.                                                       *)
(***************************************************************************)
StartOrder ==
  /\ (running /\ autoModeThread = NoThread) => handler = "default" /\ NoRequest /\ Nothing
  /\ \A t \in AutoThreads :
       /\ autoPc[t] \in {"entry", "register"} => handler = "default" /\ NoRequest
       /\ autoPc[t] \in {"entry", "register", "spawnTest", "spawn"} => Nothing
       /\ autoPc[t] \in {"spawnTest", "spawn"} =>
            handler = "autoModePthreadKill" /\ ~ultrasonicKillFlag
       /\ autoPc[t] \notin {"none", "entry", "register"} => handler # "default"
  /\ \A u \in UltraThreads :
       /\ ultraPc[u] # "none" => u = ultrasonicThread
       /\ ultraPc[u] \in {"entry", "open", "register"} =>
            handler = "autoModePthreadKill" /\ ~ultrasonicKillFlag

(***************************************************************************)
(* Steps that create no thread and register no handler, and ask for        *)
(* nothing but through the handler that is there.                          *)
(***************************************************************************)
StartIdle ==
  /\ UNCHANGED <<running, autoModeThread, ultrasonicThread, handler>>
  /\ \A t \in AutoThreads :
       \/ autoPc'[t] = autoPc[t]
       \/ autoPc[t] = "entry" /\ autoPc'[t] = "register"
       \/ autoPc[t] = "spawnTest" /\ Nothing /\ autoPc'[t] = "spawn"
       \/ autoPc[t] \notin {"none", "entry", "register"}
            /\ autoPc'[t] \notin {"none", "entry", "register", "spawnTest", "spawn"}
  /\ \A u \in UltraThreads :
       \/ ultraPc'[u] = ultraPc[u]
       \/ ultraPc[u] = "entry" /\ ultraPc'[u] = "open"
       \/ ultraPc[u] = "open" /\ ultraPc'[u] = "register"
       \/ ultraPc[u] # "none" /\ ultraPc'[u] \notin {"none", "entry", "open", "register"}
  /\ autoModeKillFlag' => autoModeKillFlag \/ handler # "default"
  /\ ultrasonicKillFlag' => ultrasonicKillFlag \/ handler = "ultralsonicPthreadKill"

(***************************************************************************)
(* Only a registered handler raises a flag, and none takes one back.       *)
(***************************************************************************)
LEMMA HandlerRaises ==
  ASSUME TypeOK, NEW p, RunHandler(p)
  PROVE  /\ handler' = handler /\ handler # "default"
         /\ autoModeKillFlag => autoModeKillFlag'
         /\ ultrasonicKillFlag => ultrasonicKillFlag'
         /\ ultrasonicKillFlag' => ultrasonicKillFlag \/ handler = "ultralsonicPthreadKill"
<1>1. CASE handler = "autoModePthreadKill" /\ autoModePthreadKill(p)
  BY <1>1 DEF autoModePthreadKill, DispositionAfter
<1>2. CASE handler = "ultralsonicPthreadKill" /\ ultralsonicPthreadKill(p)
  BY <1>2 DEF ultralsonicPthreadKill, DispositionAfter
<1>3. QED
  BY <1>1, <1>2 DEF RunHandler

(***************************************************************************)
(* A step is idle in this sense, or it is one of those named here.         *)
(***************************************************************************)
LEMMA StartSteps ==
  ASSUME TypeOK, SoleAuto, StartOrder, [Next]_vars
  PROVE  \/ StartIdle
         \/ Die
         \/ Relaunch
         \/ \E r \in Receivers, t \in AutoThreads : CreateAuto(r, t)
         \/ \E t \in AutoThreads : AutoRegister(t)
         \/ \E t \in AutoThreads, u \in UltraThreads : AutoSpawn(t, u)
         \/ \E u \in UltraThreads : UltraRegister(u)
<1> USE DEF StartIdle, TypeOK, threads, handles, signals
<1>1. ASSUME NEW r \in Receivers, Receiver(r),
             ~Die, \A t \in AutoThreads : ~CreateAuto(r, t)
      PROVE  StartIdle
  BY <1>1 DEF Receiver, Accept, Disconnect, TestAuto, Menu, RecvDrive, RecvMode,
              KillReportedOk, RunHandler, autoModePthreadKill, ultralsonicPthreadKill,
              DispositionAfter
<1>2. ASSUME NEW t \in AutoThreads, AutoForward(t) PROVE StartIdle
  BY <1>2 DEF AutoForward, AutoAt, AutoGoto
<1>3. ASSUME NEW t \in AutoThreads, AutoMsgget(t) PROVE StartIdle
  BY <1>3 DEF AutoMsgget, AutoAt, AutoGoto
<1>4. ASSUME NEW t \in AutoThreads, AutoEntry(t) PROVE StartIdle
  <2>1. autoModeKillFlag' = FALSE /\ UNCHANGED ultrasonicKillFlag
    BY <1>4 DEF AutoEntry
  <2>2. \A s \in AutoThreads : \/ autoPc'[s] = autoPc[s]
                               \/ autoPc[s] = "entry" /\ autoPc'[s] = "register"
    BY <1>4 DEF AutoEntry, AutoAt, AutoGoto
  <2>3. UNCHANGED <<running, autoModeThread, ultrasonicThread, handler, ultraPc>>
    BY <1>4 DEF AutoEntry
  <2>4. QED
    BY <2>1, <2>2, <2>3
<1>5. ASSUME NEW t \in AutoThreads, AutoReceive(t) \/ AutoCheck(t) PROVE StartIdle
  BY <1>5 DEF AutoReceive, AutoCheck, AutoAt, AutoGoto
<1>6. ASSUME NEW t \in AutoThreads, AutoDrive(t) PROVE StartIdle
  <2>1. AutoMotor[autoPc[t]].next \in {"setForward", "setBackward", "check"}
    BY <1>6 DEF AutoDrive, AutoMotor, Call
  <2>2. autoPc[t] \in {"stopBackward", "setForward", "stopForward", "setBackward"}
    BY <1>6 DEF AutoDrive, AutoMotor
  <2>3. QED
    BY <1>6, <2>1, <2>2 DEF AutoDrive, AutoGoto
<1>7. ASSUME NEW t \in AutoThreads, AutoSpawnTest(t) PROVE StartIdle
  BY <1>7 DEF AutoSpawnTest, AutoAt, AutoGoto, StartOrder
<1>8. ASSUME NEW t \in AutoThreads, DeliverAuto(t), ~Die PROVE StartIdle
  <2>1. RunHandler(pending \ {t}) /\ UNCHANGED <<running, handles, ultraPc>>
    BY <1>8 DEF DeliverAuto
  <2>2. \A s \in AutoThreads : \/ autoPc'[s] = autoPc[s]
                               \/ autoPc[s] = "receive" /\ autoPc'[s] = "exited"
    BY <1>8 DEF DeliverAuto
  <2>3. QED
    BY <2>1, <2>2, HandlerRaises
<1>9. ASSUME NEW u \in UltraThreads, UltraEntry(u) \/ UltraOpen(u) \/ UltraMsgget(u)
      PROVE  StartIdle
  BY <1>9 DEF UltraEntry, UltraOpen, UltraMsgget, UltraAt, UltraGoto
<1>10. ASSUME NEW u \in UltraThreads,
             UltraRead(u) \/ UltraSend(u) \/ UltraCheck(u) \/ UltraClose(u)
      PROVE  StartIdle
  BY <1>10 DEF UltraRead, UltraSend, UltraCheck, UltraClose, UltraAt, UltraGoto
<1>11. ASSUME NEW u \in UltraThreads, DeliverUltra(u), ~Die PROVE StartIdle
  <2>1. RunHandler(pending \ {u}) /\ UNCHANGED <<running, handles, autoPc>>
    BY <1>11 DEF DeliverUltra
  <2>2. \A v \in UltraThreads : \/ ultraPc'[v] = ultraPc[v]
                                \/ ultraPc[v] = "send" /\ ultraPc'[v] = "close"
    BY <1>11 DEF DeliverUltra
  <2>3. QED
    BY <2>1, <2>2, HandlerRaises
<1>12. ASSUME UNCHANGED vars PROVE StartIdle
  BY <1>12 DEF vars
<1> HIDE DEF StartIdle, TypeOK, threads, handles, signals
<1>13. QED
  BY <1>1, <1>2, <1>3, <1>4, <1>5, <1>6, <1>7, <1>8, <1>9, <1>10, <1>11, <1>12
     DEF Next, Kill, AutoMode, Ultrasonic

(***************************************************************************)
(* Every step keeps the order.                                             *)
(***************************************************************************)
LEMMA StartStep ==
  ASSUME OneClient, TypeOK, DeviceInv, SoleAuto, StartOrder, [Next]_vars
  PROVE  StartOrder'
<1> USE DEF StartOrder, NoRequest, Nothing
<1>1. CASE StartIdle
  BY <1>1 DEF StartIdle
<1>2. CASE Die
  BY <1>2 DEF Die
<1>3. CASE Relaunch
  BY <1>3 DEF Relaunch, SoleAuto, DeviceInv, threads
<1>4. ASSUME NEW r \in Receivers, NEW t \in AutoThreads, CreateAuto(r, t)
      PROVE  StartOrder'
  <2>1. running /\ autoModeThread = NoThread
    BY <1>4 DEF CreateAuto, SoleAuto
  <2>2. QED
    BY <1>4, <2>1, ThreadsAssumption DEF CreateAuto, TypeOK, signals
<1>5. ASSUME NEW t \in AutoThreads, AutoRegister(t) PROVE StartOrder'
  <2>1. autoModeThread = t /\ autoPc[t] = "register" /\ \A s \in AutoThreads \ {t} : autoPc[s] = "none"
    BY <1>5 DEF AutoRegister, AutoAt, SoleAuto
  <2>2. QED
    BY <1>5, <2>1, ThreadsAssumption DEF AutoRegister, AutoGoto, TypeOK, handles
<1>6. ASSUME NEW t \in AutoThreads, NEW u \in UltraThreads, AutoSpawn(t, u)
      PROVE  StartOrder'
  <2>1. autoModeThread = t /\ autoPc[t] = "spawn" /\ \A s \in AutoThreads \ {t} : autoPc[s] = "none"
    BY <1>6 DEF AutoSpawn, AutoAt, SoleAuto
  <2>2. QED
    BY <1>6, <2>1, ThreadsAssumption DEF AutoSpawn, AutoGoto, TypeOK, signals
<1>7. ASSUME NEW u \in UltraThreads, UltraRegister(u) PROVE StartOrder'
  <2>1. ultraPc[u] = "register" /\ \A v \in UltraThreads \ {u} : ultraPc[v] = "none"
    BY <1>7 DEF UltraRegister, UltraAt
  <2>2. ultrasonicThread = u /\ u # NoThread
    BY <2>1, ThreadsAssumption
  <2>3. QED
    BY <1>7, <2>1, <2>2 DEF UltraRegister, UltraGoto, TypeOK, handles
<1>8. QED
  BY <1>1, <1>2, <1>3, <1>4, <1>5, <1>6, <1>7, StartSteps

(***************************************************************************)
(* StartOrder holds of every behaviour of a car with one client.           *)
(***************************************************************************)
LEMMA AlwaysStart == ASSUME OneClient PROVE Spec => []StartOrder
<1>1. Init => StartOrder
  BY DEF Init, StartOrder, NoRequest, Nothing
<1>2. TypeOK /\ DeviceInv /\ SoleAuto /\ StartOrder /\ [Next]_vars => StartOrder'
  BY StartStep
<1>3. QED
  BY <1>1, <1>2, TypeCorrect, AlwaysDevice, AlwaysSole, PTL DEF Spec

(***************************************************************************)
(* A starting thread clears its flag before a request can have set it, so  *)
(* none is taken back.                                                     *)
(***************************************************************************)
THEOREM OneClientKeepsRequests ==
  ASSUME OneClient, MayRestart = FALSE
  PROVE  Spec => StopRequestsKept
<1>1. TypeOK /\ StartOrder /\ [Next]_vars =>
        [ running' => /\ autoModeKillFlag => autoModeKillFlag'
                      /\ ultrasonicKillFlag => ultrasonicKillFlag' ]_vars
  <2> SUFFICES ASSUME TypeOK, StartOrder, [Next]_vars, running'
               PROVE  /\ autoModeKillFlag => autoModeKillFlag'
                      /\ ultrasonicKillFlag => ultrasonicKillFlag'
    OBVIOUS
  <2> DEFINE Kept == /\ autoModeKillFlag => autoModeKillFlag'
                     /\ ultrasonicKillFlag => ultrasonicKillFlag'
  <2>1. ASSUME UNCHANGED <<autoModeKillFlag, ultrasonicKillFlag>> PROVE Kept
    BY <2>1
  <2>2. ASSUME NEW p, RunHandler(p) PROVE Kept
    BY <2>2, HandlerRaises
  <2>3. ASSUME NEW r \in Receivers, Receiver(r) PROVE Kept
    <3>1. \/ UNCHANGED <<autoModeKillFlag, ultrasonicKillFlag>>
          \/ RunHandler(pending)
      BY <2>3 DEF Receiver, Accept, Disconnect, TestAuto, Menu, RecvDrive, RecvMode,
                  CreateAuto, Die, signals
    <3>2. QED
      BY <3>1, <2>1, <2>2
  <2>4. ASSUME NEW t \in AutoThreads, AutoMode(t) \/ DeliverAuto(t) PROVE Kept
    <3>1. CASE AutoEntry(t)
      <4>1. ~autoModeKillFlag /\ UNCHANGED ultrasonicKillFlag
        BY <3>1 DEF AutoEntry, AutoAt, StartOrder, NoRequest
      <4>2. QED
        BY <4>1
    <3>2. CASE ~AutoEntry(t)
      <4>1. \/ UNCHANGED <<autoModeKillFlag, ultrasonicKillFlag>>
            \/ RunHandler(pending \ {t})
        BY <2>4, <3>2 DEF AutoMode, AutoRegister, AutoSpawnTest, AutoSpawn, AutoForward,
                          AutoMsgget, AutoReceive, AutoDrive, AutoCheck, DeliverAuto, Die,
                          signals
      <4>2. QED
        BY <4>1, <2>1, <2>2
    <3>3. QED
      BY <3>1, <3>2
  <2>5. ASSUME NEW u \in UltraThreads, Ultrasonic(u) \/ DeliverUltra(u) PROVE Kept
    <3>1. CASE UltraEntry(u)
      <4>1. ~ultrasonicKillFlag /\ UNCHANGED autoModeKillFlag
        BY <3>1 DEF UltraEntry, UltraAt, StartOrder
      <4>2. QED
        BY <4>1
    <3>2. CASE ~UltraEntry(u)
      <4>1. \/ UNCHANGED <<autoModeKillFlag, ultrasonicKillFlag>>
            \/ RunHandler(pending \ {u})
        BY <2>5, <3>2 DEF Ultrasonic, UltraOpen, UltraRegister, UltraMsgget, UltraRead,
                          UltraSend, UltraCheck, UltraClose, DeliverUltra, Die, signals
      <4>2. QED
        BY <4>1, <2>1, <2>2
    <3>3. QED
      BY <3>1, <3>2
  <2>6. ASSUME UNCHANGED vars PROVE Kept
    BY <2>1, <2>6 DEF vars, signals
  <2>7. QED
    BY <2>3, <2>4, <2>5, <2>6 DEF Next, Kill, Relaunch
<1>2. QED
  BY <1>1, TypeCorrect, AlwaysStart, PTL DEF Spec, StopRequestsKept

----------------------------------------------------------------------------
(* The ultrasonic thread that signals itself. *)

(***************************************************************************)
(* Only a living ultrasonic thread has a signal to come, and once it has   *)
(* registered its handler nobody registers another.                        *)
(***************************************************************************)
SelfInv ==
  /\ \A u \in UltraThreads : u \in pending => running /\ UltraAlive(u)
  /\ \A u \in UltraThreads : Registered(u) => handler = "ultralsonicPthreadKill"

(***************************************************************************)
(* A handler signals nobody but the ultrasonic thread, if that is alive.   *)
(***************************************************************************)
LEMMA HandlerSignals ==
  ASSUME NEW p, RunHandler(p)
  PROVE  /\ p \subseteq pending'
         /\ \A w \in pending' : w \in p \/ (w \in UltraThreads /\ UltraAlive(w))
         /\ handler' = handler
         /\ handler = "autoModePthreadKill" =>
              \A u \in UltraThreads : u = ultrasonicThread /\ UltraAlive(u) => u \in pending'
<1>1. CASE handler = "autoModePthreadKill" /\ autoModePthreadKill(p)
  BY <1>1 DEF autoModePthreadKill, DispositionAfter
<1>2. CASE handler = "ultralsonicPthreadKill" /\ ultralsonicPthreadKill(p)
  BY <1>2 DEF ultralsonicPthreadKill, DispositionAfter
<1>3. QED
  BY <1>1, <1>2 DEF RunHandler

(***************************************************************************)
(* What the receivers and the automode threads do to the signals.          *)
(***************************************************************************)
LEMMA OthersSignal ==
  ASSUME TypeOK, SoleAuto, StartOrder, ~Die,
         \/ \E r \in Receivers : Receiver(r)
         \/ \E t \in AutoThreads : AutoMode(t) \/ DeliverAuto(t)
  PROVE  /\ UNCHANGED <<running, deviceOwner>>
         /\ \A u \in UltraThreads : \/ ultraPc'[u] = ultraPc[u]
                                    \/ ultraPc[u] = "none" /\ ultraPc'[u] = "entry"
         /\ \/ UNCHANGED handler
            \/ Nothing /\ handler' = "autoModePthreadKill"
         /\ \A u \in UltraThreads : u \in pending => u \in pending'
         /\ \A u \in UltraThreads : u \in pending' => u \in pending \/ (running /\ UltraAlive(u))
<1> USE ThreadsAssumption DEF threads, handles, signals, sensor
<1>1. ASSUME NEW r \in Receivers, Receiver(r), ~Menu(r)
      PROVE  UNCHANGED <<running, deviceOwner, ultraPc, handler, pending>>
  BY <1>1 DEF Receiver, Accept, Disconnect, TestAuto, RecvDrive, RecvMode, CreateAuto
<1>2. ASSUME NEW r \in Receivers, Menu(r)
      PROVE  /\ running /\ UNCHANGED <<running, deviceOwner, ultraPc>>
             /\ \/ UNCHANGED <<handler, pending>>
                \/ UNCHANGED handler /\ pending' = pending \cup {autoModeThread}
                     /\ autoModeThread # NoThread
                \/ RunHandler(pending)
  BY <1>2 DEF Menu
<1>3. ASSUME NEW r \in Receivers, Menu(r)
      PROVE  /\ UNCHANGED handler
             /\ \A u \in UltraThreads : u \in pending => u \in pending'
             /\ \A u \in UltraThreads : u \in pending' => u \in pending \/ (running /\ UltraAlive(u))
  <2>1. CASE UNCHANGED <<handler, pending>>
    BY <2>1
  <2>2. CASE UNCHANGED handler /\ pending' = pending \cup {autoModeThread} /\ autoModeThread # NoThread
    <3>1. autoModeThread \notin UltraThreads
      BY <2>2 DEF TypeOK
    <3> QED BY <2>2, <3>1
  <2>3. CASE RunHandler(pending)
    BY <1>2, <1>3, <2>3, HandlerSignals
  <2> QED BY <1>2, <1>3, <2>1, <2>2, <2>3
<1>4. ASSUME NEW t \in AutoThreads, AutoRegister(t)
      PROVE  /\ UNCHANGED <<running, deviceOwner, ultraPc, pending>>
             /\ Nothing /\ handler' = "autoModePthreadKill"
  BY <1>4 DEF AutoRegister, AutoAt, StartOrder
<1>5. ASSUME NEW t \in AutoThreads, NEW u \in UltraThreads, AutoSpawn(t, u)
      PROVE  /\ UNCHANGED <<running, deviceOwner, handler, pending>>
             /\ \A v \in UltraThreads : \/ ultraPc'[v] = ultraPc[v]
                                        \/ ultraPc[v] = "none" /\ ultraPc'[v] = "entry"
  BY <1>5 DEF AutoSpawn, TypeOK
<1>6. ASSUME NEW t \in AutoThreads, AutoMode(t), ~AutoRegister(t),
             \A u \in UltraThreads : ~AutoSpawn(t, u)
      PROVE  UNCHANGED <<running, deviceOwner, ultraPc, handler, pending>>
  BY <1>6 DEF AutoMode, AutoEntry, AutoSpawnTest, AutoForward, AutoMsgget, AutoReceive,
              AutoDrive, AutoCheck
<1>7. ASSUME NEW t \in AutoThreads, DeliverAuto(t)
      PROVE  /\ running /\ UNCHANGED <<running, deviceOwner, ultraPc, handler>>
             /\ \A u \in UltraThreads : u \in pending => u \in pending'
             /\ \A u \in UltraThreads : u \in pending' => u \in pending \/ (running /\ UltraAlive(u))
  <2>1. running /\ RunHandler(pending \ {t}) /\ UNCHANGED <<running, deviceOwner, ultraPc>>
    BY <1>7 DEF DeliverAuto
  <2> QED BY <2>1, HandlerSignals
<1>8. ASSUME NEW r \in Receivers, Receiver(r) PROVE UNCHANGED <<running, deviceOwner, ultraPc, handler>>
  BY <1>1, <1>2, <1>3, <1>8
<1>9. QED
  BY <1>1, <1>2, <1>3, <1>4, <1>5, <1>6, <1>7, <1>8

(***************************************************************************)
(* Every step keeps SelfInv.                                               *)
(***************************************************************************)
LEMMA SelfStep ==
  ASSUME TypeOK, DeviceInv, SoleAuto, StartOrder, SelfInv, [Next]_vars
  PROVE  SelfInv'
<1> USE DEF SelfInv, Registered, UltraAlive
<1>1. CASE Die
  BY <1>1 DEF Die
<1>2. CASE Relaunch
  BY <1>2 DEF Relaunch, DeviceInv, threads
<1>3. ASSUME ~Die, \/ \E r \in Receivers : Receiver(r)
                   \/ \E t \in AutoThreads : AutoMode(t) \/ DeliverAuto(t)
      PROVE  SelfInv'
  <2> DEFINE Moves(u) == \/ ultraPc'[u] = ultraPc[u]
                         \/ ultraPc[u] = "none" /\ ultraPc'[u] = "entry"
  <2>1. /\ UNCHANGED running
        /\ \A u \in UltraThreads : Moves(u)
        /\ UNCHANGED handler \/ Nothing
        /\ \A u \in UltraThreads : u \in pending' => u \in pending \/ (running /\ UltraAlive(u))
    BY <1>3, OthersSignal
  <2> QED BY <2>1 DEF Nothing
<1>4. ASSUME NEW u \in UltraThreads, Ultrasonic(u) PROVE SelfInv'
  <2>1. /\ UNCHANGED <<running, pending>> /\ running /\ u \notin pending
        /\ \A v \in UltraThreads \ {u} : ultraPc'[v] = ultraPc[v]
        /\ \/ UNCHANGED handler /\ (ultraPc'[u] \in {"msgget", "read", "send", "check", "close"}
                                       => Registered(u))
           \/ handler' = "ultralsonicPthreadKill"
    BY <1>4 DEF Ultrasonic, UltraEntry, UltraOpen, UltraRegister, UltraMsgget, UltraRead,
                UltraSend, UltraCheck, UltraClose, UltraAt, UltraGoto, TypeOK, signals
  <2> QED BY <2>1
<1>5. ASSUME NEW u \in UltraThreads, DeliverUltra(u), ~Die PROVE SelfInv'
  <2>1. RunHandler(pending \ {u}) /\ running /\ UNCHANGED running
    BY <1>5 DEF DeliverUltra
  <2>2. \A v \in UltraThreads : \/ ultraPc'[v] = ultraPc[v]
                                \/ ultraPc[v] = "send" /\ ultraPc'[v] = "close"
    BY <1>5 DEF DeliverUltra, TypeOK
  <2> QED BY <2>1, <2>2, HandlerSignals
<1>6. CASE UNCHANGED vars
  BY <1>6 DEF vars, threads, signals
<1>7. QED
  BY <1>1, <1>2, <1>3, <1>4, <1>5, <1>6 DEF Next, Kill

(***************************************************************************)
(* SelfInv holds of every behaviour of a car with one client.              *)
(***************************************************************************)
LEMMA AlwaysSelf == ASSUME OneClient PROVE Spec => []SelfInv
<1>1. Init => SelfInv
  BY DEF Init, SelfInv, Registered
<1>2. TypeOK /\ DeviceInv /\ SoleAuto /\ StartOrder /\ SelfInv /\ [Next]_vars => SelfInv'
  BY SelfStep
<1>3. QED
  BY <1>1, <1>2, TypeCorrect, AlwaysDevice, AlwaysSole, AlwaysStart, PTL DEF Spec

(***************************************************************************)
(* A MENU that reaches the ultrasonic thread before its handler is         *)
(* registered hangs it for good: it runs the other thread's handler, which *)
(* sends it the signal again, and never gets to the close of the device.   *)
(***************************************************************************)
THEOREM OneClientSelfSignal ==
  ASSUME OneClient
  PROVE  Spec => SelfSignalIsForever
<1>1. TypeOK /\ DeviceInv /\ SoleAuto /\ StartOrder /\ SelfInv /\ [Next]_vars =>
        [ \A u \in UltraThreads :
            u \in pending /\ handler = "autoModePthreadKill" /\ running' =>
              /\ u \in pending'
              /\ handler' = handler
              /\ ultraPc'[u] = ultraPc[u]
              /\ deviceOwner = u => deviceOwner' = u ]_vars
  <2> SUFFICES ASSUME TypeOK, DeviceInv, SoleAuto, StartOrder, SelfInv, [Next]_vars,
                      NEW u \in UltraThreads, u \in pending,
                      handler = "autoModePthreadKill", running'
               PROVE  /\ u \in pending'
                      /\ handler' = handler
                      /\ ultraPc'[u] = ultraPc[u]
                      /\ deviceOwner = u => deviceOwner' = u
    OBVIOUS
  <2> DEFINE Hangs == /\ u \in pending'
                      /\ handler' = handler
                      /\ ultraPc'[u] = ultraPc[u]
                      /\ deviceOwner = u => deviceOwner' = u
  <2>1. running /\ UltraAlive(u) /\ ~Registered(u)
    BY DEF SelfInv
  <2>2. \A v \in UltraThreads : ultraPc[v] # "none" => v = u
    BY <2>1 DEF StartOrder, UltraAlive
  <2>3. ASSUME \/ \E r \in Receivers : Receiver(r)
               \/ \E t \in AutoThreads : AutoMode(t) \/ DeliverAuto(t)
        PROVE  Hangs
    <3>1. ~Die
      BY DEF Die
    <3>2. /\ UNCHANGED deviceOwner
          /\ ultraPc'[u] = ultraPc[u] \/ ultraPc[u] = "none"
          /\ UNCHANGED handler \/ Nothing
          /\ u \in pending'
      BY <2>3, <3>1, OthersSignal
    <3> QED BY <2>1, <3>2 DEF UltraAlive, Nothing
  <2>4. ASSUME NEW v \in UltraThreads, Ultrasonic(v) PROVE Hangs
    <3>1. v \notin pending /\ ultraPc[v] # "none"
      BY <2>4 DEF Ultrasonic, UltraEntry, UltraOpen, UltraRegister, UltraMsgget, UltraRead,
                  UltraSend, UltraCheck, UltraClose, UltraAt
    <3> QED BY <2>2, <3>1
  <2>5. ASSUME NEW v \in UltraThreads, DeliverUltra(v) PROVE Hangs
    <3>1. ~Die
      BY DEF Die
    <3>2. v \in pending /\ RunHandler(pending \ {v}) /\ UNCHANGED <<sensor>>
      BY <2>5, <3>1 DEF DeliverUltra
    <3>3. v = u /\ u = ultrasonicThread
      BY <2>1, <2>2, <3>2 DEF SelfInv, StartOrder, UltraAlive
    <3>4. ultraPc' = ultraPc
      BY <2>1, <2>5, <3>1, <3>3 DEF DeliverUltra, Registered
    <3> QED BY <2>1, <3>2, <3>3, <3>4, HandlerSignals DEF sensor
  <2>6. ASSUME UNCHANGED vars PROVE Hangs
    BY <2>6 DEF vars, threads, signals, sensor
  <2>7. QED
    BY <2>1, <2>3, <2>4, <2>5, <2>6 DEF Next, Kill, Die, Relaunch
<1>2. QED
  BY <1>1, TypeCorrect, AlwaysDevice, AlwaysSole, AlwaysStart, AlwaysSelf, PTL
     DEF Spec, SelfSignalIsForever

----------------------------------------------------------------------------
(* The motors of a car whose client sends no drive commands. *)

ModesOnly == \A buf \in Buffers : Dispatch(buf) \notin DriveCommand
WritesSucceed == "write" \notin Faults

MotorPc == {"stopBackward", "setForward", "stopForward", "setBackward"}

(***************************************************************************)
(* The steps that leave the drive channels and the notices alone.          *)
(***************************************************************************)
Cruise ==
  /\ UNCHANGED <<running, carDistance, queue, leftover, lastNotice>>
  /\ out'["PWM0"] = out["PWM0"] /\ out'["PWM1"] = out["PWM1"]
  /\ \A t \in AutoThreads :
       \/ autoPc'[t] = autoPc[t]
       \/ autoPc[t] \notin MotorPc /\ autoPc'[t] \notin MotorPc
  /\ ultrasonicThread # NoThread => ultrasonicThread' # NoThread

(***************************************************************************)
(* A step leaves them alone, or it is one of those named here.             *)
(***************************************************************************)
LEMMA MotorSteps ==
  ASSUME ModesOnly, TypeOK, [Next]_vars
  PROVE  \/ Cruise
         \/ Die
         \/ Relaunch
         \/ \E t \in AutoThreads : AutoReceive(t)
         \/ \E t \in AutoThreads : AutoDrive(t)
         \/ \E u \in UltraThreads : UltraSend(u)
<1> USE ThreadsAssumption DEF Cruise, MotorPc, TypeOK, threads, handles, sensor, notices
<1>1. ASSUME NEW r \in Receivers, Receiver(r), ~Die PROVE Cruise
  <2>1. \A buf \in Buffers : ~RecvDrive(r, buf)
    BY DEF RecvDrive, ModesOnly
  <2>2. QED
    BY <1>1, <2>1 DEF Receiver, Accept, Disconnect, TestAuto, Menu, RecvMode, CreateAuto
<1>2. ASSUME NEW t \in AutoThreads, AutoForward(t) PROVE Cruise
  <2>1. out'["PWM0"] = out["PWM0"] /\ out'["PWM1"] = out["PWM1"]
    BY <1>2 DEF AutoForward, Write, Outputs
  <2>2. QED
    BY <1>2, <2>1 DEF AutoForward, AutoAt, AutoGoto
<1>3. ASSUME NEW t \in AutoThreads, AutoEntry(t) \/ AutoRegister(t) \/ AutoSpawnTest(t)
      PROVE  Cruise
  BY <1>3 DEF AutoEntry, AutoRegister, AutoSpawnTest, AutoAt, AutoGoto
<1>4. ASSUME NEW t \in AutoThreads, NEW u \in UltraThreads, AutoSpawn(t, u) PROVE Cruise
  BY <1>4 DEF AutoSpawn, AutoAt, AutoGoto
<1>5. ASSUME NEW t \in AutoThreads, AutoMsgget(t) \/ AutoCheck(t) PROVE Cruise
  BY <1>5 DEF AutoMsgget, AutoCheck, AutoAt, AutoGoto
<1>6. ASSUME NEW t \in AutoThreads, DeliverAuto(t), ~Die PROVE Cruise
  BY <1>6 DEF DeliverAuto
<1>7. ASSUME NEW u \in UltraThreads, Ultrasonic(u), ~UltraSend(u) PROVE Cruise
  BY <1>7 DEF Ultrasonic, UltraEntry, UltraOpen, UltraRegister, UltraMsgget, UltraRead,
              UltraCheck, UltraClose
<1>8. ASSUME NEW u \in UltraThreads, DeliverUltra(u), ~Die PROVE Cruise
  BY <1>8 DEF DeliverUltra
<1>9. ASSUME UNCHANGED vars PROVE Cruise
  BY <1>9 DEF vars
<1> HIDE DEF Cruise, MotorPc, TypeOK, threads, handles, sensor, notices
<1>10. QED
  BY <1>1, <1>2, <1>3, <1>4, <1>5, <1>6, <1>7, <1>8, <1>9 DEF Next, Kill, AutoMode

(***************************************************************************)
(* The four motor calls, each of one drive channel.                        *)
(***************************************************************************)
Drives(t, pc, output, level, next) ==
  /\ autoPc[t] = pc /\ autoPc' = [autoPc EXCEPT ![t] = next]
  /\ out' = [out EXCEPT ![output] = level]

\* The motor call of the loop is one of these when no write fails.
LEMMA DriveCalls ==
  ASSUME WritesSucceed, TypeOK, NEW t \in AutoThreads, AutoDrive(t)
  PROVE  \/ Drives(t, "stopBackward", "PWM1", FALSE, "setForward")
         \/ Drives(t, "setForward", "PWM0", TRUE, "check")
         \/ Drives(t, "stopForward", "PWM0", FALSE, "setBackward")
         \/ Drives(t, "setBackward", "PWM1", TRUE, "check")
<1>1. ASSUME NEW o, NEW level, Write({o}, level) PROVE out' = [out EXCEPT ![o] = level]
  BY <1>1 DEF Write, WritesSucceed, TypeOK
<1>2. autoPc[t] \in MotorPc
  BY DEF AutoDrive, AutoMotor, MotorPc
<1>3. /\ autoPc' = [autoPc EXCEPT ![t] = AutoMotor[autoPc[t]].next]
      /\ out' = [out EXCEPT ![AutoMotor[autoPc[t]].output] = AutoMotor[autoPc[t]].level]
  BY <1>1 DEF AutoDrive, AutoGoto
<1>4. CASE autoPc[t] = "stopBackward"
  <2>1. AutoMotor[autoPc[t]] = Call("PWM1", FALSE, "setForward")
    BY <1>4 DEF AutoMotor
  <2>2. QED
    BY <1>3, <1>4, <2>1 DEF Call, Drives
<1>5. CASE autoPc[t] = "setForward"
  <2>1. AutoMotor[autoPc[t]] = Call("PWM0", TRUE, "check")
    BY <1>5 DEF AutoMotor
  <2>2. QED
    BY <1>3, <1>5, <2>1 DEF Call, Drives
<1>6. CASE autoPc[t] = "stopForward"
  <2>1. AutoMotor[autoPc[t]] = Call("PWM0", FALSE, "setBackward")
    BY <1>6 DEF AutoMotor
  <2>2. QED
    BY <1>3, <1>6, <2>1 DEF Call, Drives
<1>7. CASE autoPc[t] = "setBackward"
  <2>1. AutoMotor[autoPc[t]] = Call("PWM1", TRUE, "check")
    BY <1>7 DEF AutoMotor
  <2>2. QED
    BY <1>3, <1>7, <2>1 DEF Call, Drives
<1>8. QED
  BY <1>2, <1>4, <1>5, <1>6, <1>7 DEF MotorPc

(***************************************************************************)
(* The channels are never on together, inductively: before one is set the  *)
(* thread, the only one, has stopped the other, and nobody sets it in      *)
(* between.                                                                *)
(***************************************************************************)
StopBeforeSet ==
  /\ NoOpposedDrive
  /\ \A t \in AutoThreads :
       /\ autoPc[t] = "setForward" => ~out["PWM1"]
       /\ autoPc[t] = "setBackward" => ~out["PWM0"]

(***************************************************************************)
(* Every step keeps it.                                                    *)
(***************************************************************************)
LEMMA StopBeforeSetStep ==
  ASSUME OneClient, ModesOnly, WritesSucceed, TypeOK, SoleAuto, StopBeforeSet, [Next]_vars
  PROVE  StopBeforeSet'
<1> USE DEF StopBeforeSet, NoOpposedDrive
<1>1. CASE Cruise
  BY <1>1 DEF Cruise, MotorPc
<1>2. CASE Die
  BY <1>2 DEF Die
<1>3. CASE Relaunch
  BY <1>3 DEF Relaunch, SoleAuto, Outputs, threads
<1>4. ASSUME NEW t \in AutoThreads, AutoReceive(t) PROVE StopBeforeSet'
  BY <1>4 DEF AutoReceive, AutoGoto, TypeOK
<1>5. ASSUME NEW t \in AutoThreads, AutoDrive(t) PROVE StopBeforeSet'
  <2>1. autoPc[t] # "none" /\ \A s \in AutoThreads \ {t} : autoPc[s] = "none"
    BY <1>5, DriveCalls DEF SoleAuto, Drives
  <2>2. out \in [Outputs -> BOOLEAN] /\ {"PWM0", "PWM1"} \subseteq Outputs
    BY DEF TypeOK, Outputs
  <2>3. CASE Drives(t, "stopBackward", "PWM1", FALSE, "setForward")
    BY <2>1, <2>2, <2>3 DEF Drives, TypeOK
  <2>4. CASE Drives(t, "setForward", "PWM0", TRUE, "check")
    BY <2>1, <2>2, <2>4 DEF Drives, TypeOK
  <2>5. CASE Drives(t, "stopForward", "PWM0", FALSE, "setBackward")
    BY <2>1, <2>2, <2>5 DEF Drives, TypeOK
  <2>6. CASE Drives(t, "setBackward", "PWM1", TRUE, "check")
    BY <2>1, <2>2, <2>6 DEF Drives, TypeOK
  <2>7. QED
    BY <1>5, <2>3, <2>4, <2>5, <2>6, DriveCalls
<1>6. ASSUME NEW u \in UltraThreads, UltraSend(u) PROVE StopBeforeSet'
  BY <1>6 DEF UltraSend
<1>7. QED
  BY <1>1, <1>2, <1>3, <1>4, <1>5, <1>6, MotorSteps

(***************************************************************************)
(* StopBeforeSet holds of every behaviour, with and without restarts.      *)
(***************************************************************************)
LEMMA AlwaysStopBeforeSet ==
  ASSUME OneClient, ModesOnly, WritesSucceed
  PROVE  Spec => []StopBeforeSet
<1>1. Init => StopBeforeSet
  BY DEF Init, StopBeforeSet, NoOpposedDrive, Outputs
<1>2. TypeOK /\ SoleAuto /\ StopBeforeSet /\ [Next]_vars => StopBeforeSet'
  BY StopBeforeSetStep
<1>3. QED
  BY <1>1, <1>2, TypeCorrect, AlwaysSole, PTL DEF Spec

(***************************************************************************)
(* No step of a reversal drives in both directions, also across restarts   *)
(* of the process, which leave a PWM channel as it was.                    *)
(***************************************************************************)
THEOREM NeverOpposed ==
  ASSUME OneClient, ModesOnly, WritesSucceed
  PROVE  Spec => []NoOpposedDrive
<1>1. StopBeforeSet => NoOpposedDrive
  BY DEF StopBeforeSet
<1>2. QED
  BY <1>1, AlwaysStopBeforeSet, PTL

----------------------------------------------------------------------------
(* What the motors show, until somebody restarts the process. *)

InMotor(t) == autoPc[t] \in MotorPc

(***************************************************************************)
(* The thread at a motor call acts on the notice it read last; between two *)
(* notices the motors show the last one; and a notice means that there is  *)
(* an ultrasonic thread.                                                   *)
(***************************************************************************)
MotorInv ==
  /\ leftover = 0
  /\ \A t \in AutoThreads :
       /\ autoPc[t] \in {"stopBackward", "setForward"} => lastNotice = "safe"
       /\ autoPc[t] \in {"stopForward", "setBackward"} => lastNotice = "danger"
  /\ running =>
       /\ (\A t \in AutoThreads : ~InMotor(t)) =>
            /\ out["PWM1"] <=> lastNotice = "danger"
            /\ out["PWM0"] => lastNotice = "safe"
       /\ (queue # << >> \/ \E t \in AutoThreads : InMotor(t)) => ultrasonicThread # NoThread

(***************************************************************************)
(* Every step keeps it; only the four motor calls and AutoReceive touch what*)
(* it relates.                                                             *)
(***************************************************************************)
LEMMA MotorStep ==
  ASSUME OneClient, ModesOnly, WritesSucceed, MayRestart = FALSE,
         TypeOK, SoleAuto, ArmedInv, StopBeforeSet, MotorInv, [Next]_vars
  PROVE  MotorInv'
<1> USE DEF MotorInv, InMotor
<1>1. CASE Cruise
  BY <1>1 DEF Cruise, MotorPc
<1>2. CASE Die
  BY <1>2 DEF Die, notices
<1>3. CASE Relaunch
  BY <1>3 DEF Relaunch
<1>4. ASSUME NEW t \in AutoThreads, AutoReceive(t) PROVE MotorInv'
  <2>1. running /\ autoPc[t] = "receive" /\ \A s \in AutoThreads \ {t} : autoPc[s] = "none"
    BY <1>4 DEF AutoReceive, AutoAt, SoleAuto
  <2>2. queue # << >> /\ Head(queue) \in {"safe", "danger"}
    BY <1>4 DEF AutoReceive, NoticeWaits, TypeOK, DISTANCE
  <2>3. /\ autoPc' = [autoPc EXCEPT ![t] = IF Head(queue) = "safe" THEN "stopBackward"
                                                               ELSE "stopForward"]
        /\ lastNotice' = Head(queue) /\ leftover' = 0
        /\ UNCHANGED <<running, ultrasonicThread>>
    BY <1>4 DEF AutoReceive, AutoGoto, handles
  <2>4. InMotor(t)'
    BY <2>2, <2>3 DEF MotorPc, TypeOK
  <2>5. QED
    BY <2>1, <2>2, <2>3, <2>4 DEF TypeOK
<1>5. ASSUME NEW t \in AutoThreads, AutoDrive(t) PROVE MotorInv'
  <2>1. UNCHANGED <<running, ultrasonicThread, queue, leftover, lastNotice>>
    BY <1>5 DEF AutoDrive, handles, notices
  <2>2. autoPc[t] \in MotorPc /\ \A s \in AutoThreads \ {t} : autoPc[s] = "none"
    BY <1>5, DriveCalls DEF SoleAuto, Drives, MotorPc
  <2>3. out \in [Outputs -> BOOLEAN] /\ {"PWM0", "PWM1"} \subseteq Outputs
    BY DEF TypeOK, Outputs
  <2>4. CASE Drives(t, "stopBackward", "PWM1", FALSE, "setForward")
    BY <2>1, <2>2, <2>3, <2>4 DEF Drives, TypeOK, MotorPc
  <2>5. CASE Drives(t, "setForward", "PWM0", TRUE, "check")
    BY <2>1, <2>2, <2>3, <2>5 DEF Drives, TypeOK, MotorPc, StopBeforeSet
  <2>6. CASE Drives(t, "stopForward", "PWM0", FALSE, "setBackward")
    BY <2>1, <2>2, <2>3, <2>6 DEF Drives, TypeOK, MotorPc
  <2>7. CASE Drives(t, "setBackward", "PWM1", TRUE, "check")
    BY <2>1, <2>2, <2>3, <2>7 DEF Drives, TypeOK, MotorPc, StopBeforeSet
  <2>8. QED
    BY <1>5, <2>4, <2>5, <2>6, <2>7, DriveCalls
<1>6. ASSUME NEW u \in UltraThreads, UltraSend(u) PROVE MotorInv'
  <2>1. ultrasonicThread # NoThread
    BY <1>6 DEF UltraSend, UltraAt, ArmedInv
  <2>2. QED
    BY <1>6, <2>1 DEF UltraSend, handles
<1>7. QED
  BY <1>1, <1>2, <1>3, <1>4, <1>5, <1>6, MotorSteps

(***************************************************************************)
(* MotorInv holds of every behaviour of a process nobody kills.            *)
(***************************************************************************)
LEMMA AlwaysMotor ==
  ASSUME OneClient, ModesOnly, WritesSucceed, MayRestart = FALSE
  PROVE  Spec => []MotorInv
<1>1. Init => MotorInv
  BY DEF Init, MotorInv, InMotor, MotorPc, Outputs
<1>2. TypeOK /\ SoleAuto /\ ArmedInv /\ StopBeforeSet /\ MotorInv /\ [Next]_vars => MotorInv'
  BY MotorStep
<1>3. QED
  BY <1>1, <1>2, TypeCorrect, AlwaysSole, AlwaysArmed, AlwaysStopBeforeSet, PTL DEF Spec

(***************************************************************************)
(* When the automode thread waits and has read everything, the motors show *)
(* the verdict sent last, whichever other calls failed.                    *)
(***************************************************************************)
THEOREM MotorsShowVerdict ==
  ASSUME OneClient, ModesOnly, WritesSucceed, MayRestart = FALSE
  PROVE  Spec => []VerdictReachesMotors
<1>1. TypeOK /\ SoleAuto /\ NoticeInv /\ MotorInv => VerdictReachesMotors
  <2> SUFFICES ASSUME TypeOK, SoleAuto, NoticeInv, MotorInv,
                      NEW t \in AutoThreads, autoPc[t] = "receive", queue = << >>
               PROVE  /\ out["PWM1"] <=> carDistance = "danger"
                      /\ out["PWM0"] => carDistance = "safe"
    BY DEF VerdictReachesMotors, AutoWaits
  <2>1. running /\ \A s \in AutoThreads : ~InMotor(s)
    BY DEF SoleAuto, InMotor, MotorPc
  <2>2. lastNotice = carDistance
    BY DEF NoticeInv, NoticesAlternate, Notice, MotorInv
  <2>3. QED
    BY <2>1, <2>2 DEF MotorInv
<1>2. QED
  BY <1>1, TypeCorrect, AlwaysSole, AlwaysNotices, AlwaysMotor, PTL

----------------------------------------------------------------------------
(* The refinement of Avoidance. *)

\* Taking a notice in hand leaves what was told as it is.
LEMMA TakeHead ==
  ASSUME NEW S, NEW q \in Seq(S), q # << >>
  PROVE  <<Head(q)>> \o Tail(q) = q
<1>1. /\ Tail(q) \in Seq(S) /\ Len(Tail(q)) = Len(q) - 1
      /\ \A i \in 1 .. Len(Tail(q)) : Tail(q)[i] = q[i + 1]
      /\ Head(q) \in S
  BY HeadTailProperties
<1>2. <<Head(q)>> \in Seq(S) /\ Len(<<Head(q)>>) = 1 /\ <<Head(q)>>[1] = q[1]
  BY <1>1
<1>3. /\ <<Head(q)>> \o Tail(q) \in Seq(S)
      /\ Len(<<Head(q)>> \o Tail(q)) = Len(q)
      /\ \A i \in 1 .. Len(q) : (<<Head(q)>> \o Tail(q))[i] = q[i]
  BY <1>1, <1>2, ConcatProperties
<1>4. QED
  BY <1>3, SeqEqual

\* The notice in hand is the head of what was told.
LEMMA DropHead ==
  ASSUME NEW S, NEW e \in S, NEW q \in Seq(S)
  PROVE  /\ Head(<<e>> \o q) = e /\ Tail(<<e>> \o q) = q
         /\ <<e>> \o q # << >> /\ Len(<<e>> \o q) = Len(q) + 1
<1> DEFINE r == <<e>> \o q
<1>1. /\ r \in Seq(S) /\ Len(r) = Len(q) + 1 /\ r[1] = e
      /\ \A i \in 1 .. Len(q) : r[i + 1] = q[i]
  <2>1. <<e>> \in Seq(S) /\ Len(<<e>>) = 1 /\ <<e>>[1] = e
    OBVIOUS
  <2>2. QED
    BY <2>1, ConcatProperties
<1> HIDE DEF r
<1>2. r # << >> /\ Head(r) = e
  BY <1>1
<1>3. /\ Tail(r) \in Seq(S) /\ Len(Tail(r)) = Len(q)
      /\ \A i \in 1 .. Len(q) : Tail(r)[i] = q[i]
  BY <1>1, <1>2, HeadTailProperties
<1>4. Tail(r) = q
  BY <1>3, SeqEqual
<1>5. QED
  BY <1>1, <1>2, <1>4 DEF r

\* A new notice goes behind the one in hand.
LEMMA AppendBehind ==
  ASSUME NEW S, NEW p \in Seq(S), NEW q \in Seq(S), NEW e \in S
  PROVE  p \o Append(q, e) = Append(p \o q, e)
<1>1. Append(q, e) = q \o <<e>> /\ Append(p \o q, e) = (p \o q) \o <<e>>
  <2>1. <<e>> \in Seq(S) /\ p \o q \in Seq(S)
    BY ConcatProperties
  <2>2. QED
    BY <2>1, AppendIsConcat
<1>2. QED
  BY <1>1, ConcatAssociative

(***************************************************************************)
(* The process does not end while the thread is at a motor call: MENU      *)
(* finds its handle alive and the ultrasonic thread's set.                 *)
(***************************************************************************)
LEMMA MotorsOutlive ==
  ASSUME MayRestart = FALSE, SoleAuto, StartOrder, MotorInv, [Next]_vars,
         NEW t \in AutoThreads, InMotor(t)
  PROVE  running'
<1>1. running /\ ~SignalMayKill /\ autoModeThread = t /\ AutoAlive(t)
  BY DEF SoleAuto, StartOrder, MotorInv, InMotor, MotorPc, SignalMayKill, AutoAlive
<1>2. ASSUME NEW r \in Receivers, Receiver(r) PROVE running'
  BY <1>1, <1>2 DEF Receiver, Accept, Disconnect, TestAuto, Menu, RecvDrive, RecvMode,
                    CreateAuto
<1>3. ASSUME NEW s \in AutoThreads, AutoMode(s) \/ DeliverAuto(s) PROVE running'
  BY <1>1, <1>3 DEF AutoMode, AutoEntry, AutoRegister, AutoSpawnTest, AutoSpawn,
                    AutoForward, AutoMsgget, AutoReceive, AutoDrive, AutoCheck, DeliverAuto
<1>4. ASSUME NEW u \in UltraThreads, Ultrasonic(u) \/ DeliverUltra(u) PROVE running'
  BY <1>1, <1>4 DEF Ultrasonic, UltraEntry, UltraOpen, UltraRegister, UltraMsgget,
                    UltraRead, UltraSend, UltraCheck, UltraClose, DeliverUltra
<1>5. ASSUME UNCHANGED vars PROVE running'
  BY <1>1, <1>5 DEF vars
<1>6. QED
  BY <1>2, <1>3, <1>4, <1>5 DEF Next, Kill, Relaunch

\* The value of halted in the mapping.
Halted == \E t \in AutoThreads : autoPc[t] \in {"setForward", "setBackward"}

(***************************************************************************)
(* What is in hand when no thread is at a motor call, and when one is.     *)
(***************************************************************************)
LEMMA NothingInHand ==
  (\A t \in AutoThreads : ~InMotor(t)) => InHand = << >> /\ ~Halted
BY DEF InMotor, MotorPc, InHand, Halted

\* At most one verdict is in hand.
LEMMA InHandType == InHand \in Seq(DISTANCE) /\ Len(InHand) \in {0, 1}
<1>1. InHand = << >> \/ InHand = <<"safe">> \/ InHand = <<"danger">>
  BY DEF InHand
<1>2. CASE InHand = << >>
  BY <1>2
<1>3. CASE InHand = <<"safe">>
  BY <1>3 DEF DISTANCE
<1>4. CASE InHand = <<"danger">>
  BY <1>4 DEF DISTANCE
<1>5. QED
  BY <1>1, <1>2, <1>3, <1>4

Told == InHand \o queue

(***************************************************************************)
(* A step that keeps what the mapping reads is a stutter of Avoidance.     *)
(***************************************************************************)
LEMMA Stutter ==
  ASSUME Told' = Told, Halted' = Halted, carDistance' = carDistance,
         out'["PWM0"] = out["PWM0"], out'["PWM1"] = out["PWM1"]
  PROVE  UNCHANGED Promise!vars
BY DEF Promise!vars, Told, Halted

(***************************************************************************)
(* Every step of the car is a step of Avoidance: UltraSend is Tell, a stop *)
(* call Halt, a set call Drive, and all others stutter.                    *)
(***************************************************************************)
LEMMA AvoidanceStep ==
  ASSUME OneClient, ModesOnly, WritesSucceed, MayRestart = FALSE,
         TypeOK, NoticeInv, SoleAuto, StartOrder, MotorInv, [Next]_vars
  PROVE  [Promise!Next]_Promise!vars
<1>1. queue \in Seq(DISTANCE)
  BY DEF TypeOK
<1>2. InHand \in Seq(DISTANCE) /\ Len(InHand) \in {0, 1}
  BY InHandType
<1>3. CASE Cruise
  <2>1. InHand' = InHand /\ Halted' = Halted
    BY <1>3 DEF Cruise, MotorPc, InHand, Halted
  <2>2. QED
    BY <1>3, <2>1, Stutter DEF Cruise, Told
<1>4. CASE Die
  <2>1. \A t \in AutoThreads : ~InMotor(t)
    BY <1>4, MotorsOutlive DEF Die
  <2>2. \A t \in AutoThreads : ~InMotor(t)'
    BY <1>4 DEF Die, InMotor, MotorPc
  <2>3. InHand' = InHand /\ Halted' = Halted
    BY <2>1, <2>2 DEF InMotor, MotorPc, InHand, Halted
  <2>4. QED
    BY <1>4, <2>3, Stutter DEF Die, Told, notices
<1>5. CASE Relaunch
  BY <1>5 DEF Relaunch
<1>6. ASSUME NEW t \in AutoThreads, AutoReceive(t) PROVE UNCHANGED Promise!vars
  <2>1. autoPc[t] = "receive" /\ \A s \in AutoThreads \ {t} : autoPc[s] = "none"
    BY <1>6 DEF AutoReceive, AutoAt, SoleAuto
  <2>2. InHand = << >> /\ ~Halted
    BY <2>1, NothingInHand DEF InMotor, MotorPc
  <2>3. /\ queue # << >> /\ queue' = Tail(queue)
        /\ Head(queue) \in {"safe", "danger"}
        /\ autoPc' = [autoPc EXCEPT ![t] = IF Head(queue) = "safe" THEN "stopBackward"
                                                               ELSE "stopForward"]
    BY <1>6 DEF AutoReceive, AutoGoto, NoticeWaits, TypeOK, DISTANCE
  <2>4. \A s \in AutoThreads \ {t} : autoPc'[s] = "none"
    BY <2>1, <2>3 DEF TypeOK
  <2>5. InHand' = <<Head(queue)>> /\ ~Halted'
    <3>1. CASE Head(queue) = "safe"
      <4>1. autoPc'[t] = "stopBackward"
        BY <2>3, <3>1 DEF TypeOK
      <4>2. QED
        BY <2>4, <3>1, <4>1 DEF InHand, Halted
    <3>2. CASE Head(queue) = "danger"
      <4>1. autoPc'[t] = "stopForward"
        BY <2>3, <3>2 DEF TypeOK
      <4>2. QED
        BY <2>4, <3>2, <4>1 DEF InHand, Halted
    <3>3. QED
      BY <2>3, <3>1, <3>2
  <2>6. Told' = Told
    BY <1>1, <2>2, <2>3, <2>5, TakeHead, ConcatEmptySeq DEF Told
  <2>7. Halted' = Halted
    BY <2>2, <2>5 DEF Halted
  <2>8. carDistance' = carDistance /\ out' = out
    BY <1>6 DEF AutoReceive, sensor
  <2>9. QED
    BY <2>6, <2>7, <2>8, Stutter
<1>7. ASSUME NEW t \in AutoThreads, AutoDrive(t) PROVE Promise!Halt \/ Promise!Drive
  <2>1. /\ autoPc[t] \in MotorPc
        /\ \A s \in AutoThreads \ {t} : autoPc[s] = "none" /\ autoPc'[s] = "none"
    BY <1>7, DriveCalls DEF SoleAuto, Drives, MotorPc, TypeOK
  <2>2. \A s \in AutoThreads \ {t} : ~InMotor(s) /\ ~InMotor(s)'
    BY <2>1 DEF InMotor, MotorPc
  <2>3. out \in [Outputs -> BOOLEAN] /\ {"PWM0", "PWM1"} \subseteq Outputs
    BY DEF TypeOK, Outputs
  <2>4. UNCHANGED <<queue, carDistance>>
    BY <1>7 DEF AutoDrive, sensor, notices
  <2>5. ASSUME NEW d \in DISTANCE, InHand = <<d>>
        PROVE  Told # << >> /\ Head(Told) = d /\ Tail(Told) = queue
    BY <1>1, <2>5, DropHead DEF Told
  <2>6. CASE Drives(t, "stopBackward", "PWM1", FALSE, "setForward")
    <3>1. autoPc[t] = "stopBackward" /\ autoPc'[t] = "setForward"
      BY <2>6 DEF Drives, TypeOK
    <3>2. InHand = <<"safe">> /\ InHand' = <<"safe">> /\ ~Halted /\ Halted'
      BY <2>1, <3>1 DEF InHand, Halted
    <3>3. out'["PWM1"] = FALSE /\ out'["PWM0"] = out["PWM0"]
      BY <2>3, <2>6 DEF Drives
    <3>4. Promise!Halt
      BY <2>4, <2>5, <3>2, <3>3 DEF Promise!Halt, Told, Halted, DISTANCE
    <3>5. QED
      BY <3>4
  <2>7. CASE Drives(t, "setForward", "PWM0", TRUE, "check")
    <3>1. autoPc[t] = "setForward" /\ autoPc'[t] = "check"
      BY <2>7 DEF Drives, TypeOK
    <3>2. InHand = <<"safe">> /\ InHand' = << >> /\ Halted /\ ~Halted'
      BY <2>1, <3>1 DEF InHand, Halted
    <3>3. out'["PWM0"] = TRUE /\ out'["PWM1"] = out["PWM1"]
      BY <2>3, <2>7 DEF Drives
    <3>4. Told' = queue
      BY <1>1, <2>4, <3>2, ConcatEmptySeq DEF Told
    <3>5. Promise!Drive
      BY <2>4, <2>5, <3>2, <3>3, <3>4 DEF Promise!Drive, Told, Halted, DISTANCE
    <3>6. QED
      BY <3>5
  <2>8. CASE Drives(t, "stopForward", "PWM0", FALSE, "setBackward")
    <3>1. autoPc[t] = "stopForward" /\ autoPc'[t] = "setBackward"
      BY <2>8 DEF Drives, TypeOK
    <3>2. InHand = <<"danger">> /\ InHand' = <<"danger">> /\ ~Halted /\ Halted'
      BY <2>1, <3>1 DEF InHand, Halted
    <3>3. out'["PWM0"] = FALSE /\ out'["PWM1"] = out["PWM1"]
      BY <2>3, <2>8 DEF Drives
    <3>4. Promise!Halt
      BY <2>4, <2>5, <3>2, <3>3 DEF Promise!Halt, Told, Halted, DISTANCE
    <3>5. QED
      BY <3>4
  <2>9. CASE Drives(t, "setBackward", "PWM1", TRUE, "check")
    <3>1. autoPc[t] = "setBackward" /\ autoPc'[t] = "check"
      BY <2>9 DEF Drives, TypeOK
    <3>2. InHand = <<"danger">> /\ InHand' = << >> /\ Halted /\ ~Halted'
      BY <2>1, <3>1 DEF InHand, Halted
    <3>3. out'["PWM1"] = TRUE /\ out'["PWM0"] = out["PWM0"]
      BY <2>3, <2>9 DEF Drives
    <3>4. Told' = queue
      BY <1>1, <2>4, <3>2, ConcatEmptySeq DEF Told
    <3>5. Promise!Drive
      BY <2>4, <2>5, <3>2, <3>3, <3>4 DEF Promise!Drive, Told, Halted, DISTANCE
    <3>6. QED
      BY <3>5
  <2>10. QED
    BY <1>7, <2>6, <2>7, <2>8, <2>9, DriveCalls
<1>8. ASSUME NEW u \in UltraThreads, UltraSend(u)
      PROVE  UNCHANGED Promise!vars \/ \E v \in {"safe", "danger"} : Promise!Tell(v)
  <2>1. UNCHANGED <<autoPc, out>> /\ InHand' = InHand /\ Halted' = Halted
    BY <1>8 DEF UltraSend, InHand, Halted
  <2>2. CASE UNCHANGED <<queue, carDistance>>
    BY <2>1, <2>2, Stutter DEF Told
  <2>3. CASE QueueHasRoom /\ queue' = Append(queue, distance) /\ carDistance' = distance
    <3>1. distance \in DISTANCE /\ distance # carDistance
      BY <1>8 DEF UltraSend, UltraAt, NoticeInv, TypeOK
    <3>2. Told' = Append(Told, distance)
      BY <1>1, <1>2, <2>1, <2>3, <3>1, AppendBehind DEF Told
    <3>3. Len(Told) < QueueMax + 1
      <4>1. Len(Told) = Len(InHand) + Len(queue) /\ Len(queue) \in Nat
        BY <1>1, <1>2, ConcatProperties DEF Told
      <4>2. QueueMax \in Nat /\ Len(queue) < QueueMax
        BY <2>3, EnvironmentAssumption DEF QueueHasRoom
      <4>3. ASSUME NEW m \in {0, 1}, NEW n \in Nat, n < QueueMax PROVE m + n < QueueMax + 1
        BY <4>2, <4>3
      <4>4. QED
        BY <1>2, <4>1, <4>2, <4>3
    <3>4. Promise!Tell(distance)
      BY <2>1, <2>3, <3>1, <3>2, <3>3 DEF Promise!Tell, Told, Halted
    <3>5. QED
      BY <3>1, <3>4 DEF DISTANCE
  <2>4. QED
    BY <1>8, <2>2, <2>3 DEF UltraSend
<1>9. QED
  BY <1>3, <1>4, <1>5, <1>6, <1>7, <1>8, MotorSteps DEF Promise!Next

(***************************************************************************)
(* The threads, signals and queue of the car implement obstacle avoidance: *)
(* every change of the verdict is told, and acted on in order, the motor   *)
(* of the other direction halted first.                                    *)
(***************************************************************************)
THEOREM CarImplementsAvoidance ==
  ASSUME OneClient, ModesOnly, WritesSucceed, MayRestart = FALSE
  PROVE  Spec => AvoidsObstacles
<1>1. Init => Promise!Init
  <2> SUFFICES ASSUME Init PROVE Promise!Init
    OBVIOUS
  <2>1. InHand = << >> /\ ~Halted
    BY NothingInHand DEF Init, InMotor, MotorPc
  <2>2. InHand \o queue = << >>
    BY <2>1, ConcatEmptySeq, EmptySeq DEF Init
  <2>3. QED
    BY <2>1, <2>2 DEF Init, Promise!Init, Halted, Outputs
<1>2. TypeOK /\ NoticeInv /\ SoleAuto /\ StartOrder /\ MotorInv /\ [Next]_vars =>
        [Promise!Next]_Promise!vars
  BY AvoidanceStep
<1>3. QED
  BY <1>1, <1>2, TypeCorrect, AlwaysNotices, AlwaysSole, AlwaysStart, AlwaysMotor, PTL
     DEF Spec, AvoidsObstacles, Promise!Spec
============================================================================
