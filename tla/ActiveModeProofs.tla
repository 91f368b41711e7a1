-------------------------- MODULE ActiveModeProofs --------------------------
(***************************************************************************)
(* Type correctness of ActiveMode and the exactness of the WaitGroup, for  *)
(* every finite set of sensors, with and without a heartbeat.              *)
(***************************************************************************)
EXTENDS ActiveMode, FiniteSetTheorems, TLAPS

(* The kinds of values, the bound on wg aside. *)
Kinds ==
    /\ main \in {"launch", "heartbeat", "signal", "wait", "waiting", "released", "disconnect",
                 "exit", "gone", "panicked"}
    /\ start \in {"unborn", "sensors", "subscribe", "worker", "block", "ended"}
    /\ loop \in [Sensors -> {"unborn", "publish", "select", "ended"}]
    /\ worker \in {"unborn", "select", "busy", "token", "ended"}
    /\ heartbeat \in {"unborn", "select", "request", "ended"}
    /\ cancelled \in BOOLEAN
    /\ online \in BOOLEAN
    /\ closed \in BOOLEAN

(* Who has been launched: Start is launched once, launches the worker last,
   and main launches the heartbeat after it. *)
LaunchOrder ==
    /\ main = "launch" => start = "unborn"
    /\ main \in {"launch", "heartbeat"} => heartbeat = "unborn"
    /\ start \in {"unborn", "sensors", "subscribe", "worker"} => worker = "unborn"

IInv == Kinds /\ LaunchOrder /\ WaitGroupExact

-----------------------------------------------------------------------------
(* There are finitely many loops to count. *)
LEMMA RunningFinite == IsFiniteSet(RunningLoops) /\ Cardinality(RunningLoops) \in 0..Cardinality(Sensors)
<1>1. RunningLoops \subseteq Sensors
  BY DEF RunningLoops
<1>2. IsFiniteSet(RunningLoops) /\ Cardinality(RunningLoops) <= Cardinality(Sensors)
  BY <1>1, SensorsAssumption, FS_Subset
<1>3. Cardinality(RunningLoops) \in Nat /\ Cardinality(Sensors) \in Nat
  BY <1>2, SensorsAssumption, FS_CardinalityType
<1> QED BY <1>2, <1>3

(* Every step keeps the types. *)
LEMMA KindsStep == Kinds /\ [Next]_vars => Kinds'
<1> SUFFICES ASSUME Kinds, [Next]_vars PROVE Kinds'
  OBVIOUS
<1> USE DEF Kinds
<1>1. CASE Launch \/ LaunchHeartbeat \/ Signal \/ Wait \/ WaitReturns \/ WaitPanics \/ Exit
  BY <1>1 DEF Launch, LaunchHeartbeat, Signal, Wait, WaitReturns, WaitPanics, Exit, goVars
<1>2. CASE Disconnect
  BY <1>2 DEF Disconnect, goVars
<1>3. ASSUME NEW s \in Sensors, LaunchSensor(s) \/ SensorWork(s) \/ SensorEnds(s) PROVE Kinds'
  BY <1>3 DEF LaunchSensor, SensorWork, PublishTelemetry, SensorTick, SensorEnds, Done
<1>4. CASE SensorsLaunched \/ Subscribe \/ LaunchWorker \/ StartEnds
  BY <1>4 DEF SensorsLaunched, Subscribe, LaunchWorker, StartEnds
<1>5. CASE WorkerTakes \/ WorkerDrives \/ PublishReturns \/ PublishFails \/ WorkerEnds
  BY <1>5 DEF WorkerTakes, WorkerDrives, PublishReturns, PublishFails, WorkerEnds, Done
<1>6. CASE HeartbeatWork \/ HeartbeatEnds
  BY <1>6 DEF HeartbeatWork, HeartbeatTick, HeartbeatReturns, HeartbeatEnds, Done
<1>7. CASE LoseConnection \/ Reconnect
  BY <1>7 DEF LoseConnection, Reconnect, goVars
<1>8. CASE Gone \/ UNCHANGED vars
  BY <1>8 DEF Gone, vars
<1> QED BY <1>1, <1>2, <1>3, <1>4, <1>5, <1>6, <1>7, <1>8 DEF Next, MainStep, StartStep

(* Nothing is launched before its turn, or twice. *)
LEMMA OrderStep == Kinds /\ LaunchOrder /\ [Next]_vars => LaunchOrder'
<1> SUFFICES ASSUME Kinds, LaunchOrder, [Next]_vars PROVE LaunchOrder'
  OBVIOUS
<1> USE DEF Kinds, LaunchOrder
<1>1. CASE MainStep \/ Signal
  BY <1>1 DEF MainStep, Launch, LaunchHeartbeat, Signal, Wait, WaitReturns, WaitPanics, Disconnect, Exit, goVars
<1>2. ASSUME NEW s \in Sensors, LaunchSensor(s) \/ SensorWork(s) \/ SensorEnds(s) PROVE LaunchOrder'
  BY <1>2 DEF LaunchSensor, SensorWork, PublishTelemetry, SensorTick, SensorEnds, Done
<1>3. CASE SensorsLaunched \/ Subscribe \/ LaunchWorker \/ StartEnds
  BY <1>3 DEF SensorsLaunched, Subscribe, LaunchWorker, StartEnds
<1>4. CASE WorkerTakes \/ WorkerDrives \/ PublishReturns \/ PublishFails \/ WorkerEnds
  BY <1>4 DEF WorkerTakes, WorkerDrives, PublishReturns, PublishFails, WorkerEnds, Done
<1>5. CASE HeartbeatWork \/ HeartbeatEnds
  BY <1>5 DEF HeartbeatWork, HeartbeatTick, HeartbeatReturns, HeartbeatEnds, Done
<1>6. CASE LoseConnection \/ Reconnect \/ Gone \/ UNCHANGED vars
  BY <1>6 DEF LoseConnection, Reconnect, Gone, goVars, vars
<1> QED BY <1>1, <1>2, <1>3, <1>4, <1>5, <1>6 DEF Next, StartStep

(* Every step keeps the count: a loop that starts is added once, a loop that
   ends is taken out once, and no other step starts or ends one. *)
LEMMA CountStep == IInv /\ [Next]_vars => WaitGroupExact'
<1> SUFFICES ASSUME IInv, [Next]_vars PROVE WaitGroupExact'
  OBVIOUS
<1>0. Kinds /\ LaunchOrder /\ WaitGroupExact BY DEF IInv
<1>1. Cardinality(RunningLoops) \in Nat /\ IsFiniteSet(RunningLoops)
  BY RunningFinite
<1>2. ASSUME UNCHANGED <<wg, loop>>, WorkerRuns' <=> WorkerRuns, HeartbeatRuns' <=> HeartbeatRuns
      PROVE  WaitGroupExact'
  <2>1. RunningLoops' = RunningLoops
    BY <1>2 DEF RunningLoops
  <2> QED BY <1>0, <1>2, <2>1 DEF WaitGroupExact
<1>3. CASE (MainStep /\ ~LaunchHeartbeat) \/ Signal \/ LoseConnection \/ Reconnect \/ Gone \/ UNCHANGED vars
  BY <1>2, <1>3 DEF MainStep, Launch, Signal, Wait, WaitReturns, WaitPanics, Disconnect, Exit, LoseConnection,
     Reconnect, Gone, vars, goVars, WorkerRuns, HeartbeatRuns
<1>4. CASE LaunchHeartbeat
  <2>1. RunningLoops' = RunningLoops /\ (WorkerRuns' <=> WorkerRuns)
    BY <1>4 DEF LaunchHeartbeat, RunningLoops, WorkerRuns
  <2>2. ~HeartbeatRuns
    BY <1>0, <1>4 DEF LaunchOrder, LaunchHeartbeat, HeartbeatRuns
  <2>3. \/ wg' = wg + 1 /\ HeartbeatRuns'
        \/ wg' = wg /\ ~HeartbeatRuns'
    BY <1>4, <2>2 DEF LaunchHeartbeat, HeartbeatRuns
  <2> QED BY <1>0, <1>1, <2>1, <2>2, <2>3 DEF WaitGroupExact
<1>5. ASSUME NEW s \in Sensors, LaunchSensor(s) PROVE WaitGroupExact'
  <2>1. RunningLoops' = RunningLoops \cup {s} /\ s \notin RunningLoops
    BY <1>0, <1>5 DEF Kinds, LaunchSensor, RunningLoops
  <2>2. Cardinality(RunningLoops') = Cardinality(RunningLoops) + 1
    BY <1>1, <2>1, FS_AddElement
  <2>3. wg' = wg + 1 /\ (WorkerRuns' <=> WorkerRuns) /\ (HeartbeatRuns' <=> HeartbeatRuns)
    BY <1>5 DEF LaunchSensor, WorkerRuns, HeartbeatRuns
  <2> QED BY <1>0, <1>1, <2>2, <2>3 DEF WaitGroupExact
<1>6. ASSUME NEW s \in Sensors, SensorWork(s) PROVE WaitGroupExact'
  <2>1. RunningLoops' = RunningLoops
    BY <1>0, <1>6 DEF Kinds, SensorWork, PublishTelemetry, SensorTick, RunningLoops
  <2>2. wg' = wg /\ (WorkerRuns' <=> WorkerRuns) /\ (HeartbeatRuns' <=> HeartbeatRuns)
    BY <1>6 DEF SensorWork, PublishTelemetry, SensorTick, WorkerRuns, HeartbeatRuns
  <2> QED BY <1>0, <2>1, <2>2 DEF WaitGroupExact
<1>7. ASSUME NEW s \in Sensors, SensorEnds(s) PROVE WaitGroupExact'
  <2>1. RunningLoops' = RunningLoops \ {s} /\ s \in RunningLoops
    BY <1>0, <1>7 DEF Kinds, SensorEnds, Done, RunningLoops
  <2>2. Cardinality(RunningLoops') = Cardinality(RunningLoops) - 1
    BY <1>1, <2>1, FS_RemoveElement
  <2>3. wg' = wg - 1 /\ (WorkerRuns' <=> WorkerRuns) /\ (HeartbeatRuns' <=> HeartbeatRuns)
    BY <1>7 DEF SensorEnds, Done, WorkerRuns, HeartbeatRuns
  <2> QED BY <1>0, <1>1, <2>2, <2>3 DEF WaitGroupExact
<1>8. CASE SensorsLaunched \/ Subscribe \/ StartEnds \/ WorkerTakes \/ WorkerDrives
           \/ PublishReturns \/ PublishFails \/ HeartbeatWork
  BY <1>2, <1>8 DEF SensorsLaunched, Subscribe, StartEnds, WorkerTakes, WorkerDrives,
     PublishReturns, PublishFails, HeartbeatWork, HeartbeatTick, HeartbeatReturns,
     WorkerRuns, HeartbeatRuns
<1>9. CASE LaunchWorker
  <2>1. RunningLoops' = RunningLoops /\ (HeartbeatRuns' <=> HeartbeatRuns)
    BY <1>9 DEF LaunchWorker, RunningLoops, HeartbeatRuns
  <2>2. ~WorkerRuns /\ WorkerRuns' /\ wg' = wg + 1
    BY <1>0, <1>9 DEF LaunchOrder, LaunchWorker, WorkerRuns
  <2> QED BY <1>0, <1>1, <2>1, <2>2 DEF WaitGroupExact
<1>10. CASE WorkerEnds
  <2>1. RunningLoops' = RunningLoops /\ (HeartbeatRuns' <=> HeartbeatRuns)
    BY <1>10 DEF WorkerEnds, Done, RunningLoops, HeartbeatRuns
  <2>2. WorkerRuns /\ ~WorkerRuns' /\ wg' = wg - 1
    BY <1>10 DEF WorkerEnds, Done, WorkerRuns
  <2> QED BY <1>0, <1>1, <2>1, <2>2 DEF WaitGroupExact
<1>11. CASE HeartbeatEnds
  <2>1. RunningLoops' = RunningLoops /\ (WorkerRuns' <=> WorkerRuns)
    BY <1>11 DEF HeartbeatEnds, Done, RunningLoops, WorkerRuns
  <2>2. HeartbeatRuns /\ ~HeartbeatRuns' /\ wg' = wg - 1
    BY <1>11 DEF HeartbeatEnds, Done, HeartbeatRuns
  <2> QED BY <1>0, <1>1, <2>1, <2>2 DEF WaitGroupExact
<1> QED BY <1>3, <1>4, <1>5, <1>6, <1>7, <1>8, <1>9, <1>10, <1>11 DEF Next, MainStep, StartStep

(* Nothing runs and nothing is counted at first. *)
LEMMA IInvInit == Init => IInv
<1> SUFFICES ASSUME Init PROVE IInv
  OBVIOUS
<1>1. RunningLoops = {}
  BY DEF Init, RunningLoops
<1>2. WaitGroupExact
  BY <1>1, FS_EmptySet DEF Init, WaitGroupExact, WorkerRuns, HeartbeatRuns
<1> QED BY <1>2 DEF Init, IInv, Kinds, LaunchOrder

(* The WaitGroup holds the number of running loops, and each loop is launched in
   its turn. *)
THEOREM InductiveInvariant == Spec => []IInv
<1>1. IInv /\ [Next]_vars => IInv'
  BY KindsStep, OrderStep, CountStep DEF IInv
<1> QED BY <1>1, IInvInit, PTL DEF Spec

(* Every loop is counted while it runs and only then, for any number of
   sensors: the counter cannot go negative, and Wait misses no counted loop. *)
THEOREM LoopsCounted == Spec => []WaitGroupExact
BY InductiveInvariant, PTL DEF IInv

(* Type correctness; the bound of the counter follows from its exactness. *)
THEOREM TypeCorrect == Spec => []TypeOK
<1>1. IInv => TypeOK
  <2> SUFFICES ASSUME IInv PROVE TypeOK
    OBVIOUS
  <2>1. Cardinality(Sensors) \in Nat
    BY SensorsAssumption, FS_CardinalityType
  <2>2. wg \in 0..(Cardinality(Sensors) + 2)
    BY <2>1, RunningFinite DEF IInv, WaitGroupExact
  <2> QED BY <2>2 DEF IInv, Kinds, TypeOK
<1> QED BY <1>1, InductiveInvariant, PTL
=============================================================================
