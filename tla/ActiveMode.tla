----------------------------- MODULE ActiveMode -----------------------------
(***************************************************************************)
(* The goroutines of active mode and their shutdown: runActiveFlow in      *)
(* cmd/pigrow-client, the Start goroutine of the controller with the       *)
(* sensor loops and the command worker it spawns, and the heartbeat loop.  *)
(*                                                                         *)
(* What the worker does with a command is in CommandPath; here it is busy  *)
(* and then possibly waiting for the token of a publish.  Readings,        *)
(* heartbeat requests and the 250 ms of mc.Disconnect carry no data here.  *)
(***************************************************************************)
EXTENDS Integers, FiniteSets

CONSTANTS
    Sensors,       \* the sensors buildSensors returned
    HasHeartbeat   \* server URL and controllerId are both set

ASSUME SensorsAssumption == IsFiniteSet(Sensors)
ASSUME HeartbeatAssumption == HasHeartbeat \in BOOLEAN

VARIABLES
    main,          \* where runActiveFlow is
    start,         \* where the Start goroutine is
    loop,          \* where each sensorLoop is
    worker,        \* where commandWorker is
    heartbeat,     \* where heartbeatLoop is
    wg,            \* the counter of the WaitGroup
    cancelled,     \* the context is cancelled
    online,        \* the broker connection is up
    closed         \* mc.Disconnect has been called

goVars == <<start, loop, worker, heartbeat>>
vars == <<main, start, loop, worker, heartbeat, wg, cancelled, online, closed>>

TypeOK ==
    /\ main \in {"launch", "heartbeat", "signal", "wait", "waiting", "released", "disconnect",
                 "exit", "gone", "panicked"}
    /\ start \in {"unborn", "sensors", "subscribe", "worker", "block", "ended"}
    /\ loop \in [Sensors -> {"unborn", "publish", "select", "ended"}]
    /\ worker \in {"unborn", "select", "busy", "token", "ended"}
    /\ heartbeat \in {"unborn", "select", "request", "ended"}
    /\ wg \in 0..(Cardinality(Sensors) + 2)
    /\ cancelled \in BOOLEAN
    /\ online \in BOOLEAN
    /\ closed \in BOOLEAN

Init ==
    /\ main = "launch"
    /\ start = "unborn"
    /\ loop = [s \in Sensors |-> "unborn"]
    /\ worker = "unborn"
    /\ heartbeat = "unborn"
    /\ wg = 0
    /\ cancelled = FALSE
    /\ online = TRUE
    /\ closed = FALSE

(* Once main has returned or panicked the process is gone, and every goroutine
   with it. *)
Alive == main \notin {"gone", "panicked"}

(* wg.Done(): reaching zero releases main if it waits. *)
Done ==
    /\ wg' = wg - 1
    /\ main' = IF main = "waiting" /\ wg = 1 THEN "released" ELSE main

-----------------------------------------------------------------------------
(* runActiveFlow. *)

Launch ==
    /\ main = "launch"
    /\ start' = "sensors"
    /\ main' = "heartbeat"
    /\ UNCHANGED <<loop, worker, heartbeat, wg, cancelled, online, closed>>

LaunchHeartbeat ==
    /\ main = "heartbeat"
    /\ IF HasHeartbeat
          THEN wg' = wg + 1 /\ heartbeat' = "select"
          ELSE UNCHANGED <<wg, heartbeat>>
    /\ main' = "signal"
    /\ UNCHANGED <<start, loop, worker, cancelled, online, closed>>

(* SIGINT or SIGTERM arrives, and cancel() is called. *)
Signal ==
    /\ main = "signal"
    /\ cancelled' = TRUE
    /\ main' = "wait"
    /\ UNCHANGED <<goVars, wg, online, closed>>

(* wg.Wait() returns at once when nothing is counted. *)
Wait ==
    /\ main = "wait"
    /\ main' = IF wg = 0 THEN "disconnect" ELSE "waiting"
    /\ UNCHANGED <<goVars, wg, cancelled, online, closed>>

WaitReturns ==
    /\ main = "released"
    /\ wg = 0
    /\ main' = "disconnect"
    /\ UNCHANGED <<goVars, wg, cancelled, online, closed>>

(* "WaitGroup is reused before previous Wait has returned": Start has launched
   a loop since main was released. *)
WaitPanics ==
    /\ main = "released"
    /\ wg # 0
    /\ main' = "panicked"
    /\ UNCHANGED <<goVars, wg, cancelled, online, closed>>

Disconnect ==
    /\ main = "disconnect"
    /\ closed' = TRUE
    /\ online' = FALSE
    /\ main' = "exit"
    /\ UNCHANGED <<goVars, wg, cancelled>>

Exit ==
    /\ main = "exit"
    /\ main' = "gone"
    /\ UNCHANGED <<goVars, wg, cancelled, online, closed>>

-----------------------------------------------------------------------------
(* The Start goroutine, which itself is not counted by wg. *)

LaunchSensor(s) ==
    /\ Alive
    /\ start = "sensors"
    /\ loop[s] = "unborn"
    /\ wg' = wg + 1
    /\ loop' = [loop EXCEPT ![s] = "publish"]
    /\ UNCHANGED <<main, start, worker, heartbeat, cancelled, online, closed>>

SensorsLaunched ==
    /\ Alive
    /\ start = "sensors"
    /\ \A s \in Sensors : loop[s] # "unborn"
    /\ start' = "subscribe"
    /\ UNCHANGED <<main, loop, worker, heartbeat, wg, cancelled, online, closed>>

(* Subscribe returns: subscribed, refused, or five seconds have passed; an
   error is only logged. *)
Subscribe ==
    /\ Alive
    /\ start = "subscribe"
    /\ start' = "worker"
    /\ UNCHANGED <<main, loop, worker, heartbeat, wg, cancelled, online, closed>>

LaunchWorker ==
    /\ Alive
    /\ start = "worker"
    /\ wg' = wg + 1
    /\ worker' = "select"
    /\ start' = "block"
    /\ UNCHANGED <<main, loop, heartbeat, cancelled, online, closed>>

StartEnds ==
    /\ Alive
    /\ start = "block"
    /\ cancelled
    /\ start' = "ended"
    /\ UNCHANGED <<main, loop, worker, heartbeat, wg, cancelled, online, closed>>

-----------------------------------------------------------------------------
(* The loops.  A QoS 0 publish does not wait, so a sensor loop always gets
   back to its select; an error or a panic of the read is logged. *)

PublishTelemetry(s) ==
    /\ Alive
    /\ loop[s] = "publish"
    /\ loop' = [loop EXCEPT ![s] = "select"]
    /\ UNCHANGED <<main, start, worker, heartbeat, wg, cancelled, online, closed>>

SensorTick(s) ==
    /\ Alive
    /\ loop[s] = "select"
    /\ loop' = [loop EXCEPT ![s] = "publish"]
    /\ UNCHANGED <<main, start, worker, heartbeat, wg, cancelled, online, closed>>

(* Mutant of SensorEnds: wg.Done() not called. *)
SensorEndsUncounted(s) ==
    /\ Alive
    /\ loop[s] = "select"
    /\ cancelled
    /\ loop' = [loop EXCEPT ![s] = "ended"]
    /\ UNCHANGED <<main, start, worker, heartbeat, wg, cancelled, online, closed>>

SensorEnds(s) ==
    /\ Alive
    /\ loop[s] = "select"
    /\ cancelled
    /\ loop' = [loop EXCEPT ![s] = "ended"]
    /\ Done
    /\ UNCHANGED <<start, worker, heartbeat, cancelled, online, closed>>

WorkerTakes ==
    /\ Alive
    /\ worker = "select"
    /\ worker' = "busy"
    /\ UNCHANGED <<main, start, loop, heartbeat, wg, cancelled, online, closed>>

(* The command is not executed, or its state is about to be published. *)
WorkerDrives ==
    /\ Alive
    /\ worker = "busy"
    /\ worker' \in {"select", "token"}
    /\ UNCHANGED <<main, start, loop, heartbeat, wg, cancelled, online, closed>>

PublishReturns ==
    /\ Alive
    /\ worker = "token"
    /\ online
    /\ worker' = "select"
    /\ UNCHANGED <<main, start, loop, heartbeat, wg, cancelled, online, closed>>

(* The token carries an error. *)
PublishFails ==
    /\ Alive
    /\ worker = "token"
    /\ worker' = "select"
    /\ UNCHANGED <<main, start, loop, heartbeat, wg, cancelled, online, closed>>

WorkerEnds ==
    /\ Alive
    /\ worker = "select"
    /\ cancelled
    /\ worker' = "ended"
    /\ Done
    /\ UNCHANGED <<start, loop, heartbeat, cancelled, online, closed>>

HeartbeatTick ==
    /\ Alive
    /\ heartbeat = "select"
    /\ heartbeat' = "request"
    /\ UNCHANGED <<main, start, loop, worker, wg, cancelled, online, closed>>

(* The request carries the context and a timeout of ten seconds. *)
HeartbeatReturns ==
    /\ Alive
    /\ heartbeat = "request"
    /\ heartbeat' = "select"
    /\ UNCHANGED <<main, start, loop, worker, wg, cancelled, online, closed>>

HeartbeatEnds ==
    /\ Alive
    /\ heartbeat = "select"
    /\ cancelled
    /\ heartbeat' = "ended"
    /\ Done
    /\ UNCHANGED <<start, loop, worker, cancelled, online, closed>>

-----------------------------------------------------------------------------
(* The network. *)

LoseConnection ==
    /\ Alive
    /\ online
    /\ online' = FALSE
    /\ UNCHANGED <<main, goVars, wg, cancelled, closed>>

(* Mutant of Reconnect: a client without SetAutoReconnect(true). *)
NoReconnect == UNCHANGED vars

Reconnect ==
    /\ Alive
    /\ ~online
    /\ ~closed
    /\ online' = TRUE
    /\ UNCHANGED <<main, goVars, wg, cancelled, closed>>

Gone == ~Alive /\ UNCHANGED vars

MainStep  == Launch \/ LaunchHeartbeat \/ Wait \/ WaitReturns \/ WaitPanics \/ Disconnect \/ Exit
StartStep == (\E s \in Sensors : LaunchSensor(s)) \/ SensorsLaunched \/ Subscribe
             \/ LaunchWorker \/ StartEnds
SensorWork(s)  == PublishTelemetry(s) \/ SensorTick(s)
HeartbeatWork  == HeartbeatTick \/ HeartbeatReturns

Next ==
    \/ MainStep
    \/ Signal
    \/ StartStep
    \/ \E s \in Sensors : SensorWork(s) \/ SensorEnds(s)
    \/ WorkerTakes
    \/ WorkerDrives
    \/ PublishReturns
    \/ PublishFails
    \/ WorkerEnds
    \/ HeartbeatWork
    \/ HeartbeatEnds
    \/ LoseConnection
    \/ Reconnect
    \/ Gone

Spec == Init /\ [][Next]_vars

(* The scheduler runs every goroutine; a select that finds the context over
   again and again takes that branch in the end; the MQTT client reconnects,
   and a publish that is online again and again gets its ack. *)
LiveSpec ==
    /\ Spec
    /\ WF_vars(MainStep)
    /\ WF_vars(StartStep)
    /\ \A s \in Sensors : WF_vars(PublishTelemetry(s)) /\ SF_vars(SensorEnds(s))
    /\ WF_vars(WorkerDrives)
    /\ SF_vars(PublishReturns)
    /\ SF_vars(WorkerEnds)
    /\ WF_vars(HeartbeatReturns)
    /\ SF_vars(HeartbeatEnds)
    /\ WF_vars(Reconnect)

-----------------------------------------------------------------------------
(* Properties. *)

RunningLoops == {s \in Sensors : loop[s] \in {"publish", "select"}}
WorkerRuns == worker \in {"select", "busy", "token"}
HeartbeatRuns == heartbeat \in {"select", "request"}

(* The WaitGroup counts exactly the loops that run, in every interleaving of
   their starts and ends: it never goes negative (a panic), and it is not zero
   while a loop that was launched still runs. *)
WaitGroupExact ==
    wg = Cardinality(RunningLoops) + (IF WorkerRuns THEN 1 ELSE 0)
                                   + (IF HeartbeatRuns THEN 1 ELSE 0)

(* After a signal the program ends, provided the broker can be reached again
   when the worker is waiting for it: main returns, or dies of the panic that a
   Start still launching loops can cause in wg.Wait(). *)
ShutdownCompletes == cancelled ~> ~Alive

(* What controller.go:59-60 says: the goroutines Start spawns are tracked by
   the WaitGroup, so none of them runs when main has waited for it. *)
NothingRunsAfterWait ==
    main \in {"disconnect", "exit"} => RunningLoops = {} /\ ~WorkerRuns
=============================================================================
