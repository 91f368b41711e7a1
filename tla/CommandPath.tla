---------------------------- MODULE CommandPath ----------------------------
(***************************************************************************)
(* The device command path of internal/controller: one MQTT message        *)
(* handler per incoming message, the bounded channel cmdCh, the single     *)
(* commandWorker that drives GPIO pins, and the state report it publishes. *)
(*                                                                         *)
(* The MQTT client runs with SetOrderMatters(false), so every message is   *)
(* handled in a goroutine of its own: h \in Handlers is one invocation of  *)
(* deviceCommandHandler.  A message the broker delivers twice (QoS 1) is   *)
(* two invocations with equal messages.  An invocation also identifies the *)
(* cmdJob it enqueues and stands for the timestamp that job carries.       *)
(*                                                                         *)
(* Left out: the branch for topics of fewer than three levels (the filter  *)
(* devices/+/commands matches none of them), the pinCache of an RPIDevice  *)
(* (a memo of the pin registry, which does not change), json.Marshal       *)
(* failures (the payloads are plain structs), and logging.                 *)
(***************************************************************************)
EXTENDS Integers, Sequences, FiniteSets

CONSTANTS
    Handlers,     \* invocations of deviceCommandHandler
    Devices,      \* device ids that occur in command topics
    Actions,      \* action strings that occur in payloads
    OnActions,    \* those that strings.ToUpper maps to "ON"
    OffActions,   \* those that strings.ToUpper maps to "OFF"
    Pins,         \* pin numbers that occur in payloads
    Wired,        \* those the GPIO registry knows
    Messages,     \* topics with payloads that are published
    QueueCap,     \* capacity of cmdCh (64 in the code)
    Malformed,    \* a payload json.Unmarshal rejects
    NoMessage,    \* the message of an invocation that has not happened yet
    NoJob         \* "no job" for the worker and "no report" on a state topic

Commands == [action : Actions, pin : Pins]

ASSUME MessagesAssumption == Messages \subseteq [dev : Devices, body : Commands \cup {Malformed}]
ASSUME ActionsAssumption == /\ OnActions \subseteq Actions
                            /\ OffActions \subseteq Actions
                            /\ OnActions \cap OffActions = {}
ASSUME PinsAssumption == Wired \subseteq Pins
ASSUME CapAssumption == QueueCap \in Nat \ {0}
ASSUME NoneAssumption == /\ NoJob \notin Handlers
                         /\ NoMessage \notin Messages
                         /\ Malformed \notin Commands

VARIABLES
    msg,          \* the topic and payload each invocation was called with
    handler,      \* where each invocation is
    deviceMap,    \* the ids that have an RPIDevice
    cmdCh,        \* the buffered channel of jobs
    worker,       \* where the worker goroutine is
    job,          \* the job it is executing
    level,        \* the level each pin was last set to
    stateTopic,   \* the job last reported on each device's state topic
    online,       \* the broker connection is up
    cancelled,    \* the context handed to Start is cancelled
    accepted,     \* history: jobs in the order they entered cmdCh
    fate          \* history: how each invocation's command ended

handlerVars == <<msg, handler, deviceMap>>
pinVars     == <<level, stateTopic>>
envVars     == <<online, cancelled>>
vars == <<msg, handler, deviceMap, cmdCh, worker, job, level, stateTopic,
          online, cancelled, accepted, fate>>

HandlerStates == {"idle", "register", "enqueue", "done"}
WorkerStates  == {"select", "lookup", "drive", "publish", "ack", "stopped"}
Fates == {"none", "rejected", "dropped", "gone", "unknownAction", "failed",
          "reported", "unreported"}
Levels == {"boot", "low", "high"}

TypeOK ==
    /\ msg \in [Handlers -> Messages \cup {NoMessage}]
    /\ handler \in [Handlers -> HandlerStates]
    /\ deviceMap \in SUBSET Devices
    /\ cmdCh \in Seq(Handlers)
    /\ worker \in WorkerStates
    /\ job \in Handlers \cup {NoJob}
    /\ level \in [Pins -> Levels]
    /\ stateTopic \in [Devices -> Handlers \cup {NoJob}]
    /\ online \in BOOLEAN
    /\ cancelled \in BOOLEAN
    /\ accepted \in Seq(Handlers)
    /\ fate \in [Handlers -> Fates]

(* A job is the parsed payload of the invocation that enqueued it. *)
DeviceOf(h) == msg[h].dev
ActionOf(h) == msg[h].body.action
PinOf(h)    == msg[h].body.pin
LevelOf(a)  == IF a \in OnActions THEN "high" ELSE "low"

Init ==
    /\ msg = [h \in Handlers |-> NoMessage]
    /\ handler = [h \in Handlers |-> "idle"]
    /\ deviceMap = {}
    /\ cmdCh = << >>
    /\ worker = "select"
    /\ job = NoJob
    /\ level = [p \in Pins |-> "boot"]
    /\ stateTopic = [d \in Devices |-> NoJob]
    /\ online = TRUE
    /\ cancelled = FALSE
    /\ accepted = << >>
    /\ fate = [h \in Handlers |-> "none"]

-----------------------------------------------------------------------------
(* deviceCommandHandler, one goroutine per message. *)

Receive(h, m) ==
    /\ handler[h] = "idle"
    /\ online
    /\ msg' = [msg EXCEPT ![h] = m]
    /\ handler' = [handler EXCEPT ![h] = "register"]
    /\ UNCHANGED <<deviceMap, cmdCh, worker, job, pinVars, envVars, accepted, fate>>

(* Mutant of Register: the device never created. *)
RegisterNothing(h) ==
    /\ handler[h] = "register"
    /\ msg[h].body # Malformed
    /\ handler' = [handler EXCEPT ![h] = "enqueue"]
    /\ UNCHANGED <<msg, deviceMap, cmdCh, worker, job, pinVars, envVars, accepted, fate>>

(* The section under c.mu creates the device; only then is the payload
   parsed, so a malformed payload still leaves a device behind. *)
Register(h) ==
    /\ handler[h] = "register"
    /\ deviceMap' = deviceMap \cup {DeviceOf(h)}
    /\ IF msg[h].body = Malformed
          THEN /\ handler' = [handler EXCEPT ![h] = "done"]
               /\ fate' = [fate EXCEPT ![h] = "rejected"]
          ELSE /\ handler' = [handler EXCEPT ![h] = "enqueue"]
               /\ fate' = fate
    /\ UNCHANGED <<msg, cmdCh, worker, job, pinVars, envVars, accepted>>

Enqueue(h) ==
    /\ handler[h] = "enqueue"
    /\ Len(cmdCh) < QueueCap
    /\ cmdCh' = Append(cmdCh, h)
    /\ accepted' = Append(accepted, h)
    /\ handler' = [handler EXCEPT ![h] = "done"]
    /\ UNCHANGED <<msg, deviceMap, worker, job, pinVars, envVars, fate>>

(* Mutants of Drop: one slot too early; waiting for room instead. *)
DropEarly(h) ==
    /\ handler[h] = "enqueue"
    /\ Len(cmdCh) >= QueueCap - 1
    /\ fate' = [fate EXCEPT ![h] = "dropped"]
    /\ handler' = [handler EXCEPT ![h] = "done"]
    /\ UNCHANGED <<msg, deviceMap, cmdCh, worker, job, pinVars, envVars, accepted>>

DropWaits(h) ==
    /\ handler[h] = "enqueue"
    /\ Len(cmdCh) >= QueueCap
    /\ UNCHANGED vars

(* The default branch of the select: the channel is full. *)
Drop(h) ==
    /\ handler[h] = "enqueue"
    /\ Len(cmdCh) >= QueueCap
    /\ fate' = [fate EXCEPT ![h] = "dropped"]
    /\ handler' = [handler EXCEPT ![h] = "done"]
    /\ UNCHANGED <<msg, deviceMap, cmdCh, worker, job, pinVars, envVars, accepted>>

-----------------------------------------------------------------------------
(* commandWorker and executeCommand. *)

(* Mutants of TakeJob: the newest job first; a job left in the channel. *)
TakeNewest ==
    /\ worker = "select"
    /\ cmdCh # << >>
    /\ job' = cmdCh[Len(cmdCh)]
    /\ cmdCh' = SubSeq(cmdCh, 1, Len(cmdCh) - 1)
    /\ worker' = "lookup"
    /\ UNCHANGED <<handlerVars, pinVars, envVars, accepted, fate>>

TakePeeks ==
    /\ worker = "select"
    /\ cmdCh # << >>
    /\ job' = Head(cmdCh)
    /\ worker' = "lookup"
    /\ UNCHANGED <<handlerVars, cmdCh, pinVars, envVars, accepted, fate>>

TakeJob ==
    /\ worker = "select"
    /\ cmdCh # << >>
    /\ job' = Head(cmdCh)
    /\ cmdCh' = Tail(cmdCh)
    /\ worker' = "lookup"
    /\ UNCHANGED <<handlerVars, pinVars, envVars, accepted, fate>>

(* With a job waiting as well, Go's select picks either ready case. *)
StopWorker ==
    /\ worker = "select"
    /\ cancelled
    /\ worker' = "stopped"
    /\ UNCHANGED <<handlerVars, cmdCh, job, pinVars, envVars, accepted, fate>>

(* executeCommand returns to the loop; its job ended as f. *)
Finish(f) ==
    /\ worker' = "select"
    /\ job' = NoJob
    /\ fate' = [fate EXCEPT ![job] = f]

LookupDevice ==
    /\ worker = "lookup"
    /\ IF DeviceOf(job) \in deviceMap
          THEN worker' = "drive" /\ UNCHANGED <<job, fate>>
          ELSE Finish("gone")
    /\ UNCHANGED <<handlerVars, cmdCh, pinVars, envVars, accepted>>

UnknownAction ==
    /\ worker = "drive"
    /\ ActionOf(job) \notin OnActions \cup OffActions
    /\ Finish("unknownAction")
    /\ UNCHANGED <<handlerVars, cmdCh, pinVars, envVars, accepted>>

SetPin ==
    /\ worker = "drive"
    /\ ActionOf(job) \in OnActions \cup OffActions
    /\ PinOf(job) \in Wired
    /\ level' = [level EXCEPT ![PinOf(job)] = LevelOf(ActionOf(job))]
    /\ worker' = "publish"
    /\ UNCHANGED <<handlerVars, cmdCh, job, stateTopic, envVars, accepted, fate>>

(* Mutant of SetPinFails: the error of On or Off is not looked at. *)
SetPinFailureIgnored ==
    /\ worker = "drive"
    /\ ActionOf(job) \in OnActions \cup OffActions
    /\ worker' = "publish"
    /\ UNCHANGED <<handlerVars, cmdCh, job, pinVars, envVars, accepted, fate>>

(* The registry does not know the pin, or Out failed; whether a failing Out
   moved the pin is not known to the caller. *)
SetPinFails ==
    /\ worker = "drive"
    /\ ActionOf(job) \in OnActions \cup OffActions
    /\ \/ level' = level
       \/ /\ PinOf(job) \in Wired
          /\ level' = [level EXCEPT ![PinOf(job)] = LevelOf(ActionOf(job))]
    /\ Finish("failed")
    /\ UNCHANGED <<handlerVars, cmdCh, stateTopic, envVars, accepted>>

(* publishState: a QoS 1 publish whose token the worker waits for, without
   a timeout.  The broker gets the message, then the worker its ack; a lost
   connection in between only delays either. *)
PublishArrives ==
    /\ worker = "publish"
    /\ online
    /\ stateTopic' = [stateTopic EXCEPT ![DeviceOf(job)] = job]
    /\ worker' = "ack"
    /\ UNCHANGED <<handlerVars, cmdCh, job, level, envVars, accepted, fate>>

PublishAcked ==
    /\ worker = "ack"
    /\ online
    /\ Finish("reported")
    /\ UNCHANGED <<handlerVars, cmdCh, pinVars, envVars, accepted>>

(* The token carries an error; the error is logged and the job is over. *)
PublishFails ==
    /\ worker \in {"publish", "ack"}
    /\ Finish("unreported")
    /\ UNCHANGED <<handlerVars, cmdCh, pinVars, envVars, accepted>>

-----------------------------------------------------------------------------
(* The environment: the broker connection and the shutdown signal. *)

LoseConnection ==
    /\ online
    /\ online' = FALSE
    /\ UNCHANGED <<handlerVars, cmdCh, worker, job, pinVars, cancelled, accepted, fate>>

(* Mutant of Reconnect: a client without SetAutoReconnect(true). *)
NoReconnect == UNCHANGED vars

Reconnect ==
    /\ ~online
    /\ online' = TRUE
    /\ UNCHANGED <<handlerVars, cmdCh, worker, job, pinVars, cancelled, accepted, fate>>

Cancel ==
    /\ ~cancelled
    /\ cancelled' = TRUE
    /\ UNCHANGED <<handlerVars, cmdCh, worker, job, pinVars, online, accepted, fate>>

HandlerStep(h) == Register(h) \/ Enqueue(h) \/ Drop(h)

ExecuteStep ==
    \/ TakeJob
    \/ LookupDevice
    \/ UnknownAction
    \/ SetPin
    \/ SetPinFails
    \/ PublishArrives
    \/ PublishAcked
    \/ PublishFails

Next ==
    \/ \E h \in Handlers : \E m \in Messages : Receive(h, m)
    \/ \E h \in Handlers : HandlerStep(h)
    \/ ExecuteStep
    \/ StopWorker
    \/ LoseConnection
    \/ Reconnect
    \/ Cancel

Spec == Init /\ [][Next]_vars

(* The Go scheduler runs every goroutine that can run; the MQTT client
   reconnects (SetAutoReconnect), and a broker that is reached again and again
   eventually takes and acks a publish. *)
LiveSpec ==
    /\ Spec
    /\ \A h \in Handlers : WF_vars(HandlerStep(h))
    /\ WF_vars(TakeJob \/ LookupDevice \/ UnknownAction \/ SetPin \/ SetPinFails)
    /\ WF_vars(StopWorker)
    /\ WF_vars(Reconnect)
    /\ SF_vars(PublishArrives)
    /\ SF_vars(PublishAcked)

-----------------------------------------------------------------------------
(* Properties. *)

Queued(h)  == \E i \in DOMAIN cmdCh : cmdCh[i] = h
Started(h) == job = h \/ fate[h] \notin {"none", "rejected", "dropped"}

(* Every job that is queued or being executed has its device in deviceMap, so
   the "Device gone before command execution" branch is never taken: the
   handler creates the device in a lock section that ends before it sends. *)
QueuedDeviceKnown ==
    /\ \A h \in Handlers : Queued(h) \/ job = h => DeviceOf(h) \in deviceMap
    /\ \A h \in Handlers : fate[h] # "gone"

(* No command vanishes and none is executed twice: a command whose handler has
   returned (which is when the MQTT client acks it to the broker) is waiting
   exactly once in cmdCh, or is the job of the worker, or has exactly one
   outcome; a command whose handler has not returned is none of these. *)
EveryCommandAccounted ==
    /\ \A i, j \in DOMAIN cmdCh : cmdCh[i] = cmdCh[j] => i = j
    /\ \A h \in Handlers :
          /\ handler[h] # "done" => ~Queued(h) /\ job # h /\ fate[h] = "none"
          /\ handler[h] = "done" => Queued(h) \/ job = h \/ fate[h] # "none"
          /\ ~(Queued(h) /\ job = h)
          /\ fate[h] # "none" => ~Queued(h) /\ job # h

(* Commands are executed one at a time in the order they entered cmdCh: when a
   job has been started, every job accepted before it is over. *)
ExecutedInOrder ==
    \A i, j \in DOMAIN accepted :
        i < j /\ Started(accepted[j]) => fate[accepted[i]] # "none"

(* Nothing is dropped before QueueCap commands have been accepted: a burst
   that fits the channel survives a worker stuck on a pin or on the broker. *)
BurstFits ==
    (\E h \in Handlers : fate[h] = "dropped") => Len(accepted) >= QueueCap

Later(h, g) == \E i, j \in DOMAIN accepted :
                  i < j /\ accepted[i] = g /\ accepted[j] = h

(* Job h moved the pin of the earlier job g, and the report of g stands. *)
Overrode(h, g) ==
    /\ Later(h, g)
    /\ PinOf(h) = PinOf(g)
    /\ \/ job = h /\ worker = "publish"
       \/ fate[h] \in {"failed", "unreported"}
       \/ DeviceOf(h) # DeviceOf(g)

(* What a state topic says is true of the hardware: the pin the reported job
   names is at the level it asked for, unless a later job for the same pin
   moved it and is about to be reported, failed half way, could not be
   reported, or belongs to another device. *)
StateTopicTrue ==
    \A d \in Devices :
        LET g == stateTopic[d] IN
        g # NoJob =>
            /\ DeviceOf(g) = d
            /\ \/ level[PinOf(g)] = LevelOf(ActionOf(g))
               \/ \E h \in Handlers : Overrode(h, g)

(* The command path implements the command service: refused or accepted once,
   served one at a time in the order of cmdCh, no pin moved and nothing
   reported on behalf of any other command.  Lookups, channel operations that
   only move a job, the connection and the shutdown are stuttering steps. *)
Service == INSTANCE CommandService WITH asked <- msg, outcome <- fate
ImplementsService == Service!Spec

(* The handler goroutine always returns, and so the client can ack: it needs
   neither the worker nor the broker, thanks to the non-blocking send.  (An
   invocation happens once, so each ends if none is under way ever again.) *)
HandlersFinish ==
    []<>(\A h \in Handlers : handler[h] \in {"idle", "done"})

(* A command that entered cmdCh reaches an outcome, whatever the connection
   does meanwhile, unless the program is told to stop. *)
CommandsSettle ==
    []<>(cancelled \/ \A h \in Handlers : ~Queued(h) /\ job # h)
=============================================================================
