------------------------- MODULE CommandPathProofs -------------------------
(***************************************************************************)
(* Proofs that the safety properties of CommandPath hold for every number  *)
(* of messages, every set of devices, actions and pins, and every capacity *)
(* of the command channel.                                                 *)
(***************************************************************************)
EXTENDS CommandPath, SequenceTheorems, TLAPS

(* The number of accepted jobs that have left cmdCh. *)
Taken == Len(accepted) - Len(cmdCh)

(* The worker has a job exactly while it is inside executeCommand. *)
JobHeld == worker \in {"select", "stopped"} <=> job = NoJob

(* An invocation that is to enqueue, is queued or is being executed has been
   called, with a payload that was parsed, and has registered its device. *)
Dispatched(h) ==
    /\ msg[h] \in Messages
    /\ msg[h].body \in Commands
    /\ DeviceOf(h) \in deviceMap

MessagesKnown ==
    \A h \in Handlers :
        /\ handler[h] = "register" => msg[h] \in Messages
        /\ handler[h] = "enqueue" \/ Queued(h) \/ job = h => Dispatched(h)

(* cmdCh is what is left of accepted, and of the jobs that left it only the
   last can still be in execution. *)
AcceptedSuffix ==
    /\ Taken >= 0
    /\ \A i \in 1..Len(cmdCh) : cmdCh[i] = accepted[Taken + i]
    /\ \A i \in 1..Taken : fate[accepted[i]] # "none" \/ (i = Taken /\ job = accepted[i])
    /\ job # NoJob => Taken >= 1 /\ job = accepted[Taken]
    /\ \A i \in 1..Len(accepted) : handler[accepted[i]] = "done"

NobodyGone == \A h \in Handlers : fate[h] # "gone"

IInv ==
    /\ TypeOK
    /\ JobHeld
    /\ MessagesKnown
    /\ NobodyGone
    /\ EveryCommandAccounted
    /\ AcceptedSuffix
    /\ BurstFits
-----------------------------------------------------------------------------
(* The environment steps change nothing an invariant here looks at. *)
Ambient == LoseConnection \/ Reconnect \/ Cancel

(* Every action keeps the variables in their types. *)
LEMMA TypeStep == ASSUME IInv, Next PROVE TypeOK'
<1>0. TypeOK BY DEF IInv
<1>1. ASSUME NEW h \in Handlers, NEW m \in Messages, Receive(h, m) PROVE TypeOK'
  BY <1>0, <1>1 DEF TypeOK, Receive, HandlerStates, pinVars, envVars
<1>2. ASSUME NEW h \in Handlers, Register(h) PROVE TypeOK'
  <2>1. DeviceOf(h) \in Devices
    BY <1>2, MessagesAssumption DEF IInv, MessagesKnown, Register, DeviceOf
  <2> QED BY <1>0, <1>2, <2>1
    DEF TypeOK, Register, HandlerStates, Fates, pinVars, envVars
<1>3. ASSUME NEW h \in Handlers, Enqueue(h) PROVE TypeOK'
  BY <1>0, <1>3 DEF TypeOK, Enqueue, HandlerStates, Fates, pinVars, envVars
<1>4. ASSUME NEW h \in Handlers, Drop(h) PROVE TypeOK'
  BY <1>0, <1>4 DEF TypeOK, Drop, HandlerStates, Fates, pinVars, envVars
<1>5. CASE TakeJob
  BY <1>0, <1>5 DEF TypeOK, TakeJob, WorkerStates, Fates, Levels, LevelOf,
    handlerVars, pinVars, envVars
<1>6. CASE LookupDevice
  BY <1>0, <1>6 DEF TypeOK, LookupDevice, Finish, WorkerStates, Fates, Levels, LevelOf,
    handlerVars, pinVars, envVars
<1>7. CASE UnknownAction
  BY <1>0, <1>7 DEF TypeOK, UnknownAction, Finish, WorkerStates, Fates, Levels, LevelOf,
    handlerVars, pinVars, envVars
<1>8. CASE SetPin
  BY <1>0, <1>8 DEF TypeOK, SetPin, WorkerStates, Fates, Levels, LevelOf,
    handlerVars, pinVars, envVars
<1>9. CASE SetPinFails
  BY <1>0, <1>9 DEF TypeOK, SetPinFails, Finish, WorkerStates, Fates, Levels, LevelOf,
    handlerVars, pinVars, envVars
<1>10. CASE PublishArrives
  BY <1>0, <1>10 DEF TypeOK, PublishArrives, WorkerStates, Fates, Levels, LevelOf,
    handlerVars, pinVars, envVars
<1>11. CASE PublishAcked
  BY <1>0, <1>11 DEF TypeOK, PublishAcked, Finish, WorkerStates, Fates, Levels, LevelOf,
    handlerVars, pinVars, envVars
<1>12. CASE PublishFails
  BY <1>0, <1>12 DEF TypeOK, PublishFails, Finish, WorkerStates, Fates, Levels, LevelOf,
    handlerVars, pinVars, envVars
<1>13. CASE StopWorker
  BY <1>0, <1>13 DEF TypeOK, StopWorker, WorkerStates, Fates, Levels, LevelOf,
    handlerVars, pinVars, envVars
<1>14. CASE Ambient
  BY <1>0, <1>14 DEF TypeOK, Ambient, LoseConnection, Reconnect, Cancel, handlerVars, pinVars
<1> QED BY <1>1, <1>2, <1>3, <1>4, <1>5, <1>6, <1>7, <1>8, <1>9, <1>10, <1>11, <1>12, <1>13, <1>14 DEF Next, HandlerStep, ExecuteStep, Ambient
(* What the channel operations do to a sequence, index by index. *)
LEMMA AppendAt ==
  ASSUME NEW S, NEW s \in Seq(S), NEW e \in S
  PROVE  /\ Append(s, e) \in Seq(S)
         /\ Len(Append(s, e)) = Len(s) + 1
         /\ \A i \in 1..Len(s) : Append(s, e)[i] = s[i]
         /\ Append(s, e)[Len(s) + 1] = e
BY AppendProperties

(* The same for receiving from the channel. *)
LEMMA HeadTailAt ==
  ASSUME NEW S, NEW s \in Seq(S), s # << >>
  PROVE  /\ Head(s) = s[1] /\ Head(s) \in S
         /\ Tail(s) \in Seq(S)
         /\ Len(s) \in Nat /\ Len(s) >= 1
         /\ Len(Tail(s)) = Len(s) - 1
         /\ \A i \in 1..Len(Tail(s)) : Tail(s)[i] = s[i + 1]
BY HeadTailProperties, EmptySeq, LenProperties

-----------------------------------------------------------------------------
(***************************************************************************)
(* For every invariant but TypeOK a step has one of seven shapes: the four *)
(* handler steps, TakeJob, the end of a job, and a step that is calm, that *)
(* is, leaves the handlers, the channel, the job and the histories alone.  *)
(***************************************************************************)

WorkerIdle == worker \in {"select", "stopped"}

EndFates == {"unknownAction", "failed", "reported", "unreported"}

JobEnds(f) ==
    /\ ~WorkerIdle
    /\ Finish(f)
    /\ UNCHANGED <<handlerVars, cmdCh, accepted>>

Calm ==
    /\ UNCHANGED <<handlerVars, cmdCh, job, accepted, fate>>
    /\ WorkerIdle' <=> WorkerIdle

(* Every step has one of the seven shapes; "gone" is not among the ends of a
   job, because the device of the job in execution is known. *)
LEMMA StepShapes ==
  ASSUME IInv, Next
  PROVE  \/ \E h \in Handlers : (\E m \in Messages : Receive(h, m)) \/ HandlerStep(h)
         \/ TakeJob
         \/ \E f \in EndFates : JobEnds(f)
         \/ Calm
<1>0. TypeOK /\ JobHeld /\ MessagesKnown BY DEF IInv
<1>1. CASE LookupDevice
  <2>1. job \in Handlers
    BY <1>0, <1>1 DEF TypeOK, JobHeld, LookupDevice
  <2>2. DeviceOf(job) \in deviceMap
    BY <1>0, <2>1 DEF MessagesKnown, Dispatched
  <2> QED BY <1>1, <2>2 DEF LookupDevice, Calm, WorkerIdle
<1>2. CASE UnknownAction
  BY <1>2 DEF UnknownAction, JobEnds, EndFates, WorkerIdle
<1>3. CASE SetPinFails
  BY <1>3 DEF SetPinFails, JobEnds, EndFates, WorkerIdle
<1>4. CASE PublishAcked
  BY <1>4 DEF PublishAcked, JobEnds, EndFates, WorkerIdle
<1>5. CASE PublishFails
  BY <1>5 DEF PublishFails, JobEnds, EndFates, WorkerIdle
<1>6. CASE SetPin \/ PublishArrives \/ StopWorker
  BY <1>6 DEF SetPin, PublishArrives, StopWorker, Calm, WorkerIdle
<1>7. CASE Ambient
  BY <1>7 DEF Ambient, LoseConnection, Reconnect, Cancel, Calm, WorkerIdle
<1> QED BY <1>1, <1>2, <1>3, <1>4, <1>5, <1>6, <1>7 DEF Next, ExecuteStep, Ambient

(* The job that ends was a command, and only its outcome changes. *)
LEMMA EndedJob ==
  ASSUME IInv, NEW f \in EndFates, JobEnds(f)
  PROVE  /\ job \in Handlers /\ job' = NoJob /\ NoJob \notin Handlers /\ WorkerIdle'
         /\ fate'[job] = f
         /\ \A g \in Handlers : g # job => fate'[g] = fate[g]
         /\ UNCHANGED <<handlerVars, cmdCh, accepted>>
BY NoneAssumption DEF IInv, TypeOK, JobHeld, JobEnds, Finish, WorkerIdle

(* The worker picks a job up in TakeJob and puts it down in Finish. *)
LEMMA JobHeldStep == ASSUME IInv, Next PROVE JobHeld'
<1>0. TypeOK /\ JobHeld BY DEF IInv
<1>1. ASSUME NEW h \in Handlers, NEW m \in Messages, Receive(h, m) PROVE JobHeld'
  BY <1>0, <1>1 DEF JobHeld, Receive
<1>2. ASSUME NEW h \in Handlers, HandlerStep(h) PROVE JobHeld'
  BY <1>0, <1>2 DEF JobHeld, HandlerStep, Register, Enqueue, Drop
<1>3. CASE TakeJob
  BY <1>0, <1>3, HeadTailAt, NoneAssumption DEF TypeOK, JobHeld, TakeJob
<1>4. ASSUME NEW f \in EndFates, JobEnds(f) PROVE JobHeld'
  BY <1>4, EndedJob DEF JobHeld, WorkerIdle
<1>5. CASE Calm
  BY <1>0, <1>5 DEF JobHeld, Calm, WorkerIdle
<1> QED BY <1>1, <1>2, <1>3, <1>4, <1>5, StepShapes

(* A device, once in deviceMap, stays there, so a lookup finds it. *)
LEMMA NobodyGoneStep == ASSUME IInv, Next PROVE NobodyGone'
<1>0. TypeOK /\ NobodyGone BY DEF IInv
<1>1. ASSUME NEW h \in Handlers, NEW m \in Messages, Receive(h, m) PROVE NobodyGone'
  BY <1>0, <1>1 DEF NobodyGone, Receive
<1>2. ASSUME NEW h \in Handlers, HandlerStep(h) PROVE NobodyGone'
  BY <1>0, <1>2 DEF TypeOK, NobodyGone, HandlerStep, Register, Enqueue, Drop
<1>3. CASE TakeJob
  BY <1>0, <1>3 DEF NobodyGone, TakeJob
<1>4. ASSUME NEW f \in EndFates, JobEnds(f) PROVE NobodyGone'
  BY <1>0, <1>4, EndedJob DEF NobodyGone, EndFates
<1>5. CASE Calm
  BY <1>0, <1>5 DEF NobodyGone, Calm
<1> QED BY <1>1, <1>2, <1>3, <1>4, <1>5, StepShapes

(* Registering comes before enqueueing, and no registration is undone. *)
LEMMA MessagesKnownStep == ASSUME IInv, Next PROVE MessagesKnown'
<1>0. TypeOK /\ JobHeld /\ MessagesKnown /\ EveryCommandAccounted BY DEF IInv
<1>1. ASSUME NEW h \in Handlers, NEW m \in Messages, Receive(h, m) PROVE MessagesKnown'
  BY <1>0, <1>1 DEF TypeOK, MessagesKnown, Dispatched, DeviceOf, Queued, Receive, EveryCommandAccounted, HandlerStates
<1>2. ASSUME NEW h \in Handlers, Register(h) PROVE MessagesKnown'
  BY <1>0, <1>2, MessagesAssumption DEF TypeOK, MessagesKnown, Dispatched, DeviceOf, Queued, Register, HandlerStates
<1>3. ASSUME NEW h \in Handlers, Enqueue(h) PROVE MessagesKnown'
  BY <1>0, <1>3 DEF TypeOK, MessagesKnown, Dispatched, DeviceOf, Queued, Enqueue
<1>4. ASSUME NEW h \in Handlers, Drop(h) PROVE MessagesKnown'
  BY <1>0, <1>4 DEF TypeOK, MessagesKnown, Dispatched, DeviceOf, Queued, Drop
<1>5. CASE TakeJob
  BY <1>0, <1>5 DEF TypeOK, MessagesKnown, Dispatched, DeviceOf, Queued, TakeJob, handlerVars
<1>6. ASSUME NEW f \in EndFates, JobEnds(f) PROVE MessagesKnown'
  BY <1>0, <1>6, EndedJob DEF MessagesKnown, Dispatched, DeviceOf, Queued, handlerVars
<1>7. CASE Calm
  BY <1>0, <1>7 DEF MessagesKnown, Dispatched, DeviceOf, Queued, Calm, handlerVars
<1> QED BY <1>1, <1>2, <1>3, <1>4, <1>5, <1>6, <1>7, StepShapes DEF HandlerStep

(* A command moves from its handler to cmdCh, to the worker, to its outcome. *)
LEMMA AccountedStep == ASSUME IInv, Next PROVE EveryCommandAccounted'
<1>0. TypeOK /\ JobHeld /\ EveryCommandAccounted BY DEF IInv
<1>1. ASSUME NEW h \in Handlers, NEW m \in Messages, Receive(h, m) PROVE EveryCommandAccounted'
  BY <1>0, <1>1 DEF TypeOK, EveryCommandAccounted, Queued, Receive
<1>2. ASSUME NEW h \in Handlers, Register(h) PROVE EveryCommandAccounted'
  BY <1>0, <1>2 DEF TypeOK, EveryCommandAccounted, Queued, Register
<1>3. ASSUME NEW h \in Handlers, Enqueue(h) PROVE EveryCommandAccounted'
  <2>1. \A i \in 1..Len(cmdCh) : cmdCh'[i] = cmdCh[i] /\ cmdCh[i] \in Handlers
    BY <1>0, <1>3, AppendAt DEF TypeOK, Enqueue
  <2>2. Len(cmdCh) \in Nat /\ Len(cmdCh') = Len(cmdCh) + 1 /\ cmdCh'[Len(cmdCh) + 1] = h
    BY <1>0, <1>3, AppendAt DEF TypeOK, Enqueue
  <2>3. DOMAIN cmdCh = 1..Len(cmdCh) /\ DOMAIN cmdCh' = 1..Len(cmdCh')
    BY <1>0, <1>3, AppendAt DEF TypeOK, Enqueue
  <2>4. \A g \in Handlers : Queued(g)' <=> Queued(g) \/ g = h
    BY <2>1, <2>2, <2>3 DEF Queued
  <2>5. \A i, j \in DOMAIN cmdCh' : cmdCh'[i] = cmdCh'[j] => i = j
    <3>1. ~Queued(h)
      BY <1>0, <1>3 DEF EveryCommandAccounted, Enqueue
    <3> QED BY <1>0, <3>1, <2>1, <2>2, <2>3 DEF EveryCommandAccounted, Queued
  <2> QED BY <1>0, <1>3, <2>4, <2>5 DEF TypeOK, EveryCommandAccounted, Enqueue, HandlerStates, pinVars, envVars
<1>4. ASSUME NEW h \in Handlers, Drop(h) PROVE EveryCommandAccounted'
  BY <1>0, <1>4 DEF TypeOK, EveryCommandAccounted, Queued, Drop
<1>5. CASE TakeJob
  <2>1. /\ Len(cmdCh) \in Nat /\ Len(cmdCh) >= 1 /\ Len(cmdCh') = Len(cmdCh) - 1
        /\ \A i \in 1..Len(cmdCh') : cmdCh'[i] = cmdCh[i + 1]
        /\ job' = cmdCh[1]
        /\ DOMAIN cmdCh = 1..Len(cmdCh) /\ DOMAIN cmdCh' = 1..Len(cmdCh')
    BY <1>0, <1>5, HeadTailAt DEF TypeOK, TakeJob
  <2>2. job = NoJob /\ NoJob \notin Handlers /\ fate' = fate /\ handler' = handler
    BY <1>0, <1>5, NoneAssumption DEF JobHeld, TakeJob, handlerVars
  <2>3. \A i, j \in 1..Len(cmdCh) : cmdCh[i] = cmdCh[j] => i = j
    BY <1>0, <2>1 DEF EveryCommandAccounted
  <2>4. \A i, j \in DOMAIN cmdCh' : cmdCh'[i] = cmdCh'[j] => i = j
    BY <2>1, <2>3
  <2>5. \A g \in Handlers : Queued(g)' <=> Queued(g) /\ g # job'
    <3> SUFFICES ASSUME NEW g \in Handlers PROVE Queued(g)' <=> Queued(g) /\ g # job'
      OBVIOUS
    <3>1. ASSUME Queued(g)' PROVE Queued(g) /\ g # job'
      BY <3>1, <2>1, <2>3 DEF Queued
    <3>2. ASSUME Queued(g), g # job' PROVE Queued(g)'
      <4>1. PICK i \in 1..Len(cmdCh) : cmdCh[i] = g
        BY <3>2, <2>1 DEF Queued
      <4>2. i - 1 \in 1..Len(cmdCh') /\ cmdCh'[i - 1] = g
        BY <4>1, <3>2, <2>1
      <4> QED BY <4>2, <2>1 DEF Queued
    <3> QED BY <3>1, <3>2
  <2>6. Queued(job') /\ job' \in Handlers
    BY <1>0, <2>1 DEF Queued, TypeOK
  <2> QED BY <1>0, <2>2, <2>4, <2>5, <2>6 DEF EveryCommandAccounted
<1>6. ASSUME NEW f \in EndFates, JobEnds(f) PROVE EveryCommandAccounted'
  <2>1. /\ job \in Handlers /\ job' = NoJob /\ NoJob \notin Handlers
        /\ fate'[job] # "none" /\ \A g \in Handlers : g # job => fate'[g] = fate[g]
        /\ cmdCh' = cmdCh /\ handler' = handler
    BY <1>6, EndedJob DEF EndFates, handlerVars
  <2>2. \A g \in Handlers : Queued(g)' <=> Queued(g)
    BY <2>1 DEF Queued
  <2> QED BY <1>0, <2>1, <2>2 DEF EveryCommandAccounted
<1>7. CASE Calm
  BY <1>0, <1>7 DEF EveryCommandAccounted, Queued, Calm, handlerVars
<1> QED BY <1>1, <1>2, <1>3, <1>4, <1>5, <1>6, <1>7, StepShapes DEF HandlerStep

(* cmdCh grows and shrinks with accepted as a queue does. *)
LEMMA SuffixStep == ASSUME IInv, Next PROVE AcceptedSuffix'
<1>0. TypeOK /\ JobHeld /\ EveryCommandAccounted /\ AcceptedSuffix BY DEF IInv
<1>1. ASSUME NEW h \in Handlers, NEW m \in Messages, Receive(h, m) PROVE AcceptedSuffix'
  BY <1>0, <1>1 DEF TypeOK, AcceptedSuffix, Taken, Receive
<1>2. ASSUME NEW h \in Handlers, Register(h) PROVE AcceptedSuffix'
  BY <1>0, <1>2 DEF TypeOK, AcceptedSuffix, Taken, Register
<1>3. ASSUME NEW h \in Handlers, Enqueue(h) PROVE AcceptedSuffix'
  <2>1. /\ Len(cmdCh) \in Nat /\ Len(accepted) \in Nat
        /\ Len(cmdCh') = Len(cmdCh) + 1 /\ Len(accepted') = Len(accepted) + 1
        /\ \A i \in 1..Len(cmdCh) : cmdCh'[i] = cmdCh[i]
        /\ \A i \in 1..Len(accepted) : accepted'[i] = accepted[i] /\ accepted[i] \in Handlers
        /\ cmdCh'[Len(cmdCh) + 1] = h /\ accepted'[Len(accepted) + 1] = h
    BY <1>0, <1>3, AppendAt DEF TypeOK, Enqueue
  <2>2. /\ job' = job /\ fate' = fate
        /\ handler'[h] = "done" /\ \A g \in Handlers : g # h => handler'[g] = handler[g]
    BY <1>0, <1>3 DEF TypeOK, Enqueue
  <2>3. Taken' = Taken
    BY <2>1 DEF Taken
  <2>4. Taken \in Int /\ Taken <= Len(accepted) /\ Taken >= 0
        /\ Taken = Len(accepted) - Len(cmdCh)
    BY <1>0, <2>1 DEF AcceptedSuffix, Taken
  <2>5. \A i \in 1..Len(cmdCh') : cmdCh'[i] = accepted'[Taken' + i]
    <3> SUFFICES ASSUME NEW i \in 1..Len(cmdCh') PROVE cmdCh'[i] = accepted'[Taken' + i]
      OBVIOUS
    <3>1. CASE i \in 1..Len(cmdCh)
      <4>1. Taken + i \in 1..Len(accepted) /\ cmdCh[i] = accepted[Taken + i]
        BY <1>0, <3>1, <2>1, <2>4 DEF AcceptedSuffix
      <4> QED BY <4>1, <3>1, <2>1, <2>3
    <3>2. CASE i = Len(cmdCh) + 1
      BY <3>2, <2>1, <2>3, <2>4
    <3> QED BY <3>1, <3>2, <2>1
  <2>6. \A i \in 1..Taken' : fate'[accepted'[i]] # "none" \/ (i = Taken' /\ job' = accepted'[i])
    BY <1>0, <2>1, <2>2, <2>3, <2>4 DEF AcceptedSuffix
  <2>7. job' # NoJob => Taken' >= 1 /\ job' = accepted'[Taken']
    BY <1>0, <2>1, <2>2, <2>3, <2>4 DEF AcceptedSuffix
  <2>8. \A i \in 1..Len(accepted') : handler'[accepted'[i]] = "done"
    BY <1>0, <2>1, <2>2 DEF AcceptedSuffix
  <2> QED BY <2>3, <2>4, <2>5, <2>6, <2>7, <2>8 DEF AcceptedSuffix
<1>4. ASSUME NEW h \in Handlers, Drop(h) PROVE AcceptedSuffix'
  BY <1>0, <1>4 DEF TypeOK, AcceptedSuffix, Taken, Drop
<1>5. CASE TakeJob
  <2>1. /\ Len(cmdCh) \in Nat /\ Len(cmdCh) >= 1 /\ Len(accepted) \in Nat
        /\ Len(cmdCh') = Len(cmdCh) - 1
        /\ \A i \in 1..Len(cmdCh') : cmdCh'[i] = cmdCh[i + 1]
        /\ job' = cmdCh[1]
    BY <1>0, <1>5, HeadTailAt DEF TypeOK, TakeJob
  <2>2. accepted' = accepted /\ fate' = fate /\ handler' = handler
    BY <1>5 DEF TakeJob, handlerVars
  <2>3. Taken' = Taken + 1
    BY <2>1, <2>2 DEF Taken
  <2>4. job = NoJob
    BY <1>0, <1>5 DEF JobHeld, TakeJob
  <2>5. job' = accepted'[Taken']
    BY <1>0, <2>1, <2>2, <2>3 DEF AcceptedSuffix, Taken
  <2>6. \A i \in 1..Taken : fate[accepted[i]] # "none"
    <3>1. Taken \in Int /\ Len(accepted) >= Taken
      BY <2>1 DEF Taken
    <3>2. \A i \in 1..Taken : accepted[i] \in Handlers
      BY <1>0, <3>1 DEF TypeOK
    <3> QED BY <1>0, <2>4, <3>2, NoneAssumption DEF AcceptedSuffix
  <2>7. Taken \in Int /\ Taken >= 0 /\ Taken = Len(accepted) - Len(cmdCh)
    BY <1>0, <2>1 DEF AcceptedSuffix, Taken
  <2>8. \A i \in 1..Len(cmdCh') : cmdCh'[i] = accepted'[Taken' + i]
    <3> SUFFICES ASSUME NEW i \in 1..Len(cmdCh') PROVE cmdCh'[i] = accepted'[Taken' + i]
      OBVIOUS
    <3>1. i + 1 \in 1..Len(cmdCh) /\ Taken' + i = Taken + (i + 1)
      BY <2>1, <2>3, <2>7
    <3>2. cmdCh[i + 1] = accepted[Taken + (i + 1)]
      BY <1>0, <3>1 DEF AcceptedSuffix
    <3> QED BY <2>1, <2>2, <3>1, <3>2
  <2>9. \A i \in 1..Taken' : fate'[accepted'[i]] # "none" \/ (i = Taken' /\ job' = accepted'[i])
    <3> SUFFICES ASSUME NEW i \in 1..Taken'
                 PROVE  fate'[accepted'[i]] # "none" \/ (i = Taken' /\ job' = accepted'[i])
      OBVIOUS
    <3>1. i \in 1..Taken \/ i = Taken'
      BY <2>3, <2>7
    <3> QED BY <3>1, <2>2, <2>5, <2>6
  <2>10. Taken' >= 1 /\ Taken' >= 0
    BY <2>3, <2>7
  <2>11. \A i \in 1..Len(accepted') : handler'[accepted'[i]] = "done"
    BY <1>0, <2>2 DEF AcceptedSuffix
  <2> QED BY <2>5, <2>8, <2>9, <2>10, <2>11 DEF AcceptedSuffix
<1>6. ASSUME NEW f \in EndFates, JobEnds(f) PROVE AcceptedSuffix'
  <2>1. /\ Len(cmdCh) \in Nat /\ Len(accepted) \in Nat
        /\ \A i \in 1..Len(accepted) : accepted[i] \in Handlers
    BY <1>0 DEF TypeOK
  <2>2. /\ cmdCh' = cmdCh /\ accepted' = accepted /\ handler' = handler /\ Taken' = Taken
        /\ job \in Handlers /\ job' = NoJob
    BY <1>6, EndedJob DEF Taken, handlerVars
  <2>3. /\ fate'[job] # "none"
        /\ \A g \in Handlers : fate[g] # "none" => fate'[g] # "none"
    BY <1>6, EndedJob DEF EndFates
  <2>4. Taken \in Int /\ Taken <= Len(accepted)
    BY <2>1 DEF Taken
  <2>5. \A i \in 1..Taken : fate'[accepted[i]] # "none"
    <3> SUFFICES ASSUME NEW i \in 1..Taken PROVE fate'[accepted[i]] # "none"
      OBVIOUS
    <3>1. fate[accepted[i]] # "none" \/ job = accepted[i]
      BY <1>0 DEF AcceptedSuffix
    <3>2. accepted[i] \in Handlers
      BY <2>1, <2>4
    <3> QED BY <3>1, <3>2, <2>3
  <2> QED BY <1>0, <2>2, <2>5 DEF AcceptedSuffix
<1>7. CASE Calm
  BY <1>0, <1>7 DEF AcceptedSuffix, Taken, Calm, handlerVars
<1> QED BY <1>1, <1>2, <1>3, <1>4, <1>5, <1>6, <1>7, StepShapes DEF HandlerStep

(* A drop finds QueueCap jobs in cmdCh, all of them accepted. *)
LEMMA BurstStep == ASSUME IInv, Next PROVE BurstFits'
<1>0. TypeOK /\ AcceptedSuffix /\ BurstFits BY DEF IInv
<1>1. ASSUME NEW h \in Handlers, NEW m \in Messages, Receive(h, m) PROVE BurstFits'
  BY <1>0, <1>1 DEF BurstFits, Receive
<1>2. ASSUME NEW h \in Handlers, Register(h) PROVE BurstFits'
  BY <1>0, <1>2 DEF TypeOK, BurstFits, Register
<1>3. ASSUME NEW h \in Handlers, Enqueue(h) PROVE BurstFits'
  <2>1. Len(accepted') = Len(accepted) + 1 /\ Len(accepted) \in Nat
    BY <1>0, <1>3, AppendAt DEF TypeOK, Enqueue
  <2> QED BY <1>0, <2>1, <1>3, CapAssumption DEF BurstFits, Enqueue
<1>4. ASSUME NEW h \in Handlers, Drop(h) PROVE BurstFits'
  <2>1. Len(accepted) \in Nat /\ Len(cmdCh) \in Nat /\ Len(accepted) >= Len(cmdCh)
    BY <1>0 DEF TypeOK, AcceptedSuffix, Taken
  <2> QED BY <1>4, <2>1, CapAssumption DEF BurstFits, Drop
<1>5. CASE TakeJob
  BY <1>0, <1>5 DEF BurstFits, TakeJob
<1>6. ASSUME NEW f \in EndFates, JobEnds(f) PROVE BurstFits'
  BY <1>0, <1>6, EndedJob DEF BurstFits, EndFates
<1>7. CASE Calm
  BY <1>0, <1>7 DEF BurstFits, Calm
<1> QED BY <1>1, <1>2, <1>3, <1>4, <1>5, <1>6, <1>7, StepShapes DEF HandlerStep

(* The program starts inside the inductive invariant. *)
LEMMA IInvInit == Init => IInv
<1> SUFFICES ASSUME Init PROVE IInv
  OBVIOUS
<1>1. TypeOK
  <2>1. cmdCh \in Seq(Handlers) /\ accepted \in Seq(Handlers)
    BY DEF Init
  <2>2. /\ msg \in [Handlers -> Messages \cup {NoMessage}]
        /\ handler \in [Handlers -> HandlerStates]
        /\ fate \in [Handlers -> Fates]
    BY DEF Init, HandlerStates, Fates
  <2>3. /\ level \in [Pins -> Levels]
        /\ stateTopic \in [Devices -> Handlers \cup {NoJob}]
    BY DEF Init, Levels
  <2> QED BY <2>1, <2>2, <2>3 DEF Init, TypeOK, WorkerStates
<1>2. JobHeld /\ NobodyGone /\ BurstFits
  BY DEF Init, JobHeld, NobodyGone, BurstFits
<1>3. MessagesKnown /\ EveryCommandAccounted
  BY NoneAssumption DEF Init, MessagesKnown, EveryCommandAccounted, Queued
<1>4. AcceptedSuffix
  BY DEF Init, AcceptedSuffix, Taken
<1> QED BY <1>1, <1>2, <1>3, <1>4 DEF IInv

(* No step of the program leaves it. *)
LEMMA IInvStep == IInv /\ [Next]_vars => IInv'
<1> SUFFICES ASSUME IInv, [Next]_vars PROVE IInv'
  OBVIOUS
<1>1. CASE Next
  BY <1>1, TypeStep, JobHeldStep, MessagesKnownStep, NobodyGoneStep, AccountedStep,
     SuffixStep, BurstStep DEF IInv
<1>2. CASE UNCHANGED vars
  BY <1>2 DEF vars, IInv, TypeOK, JobHeld, MessagesKnown, Dispatched, DeviceOf,
     NobodyGone, EveryCommandAccounted, Queued, AcceptedSuffix, Taken, BurstFits
<1> QED BY <1>1, <1>2

(* The inductive invariant of the command path: types, where each command is,
   and cmdCh as the end of the sequence of accepted commands. *)
THEOREM InductiveInvariant == Spec => []IInv
BY IInvInit, IInvStep, PTL DEF Spec

(* Type correctness of the command path. *)
THEOREM TypeCorrect == Spec => []TypeOK
BY InductiveInvariant, PTL DEF IInv

(* The "Device gone" branch of executeCommand is dead for every number of
   concurrent handlers. *)
THEOREM LookupsSucceed == Spec => []QueuedDeviceKnown
<1>1. IInv => QueuedDeviceKnown
  BY DEF IInv, MessagesKnown, Dispatched, NobodyGone, QueuedDeviceKnown
<1> QED BY <1>1, InductiveInvariant, PTL

(* No acknowledged command is lost or executed twice inside the process. *)
THEOREM CommandsAccounted == Spec => []EveryCommandAccounted
BY InductiveInvariant, PTL DEF IInv

(* A burst of QueueCap commands always fits. *)
THEOREM NoDropInBurst == Spec => []BurstFits
BY InductiveInvariant, PTL DEF IInv

(* Commands are executed one at a time, in the order of cmdCh. *)
THEOREM InOrder == Spec => []ExecutedInOrder
<1>1. IInv => ExecutedInOrder
  <2> SUFFICES ASSUME IInv, NEW i \in DOMAIN accepted, NEW j \in DOMAIN accepted,
                      i < j, Started(accepted[j])
               PROVE  fate[accepted[i]] # "none"
    BY DEF ExecutedInOrder
  <2>0. TypeOK /\ EveryCommandAccounted /\ AcceptedSuffix
    BY DEF IInv
  <2>1. /\ Len(accepted) \in Nat /\ Len(cmdCh) \in Nat
        /\ i \in 1..Len(accepted) /\ j \in 1..Len(accepted)
        /\ accepted[i] \in Handlers /\ accepted[j] \in Handlers
        /\ Taken \in Int /\ Len(accepted) = Taken + Len(cmdCh)
    BY <2>0 DEF TypeOK, Taken
  <2>2. j \in 1..Taken
    <3> SUFFICES ASSUME j > Taken PROVE FALSE
      BY <2>1
    <3>1. j - Taken \in 1..Len(cmdCh) /\ cmdCh[j - Taken] = accepted[j]
      BY <2>0, <2>1 DEF AcceptedSuffix
    <3>2. Queued(accepted[j])
      BY <2>0, <3>1 DEF TypeOK, Queued
    <3> QED BY <2>0, <2>1, <3>2 DEF EveryCommandAccounted, Started
  <2>3. i \in 1..Taken /\ i # Taken
    BY <2>1, <2>2
  <2> QED BY <2>0, <2>3 DEF AcceptedSuffix
<1> QED BY <1>1, InductiveInvariant, PTL

-----------------------------------------------------------------------------
(***************************************************************************)
(* The state topics.  A report is true when it arrives because the worker  *)
(* drives no other pin until the publish is over; afterwards only a later  *)
(* job can make it false, and that job is then the witness in Overrode.    *)
(***************************************************************************)

(* While a report is on its way its pin has the reported level. *)
PinStillSet ==
    worker \in {"publish", "ack"} => level[PinOf(job)] = LevelOf(ActionOf(job))

(* A reported job has left cmdCh and is over, or waits for its ack. *)
ReportsKnown ==
    \A d \in Devices :
        LET g == stateTopic[d] IN
        g # NoJob => /\ DeviceOf(g) = d
                     /\ msg[g].body \in Commands
                     /\ fate[g] # "none" \/ (job = g /\ worker = "ack")
                     /\ \E i \in 1..Taken : accepted[i] = g

TopicInv == PinStillSet /\ ReportsKnown /\ StateTopicTrue

(* What every step keeps: the accepted jobs, their messages, the outcomes. *)
Grows ==
    /\ Len(accepted') >= Len(accepted)
    /\ \A i \in 1..Len(accepted) : /\ accepted'[i] = accepted[i]
                                   /\ msg'[accepted[i]] = msg[accepted[i]]
    /\ Taken' >= Taken
    /\ \A h \in Handlers : fate[h] # "none" => fate'[h] = fate[h]

(* No step takes an accepted job, a message or an outcome back. *)
LEMMA GrowsStep == ASSUME IInv, Next PROVE Grows
<1>0. TypeOK /\ JobHeld /\ EveryCommandAccounted /\ AcceptedSuffix BY DEF IInv
<1>1. /\ Len(cmdCh) \in Nat /\ Len(accepted) \in Nat
      /\ \A i \in 1..Len(accepted) : accepted[i] \in Handlers
  BY <1>0 DEF TypeOK
<1>2. ASSUME NEW h \in Handlers, NEW m \in Messages, Receive(h, m) PROVE Grows
  <2>1. \A i \in 1..Len(accepted) : accepted[i] # h
    BY <1>0, <1>2 DEF AcceptedSuffix, Receive
  <2> QED BY <1>0, <1>1, <1>2, <2>1 DEF TypeOK, Grows, Taken, Receive
<1>3. ASSUME NEW h \in Handlers, Register(h) \/ Drop(h) PROVE Grows
  BY <1>0, <1>1, <1>3 DEF TypeOK, Grows, Taken, Register, Drop, EveryCommandAccounted
<1>4. ASSUME NEW h \in Handlers, Enqueue(h) PROVE Grows
  <2>1. /\ Len(cmdCh') = Len(cmdCh) + 1 /\ Len(accepted') = Len(accepted) + 1
        /\ \A i \in 1..Len(accepted) : accepted'[i] = accepted[i]
    BY <1>0, <1>4, AppendAt DEF TypeOK, Enqueue
  <2> QED BY <1>1, <1>4, <2>1 DEF Grows, Taken, Enqueue
<1>5. CASE TakeJob
  <2>1. Len(cmdCh') = Len(cmdCh) - 1
    BY <1>0, <1>5, HeadTailAt DEF TypeOK, TakeJob
  <2> QED BY <1>1, <1>5, <2>1 DEF Grows, Taken, TakeJob, handlerVars
<1>6. ASSUME NEW f, Finish(f), UNCHANGED <<handlerVars, cmdCh, accepted>>, worker \notin {"select", "stopped"}
      PROVE  Grows
  <2>1. \A h \in Handlers : fate[h] # "none" => h # job
    BY <1>0 DEF EveryCommandAccounted
  <2> QED BY <1>0, <1>1, <1>6, <2>1 DEF TypeOK, Grows, Taken, Finish, handlerVars
<1>7. CASE LookupDevice
  <2>1. CASE Finish("gone")
    BY <1>6, <1>7, <2>1 DEF LookupDevice
  <2>2. CASE UNCHANGED fate
    BY <1>1, <1>7, <2>2 DEF Grows, Taken, LookupDevice, handlerVars
  <2> QED BY <1>7, <2>1, <2>2 DEF LookupDevice
<1>8. CASE UnknownAction \/ SetPinFails \/ PublishAcked \/ PublishFails
  BY <1>6, <1>8 DEF UnknownAction, SetPinFails, PublishAcked, PublishFails
<1>9. CASE SetPin \/ PublishArrives \/ StopWorker \/ Ambient
  BY <1>1, <1>9 DEF Grows, Taken, SetPin, PublishArrives, StopWorker, Ambient, LoseConnection,
     Reconnect, Cancel, handlerVars
<1> QED BY <1>2, <1>3, <1>4, <1>5, <1>7, <1>8, <1>9 DEF Next, HandlerStep, ExecuteStep, Ambient

(* The job in execution keeps its message, whatever the handlers do. *)
LEMMA JobMessageKept == ASSUME IInv, Next, job # NoJob PROVE msg'[job] = msg[job]
<1>1. Taken >= 1 /\ job = accepted[Taken] /\ Taken \in Int /\ Taken <= Len(accepted)
  BY DEF IInv, TypeOK, AcceptedSuffix, Taken
<1> QED BY <1>1, GrowsStep DEF Grows

(* Only the worker drives pins, so the pin it is about to report stays set. *)
LEMMA PinStillSetStep == ASSUME IInv, Next, PinStillSet PROVE PinStillSet'
<1>0. TypeOK /\ JobHeld BY DEF IInv
<1>1. ASSUME NEW h \in Handlers, NEW m \in Messages, Receive(h, m) PROVE PinStillSet'
  BY <1>0, <1>1, JobMessageKept DEF JobHeld, PinStillSet, Receive, PinOf, ActionOf, pinVars
<1>2. ASSUME NEW h \in Handlers, HandlerStep(h) PROVE PinStillSet'
  BY <1>2 DEF PinStillSet, HandlerStep, Register, Enqueue, Drop, PinOf, ActionOf, pinVars
<1>3. CASE SetPin
  <2>1. PinOf(job) \in Pins
    BY <1>3, PinsAssumption DEF SetPin
  <2> QED BY <1>0, <1>3, <2>1
    DEF TypeOK, PinStillSet, SetPin, PinOf, ActionOf, LevelOf, handlerVars
<1>4. CASE PublishArrives
  BY <1>4 DEF PinStillSet, PublishArrives, PinOf, ActionOf, handlerVars
<1>5. CASE TakeJob \/ LookupDevice \/ UnknownAction \/ SetPinFails \/ PublishAcked
           \/ PublishFails \/ StopWorker
  <2>1. worker' \notin {"publish", "ack"}
    BY <1>5 DEF TakeJob, LookupDevice, UnknownAction, SetPinFails, PublishAcked,
       PublishFails, StopWorker, Finish
  <2> QED BY <2>1 DEF PinStillSet
<1>6. CASE Ambient
  BY <1>6 DEF PinStillSet, Ambient, LoseConnection, Reconnect, Cancel, PinOf, ActionOf,
     handlerVars, pinVars
<1> QED BY <1>1, <1>2, <1>3, <1>4, <1>5, <1>6 DEF Next, ExecuteStep, Ambient

(* How one step can move the worker, the pins and the state topics. *)
LEMMA StepCases ==
  ASSUME IInv, Next
  PROVE  /\ worker = "ack" => (worker' = "ack" /\ job' = job) \/ fate'[job] # "none"
         /\ worker = "publish" => \/ worker' = "publish" /\ job' = job
                                  \/ fate'[job] = "unreported"
                                  \/ PublishArrives
         /\ level' # level =>
               /\ worker = "drive"
               /\ \A p \in Pins : p # PinOf(job) => level'[p] = level[p]
               /\ (worker' = "publish" /\ job' = job) \/ fate'[job] = "failed"
         /\ stateTopic' # stateTopic => PublishArrives
<1>0. TypeOK /\ JobHeld BY DEF IInv
<1>1. worker \notin {"select", "stopped"} => job \in Handlers
  BY <1>0 DEF TypeOK, JobHeld
<1>3. CASE Ambient
  BY <1>3 DEF Ambient, LoseConnection, Reconnect, Cancel, pinVars
<1>4. CASE TakeJob \/ StopWorker
  BY <1>4 DEF TakeJob, StopWorker, pinVars
<1>5. CASE LookupDevice \/ UnknownAction
  BY <1>5 DEF LookupDevice, UnknownAction, pinVars
<1>6. CASE SetPin
  BY <1>0, <1>6 DEF TypeOK, SetPin
<1>7. CASE SetPinFails
  BY <1>0, <1>1, <1>7 DEF TypeOK, SetPinFails, Finish
<1>8. CASE PublishArrives
  BY <1>8 DEF PublishArrives
<1>9. CASE PublishAcked \/ PublishFails
  BY <1>0, <1>1, <1>9 DEF TypeOK, PublishAcked, PublishFails, Finish, pinVars
<1>10. CASE \E h \in Handlers : \E m \in Messages : Receive(h, m)
  BY <1>10 DEF Receive, pinVars
<1>11. CASE \E h \in Handlers : HandlerStep(h)
  BY <1>11 DEF HandlerStep, Register, Enqueue, Drop, pinVars
<1> QED BY <1>3, <1>4, <1>5, <1>6, <1>7, <1>8, <1>9, <1>10, <1>11
  DEF Next, ExecuteStep, Ambient

(* What a topic showed before the step is still an accepted job with the
   same message; a topic shows something new only through PublishArrives. *)
LEMMA ReportsKnownStep == ASSUME IInv, IInv', Next, ReportsKnown PROVE ReportsKnown'
<1>0. TypeOK /\ JobHeld /\ AcceptedSuffix BY DEF IInv
<1> SUFFICES ASSUME NEW d \in Devices, stateTopic'[d] # NoJob
             PROVE  LET g == stateTopic'[d] IN
                    /\ msg'[g].dev = d
                    /\ msg'[g].body \in Commands
                    /\ fate'[g] # "none" \/ (job' = g /\ worker' = "ack")
                    /\ \E i \in 1..Taken' : accepted'[i] = g
  BY DEF ReportsKnown, DeviceOf
<1> DEFINE g == stateTopic'[d]
<1>1. /\ Len(cmdCh) \in Nat /\ Len(accepted) \in Nat /\ Taken \in Int /\ Taken <= Len(accepted)
      /\ Len(cmdCh') \in Nat /\ Len(accepted') \in Nat /\ Taken' \in Int
      /\ \A i \in 1..Len(accepted) : accepted[i] \in Handlers
  BY DEF IInv, TypeOK, Taken
<1>2. CASE PublishArrives /\ DeviceOf(job) = d
  <2>1. g = job /\ job' = job /\ worker' = "ack" /\ msg' = msg /\ job # NoJob
    BY <1>0, <1>2 DEF PublishArrives, TypeOK, JobHeld, handlerVars
  <2>2. Taken >= 1 /\ accepted[Taken] = job
    BY <1>0, <2>1 DEF AcceptedSuffix
  <2>3. accepted'[Taken] = job /\ Taken \in 1..Taken'
    BY <1>1, <2>2, GrowsStep DEF Grows
  <2>4. msg[job].body \in Commands
    BY <1>0, <2>1 DEF IInv, MessagesKnown, Dispatched, TypeOK
  <2> QED BY <1>2, <2>1, <2>3, <2>4 DEF DeviceOf
<1>3. CASE ~(PublishArrives /\ DeviceOf(job) = d)
  <2>1. g = stateTopic[d]
    BY <1>0, <1>3, StepCases DEF PublishArrives, TypeOK
  <2>2. PICK i \in 1..Taken : accepted[i] = g
    BY <2>1 DEF ReportsKnown
  <2>3. i \in 1..Taken' /\ accepted'[i] = g /\ msg'[g] = msg[g] /\ g \in Handlers
    BY <1>1, <2>2, GrowsStep DEF Grows
  <2>4. fate'[g] # "none" \/ (job' = g /\ worker' = "ack")
    BY <2>1, <2>3, StepCases, GrowsStep DEF Grows, ReportsKnown
  <2> QED BY <2>1, <2>3, <2>4 DEF ReportsKnown, DeviceOf
<1> QED BY <1>2, <1>3

(* A report stays true, or the job that made it false is still accounted for. *)
LEMMA StateTopicTrueStep ==
  ASSUME IInv, IInv', Next, TopicInv, PinStillSet', ReportsKnown'
  PROVE  StateTopicTrue'
<1>0. TypeOK /\ JobHeld /\ AcceptedSuffix /\ EveryCommandAccounted BY DEF IInv
<1> SUFFICES ASSUME NEW d \in Devices, NEW g, stateTopic'[d] = g, g # NoJob
             PROVE  /\ DeviceOf(g)' = d
                    /\ \/ level'[PinOf(g)'] = LevelOf(ActionOf(g)')
                       \/ \E h \in Handlers : Overrode(h, g)'
  BY DEF StateTopicTrue, DeviceOf, PinOf, ActionOf, LevelOf
<1>1. /\ Len(cmdCh) \in Nat /\ Len(accepted) \in Nat /\ Taken \in Int /\ Taken <= Len(accepted)
      /\ Len(accepted') \in Nat
      /\ DOMAIN accepted = 1..Len(accepted) /\ DOMAIN accepted' = 1..Len(accepted')
      /\ \A i \in 1..Len(accepted) : accepted[i] \in Handlers
  BY DEF IInv, TypeOK, Taken
<1>2. DeviceOf(g)' = d
  BY DEF ReportsKnown
<1>3. CASE PublishArrives /\ DeviceOf(job) = d
  <2>1. g = job' /\ worker' = "ack"
    BY <1>0, <1>3 DEF PublishArrives, TypeOK
  <2> QED BY <1>2, <2>1 DEF PinStillSet, PinOf, ActionOf
<1>4. CASE ~(PublishArrives /\ DeviceOf(job) = d)
  <2>1. g = stateTopic[d]
    BY <1>0, <1>4, StepCases DEF PublishArrives, TypeOK
  <2>2. PICK i \in 1..Taken : accepted[i] = g
    BY <2>1 DEF ReportsKnown, TopicInv
  <2>3. /\ i \in DOMAIN accepted' /\ accepted'[i] = g /\ g \in Handlers
        /\ PinOf(g)' = PinOf(g) /\ ActionOf(g)' = ActionOf(g) /\ DeviceOf(g)' = DeviceOf(g)
    BY <1>1, <2>2, GrowsStep DEF Grows, PinOf, ActionOf, DeviceOf
  <2>4. DeviceOf(g) = d /\ msg[g].body \in Commands /\ (fate[g] # "none" \/ (job = g /\ worker = "ack"))
    BY <2>1 DEF ReportsKnown, TopicInv
  <2>5. CASE level'[PinOf(g)] = level[PinOf(g)] /\ level[PinOf(g)] = LevelOf(ActionOf(g))
    BY <1>2, <2>3, <2>5 DEF LevelOf
  <2>6. CASE level'[PinOf(g)] # level[PinOf(g)]
    <3>1. /\ worker = "drive" /\ PinOf(job) = PinOf(g)
          /\ (worker' = "publish" /\ job' = job) \/ fate'[job] = "failed"
      BY <1>0, <2>4, <2>6, StepCases DEF TypeOK, Commands, PinOf
    <3>2. PICK h \in Handlers : h = job
      BY <1>0, <3>1 DEF TypeOK, JobHeld
    <3>3. Taken >= 1 /\ accepted[Taken] = h /\ g # h
      BY <1>0, <2>3, <2>4, <3>1, <3>2, NoneAssumption DEF AcceptedSuffix, EveryCommandAccounted
    <3>4. i < Taken /\ Taken \in DOMAIN accepted' /\ accepted'[Taken] = h
      BY <1>1, <2>2, <3>3, GrowsStep DEF Grows
    <3>5. Later(h, g)'
      BY <2>3, <3>4 DEF Later
    <3>6. PinOf(h)' = PinOf(g)'
      BY <2>3, <3>1, <3>2, <1>0, JobMessageKept DEF PinOf, JobHeld
    <3>7. Overrode(h, g)'
      BY <3>1, <3>2, <3>5, <3>6 DEF Overrode, PinOf, DeviceOf
    <3> QED BY <1>2, <3>7
  <2>7. CASE level[PinOf(g)] # LevelOf(ActionOf(g))
    <3>1. PICK h \in Handlers : Overrode(h, g)
      BY <2>1, <2>3, <2>7 DEF TopicInv, StateTopicTrue
    <3>2. PICK k \in DOMAIN accepted, j \in DOMAIN accepted :
             k < j /\ accepted[k] = g /\ accepted[j] = h
      BY <3>1 DEF Overrode, Later
    <3>3. Later(h, g)'
      BY <1>1, <3>2, GrowsStep DEF Grows, Later
    <3>4. PinOf(h)' = PinOf(h) /\ DeviceOf(h)' = DeviceOf(h)
      BY <1>1, <3>2, GrowsStep DEF Grows, PinOf, DeviceOf
    <3>5. \/ job' = h /\ worker' = "publish"
          \/ fate'[h] \in {"failed", "unreported"}
          \/ DeviceOf(h) # DeviceOf(g)
      <4>1. CASE job = h /\ worker = "publish"
        BY <1>4, <2>4, <4>1, StepCases
      <4>2. CASE fate[h] \in {"failed", "unreported"}
        BY <4>2, GrowsStep DEF Grows
      <4> QED BY <3>1, <4>1, <4>2 DEF Overrode
    <3>6. Overrode(h, g)'
      BY <2>3, <3>1, <3>3, <3>4, <3>5 DEF Overrode, PinOf, DeviceOf, Later
    <3> QED BY <1>2, <3>6
  <2> QED BY <2>5, <2>6, <2>7
<1> QED BY <1>3, <1>4

(* A state topic never shows what the hardware does not do. *)
THEOREM ReportsTrue == Spec => []StateTopicTrue
<1>1. Init => TopicInv
  BY DEF Init, TopicInv, PinStillSet, ReportsKnown, StateTopicTrue
<1>2. IInv /\ IInv' /\ TopicInv /\ [Next]_vars => TopicInv'
  <2> SUFFICES ASSUME IInv, IInv', TopicInv, [Next]_vars PROVE TopicInv'
    OBVIOUS
  <2>1. CASE Next
    BY <2>1, PinStillSetStep, ReportsKnownStep, StateTopicTrueStep DEF TopicInv
  <2>2. CASE UNCHANGED vars
    BY <2>2 DEF vars, TopicInv, PinStillSet, ReportsKnown, StateTopicTrue, Overrode, Later,
       Taken, DeviceOf, PinOf, ActionOf
  <2> QED BY <2>1, <2>2
<1>3. TopicInv => StateTopicTrue
  BY DEF TopicInv
<1> QED BY <1>1, <1>2, <1>3, InductiveInvariant, PTL DEF Spec

-----------------------------------------------------------------------------
(* The command path implements the command service: each of its steps is a
   step of the service, or changes nothing the service can see.  The job of
   the worker is the command being served. *)

(* The report a worker waits for is on its topic. *)
AckShown == worker = "ack" => stateTopic[DeviceOf(job)] = job

(* An invocation that has not happened has no message. *)
IdleUnasked == \A h \in Handlers : handler[h] = "idle" => msg[h] = NoMessage

ServiceInv == IInv /\ PinStillSet /\ AckShown /\ IdleUnasked

(* An invocation that has not begun asks for nothing. *)
LEMMA IdleUnaskedStep == ASSUME IInv, Next, IdleUnasked PROVE IdleUnasked'
<1>0. TypeOK BY DEF IInv
<1>1. ASSUME NEW h \in Handlers, NEW m \in Messages, Receive(h, m) PROVE IdleUnasked'
  BY <1>0, <1>1 DEF TypeOK, IdleUnasked, Receive
<1>2. ASSUME NEW h \in Handlers, HandlerStep(h) PROVE IdleUnasked'
  BY <1>0, <1>2 DEF TypeOK, IdleUnasked, HandlerStep, Register, Enqueue, Drop
<1>3. CASE ExecuteStep \/ StopWorker \/ Ambient
  <2>1. UNCHANGED <<handler, msg>>
    BY <1>3 DEF ExecuteStep, TakeJob, LookupDevice, UnknownAction, SetPin, SetPinFails,
       PublishArrives, PublishAcked, PublishFails, StopWorker, Ambient, LoseConnection,
       Reconnect, Cancel, handlerVars
  <2> QED BY <2>1 DEF IdleUnasked
<1> QED BY <1>1, <1>2, <1>3 DEF Next, Ambient

(* While the worker waits for an ack, the report is on its topic. *)
LEMMA AckShownStep == ASSUME IInv, Next, AckShown PROVE AckShown'
<1>0. TypeOK /\ JobHeld BY DEF IInv
<1>1. ASSUME NEW h \in Handlers, NEW m \in Messages, Receive(h, m) PROVE AckShown'
  BY <1>0, <1>1, JobMessageKept DEF JobHeld, AckShown, Receive, DeviceOf, pinVars
<1>2. ASSUME NEW h \in Handlers, HandlerStep(h) PROVE AckShown'
  BY <1>2 DEF AckShown, HandlerStep, Register, Enqueue, Drop, DeviceOf, pinVars
<1>3. CASE PublishArrives
  <2>1. job \in Handlers /\ job # NoJob
    BY <1>0, <1>3, NoneAssumption DEF TypeOK, JobHeld, PublishArrives
  <2>2. DeviceOf(job) \in Devices
    BY <2>1, MessagesAssumption DEF IInv, MessagesKnown, Dispatched, DeviceOf
  <2> QED BY <1>0, <1>3, <2>2 DEF TypeOK, AckShown, PublishArrives, DeviceOf, handlerVars
<1>4. CASE TakeJob \/ LookupDevice \/ UnknownAction \/ SetPin \/ SetPinFails \/ PublishAcked
           \/ PublishFails \/ StopWorker
  <2>1. worker' # "ack"
    BY <1>4 DEF TakeJob, LookupDevice, UnknownAction, SetPin, SetPinFails, PublishAcked,
       PublishFails, StopWorker, Finish
  <2> QED BY <2>1 DEF AckShown
<1>5. CASE Ambient
  BY <1>5 DEF AckShown, Ambient, LoseConnection, Reconnect, Cancel, DeviceOf,
     handlerVars, pinVars
<1> QED BY <1>1, <1>2, <1>3, <1>4, <1>5 DEF Next, ExecuteStep, Ambient

(* The job in execution is the command being served. *)
LEMMA JobServed ==
  ASSUME IInv, job # NoJob
  PROVE  job \in Handlers /\ msg[job] \in Messages /\ Service!Served(job)
<1>0. TypeOK /\ AcceptedSuffix /\ EveryCommandAccounted /\ MessagesKnown BY DEF IInv
<1>1. job \in Handlers /\ fate[job] = "none" /\ msg[job] \in Messages
  BY <1>0 DEF TypeOK, EveryCommandAccounted, MessagesKnown, Dispatched
<1>2. /\ Taken \in 1..Len(accepted) /\ job = accepted[Taken]
      /\ \A i \in 1..Len(accepted) : i < Taken => fate[accepted[i]] # "none"
  BY <1>0 DEF TypeOK, AcceptedSuffix, Taken
<1>3. DOMAIN accepted = 1..Len(accepted)
  BY <1>0 DEF TypeOK
<1> QED BY <1>1, <1>2, <1>3 DEF Service!Served

(* A command in the hands of its handler waits to be accepted or refused. *)
LEMMA HandlerWaiting ==
  ASSUME IInv, NEW h \in Handlers, handler[h] \in {"register", "enqueue"}
  PROVE  Service!Waiting(h)
<1>0. TypeOK /\ AcceptedSuffix /\ EveryCommandAccounted /\ MessagesKnown BY DEF IInv
<1>1. msg[h] # NoMessage /\ fate[h] = "none"
  BY <1>0, NoneAssumption DEF EveryCommandAccounted, MessagesKnown, Dispatched
<1>2. \A i \in DOMAIN accepted : accepted[i] # h
  BY <1>0 DEF TypeOK, AcceptedSuffix
<1> QED BY <1>1, <1>2 DEF Service!Waiting

(* The path starts as the service does. *)
LEMMA ServiceInit == Init => Service!Init
BY NoneAssumption DEF Init, Service!Init

(* Every step of handlers, worker and connection is a step of the service or
   changes nothing it shows. *)
LEMMA ServiceStep == ASSUME ServiceInv, Next PROVE Service!Next \/ UNCHANGED Service!vars
<1>0. IInv /\ TypeOK /\ JobHeld /\ PinStillSet /\ AckShown /\ IdleUnasked
  BY DEF ServiceInv, IInv
<1>1. ASSUME NEW h \in Handlers, NEW m \in Messages, Receive(h, m) PROVE Service!Next
  <2>1. msg[h] = NoMessage
    BY <1>0, <1>1 DEF Receive, IdleUnasked
  <2>2. Service!Ask(h)
    BY <1>1, <2>1 DEF Receive, Service!Ask, pinVars
  <2> QED BY <2>2 DEF Service!Next
<1>2. ASSUME NEW h \in Handlers, Register(h) PROVE Service!Next \/ UNCHANGED Service!vars
  <2>1. Service!Waiting(h)
    BY <1>0, <1>2, HandlerWaiting DEF Register
  <2>2. CASE msg[h].body = Malformed
    BY <1>2, <2>1, <2>2 DEF Register, Service!Next, Service!Refuse, Service!Ends, pinVars
  <2>3. CASE msg[h].body # Malformed
    BY <1>2, <2>3 DEF Register, Service!vars, pinVars
  <2> QED BY <2>2, <2>3
<1>3. ASSUME NEW h \in Handlers, Enqueue(h) PROVE Service!Next
  <2>1. Service!Waiting(h)
    BY <1>0, <1>3, HandlerWaiting DEF Enqueue
  <2> QED BY <1>3, <2>1 DEF Enqueue, Service!Next, Service!Accept, pinVars
<1>4. ASSUME NEW h \in Handlers, Drop(h) PROVE Service!Next
  <2>1. Service!Waiting(h)
    BY <1>0, <1>4, HandlerWaiting DEF Drop
  <2> QED BY <1>4, <2>1 DEF Drop, Service!Next, Service!Refuse, Service!Ends, pinVars
<1>5. CASE TakeJob \/ StopWorker \/ Ambient
  BY <1>5 DEF TakeJob, StopWorker, Ambient, LoseConnection, Reconnect, Cancel,
     Service!vars, handlerVars, pinVars
<1>6. ASSUME worker \notin {"select", "stopped"}
      PROVE  job \in Handlers /\ Service!Served(job)
  BY <1>0, <1>6, JobServed DEF JobHeld
<1>7. CASE LookupDevice
  <2>1. DeviceOf(job) \in deviceMap
    BY <1>0, <1>6, <1>7 DEF IInv, MessagesKnown, Dispatched, LookupDevice
  <2> QED BY <1>7, <2>1 DEF LookupDevice, Service!vars, handlerVars, pinVars
<1>8. CASE UnknownAction
  BY <1>6, <1>8 DEF UnknownAction, Finish, Service!Next, Service!Fail, Service!Ends,
     handlerVars, pinVars
<1>9. CASE SetPin
  BY <1>6, <1>9 DEF SetPin, Service!Next, Service!Drive, Service!Moves, Service!PinOf,
     Service!LevelOf, PinOf, LevelOf, ActionOf, handlerVars
<1>10. CASE SetPinFails
  <2>1. UNCHANGED level \/ Service!Moves(job)
    BY <1>10 DEF SetPinFails, Service!Moves, Service!PinOf, Service!LevelOf, PinOf, LevelOf,
       ActionOf
  <2> QED BY <1>6, <1>10, <2>1 DEF SetPinFails, Finish, Service!Next, Service!Fail,
       Service!Ends, handlerVars
<1>11. CASE PublishArrives
  <2>1. level[PinOf(job)] = LevelOf(ActionOf(job))
    BY <1>0, <1>11 DEF PinStillSet, PublishArrives
  <2> QED BY <1>6, <1>11, <2>1 DEF PublishArrives, Service!Next, Service!Report,
       Service!PinOf, Service!LevelOf, PinOf, LevelOf, ActionOf, DeviceOf, handlerVars
<1>12. CASE PublishAcked
  <2>1. stateTopic[msg[job].dev] = job
    BY <1>0, <1>12 DEF AckShown, DeviceOf, PublishAcked
  <2> QED BY <1>6, <1>12, <2>1 DEF PublishAcked, Finish, Service!Next, Service!Reported,
       Service!Ends, handlerVars, pinVars
<1>13. CASE PublishFails
  BY <1>6, <1>13 DEF PublishFails, Finish, Service!Next, Service!Fail, Service!Ends,
     handlerVars, pinVars
<1> QED BY <1>1, <1>2, <1>3, <1>4, <1>5, <1>7, <1>8, <1>9, <1>10, <1>11, <1>12, <1>13
    DEF Next, HandlerStep, ExecuteStep, Ambient

(* Every behaviour of the command path is one of the command service. *)
THEOREM PathImplementsService == Spec => ImplementsService
<1> DEFINE Extra == PinStillSet /\ AckShown /\ IdleUnasked
<1>1. Init => Extra
  BY DEF Init, PinStillSet, AckShown, IdleUnasked
<1>2. IInv /\ Extra /\ [Next]_vars => Extra'
  <2> SUFFICES ASSUME IInv, Extra, [Next]_vars PROVE Extra'
    OBVIOUS
  <2>1. CASE Next
    BY <2>1, PinStillSetStep, AckShownStep, IdleUnaskedStep
  <2>2. CASE UNCHANGED vars
    BY <2>2 DEF vars, PinStillSet, AckShown, IdleUnasked, PinOf, ActionOf, DeviceOf
  <2> QED BY <2>1, <2>2
<1>3. IInv /\ Extra /\ [Next]_vars => [Service!Next]_(Service!vars)
  <2>1. ASSUME UNCHANGED vars PROVE UNCHANGED Service!vars
    BY <2>1 DEF vars, Service!vars
  <2> QED BY <2>1, ServiceStep DEF ServiceInv
<1>4. Init => Service!Init
  BY ServiceInit
<1> HIDE DEF Extra
<1> QED BY <1>1, <1>2, <1>3, <1>4, InductiveInvariant, PTL DEF Spec, ImplementsService, Service!Spec
=============================================================================
