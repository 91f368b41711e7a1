---------------------------- MODULE MqttSession ----------------------------
(***************************************************************************)
(* The MQTT session of active mode: internal/mqtt/client.go on one side,   *)
(* paho and a broker on the other.  The program subscribes once, to        *)
(* devices/+/commands; mqttClient.subs holds that filter once its          *)
(* Subscribe has succeeded, and OnConnect replays it.  paho runs OnConnect *)
(* in a goroutine of its own on every connection, so the callbacks of two  *)
(* connections can overlap.  A Subscribe without a connection fails at     *)
(* once; a QoS 1 publish is kept and sent after the next reconnect.        *)
(*                                                                         *)
(* The session is not clean: the broker keeps the subscription while the   *)
(* Pi is away, also for its next process.  A restart of the broker loses   *)
(* its sessions, wills and retained messages.                              *)
(***************************************************************************)
EXTENDS Integers

CONSTANT MaxConnects   \* bound: connections in a behaviour

ASSUME MaxConnectsAssumption == MaxConnects \in Nat \ {0}

Callbacks == 1..MaxConnects     \* OnConnect of the i-th connection
Caller == 0                     \* the controller inside Subscribe
Waiters == {Caller} \cup Callbacks

VARIABLES
    pi,         \* the process: inside New, running, cleanly stopped or dead
    link,       \* its connection; "cut" is one that it still believes in
    connects,   \* connections made so far
    will,       \* the broker holds the will of a connection it believes in
    retained,   \* the retained message of the status topic
    live,       \* the session at the broker has the subscription
    stored,     \* c.subs has the subscription
    stage,      \* where Subscribe and each OnConnect callback are
    packet      \* the SUBSCRIBE each of them sent

vars == <<pi, link, connects, will, retained, live, stored, stage, packet>>
brokerVars == <<will, retained, live>>

Stages == {"idle", "publish", "lock", "token", "acked", "skipped", "empty"}

(* Besides the types: what is in c.subs was acked to Subscribe. *)
TypeOK ==
    /\ pi \in {"dialing", "running", "stopped", "dead"}
    /\ link \in {"down", "up", "cut"}
    /\ connects \in 0..MaxConnects
    /\ retained \in {"none", "online", "offline"}
    /\ will \in BOOLEAN /\ live \in BOOLEAN /\ stored \in BOOLEAN
    /\ stage \in [Waiters -> Stages]
    /\ packet \in [Waiters -> {"none", "sent", "arrived", "lost"}]
    /\ stored => stage[Caller] = "acked"

AllWaiters(s) == [w \in Waiters |-> s]

Init ==
    /\ pi = "dialing"
    /\ link = "down"
    /\ connects = 0
    /\ will = FALSE
    /\ retained = "none"
    /\ live = FALSE
    /\ stored = FALSE
    /\ stage = AllWaiters("idle")
    /\ packet = AllWaiters("none")

(* The process ends, and with it c.subs and every goroutine. *)
ProcessEnds ==
    /\ link' = "down"
    /\ stored' = FALSE
    /\ stage' = AllWaiters("idle")
    /\ packet' = AllWaiters("none")

Goto(w, s) == stage' = [stage EXCEPT ![w] = s]

(* c.mu is held by a replay that waits for its token. *)
Locked == \E i \in Callbacks : stage[i] = "token"

-----------------------------------------------------------------------------
(* The process. *)

(* paho connects, first or again; a will that is still armed is published
   before the new connection is accepted. *)
Connect ==
    /\ pi \in {"dialing", "running"}
    /\ link = "down"
    /\ connects < MaxConnects
    /\ link' = "up"
    /\ connects' = connects + 1
    /\ will' = TRUE
    /\ retained' = IF will THEN "offline" ELSE retained
    /\ Goto(connects + 1, "publish")
    /\ UNCHANGED <<pi, live, stored, packet>>

NewReturns ==
    /\ pi = "dialing"
    /\ \E i \in Callbacks : stage[i] # "idle"
    /\ pi' = "running"
    /\ UNCHANGED <<link, connects, brokerVars, stored, stage, packet>>

(* The process ends without a DISCONNECT: New timed out, another exit, a
   kill.  The broker learns it from the closed connection. *)
Die ==
    /\ pi \in {"dialing", "running"}
    /\ pi' = "dead"
    /\ ProcessEnds
    /\ UNCHANGED <<connects, brokerVars>>

(* A DISCONNECT that reaches the broker disarms the will. *)
Disconnect ==
    /\ pi = "running"
    /\ pi' = "stopped"
    /\ will' = (will /\ link # "up")
    /\ ProcessEnds
    /\ UNCHANGED <<connects, retained, live>>

Boot ==
    /\ pi \in {"stopped", "dead"}
    /\ connects < MaxConnects
    /\ pi' = "dialing"
    /\ UNCHANGED <<link, connects, brokerVars, stored, stage, packet>>

-----------------------------------------------------------------------------
(* Subscribe and OnConnect. *)

(* Mutant of OnlineArrives: the status is published on the first connection
   only. *)
OnlineOnce(i) ==
    /\ stage[i] = "publish"
    /\ link = "up"
    /\ retained' = IF i = 1 THEN "online" ELSE retained
    /\ Goto(i, "lock")
    /\ UNCHANGED <<pi, link, connects, will, live, stored, packet>>

(* The retained online:true reaches the broker and its token is done. *)
OnlineArrives(i) ==
    /\ stage[i] = "publish"
    /\ link = "up"
    /\ retained' = "online"
    /\ Goto(i, "lock")
    /\ UNCHANGED <<pi, link, connects, will, live, stored, packet>>

(* A SUBSCRIBE is sent, or refused by paho because there is no connection. *)
SendSubscribe(w) ==
    IF link = "down"
       THEN Goto(w, "skipped") /\ UNCHANGED packet
       ELSE Goto(w, "token") /\ packet' = [packet EXCEPT ![w] = "sent"]

(* Mutant of Replay: OnConnect only publishes the status. *)
NoReplay(i) ==
    /\ stage[i] = "lock"
    /\ Goto(i, "empty")
    /\ UNCHANGED <<pi, link, connects, brokerVars, stored, packet>>

(* replaySubscriptions takes c.mu. *)
Replay(i) ==
    /\ stage[i] = "lock"
    /\ ~Locked
    /\ IF stored
          THEN SendSubscribe(i)
          ELSE Goto(i, "empty") /\ UNCHANGED packet
    /\ UNCHANGED <<pi, link, connects, brokerVars, stored>>

Subscribe ==
    /\ pi = "running"
    /\ stage[Caller] = "idle"
    /\ SendSubscribe(Caller)
    /\ UNCHANGED <<pi, link, connects, brokerVars, stored>>

SubscribeArrives(w) ==
    /\ packet[w] = "sent"
    /\ link = "up"
    /\ packet' = [packet EXCEPT ![w] = "arrived"]
    /\ live' = TRUE
    /\ UNCHANGED <<pi, link, connects, will, retained, stored, stage>>

(* Mutant of Acked: the token is not waited for. *)
AckNotAwaited(w) ==
    /\ stage[w] = "token"
    /\ Goto(w, IF w = Caller THEN "lock" ELSE "acked")
    /\ UNCHANGED <<pi, link, connects, brokerVars, stored, packet>>

Acked(w) ==
    /\ stage[w] = "token"
    /\ packet[w] = "arrived"
    /\ link = "up"
    /\ Goto(w, IF w = Caller THEN "lock" ELSE "acked")
    /\ UNCHANGED <<pi, link, connects, brokerVars, stored, packet>>

(* Mutant of GiveUp: token.Wait instead of token.WaitTimeout. *)
GiveUpNever(w) == FALSE /\ UNCHANGED vars

(* Five seconds without an ack, or the connection is gone: Subscribe returns
   an error, a replay goes on; the packet may still arrive. *)
GiveUp(w) ==
    /\ stage[w] = "token"
    /\ Goto(w, "skipped")
    /\ UNCHANGED <<pi, link, connects, brokerVars, stored, packet>>

(* Subscribe has its ack and appends to c.subs under c.mu. *)
Store ==
    /\ stage[Caller] = "lock"
    /\ ~Locked
    /\ stored' = TRUE
    /\ Goto(Caller, "acked")
    /\ UNCHANGED <<pi, link, connects, brokerVars, packet>>

-----------------------------------------------------------------------------
(* The network and the broker. *)

CutWire ==
    /\ link = "up"
    /\ link' = "cut"
    /\ UNCHANGED <<pi, connects, brokerVars, stored, stage, packet>>

(* paho finds the connection lost; SUBSCRIBEs in flight are not sent again. *)
PiNotices ==
    /\ link = "cut"
    /\ link' = "down"
    /\ packet' = [w \in Waiters |-> IF packet[w] = "none" THEN "none" ELSE "lost"]
    /\ UNCHANGED <<pi, connects, brokerVars, stored, stage>>

(* Mutant of BrokerNotices: no will was registered. *)
NoWill ==
    /\ will
    /\ link # "up"
    /\ will' = FALSE
    /\ UNCHANGED <<pi, link, connects, retained, live, stored, stage, packet>>

(* A closed socket or one and a half keepalive intervals of silence. *)
BrokerNotices ==
    /\ will
    /\ link # "up"
    /\ will' = FALSE
    /\ retained' = "offline"
    /\ UNCHANGED <<pi, link, connects, live, stored, stage, packet>>

BrokerRestarts ==
    /\ will' = FALSE
    /\ retained' = "none"
    /\ live' = FALSE
    /\ link' = IF link = "up" THEN "cut" ELSE link
    /\ UNCHANGED <<pi, connects, stored, stage, packet>>

WaiterStep(w) == Acked(w) \/ GiveUp(w)

Next ==
    \/ Connect \/ NewReturns \/ Die \/ Disconnect \/ Boot
    \/ \E i \in Callbacks : OnlineArrives(i) \/ Replay(i)
    \/ Subscribe \/ Store
    \/ \E w \in Waiters : SubscribeArrives(w) \/ WaiterStep(w)
    \/ CutWire \/ PiNotices \/ BrokerNotices \/ BrokerRestarts

Spec == Init /\ [][Next]_vars

(* Goroutines run, timeouts fire, packets on an intact connection arrive, and
   both ends find out that a connection is gone.  Nothing forces a process to
   end, a connection to break or the broker to restart. *)
LiveSpec ==
    /\ Spec
    /\ WF_vars(Connect) /\ WF_vars(NewReturns) /\ WF_vars(Store)
    /\ WF_vars(PiNotices) /\ WF_vars(BrokerNotices)
    /\ \A i \in Callbacks : WF_vars(OnlineArrives(i)) /\ WF_vars(Replay(i))
    /\ \A w \in Waiters : WF_vars(SubscribeArrives(w)) /\ WF_vars(WaiterStep(w))

-----------------------------------------------------------------------------
(* Properties. *)

Replayed(s) == connects # 0 /\ stage[connects] = s

(* Once the callback of the present connection has had its replay acked, the
   broker has the subscription for as long as the connection lives, whatever
   older callbacks, a lost session or an earlier process did. *)
ReplayEffective == link = "up" /\ Replayed("acked") => live

(* A callback that starts its replay with the subscription stored brings it
   back to a broker that lost it, unless the replay is skipped after its five
   seconds or the connection is lost again. *)
ReplayRestores ==
    stored /\ link = "up" /\ (Replayed("publish") \/ Replayed("lock"))
        ~> live \/ link # "up" \/ Replayed("skipped")

(* Subscribe returns, with or without a broker, and also when a replay holds
   c.mu: every wait under the lock has a timeout. *)
SubscribeReturns ==
    stage[Caller] \in {"token", "lock"} ~> stage[Caller] \notin {"token", "lock"}

(* On a connection that stays up the retained status becomes and stays online,
   although the will of an earlier connection is published late. *)
StatusSettles == <>[](link = "up") => <>[](retained = "online")

(* A process that ends while the broker believes in its connection does not
   stay online on the status topic, unless the next process is there already.
   (One that stops cleanly does: the DISCONNECT disarms the will, and nothing
   else takes the retained message back.) *)
DeathShown ==
    pi \in {"stopped", "dead"} /\ will ~>
        retained # "online" \/ pi \in {"dialing", "running"}
=============================================================================
