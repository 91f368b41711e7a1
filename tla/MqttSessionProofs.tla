------------------------- MODULE MqttSessionProofs -------------------------
(***************************************************************************)
(* Type correctness of MqttSession and the effect of an acked replay, for  *)
(* any number of connections, processes and restarts of the broker.        *)
(***************************************************************************)
EXTENDS MqttSession, TLAPS

USE DEF Waiters, Callbacks, Caller, Stages, AllWaiters

-----------------------------------------------------------------------------
(* Type correctness, and that c.subs holds only what was acked. *)

(* The first boot has no connection and no packet under way. *)
LEMMA TypeInit == Init => TypeOK
<1> SUFFICES ASSUME Init PROVE TypeOK
  OBVIOUS
<1>1. connects \in 0..MaxConnects
  BY MaxConnectsAssumption, SMT DEF Init
<1>2. stage \in [Waiters -> Stages] /\ packet \in [Waiters -> {"none", "sent", "arrived", "lost"}]
  BY DEF Init
<1>3. will \in BOOLEAN /\ live \in BOOLEAN /\ stored \in BOOLEAN /\ ~stored
  BY Zenon DEF Init
<1>4. pi = "dialing" /\ link = "down" /\ retained = "none"
  BY DEF Init
<1> QED BY <1>1, <1>2, <1>3, <1>4 DEF TypeOK

(* A waiter of a known kind that moves to a known stage keeps the types. *)
LEMMA GotoType ==
    ASSUME TypeOK, NEW w \in Waiters, NEW s \in Stages, Goto(w, s)
    PROVE  stage' \in [Waiters -> Stages]
BY DEF TypeOK, Goto

(* A SUBSCRIBE goes out over the newest connection there is. *)
LEMMA SendSubscribeType ==
    ASSUME TypeOK, NEW w \in Waiters, SendSubscribe(w)
    PROVE  /\ stage' \in [Waiters -> Stages]
           /\ packet' \in [Waiters -> {"none", "sent", "arrived", "lost"}]
           /\ w # Caller => stage'[Caller] = stage[Caller]
BY DEF TypeOK, SendSubscribe, Goto

(* Every step of the program, the wire and the broker keeps the types. *)
LEMMA TypeStep == TypeOK /\ [Next]_vars => TypeOK'
<1> SUFFICES ASSUME TypeOK, [Next]_vars PROVE TypeOK'
  OBVIOUS
<1> USE MaxConnectsAssumption
<1>1. CASE Connect
  <2>1. connects + 1 \in Callbacks /\ connects' \in 0..MaxConnects
    BY <1>1 DEF Connect, TypeOK
  <2>2. stage' \in [Waiters -> Stages] /\ stage'[Caller] = stage[Caller]
    BY <1>1, <2>1 DEF Connect, Goto, TypeOK
  <2> QED BY <1>1, <2>1, <2>2 DEF Connect, TypeOK
<1>2. CASE NewReturns \/ Boot
  BY <1>2 DEF NewReturns, Boot, brokerVars, TypeOK
<1>3. CASE Die \/ Disconnect
  <2>1. will' \in BOOLEAN /\ live' \in BOOLEAN /\ UNCHANGED <<connects, retained>>
    BY <1>3 DEF Die, Disconnect, brokerVars, TypeOK
  <2>2. ProcessEnds /\ pi' \in {"stopped", "dead"}
    BY <1>3 DEF Die, Disconnect
  <2> QED BY <2>1, <2>2 DEF ProcessEnds, TypeOK
<1>4. ASSUME NEW i \in Callbacks, OnlineArrives(i) PROVE TypeOK'
  BY <1>4 DEF OnlineArrives, Goto, TypeOK
<1>5. ASSUME NEW i \in Callbacks, Replay(i) PROVE TypeOK'
  <2>1. CASE stored
    <3>1. SendSubscribe(i) /\ UNCHANGED <<pi, link, connects, brokerVars, stored>>
      BY <1>5, <2>1 DEF Replay
    <3> QED BY <3>1, SendSubscribeType DEF TypeOK, brokerVars
  <2>2. CASE ~stored
    BY <1>5, <2>2 DEF Replay, Goto, brokerVars, TypeOK
  <2> QED BY <2>1, <2>2
<1>6. CASE Subscribe
  <2>1. ~stored
    BY <1>6 DEF Subscribe, TypeOK
  <2>2. SendSubscribe(Caller) /\ UNCHANGED <<pi, link, connects, brokerVars, stored>>
    BY <1>6 DEF Subscribe
  <2> QED BY <2>1, <2>2, SendSubscribeType DEF TypeOK, brokerVars
<1>7. CASE Store
  BY <1>7 DEF Store, Goto, brokerVars, TypeOK
<1>8. ASSUME NEW w \in Waiters, SubscribeArrives(w) PROVE TypeOK'
  BY <1>8 DEF SubscribeArrives, TypeOK
<1>9. ASSUME NEW w \in Waiters, WaiterStep(w) PROVE TypeOK'
  BY <1>9 DEF WaiterStep, Acked, GiveUp, Goto, brokerVars, TypeOK
<1>10. CASE CutWire \/ PiNotices
  BY <1>10 DEF CutWire, PiNotices, brokerVars, TypeOK
<1>11. CASE BrokerNotices \/ BrokerRestarts
  <2>1. will' \in BOOLEAN /\ live' \in BOOLEAN /\ stored' = stored
    BY <1>11, Zenon DEF BrokerNotices, BrokerRestarts, TypeOK
  <2>2. UNCHANGED <<pi, connects, stage, packet>> /\ link' \in {link, "cut"} /\ retained' \in {"offline", "none"}
    BY <1>11, Zenon DEF BrokerNotices, BrokerRestarts
  <2> QED BY <2>1, <2>2 DEF TypeOK
<1>12. CASE UNCHANGED vars
  BY <1>12 DEF vars, TypeOK
<1> QED BY <1>1, <1>2, <1>3, <1>4, <1>5, <1>6, <1>7, <1>8, <1>9, <1>10, <1>11, <1>12 DEF Next

(* Type correctness of the session. *)
THEOREM TypeCorrect == Spec => []TypeOK
BY TypeInit, TypeStep, PTL DEF Spec

-----------------------------------------------------------------------------
(* Why an acked replay means a live subscription: the ack of a callback is for
   its own packet; a packet that arrived on the connection that is still up has
   made the subscription live, and only a restart of the broker, which cuts the
   connection, takes it away.  Callbacks of connections that have not been made
   have sent nothing, so a packet of the newest callback is of its connection. *)
ReplayInv ==
    /\ \A i \in Callbacks : stage[i] = "acked" => packet[i] \in {"arrived", "lost"}
    /\ \A i \in Callbacks : stage[i] = "idle" \/ i > connects => packet[i] = "none"
    /\ \A i \in Callbacks : i > connects => stage[i] = "idle"
    /\ \A i \in Callbacks : link = "up" /\ packet[i] = "arrived" => live
    /\ link = "down" => \A i \in Callbacks : packet[i] # "arrived"
    /\ link = "up" => \A i \in Callbacks : i = connects => packet[i] # "lost"

(* Nothing is sent or acked at first. *)
LEMMA ReplayInit == Init => ReplayInv
BY MaxConnectsAssumption DEF Init, ReplayInv

(* What a packet on its way or an ack says of its connection stays true, also when
   callbacks of two connections overlap. *)
LEMMA ReplayStep == TypeOK /\ ReplayInv /\ [Next]_vars => ReplayInv'
<1> SUFFICES ASSUME TypeOK, ReplayInv, [Next]_vars PROVE ReplayInv'
  OBVIOUS
<1> USE MaxConnectsAssumption DEF TypeOK, ReplayInv
<1>1. CASE Connect
  BY <1>1 DEF Connect, Goto
<1>2. CASE NewReturns \/ Boot
  BY <1>2 DEF NewReturns, Boot, brokerVars
<1>3. CASE Die \/ Disconnect
  <2>1. ProcessEnds /\ UNCHANGED connects
    BY <1>3 DEF Die, Disconnect
  <2> QED BY <2>1 DEF ProcessEnds
<1>4. ASSUME NEW i \in Callbacks, OnlineArrives(i) PROVE ReplayInv'
  BY <1>4 DEF OnlineArrives, Goto
<1>5. ASSUME NEW i \in Callbacks, Replay(i) PROVE ReplayInv'
  BY <1>5 DEF Replay, SendSubscribe, Goto, brokerVars
<1>6. CASE Subscribe
  BY <1>6 DEF Subscribe, SendSubscribe, Goto, brokerVars
<1>7. CASE Store
  BY <1>7 DEF Store, Goto, brokerVars
<1>8. ASSUME NEW w \in Waiters, SubscribeArrives(w) PROVE ReplayInv'
  BY <1>8 DEF SubscribeArrives
<1>9. ASSUME NEW w \in Waiters, WaiterStep(w) PROVE ReplayInv'
  BY <1>9 DEF WaiterStep, Acked, GiveUp, Goto, brokerVars
<1>10. CASE CutWire \/ PiNotices
  BY <1>10 DEF CutWire, PiNotices, brokerVars
<1>11. CASE BrokerNotices \/ BrokerRestarts
  BY <1>11 DEF BrokerNotices, BrokerRestarts
<1>12. CASE UNCHANGED vars
  BY <1>12 DEF vars
<1> QED BY <1>1, <1>2, <1>3, <1>4, <1>5, <1>6, <1>7, <1>8, <1>9, <1>10, <1>11, <1>12 DEF Next

(* An acked replay of the present connection means a live subscription. *)
THEOREM AckedReplayIsLive == Spec => []ReplayEffective
<1>1. TypeOK /\ ReplayInv => ReplayEffective
  BY MaxConnectsAssumption DEF TypeOK, ReplayInv, ReplayEffective, Replayed
<1> QED BY <1>1, ReplayInit, ReplayStep, TypeCorrect, PTL DEF Spec
=============================================================================
