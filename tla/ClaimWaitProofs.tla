-------------------------- MODULE ClaimWaitProofs --------------------------
(***************************************************************************)
(* Proofs of the safety properties of ClaimWait, for every set of claims   *)
(* and every number of messages.                                           *)
(***************************************************************************)
EXTENDS ClaimWait, SequenceTheorems, WellFoundedInduction, TLAPS

(* The handler holds a message exactly while it runs; past Verify the message
   is a verified one; when it announces a claim state.json is there. *)
HandlerHolds ==
    /\ handler = "idle" <=> claim = NoClaim
    /\ handler \in {"save", "announce"} => claim \in Verified
    /\ handler = "announce" => disk # NoClaim

IInv ==
    /\ TypeOK
    /\ HandlerHolds
    /\ OnlyVerified
    /\ ClaimedMeansPersisted
    /\ AckedMeansPersisted

(* What the channel operations do to a sequence. *)
LEMMA AppendType ==
  ASSUME NEW S, NEW s \in Seq(S), NEW e \in S
  PROVE  /\ Append(s, e) \in Seq(S)
         /\ Len(Append(s, e)) = Len(s) + 1
         /\ \A i \in DOMAIN Append(s, e) : Append(s, e)[i] = e \/ (i \in DOMAIN s /\ Append(s, e)[i] = s[i])
BY AppendProperties

(* What receiving from a channel does to it. *)
LEMMA HeadTailType ==
  ASSUME NEW S, NEW s \in Seq(S), s # << >>
  PROVE  /\ Head(s) \in S /\ Head(s) = s[1] /\ 1 \in DOMAIN s
         /\ Tail(s) \in Seq(S)
         /\ Len(Tail(s)) <= Len(s)
         /\ \A i \in DOMAIN Tail(s) : i + 1 \in DOMAIN s /\ Tail(s)[i] = s[i + 1]
BY HeadTailProperties, EmptySeq, LenProperties

(* Every action keeps the variables in their types. *)
LEMMA TypeStep == ASSUME IInv, Next PROVE TypeOK'
<1>0. TypeOK /\ HandlerHolds BY DEF IInv
<1>a. Verified \subseteq Parsed /\ Parsed \subseteq Claims /\ NoClaim \notin Claims /\ MaxPublished \in Nat
  BY NoClaimAssumption, MaxPublishedAssumption DEF Verified, Parsed
<1>1. CASE SubscribeOk
  BY <1>0, <1>a, <1>1
  DEF TypeOK, HandlerHolds, Failures, ChannelCap, SubscribeOk, waitVars, handlerVars, netVars, diskVars
<1>2. CASE SubscribeFails
  BY <1>0, <1>a, <1>2
  DEF TypeOK, HandlerHolds, Failures, ChannelCap, SubscribeFails, waitVars, handlerVars, netVars, diskVars
<1>3. CASE TakeCancel
  BY <1>0, <1>a, <1>3
  DEF TypeOK, HandlerHolds, Failures, ChannelCap, TakeCancel, waitVars, handlerVars, netVars, diskVars
<1>4. CASE TakeError
  BY <1>0, <1>a, <1>4, HeadTailType
  DEF TypeOK, HandlerHolds, Failures, ChannelCap, TakeError, waitVars, handlerVars, netVars, diskVars
<1>5. CASE TakeResult
  BY <1>0, <1>a, <1>5, HeadTailType
  DEF TypeOK, HandlerHolds, Failures, ChannelCap, TakeResult, waitVars, handlerVars, netVars, diskVars
<1>6. CASE UnsubscribeAndReturn
  BY <1>0, <1>a, <1>6
  DEF TypeOK, HandlerHolds, Failures, ChannelCap, UnsubscribeAndReturn, waitVars, handlerVars, netVars, diskVars
<1>7. CASE Dispatch
  BY <1>0, <1>a, <1>7, HeadTailType
  DEF TypeOK, HandlerHolds, Failures, ChannelCap, Dispatch, waitVars, handlerVars, netVars, diskVars
<1>8. CASE Refuse
  BY <1>0, <1>a, <1>8, AppendType
  DEF TypeOK, HandlerHolds, Failures, ChannelCap, Refuse, Return, TryError, waitVars, handlerVars, netVars, diskVars
<1>9. CASE Accept
  BY <1>0, <1>a, <1>9
  DEF TypeOK, HandlerHolds, Failures, ChannelCap, Accept, waitVars, handlerVars, netVars, diskVars
<1>10. CASE Save
  BY <1>0, <1>a, <1>10
  DEF TypeOK, HandlerHolds, Failures, ChannelCap, Save, waitVars, handlerVars, netVars, diskVars
<1>11. CASE SaveFails
  BY <1>0, <1>a, <1>11, AppendType
  DEF TypeOK, HandlerHolds, Failures, ChannelCap, SaveFails, Return, TryError, waitVars, handlerVars, netVars, diskVars
<1>12. CASE Announce
  BY <1>0, <1>a, <1>12, AppendType
  DEF TypeOK, HandlerHolds, Failures, ChannelCap, Announce, Return, waitVars, handlerVars, netVars, diskVars
<1>13. ASSUME NEW c \in Claims, Publish(c) PROVE TypeOK'
  BY <1>0, <1>a, <1>13, AppendType
  DEF TypeOK, HandlerHolds, Failures, ChannelCap, Publish, waitVars, handlerVars, netVars, diskVars
<1>14. CASE LoseConnection
  <2>1. inflight' \in Seq(Claims)
    <3>1. CASE inflight' = inflight
      BY <1>0, <3>1 DEF TypeOK
    <3>2. CASE inflight' = << >>
      BY <3>2, EmptySeq
    <3> QED BY <1>14, <3>1, <3>2 DEF LoseConnection
  <2> QED BY <1>0, <1>14, <2>1
    DEF TypeOK, LoseConnection, Failures, ChannelCap, waitVars, handlerVars, diskVars
<1>15. CASE Reconnect
  BY <1>0, <1>a, <1>15
  DEF TypeOK, HandlerHolds, Failures, ChannelCap, Reconnect, waitVars, handlerVars, netVars, diskVars
<1>16. CASE Cancel
  BY <1>0, <1>a, <1>16
  DEF TypeOK, HandlerHolds, Failures, ChannelCap, Cancel, waitVars, handlerVars, netVars, diskVars
<1>17. CASE SubscribeArrives
  BY <1>0, <1>a, <1>17
  DEF TypeOK, HandlerHolds, Failures, ChannelCap, SubscribeArrives, waitVars, handlerVars, netVars, diskVars
<1> QED BY <1>1, <1>2, <1>3, <1>4, <1>5, <1>6, <1>7, <1>8, <1>9, <1>10, <1>11, <1>12, <1>13, <1>14, <1>15, <1>16, <1>17
  DEF Next, SubscribeStep, SelectStep, HandlerStep

(* The handler passes Verify, then SaveActiveState, then sends its result. *)
LEMMA HandlerHoldsStep == ASSUME IInv, Next PROVE HandlerHolds'
<1>0. TypeOK /\ HandlerHolds BY DEF IInv
<1>a. Verified \subseteq Parsed /\ Parsed \subseteq Claims /\ NoClaim \notin Claims /\ MaxPublished \in Nat
  BY NoClaimAssumption, MaxPublishedAssumption DEF Verified, Parsed
<1>1. CASE SubscribeOk
  BY <1>0, <1>a, <1>1
  DEF TypeOK, HandlerHolds, SubscribeOk, waitVars, handlerVars, netVars, diskVars
<1>2. CASE SubscribeFails
  BY <1>0, <1>a, <1>2
  DEF TypeOK, HandlerHolds, SubscribeFails, waitVars, handlerVars, netVars, diskVars
<1>3. CASE TakeCancel
  BY <1>0, <1>a, <1>3
  DEF TypeOK, HandlerHolds, TakeCancel, waitVars, handlerVars, netVars, diskVars
<1>4. CASE TakeError
  BY <1>0, <1>a, <1>4
  DEF TypeOK, HandlerHolds, TakeError, waitVars, handlerVars, netVars, diskVars
<1>5. CASE TakeResult
  BY <1>0, <1>a, <1>5
  DEF TypeOK, HandlerHolds, TakeResult, waitVars, handlerVars, netVars, diskVars
<1>6. CASE UnsubscribeAndReturn
  BY <1>0, <1>a, <1>6
  DEF TypeOK, HandlerHolds, UnsubscribeAndReturn, waitVars, handlerVars, netVars, diskVars
<1>7. CASE Dispatch
  BY <1>0, <1>a, <1>7, HeadTailType
  DEF TypeOK, HandlerHolds, Dispatch, waitVars, handlerVars, netVars, diskVars
<1>8. CASE Refuse
  BY <1>0, <1>a, <1>8
  DEF TypeOK, HandlerHolds, Refuse, Return, TryError, waitVars, handlerVars, netVars, diskVars
<1>9. CASE Accept
  BY <1>0, <1>a, <1>9
  DEF TypeOK, HandlerHolds, Accept, waitVars, handlerVars, netVars, diskVars
<1>10. CASE Save
  BY <1>0, <1>a, <1>10
  DEF TypeOK, HandlerHolds, Save, waitVars, handlerVars, netVars, diskVars
<1>11. CASE SaveFails
  BY <1>0, <1>a, <1>11
  DEF TypeOK, HandlerHolds, SaveFails, Return, TryError, waitVars, handlerVars, netVars, diskVars
<1>12. CASE Announce
  BY <1>0, <1>a, <1>12
  DEF TypeOK, HandlerHolds, Announce, Return, waitVars, handlerVars, netVars, diskVars
<1>13. ASSUME NEW c \in Claims, Publish(c) PROVE HandlerHolds'
  BY <1>0, <1>a, <1>13
  DEF TypeOK, HandlerHolds, Publish, waitVars, handlerVars, netVars, diskVars
<1>14. CASE LoseConnection
  BY <1>0, <1>a, <1>14
  DEF TypeOK, HandlerHolds, LoseConnection, waitVars, handlerVars, netVars, diskVars
<1>15. CASE Reconnect
  BY <1>0, <1>a, <1>15
  DEF TypeOK, HandlerHolds, Reconnect, waitVars, handlerVars, netVars, diskVars
<1>16. CASE Cancel
  BY <1>0, <1>a, <1>16
  DEF TypeOK, HandlerHolds, Cancel, waitVars, handlerVars, netVars, diskVars
<1>17. CASE SubscribeArrives
  BY <1>0, <1>a, <1>17
  DEF TypeOK, HandlerHolds, SubscribeArrives, waitVars, handlerVars, netVars, diskVars
<1> QED BY <1>1, <1>2, <1>3, <1>4, <1>5, <1>6, <1>7, <1>8, <1>9, <1>10, <1>11, <1>12, <1>13, <1>14, <1>15, <1>16, <1>17
  DEF Next, SubscribeStep, SelectStep, HandlerStep

(* Only a claim the handler verified is written, sent or returned. *)
LEMMA OnlyVerifiedStep == ASSUME IInv, Next PROVE OnlyVerified'
<1>0. TypeOK /\ HandlerHolds /\ OnlyVerified BY DEF IInv
<1>a. Verified \subseteq Parsed /\ Parsed \subseteq Claims /\ NoClaim \notin Claims /\ MaxPublished \in Nat
  BY NoClaimAssumption, MaxPublishedAssumption DEF Verified, Parsed
<1>1. CASE SubscribeOk
  BY <1>0, <1>a, <1>1
  DEF TypeOK, HandlerHolds, OnlyVerified, SubscribeOk, waitVars, handlerVars, netVars, diskVars
<1>2. CASE SubscribeFails
  BY <1>0, <1>a, <1>2
  DEF TypeOK, HandlerHolds, OnlyVerified, SubscribeFails, waitVars, handlerVars, netVars, diskVars
<1>3. CASE TakeCancel
  BY <1>0, <1>a, <1>3
  DEF TypeOK, HandlerHolds, OnlyVerified, TakeCancel, waitVars, handlerVars, netVars, diskVars
<1>4. CASE TakeError
  BY <1>0, <1>a, <1>4
  DEF TypeOK, HandlerHolds, OnlyVerified, TakeError, waitVars, handlerVars, netVars, diskVars
<1>5. CASE TakeResult
  BY <1>0, <1>a, <1>5, HeadTailType
  DEF TypeOK, HandlerHolds, OnlyVerified, TakeResult, waitVars, handlerVars, netVars, diskVars
<1>6. CASE UnsubscribeAndReturn
  BY <1>0, <1>a, <1>6
  DEF TypeOK, HandlerHolds, OnlyVerified, UnsubscribeAndReturn, waitVars, handlerVars, netVars, diskVars
<1>7. CASE Dispatch
  BY <1>0, <1>a, <1>7
  DEF TypeOK, HandlerHolds, OnlyVerified, Dispatch, waitVars, handlerVars, netVars, diskVars
<1>8. CASE Refuse
  BY <1>0, <1>a, <1>8
  DEF TypeOK, HandlerHolds, OnlyVerified, Refuse, Return, TryError, waitVars, handlerVars, netVars, diskVars
<1>9. CASE Accept
  BY <1>0, <1>a, <1>9
  DEF TypeOK, HandlerHolds, OnlyVerified, Accept, waitVars, handlerVars, netVars, diskVars
<1>10. CASE Save
  BY <1>0, <1>a, <1>10
  DEF TypeOK, HandlerHolds, OnlyVerified, Save, waitVars, handlerVars, netVars, diskVars
<1>11. CASE SaveFails
  BY <1>0, <1>a, <1>11
  DEF TypeOK, HandlerHolds, OnlyVerified, SaveFails, Return, TryError, waitVars, handlerVars, netVars, diskVars
<1>12. CASE Announce
  BY <1>0, <1>a, <1>12, AppendType
  DEF TypeOK, HandlerHolds, OnlyVerified, Announce, Return, waitVars, handlerVars, netVars, diskVars
<1>13. ASSUME NEW c \in Claims, Publish(c) PROVE OnlyVerified'
  BY <1>0, <1>a, <1>13
  DEF TypeOK, HandlerHolds, OnlyVerified, Publish, waitVars, handlerVars, netVars, diskVars
<1>14. CASE LoseConnection
  BY <1>0, <1>a, <1>14
  DEF TypeOK, HandlerHolds, OnlyVerified, LoseConnection, waitVars, handlerVars, netVars, diskVars
<1>15. CASE Reconnect
  BY <1>0, <1>a, <1>15
  DEF TypeOK, HandlerHolds, OnlyVerified, Reconnect, waitVars, handlerVars, netVars, diskVars
<1>16. CASE Cancel
  BY <1>0, <1>a, <1>16
  DEF TypeOK, HandlerHolds, OnlyVerified, Cancel, waitVars, handlerVars, netVars, diskVars
<1>17. CASE SubscribeArrives
  BY <1>0, <1>a, <1>17
  DEF TypeOK, HandlerHolds, OnlyVerified, SubscribeArrives, waitVars, handlerVars, netVars, diskVars
<1> QED BY <1>1, <1>2, <1>3, <1>4, <1>5, <1>6, <1>7, <1>8, <1>9, <1>10, <1>11, <1>12, <1>13, <1>14, <1>15, <1>16, <1>17
  DEF Next, SubscribeStep, SelectStep, HandlerStep

(* state.json precedes the result and the ack, and is never removed. *)
LEMMA PersistedStep == ASSUME IInv, Next PROVE (ClaimedMeansPersisted /\ AckedMeansPersisted)'
<1>0. TypeOK /\ HandlerHolds /\ ClaimedMeansPersisted /\ AckedMeansPersisted BY DEF IInv
<1>a. Verified \subseteq Parsed /\ Parsed \subseteq Claims /\ NoClaim \notin Claims /\ MaxPublished \in Nat
  BY NoClaimAssumption, MaxPublishedAssumption DEF Verified, Parsed
<1>1. CASE SubscribeOk
  BY <1>0, <1>a, <1>1
  DEF TypeOK, HandlerHolds, ClaimedMeansPersisted, AckedMeansPersisted, Failures, SubscribeOk, waitVars, handlerVars, netVars, diskVars
<1>2. CASE SubscribeFails
  BY <1>0, <1>a, <1>2
  DEF TypeOK, HandlerHolds, ClaimedMeansPersisted, AckedMeansPersisted, Failures, SubscribeFails, waitVars, handlerVars, netVars, diskVars
<1>3. CASE TakeCancel
  BY <1>0, <1>a, <1>3
  DEF TypeOK, HandlerHolds, ClaimedMeansPersisted, AckedMeansPersisted, Failures, TakeCancel, waitVars, handlerVars, netVars, diskVars
<1>4. CASE TakeError
  <2>1. outcome' \in Failures
    BY <1>0, <1>4, HeadTailType DEF TypeOK, TakeError
  <2>2. outcome' # "claimed"
    BY <2>1 DEF Failures
  <2> QED BY <1>0, <1>4, <2>2
    DEF ClaimedMeansPersisted, AckedMeansPersisted, TakeError, handlerVars, netVars, diskVars
<1>5. CASE TakeResult
  BY <1>0, <1>a, <1>5
  DEF TypeOK, HandlerHolds, ClaimedMeansPersisted, AckedMeansPersisted, Failures, TakeResult, waitVars, handlerVars, netVars, diskVars
<1>6. CASE UnsubscribeAndReturn
  BY <1>0, <1>a, <1>6
  DEF TypeOK, HandlerHolds, ClaimedMeansPersisted, AckedMeansPersisted, Failures, UnsubscribeAndReturn, waitVars, handlerVars, netVars, diskVars
<1>7. CASE Dispatch
  BY <1>0, <1>a, <1>7
  DEF TypeOK, HandlerHolds, ClaimedMeansPersisted, AckedMeansPersisted, Failures, Dispatch, waitVars, handlerVars, netVars, diskVars
<1>8. CASE Refuse
  BY <1>0, <1>a, <1>8
  DEF TypeOK, HandlerHolds, ClaimedMeansPersisted, AckedMeansPersisted, Failures, Refuse, Return, TryError, waitVars, handlerVars, netVars, diskVars
<1>9. CASE Accept
  BY <1>0, <1>a, <1>9
  DEF TypeOK, HandlerHolds, ClaimedMeansPersisted, AckedMeansPersisted, Failures, Accept, waitVars, handlerVars, netVars, diskVars
<1>10. CASE Save
  BY <1>0, <1>a, <1>10
  DEF TypeOK, HandlerHolds, ClaimedMeansPersisted, AckedMeansPersisted, Failures, Save, waitVars, handlerVars, netVars, diskVars
<1>11. CASE SaveFails
  BY <1>0, <1>a, <1>11
  DEF TypeOK, HandlerHolds, ClaimedMeansPersisted, AckedMeansPersisted, Failures, SaveFails, Return, TryError, waitVars, handlerVars, netVars, diskVars
<1>12. CASE Announce
  BY <1>0, <1>a, <1>12
  DEF TypeOK, HandlerHolds, ClaimedMeansPersisted, AckedMeansPersisted, Failures, Announce, Return, waitVars, handlerVars, netVars, diskVars
<1>13. ASSUME NEW c \in Claims, Publish(c) PROVE (ClaimedMeansPersisted /\ AckedMeansPersisted)'
  BY <1>0, <1>a, <1>13
  DEF TypeOK, HandlerHolds, ClaimedMeansPersisted, AckedMeansPersisted, Failures, Publish, waitVars, handlerVars, netVars, diskVars
<1>14. CASE LoseConnection
  BY <1>0, <1>a, <1>14
  DEF TypeOK, HandlerHolds, ClaimedMeansPersisted, AckedMeansPersisted, Failures, LoseConnection, waitVars, handlerVars, netVars, diskVars
<1>15. CASE Reconnect
  BY <1>0, <1>a, <1>15
  DEF TypeOK, HandlerHolds, ClaimedMeansPersisted, AckedMeansPersisted, Failures, Reconnect, waitVars, handlerVars, netVars, diskVars
<1>16. CASE Cancel
  BY <1>0, <1>a, <1>16
  DEF TypeOK, HandlerHolds, ClaimedMeansPersisted, AckedMeansPersisted, Failures, Cancel, waitVars, handlerVars, netVars, diskVars
<1>17. CASE SubscribeArrives
  BY <1>0, <1>a, <1>17
  DEF TypeOK, HandlerHolds, ClaimedMeansPersisted, AckedMeansPersisted, Failures, SubscribeArrives, waitVars, handlerVars, netVars, diskVars
<1> QED BY <1>1, <1>2, <1>3, <1>4, <1>5, <1>6, <1>7, <1>8, <1>9, <1>10, <1>11, <1>12, <1>13, <1>14, <1>15, <1>16, <1>17
  DEF Next, SubscribeStep, SelectStep, HandlerStep

(* The wait starts inside the inductive invariant. *)
LEMMA IInvInit == Init => IInv
<1> SUFFICES ASSUME Init PROVE IInv
  OBVIOUS
<1>1. /\ resultCh \in Seq(Claims) /\ Len(resultCh) = 0 /\ DOMAIN resultCh = {}
      /\ errCh \in Seq(Failures) /\ Len(errCh) = 0
      /\ inflight \in Seq(Claims)
  BY DEF Init
<1>2. /\ outcome \in {"none", "claimed", "cancelled", "subscribeFailed"} \cup Failures
      /\ published \in 0..MaxPublished
  BY MaxPublishedAssumption DEF Init
<1>3. /\ wait = "subscribe" /\ handler = "idle"
      /\ state = NoClaim /\ claim = NoClaim /\ disk = NoClaim
      /\ online = TRUE /\ subscribed = FALSE /\ cancelled = FALSE /\ saveFailed = FALSE
      /\ acked = {}
  BY DEF Init
<1>4. TypeOK
  <2>1. /\ resultCh \in Seq(Claims) /\ Len(resultCh) <= ChannelCap
        /\ errCh \in Seq(Failures) /\ Len(errCh) <= ChannelCap
    BY <1>1 DEF ChannelCap
  <2>2. acked \in SUBSET Claims
    BY <1>3
  <2>3. /\ state \in Claims \cup {NoClaim} /\ claim \in Claims \cup {NoClaim}
        /\ disk \in Claims \cup {NoClaim}
    BY <1>3
  <2> QED BY <1>1, <1>2, <1>3, <2>1, <2>2, <2>3 DEF TypeOK
<1> QED BY <1>1, <1>4
  DEF Init, IInv, HandlerHolds, OnlyVerified, ClaimedMeansPersisted, AckedMeansPersisted

(* No step of the wait leaves it. *)
LEMMA IInvStep == IInv /\ [Next]_vars => IInv'
<1> SUFFICES ASSUME IInv, [Next]_vars PROVE IInv'
  OBVIOUS
<1>1. CASE Next
  BY <1>1, TypeStep, HandlerHoldsStep, OnlyVerifiedStep, PersistedStep DEF IInv
<1>2. CASE UNCHANGED vars
  BY <1>2 DEF vars, IInv, TypeOK, HandlerHolds, OnlyVerified, ClaimedMeansPersisted,
     AckedMeansPersisted
<1> QED BY <1>1, <1>2

(* The safety properties, with what the handler holds, form an inductive
   invariant of the claim wait. *)
THEOREM InductiveInvariant == Spec => []IInv
BY IInvInit, IInvStep, PTL DEF Spec

(* Type correctness of the claim wait. *)
THEOREM TypeCorrect == Spec => []TypeOK
BY InductiveInvariant, PTL DEF IInv

(* No claim that fails Verify is ever persisted or returned. *)
THEOREM VerifiedOnly == Spec => []OnlyVerified
BY InductiveInvariant, PTL DEF IInv

(* A result exists only once state.json does. *)
THEOREM PersistedBeforeResult == Spec => []ClaimedMeansPersisted
BY InductiveInvariant, PTL DEF IInv

(* A verified claim is acked only once it is saved, or its save has failed. *)
THEOREM PersistedBeforeAck == Spec => []AckedMeansPersisted
BY InductiveInvariant, PTL DEF IInv
-----------------------------------------------------------------------------
(* What OnlyVerified means for state.json: Verify and the choice of the
   interface, for any interfaces. *)

(* The loop of PickPrimaryInterface stops at a first interface. *)
LEMMA SmallestExists ==
  ASSUME NEW T \in SUBSET Nat, T # {}
  PROVE  \E n \in T : \A m \in T : n <= m
<1>1. \E n \in T : \A m \in T : ~(<<m, n>> \in OpToRel(<, Nat))
  BY NatLessThanWellFounded, WFMin
<1>2. PICK n \in T : \A m \in T : ~(<<m, n>> \in OpToRel(<, Nat))
  BY <1>1
<1>3. ASSUME NEW m \in T PROVE n <= m
  <2>1. <<m, n>> \in Nat \X Nat
    OBVIOUS
  <2>2. ~(m < n)
    BY <1>2, <2>1 DEF OpToRel
  <2> QED BY <2>2
<1> QED BY <1>3

(* The address that Verify compares is that of the first suitable interface. *)
LEMMA OwnAddress ==
  \E n \in DOMAIN Interfaces : IsPrimary(n) /\ OwnMAC = FormatMAC(Interfaces[n].hw)
<1> DEFINE suitable == {n \in DOMAIN Interfaces : Suitable(Interfaces[n])}
           first == CHOOSE n \in suitable : \A m \in suitable : n <= m
<1>1. DOMAIN Interfaces = 1..Len(Interfaces) /\ Len(Interfaces) \in Nat
  BY InterfacesAssumption
<1>2. suitable # {} /\ suitable \subseteq Nat
  BY <1>1, InterfacesAssumption
<1>3. \E n \in suitable : \A m \in suitable : n <= m
  BY <1>2, SmallestExists
<1>4. first \in suitable /\ \A m \in suitable : first <= m
  BY <1>3
<1>5. OwnMAC = FormatMAC(Interfaces[first].hw)
  BY <1>2 DEF OwnMAC, PickPrimaryInterface
<1>6. ASSUME NEW m \in 1..(first - 1) PROVE ~Suitable(Interfaces[m])
  BY <1>1, <1>4
<1>7. first \in DOMAIN Interfaces /\ IsPrimary(first)
  BY <1>4, <1>6 DEF IsPrimary
<1> QED BY <1>5, <1>7

(* There is one first suitable interface. *)
LEMMA OnePrimary ==
  ASSUME NEW n \in DOMAIN Interfaces, NEW m \in DOMAIN Interfaces, IsPrimary(n), IsPrimary(m)
  PROVE  n = m
<1>1. n \in Nat /\ m \in Nat /\ n > 0 /\ m > 0
  BY InterfacesAssumption
<1>2. ~(n < m) /\ ~(m < n)
  BY <1>1 DEF IsPrimary
<1> QED BY <1>1, <1>2

(* A claim that passes Verify becomes a complete state under the own MAC. *)
LEMMA VerifiedIsOurs ==
  ASSUME NEW c \in Verified
  PROVE  LET s == ToActiveState(c) IN
         /\ IsClaimed(s) /\ s.serverHttpUrl # NoText
         /\ s.controllerMac = OwnMAC
<1>1. Verify(c, OwnMAC)
  BY DEF Verified
<1>2. PICK n \in DOMAIN Interfaces : OwnMAC = FormatMAC(Interfaces[n].hw)
  BY OwnAddress
<1>3. FormatMACStringOr(c.mac) = FormatMACString(OwnMAC)
  BY <1>1 DEF Verify, FormatMACStringOr
<1>4. FormatMACString(OwnMAC) = OwnMAC
  BY <1>1, <1>2 DEF Verify, FormatMACString, FormatMAC
<1> QED BY <1>1, <1>3, <1>4 DEF Verify, ToActiveState, IsClaimed

(* state.json never pairs this Pi by a claim for another one. *)
THEOREM SavedClaimOurs == Spec => []SavedClaimIsOurs
<1>1. OnlyVerified => SavedClaimIsOurs
  BY OwnAddress, VerifiedIsOurs DEF OnlyVerified, SavedClaimIsOurs
<1> QED BY <1>1, VerifiedOnly, PTL

(* A complete claim for the own address, in any notation, passes Verify. *)
LEMMA OwnClaimVerifies ==
  ASSUME NEW c \in Claims, c.parses, c.schema = 1, NoText \notin {c.id, c.url}, ParsesMAC(c.mac),
         NEW n \in DOMAIN Interfaces, IsPrimary(n), c.mac.bytes = Interfaces[n].hw
  PROVE  c \in Verified
<1>1. OwnMAC = FormatMAC(c.mac.bytes)
  BY OwnAddress, OnePrimary
<1>2. OwnMAC # NoText
  BY <1>1, NoTextAssumption
<1>3. ParsesMAC(OwnMAC) /\ FormatMACString(OwnMAC) = FormatMACString(c.mac)
  BY <1>1, <1>2 DEF ParsesMAC, FormatMACString, FormatMAC
<1> QED BY <1>3 DEF Verified, Parsed, Verify

(* The only step that refuses a message is Refuse, of one Verify rejected. *)
THEOREM OwnClaimTaken == Spec => OwnClaimAccepted
<1> DEFINE complete ==
             /\ handler = "check" /\ claim.parses
             /\ claim.schema = 1 /\ NoText \notin {claim.id, claim.url}
             /\ ParsesMAC(claim.mac)
             /\ \E n \in DOMAIN Interfaces : IsPrimary(n) /\ claim.mac.bytes = Interfaces[n].hw
<1>1. IInv /\ [Next]_vars => [complete => handler' \in {"check", "save"}]_vars
  <2> SUFFICES ASSUME IInv, Next, complete PROVE handler' \in {"check", "save"}
    OBVIOUS
  <2>1. claim \in Claims
    BY DEF IInv, TypeOK, HandlerHolds
  <2>2. claim \in Verified
    BY <2>1, OwnClaimVerifies
  <2>3. CASE HandlerStep
    BY <2>2, <2>3 DEF HandlerStep, Dispatch, Refuse, Accept, Save, SaveFails, Announce
  <2>4. CASE UNCHANGED handlerVars
    BY <2>4 DEF handlerVars
  <2> QED BY <2>3, <2>4 DEF Next, SubscribeArrives, SubscribeStep, SubscribeOk, SubscribeFails,
        SelectStep, TakeCancel, TakeError, TakeResult, UnsubscribeAndReturn, Publish,
        LoseConnection, Reconnect, Cancel
<1> QED BY <1>1, InductiveInvariant, PTL DEF Spec, OwnClaimAccepted
=============================================================================
