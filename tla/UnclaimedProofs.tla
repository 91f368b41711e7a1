-------------------------- MODULE UnclaimedProofs --------------------------
(***************************************************************************)
(* Beacons go out in the order their PINs were minted, one PIN at a time   *)
(* is valid for a claim, and the beacon channel never holds more than its  *)
(* capacity: for every capacity and any number of rotations.               *)
(***************************************************************************)
EXTENDS Unclaimed, SequenceTheorems, TLAPS

(* The kinds of values of the goroutines. *)
Kinds ==
    /\ run \in {"setup", "firstBeacon", "spawn", "mdns", "mdnsServe", "wait", "invalidate",
                "shutdown", "cancel", "close", "returned"}
    /\ outcome \in {"none", "setupFailed", "claimed", "waitFailed"}
    /\ ticker \in {"unborn", "select", "build", "send", "stopped"}
    /\ sender \in {"unborn", "receive", "write", "stopped"}
    /\ socketOpen \in BOOLEAN
    /\ beaconCancelled \in BOOLEAN
    /\ cancelled \in BOOLEAN
    /\ mdns \in {"off", "up", "done"}

(* The same for the PIN and what was made of it. *)
Numbers ==
    /\ lapsed \in PinNumbers /\ txt \in PinNumbers
    /\ pin \in PinNumbers /\ minted \in PinNumbers
    /\ payload \in PinNumbers /\ sending \in PinNumbers /\ aired \in PinNumbers
    /\ beaconCh \in Seq(PinNumbers) /\ Len(beaconCh) <= BeaconCap

Stale == pin = 0 \/ pin <= lapsed
Early == run \in {"setup", "firstBeacon", "spawn", "mdns", "mdnsServe", "wait", "invalidate"}

(* A PIN can be minted whenever there is none or it has expired; that PINs
   are invalidated once allows one number more than expiry alone. *)
MintRoom ==
    /\ Early => minted <= MaxMints
    /\ Early /\ Stale => minted < MaxMints
    /\ Stale => minted <= MaxMints

(* Before the first beacon there is none, and nobody to send one. *)
NothingBuilt ==
    run \in {"setup", "firstBeacon"} =>
        beaconCh = << >> /\ ticker = "unborn" /\ sender = "unborn" /\ sending = 0 /\ payload = 0

(* The live PIN is the newest, also compared to what the ticker has built. *)
LiveNewest == pin <= minted /\ (pin # 0 => payload <= pin) /\ lapsed <= minted /\ txt <= minted

(* Until a claim, every PIN but the live one is past its expiry. *)
OthersLapsed ==
    /\ run = "invalidate" => outcome = "claimed"
    /\ Early /\ run # "invalidate" => outcome # "claimed"
    /\ outcome # "claimed" => pin = minted /\ minted - 1 <= lapsed

(* PinsAirInOrder, with the sender and the ticker compared directly, also
   when the channel between them is empty. *)
Ordered ==
    /\ aired <= sending /\ sending <= payload /\ payload <= minted
    /\ \A i \in 1..Len(beaconCh) : sending <= beaconCh[i] /\ beaconCh[i] <= payload
    /\ \A i, j \in 1..Len(beaconCh) : i < j => beaconCh[i] <= beaconCh[j]

IInv == Kinds /\ Numbers /\ MintRoom /\ NothingBuilt /\ LiveNewest /\ OthersLapsed /\ Ordered

-----------------------------------------------------------------------------
(* What a call of Pin.Current yields. *)
LEMMA CurrentYields ==
  ASSUME IInv, Current
  PROVE  /\ pin' \in PinNumbers \ {0} /\ minted' \in PinNumbers /\ pin' > lapsed /\ lapsed' = lapsed
         /\ payload <= pin' /\ pin' <= minted' /\ minted <= minted'
         /\ Early => minted' <= MaxMints
         /\ outcome # "claimed" => pin' = minted' /\ minted' - 1 <= lapsed
<1> USE MaxMintsAssumption DEF PinNumbers
<1>1. CASE Stale
  <2>1. minted' = minted + 1 /\ pin' = minted + 1 /\ lapsed' = lapsed
    BY <1>1 DEF Current, Stale
  <2> QED BY <1>1, <2>1 DEF Stale, IInv, Numbers, MintRoom, LiveNewest, OthersLapsed, Ordered
<1>2. CASE ~Stale
  <2>1. UNCHANGED <<pin, minted, lapsed>> /\ pin # 0 /\ ~(pin <= lapsed)
    BY <1>2 DEF Current, Stale, pinVars
  <2> QED BY <2>1 DEF IInv, Numbers, MintRoom, LiveNewest, OthersLapsed
<1> QED BY <1>1, <1>2

(* What the channel operations do, index by index. *)
LEMMA AppendAt ==
  ASSUME NEW e \in PinNumbers, beaconCh \in Seq(PinNumbers), beaconCh' = Append(beaconCh, e)
  PROVE  /\ beaconCh' \in Seq(PinNumbers) /\ Len(beaconCh) \in Nat
         /\ Len(beaconCh') = Len(beaconCh) + 1
         /\ \A i \in 1..Len(beaconCh) : beaconCh'[i] = beaconCh[i]
         /\ beaconCh'[Len(beaconCh')] = e
BY AppendProperties, LenProperties

(* Receiving from beaconCh moves every beacon one place ahead. *)
LEMMA TailAt ==
  ASSUME beaconCh \in Seq(PinNumbers), beaconCh # << >>, beaconCh' = Tail(beaconCh)
  PROVE  /\ beaconCh' \in Seq(PinNumbers) /\ Len(beaconCh) \in Nat
         /\ Head(beaconCh) = beaconCh[1] /\ Head(beaconCh) \in PinNumbers
         /\ Len(beaconCh) >= 1 /\ Len(beaconCh') = Len(beaconCh) - 1
         /\ \A i \in 1..Len(beaconCh') : beaconCh'[i] = beaconCh[i + 1]
BY HeadTailProperties, EmptySeq, LenProperties

(* A beacon that is built from the live PIN and appended keeps the order. *)
LEMMA AppendOrdered ==
  ASSUME IInv, Len(beaconCh) < BeaconCap, NEW e \in PinNumbers, payload <= e,
         beaconCh' = Append(beaconCh, e), payload' = e, UNCHANGED <<sending, aired>>,
         e <= minted'
  PROVE  /\ Ordered'
         /\ beaconCh' \in Seq(PinNumbers) /\ Len(beaconCh') <= BeaconCap
<1>1. beaconCh \in Seq(PinNumbers) /\ Numbers /\ Ordered
  BY DEF IInv, Numbers
<1>2. \A i \in 1..Len(beaconCh) : beaconCh[i] \in PinNumbers
  BY <1>1
<1> QED BY <1>1, <1>2, AppendAt, BeaconCapAssumption, MaxMintsAssumption
    DEF Ordered, Numbers, PinNumbers

(* A step that touches no PIN and no beacon. *)
Aside == UNCHANGED <<pin, lapsed, minted, beaconCh, payload, sending, aired, txt>>

(* What leaves the PINs and the beacons alone keeps their order. *)
LEMMA AsideStep ==
  ASSUME IInv, Aside, Kinds', Early' => Early, NothingBuilt', OthersLapsed'
  PROVE  IInv'
BY DEF IInv, Aside, Numbers, MintRoom, Stale, LiveNewest, Ordered

(* Every step keeps the types. *)
LEMMA KindsStep == IInv /\ [Next]_vars => Kinds'
<1> SUFFICES ASSUME IInv, [Next]_vars PROVE Kinds'
  OBVIOUS
<1> USE DEF Kinds, IInv
<1>1. CASE SetupFails \/ Setup \/ FirstBeacon \/ Spawn \/ BuildTXT \/ MdnsUp \/ MdnsFails
  BY <1>1 DEF SetupFails, Setup, FirstBeacon, Spawn, BuildTXT, MdnsUp, MdnsFails, tickerVars, senderVars
<1>2. CASE Claimed \/ WaitFails \/ Invalidate \/ Shutdown
  BY <1>2 DEF Claimed, WaitFails, Invalidate, Shutdown, tickerVars, senderVars
<1>3. CASE BeaconCancel \/ CloseSender
  BY <1>3 DEF BeaconCancel, CloseSender, tickerVars, senderVars
<1>4. CASE TickerWork \/ StopTicker
  BY <1>4 DEF TickerWork, Tick, Build, Send, StopTicker, runVars, senderVars
<1>5. CASE SenderStep
  BY <1>5 DEF SenderStep, Receive, Write, WriteFails, StopSender, runVars, tickerVars
<1>6. CASE MdnsShutdown \/ Expire \/ Cancel \/ Ended \/ UNCHANGED vars
  BY <1>6 DEF MdnsShutdown, Expire, Cancel, Ended, runVars, tickerVars, senderVars, vars
<1> QED BY <1>1, <1>2, <1>3, <1>4, <1>5, <1>6 DEF Next, CallerStep

(* Every step keeps the beacons in the order of their PINs. *)
LEMMA IInvStep == IInv /\ [Next]_vars => IInv'
<1> SUFFICES ASSUME IInv, [Next]_vars PROVE IInv'
  OBVIOUS
<1>0. Kinds /\ Numbers /\ MintRoom /\ NothingBuilt /\ LiveNewest /\ OthersLapsed /\ Ordered /\ Kinds'
  BY KindsStep DEF IInv
<1>1. CASE SetupFails \/ Setup \/ Spawn \/ MdnsUp \/ MdnsFails \/ Claimed \/ WaitFails \/ Shutdown
           \/ BeaconCancel \/ CloseSender
  <2> USE DEF SetupFails, Setup, Spawn, MdnsUp, MdnsFails, Claimed, WaitFails, Shutdown,
      BeaconCancel, CloseSender, pinVars, tickerVars, senderVars
  <2>1. Aside /\ (Early' => Early)
    BY <1>1 DEF Aside, Early
  <2>2. NothingBuilt'
    BY <1>0, <1>1 DEF NothingBuilt
  <2>3. OthersLapsed'
    BY <1>0, <1>1 DEF OthersLapsed, Early
  <2> QED BY <1>0, <2>1, <2>2, <2>3, AsideStep
<1>2. CASE FirstBeacon
  <2>1. beaconCh = << >> /\ Len(beaconCh) = 0 /\ Early
    BY <1>0, <1>2 DEF NothingBuilt, FirstBeacon, Early
  <2>2. /\ pin' \in PinNumbers \ {0} /\ minted' \in PinNumbers /\ pin' > lapsed /\ lapsed' = lapsed
        /\ payload <= pin' /\ pin' <= minted' /\ minted <= minted' /\ minted' <= MaxMints
        /\ outcome # "claimed" => pin' = minted' /\ minted' - 1 <= lapsed
    BY <1>2, <2>1, CurrentYields DEF FirstBeacon
  <2>3. /\ payload' = pin' /\ beaconCh' = Append(beaconCh, pin') /\ run' = "spawn"
        /\ UNCHANGED <<sending, aired, txt, outcome>>
    BY <1>2 DEF FirstBeacon, senderVars
  <2>4. Ordered' /\ beaconCh' \in Seq(PinNumbers) /\ Len(beaconCh') <= BeaconCap
    BY <2>1, <2>2, <2>3, AppendOrdered, BeaconCapAssumption
  <2>5. Numbers' /\ MintRoom' /\ LiveNewest' /\ NothingBuilt'
    BY <1>0, <2>2, <2>3, <2>4, MaxMintsAssumption
    DEF Numbers, MintRoom, LiveNewest, NothingBuilt, Early, Stale, PinNumbers
  <2>6. OthersLapsed'
    BY <1>0, <1>2, <2>2, <2>3 DEF FirstBeacon, OthersLapsed, Early
  <2> QED BY <1>0, <2>4, <2>5, <2>6 DEF IInv
<1>3. ASSUME Current, UNCHANGED <<beaconCh, sending, aired, outcome>>, payload' \in {payload, pin'},
             txt' \in {txt, pin'}, run' \notin {"setup", "firstBeacon"}, Early' => Early,
             run' = "invalidate" <=> run = "invalidate"
      PROVE  IInv'
  <2>1. /\ pin' \in PinNumbers \ {0} /\ minted' \in PinNumbers /\ pin' > lapsed /\ lapsed' = lapsed
        /\ payload <= pin' /\ pin' <= minted' /\ minted <= minted'
        /\ Early => minted' <= MaxMints
        /\ outcome # "claimed" => pin' = minted' /\ minted' - 1 <= lapsed
    BY <1>3, CurrentYields
  <2>2. payload <= payload' /\ payload' <= pin' /\ payload' \in PinNumbers
    BY <1>0, <1>3, <2>1, MaxMintsAssumption DEF Numbers, PinNumbers
  <2>3. \A i \in 1..Len(beaconCh) : beaconCh[i] \in PinNumbers
    BY <1>0 DEF Numbers
  <2>4. Ordered'
    BY <1>0, <1>3, <2>1, <2>2, <2>3, MaxMintsAssumption DEF Ordered, Numbers, PinNumbers
  <2>5. Numbers' /\ MintRoom' /\ LiveNewest' /\ NothingBuilt'
    BY <1>0, <1>3, <2>1, <2>2, MaxMintsAssumption
    DEF Numbers, MintRoom, LiveNewest, NothingBuilt, Stale, PinNumbers
  <2>6. OthersLapsed'
    BY <1>0, <1>3, <2>1 DEF OthersLapsed
  <2> QED BY <1>0, <2>4, <2>5, <2>6 DEF IInv
<1>4. CASE BuildTXT
  <2>1. /\ Current /\ UNCHANGED <<beaconCh, sending, aired, outcome, payload>> /\ txt' = pin'
        /\ run = "mdns" /\ run' = "mdnsServe"
    BY <1>4 DEF BuildTXT, tickerVars, senderVars
  <2> QED BY <1>3, <2>1 DEF Early
<1>5. CASE Build
  <2>1. run \notin {"setup", "firstBeacon"} /\ UNCHANGED <<run, outcome, txt>>
    BY <1>0, <1>5 DEF Build, NothingBuilt, runVars
  <2> QED BY <1>3, <1>5, <2>1 DEF Build, senderVars, Early
<1>6. CASE Send
  <2>1. run \notin {"setup", "firstBeacon"} /\ UNCHANGED <<run, outcome, pin, lapsed, minted, sending, aired, payload, txt>>
    BY <1>0, <1>6 DEF Send, NothingBuilt, runVars, pinVars, senderVars
  <2>2. CASE Len(beaconCh) < BeaconCap
    <3>1. beaconCh' = Append(beaconCh, payload)
      BY <1>6, <2>2 DEF Send
    <3>2. payload \in PinNumbers /\ payload <= payload /\ payload <= minted'
      BY <1>0, <2>1, MaxMintsAssumption DEF Numbers, Ordered, PinNumbers
    <3>3. Ordered' /\ beaconCh' \in Seq(PinNumbers) /\ Len(beaconCh') <= BeaconCap
      BY <2>1, <2>2, <3>1, <3>2, AppendOrdered
    <3> QED BY <1>0, <2>1, <3>3 DEF IInv, Numbers, MintRoom, LiveNewest, OthersLapsed, NothingBuilt, Early, Stale
  <2>3. CASE ~(Len(beaconCh) < BeaconCap)
    <3>1. Aside /\ (Early' => Early) /\ NothingBuilt' /\ OthersLapsed'
      BY <1>0, <1>6, <2>1, <2>3 DEF Send, Aside, Early, NothingBuilt, OthersLapsed
    <3> QED BY <1>0, <3>1, AsideStep
  <2> QED BY <2>2, <2>3
<1>7. CASE Receive
  <2>1. /\ run \notin {"setup", "firstBeacon"}
        /\ UNCHANGED <<run, outcome, pin, lapsed, minted, aired, payload, txt>>
        /\ beaconCh # << >> /\ beaconCh' = Tail(beaconCh) /\ sending' = Head(beaconCh)
    BY <1>0, <1>7 DEF Receive, NothingBuilt, runVars, pinVars, tickerVars
  <2>2. \A i \in 1..Len(beaconCh) : beaconCh[i] \in PinNumbers
    BY <1>0 DEF Numbers
  <2>3. Ordered'
    BY <1>0, <2>1, <2>2, TailAt, MaxMintsAssumption DEF Ordered, Numbers, PinNumbers
  <2>4. Numbers'
    BY <1>0, <2>1, TailAt, BeaconCapAssumption DEF Numbers
  <2> QED BY <1>0, <2>1, <2>3, <2>4 DEF IInv, MintRoom, LiveNewest, OthersLapsed, NothingBuilt, Early, Stale
<1>8. CASE Write
  <2>1. /\ run \notin {"setup", "firstBeacon"}
        /\ UNCHANGED <<run, outcome, pin, lapsed, minted, beaconCh, sending, payload, txt>> /\ aired' = sending
    BY <1>0, <1>8 DEF Write, NothingBuilt, runVars, pinVars, tickerVars
  <2> QED BY <1>0, <2>1 DEF IInv, Numbers, PinNumbers, MintRoom, LiveNewest, OthersLapsed, NothingBuilt,
      Ordered, Early, Stale
<1>9. CASE Tick \/ StopTicker \/ WriteFails \/ StopSender \/ MdnsShutdown \/ Cancel \/ Ended \/ UNCHANGED vars
  <2>1. Aside /\ UNCHANGED <<run, outcome>>
    BY <1>9 DEF Tick, StopTicker, WriteFails, StopSender, MdnsShutdown, Cancel, Ended, Aside,
       runVars, pinVars, tickerVars, senderVars, vars
  <2>2. NothingBuilt'
    BY <1>0, <1>9 DEF NothingBuilt, Tick, StopTicker, WriteFails, StopSender, MdnsShutdown, Cancel,
       Ended, runVars, pinVars, tickerVars, senderVars, vars
  <2>3. (Early' => Early) /\ OthersLapsed'
    BY <1>0, <2>1 DEF Early, Aside, OthersLapsed
  <2> QED BY <1>0, <2>1, <2>2, <2>3, AsideStep
<1>10. CASE Invalidate
  <2>1. /\ UNCHANGED <<outcome, lapsed, minted, beaconCh, payload, sending, aired, txt>>
        /\ pin' = 0 /\ run = "invalidate" /\ run' = "shutdown" /\ Early
    BY <1>10 DEF Invalidate, tickerVars, senderVars, Early
  <2>2. MintRoom' /\ NothingBuilt' /\ OthersLapsed'
    BY <1>0, <2>1 DEF MintRoom, NothingBuilt, OthersLapsed, Early
  <2>3. 0 \in PinNumbers /\ 0 <= minted
    BY <1>0, MaxMintsAssumption DEF Numbers, PinNumbers
  <2> QED BY <1>0, <2>1, <2>2, <2>3 DEF IInv, Numbers, LiveNewest, Ordered
<1>11. CASE Expire
  <2>1. /\ UNCHANGED <<run, outcome, ticker, sender, pin, minted, beaconCh, payload, sending,
                       aired, txt>>
        /\ pin > lapsed /\ lapsed' = pin /\ minted < MaxMints
    BY <1>11 DEF Expire, runVars, tickerVars, senderVars
  <2>2. MintRoom' /\ OthersLapsed'
    BY <1>0, <2>1, MaxMintsAssumption DEF Numbers, PinNumbers, MintRoom, OthersLapsed, Early
  <2> QED BY <1>0, <2>1, <2>2 DEF IInv, Numbers, LiveNewest, NothingBuilt, Ordered
<1> QED BY <1>1, <1>2, <1>4, <1>5, <1>6, <1>7, <1>8, <1>9, <1>10, <1>11
    DEF Next, CallerStep, TickerWork, SenderStep

(* No beacon exists before the first PIN. *)
LEMMA IInvInit == Init => IInv
<1> SUFFICES ASSUME Init PROVE IInv
  OBVIOUS
<1>1. Kinds BY DEF Init, Kinds
<1>2. beaconCh \in Seq(PinNumbers) /\ Len(beaconCh) = 0
  BY DEF Init
<1>3. Numbers
  <2>1. 0 \in PinNumbers /\ 0 <= BeaconCap
    BY BeaconCapAssumption, MaxMintsAssumption DEF PinNumbers
  <2> QED BY <1>2, <2>1 DEF Init, Numbers
<1>4. MintRoom /\ NothingBuilt /\ LiveNewest /\ OthersLapsed /\ Ordered
  BY <1>2, MaxMintsAssumption
  DEF Init, MintRoom, Stale, Early, NothingBuilt, LiveNewest, OthersLapsed, Ordered
<1> QED BY <1>1, <1>3, <1>4 DEF IInv

(* From minting a PIN to airing it, beacons stay in the order of their PINs, and
   until a claim every PIN but the newest is past its expiry. *)
THEOREM InductiveInvariant == Spec => []IInv
BY IInvInit, IInvStep, PTL DEF Spec

(* Type correctness; the beacon channel stays within its capacity. *)
THEOREM TypeCorrect == Spec => []TypeOK
<1>1. IInv => TypeOK
  BY DEF IInv, Kinds, Numbers, TypeOK
<1> QED BY <1>1, InductiveInvariant, PTL

(* No beacon with an older PIN is broadcast after one with a newer PIN. *)
THEOREM PinsInOrder == Spec => []PinsAirInOrder
<1>1. IInv => PinsAirInOrder
  BY DEF IInv, Numbers, Ordered, PinsAirInOrder
<1> QED BY <1>1, InductiveInvariant, PTL

(* Before a claim only the live PIN is on air within its expiry, the TXT record
   of the advertiser included. *)
THEOREM OneValidPin == Spec => []OnePinValid
<1>1. IInv => OnePinValid
  <2> SUFFICES ASSUME IInv, outcome # "claimed", NEW p \in OnAir
               PROVE  p = pin \/ p <= lapsed
    BY DEF OnePinValid
  <2>1. Numbers /\ LiveNewest /\ OthersLapsed /\ Ordered
    BY DEF IInv
  <2>2. p \in PinNumbers /\ p <= minted
    <3>1. CASE p \in {aired, sending, payload, txt}
      BY <2>1, <3>1, MaxMintsAssumption DEF Numbers, PinNumbers, LiveNewest, Ordered
    <3>2. ASSUME NEW i \in DOMAIN beaconCh, p = beaconCh[i] PROVE p \in PinNumbers /\ p <= minted
      <4>1. i \in 1..Len(beaconCh) /\ beaconCh[i] \in PinNumbers
        BY <2>1 DEF Numbers
      <4> QED BY <2>1, <3>2, <4>1, MaxMintsAssumption DEF Numbers, PinNumbers, Ordered
    <3> QED BY <3>1, <3>2 DEF OnAir
  <2> QED BY <2>1, <2>2, MaxMintsAssumption DEF Numbers, PinNumbers, OthersLapsed
<1> QED BY <1>1, InductiveInvariant, PTL
=============================================================================
