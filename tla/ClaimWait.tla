----------------------------- MODULE ClaimWait -----------------------------
(***************************************************************************)
(* ClaimSubscriber.Wait of internal/provision: one goroutine waits for the *)
(* result of the claim handler, which the MQTT client calls on the topic   *)
(* provision/<mac>/claim.  The claim client keeps SetOrderMatters(true),   *)
(* so one handler runs at a time; it connects with a clean session, so the *)
(* broker forgets the subscription whenever the connection ends, and       *)
(* nothing subscribes again.                                               *)
(*                                                                         *)
(* A claim is a ClaimResponse of the server, as ClaimMessage describes it; *)
(* left out is how SaveActiveState replaces the file (it either puts the   *)
(* claim in state.json or fails).                                          *)
(***************************************************************************)
EXTENDS Integers, Sequences, ClaimMessage

CONSTANTS
    Claims,       \* the claim messages the server may publish
    Interfaces,   \* the network interfaces of the Pi, in the order of the system
    NoClaim,      \* "no state.json", "no message being handled", "no result"
    MaxPublished  \* bound: number of messages the server publishes

(* RunUnclaimed gives up before Wait if no interface is suitable. *)
ASSUME InterfacesAssumption ==
    /\ Interfaces \in Seq([up : BOOLEAN, loopback : BOOLEAN, readable : BOOLEAN,
                           hw : Seq(0..255), ips : Seq(STRING)])
    /\ \E n \in DOMAIN Interfaces : Suitable(Interfaces[n])
(* No address is written as the empty string. *)
ASSUME NoTextAssumption == \A n \in DOMAIN Interfaces : FormatMAC(Interfaces[n].hw) # NoText
ASSUME ClaimsAssumption == \A c \in Claims : c.parses \in BOOLEAN
ASSUME NoClaimAssumption == NoClaim \notin Claims
ASSUME MaxPublishedAssumption == MaxPublished \in Nat

OwnMAC == PickPrimaryInterface(Interfaces).mac

(* Those json.Unmarshal accepts, and those Verify accepts as well. *)
Parsed   == {c \in Claims : c.parses}
Verified == {c \in Parsed : Verify(c, OwnMAC)}

VARIABLES
    wait,         \* where Wait is
    outcome,      \* what Wait returns
    state,        \* the ActiveState Wait took from resultCh
    resultCh,     \* channel of capacity 1
    errCh,        \* channel of capacity 1
    handler,      \* where the claim handler is
    claim,        \* the message it handles
    disk,         \* state.json: the claim it was last saved from
    online,       \* the claim client is connected
    subscribed,   \* the broker has the claim subscription
    inflight,     \* messages on their way to the handler
    cancelled,    \* the context handed to Wait is cancelled
    published,    \* number of messages published so far
    acked,        \* history: messages whose handler has returned
    saveFailed    \* history: a SaveActiveState has failed

waitVars    == <<wait, outcome, state>>
handlerVars == <<handler, claim, acked>>
netVars     == <<online, subscribed, inflight, published>>
diskVars    == <<disk, saveFailed>>
vars == <<wait, outcome, state, resultCh, errCh, handler, claim, disk, online,
          subscribed, inflight, cancelled, published, acked, saveFailed>>

ChannelCap == 1
Failures == {"parse", "verify", "persist"}

TypeOK ==
    /\ wait \in {"subscribe", "select", "unsubscribe", "returned"}
    /\ outcome \in {"none", "claimed", "cancelled", "subscribeFailed"} \cup Failures
    /\ state \in Claims \cup {NoClaim}
    /\ resultCh \in Seq(Claims) /\ Len(resultCh) <= ChannelCap
    /\ errCh \in Seq(Failures) /\ Len(errCh) <= ChannelCap
    /\ handler \in {"idle", "check", "save", "announce"}
    /\ claim \in Claims \cup {NoClaim}
    /\ disk \in Claims \cup {NoClaim}
    /\ online \in BOOLEAN
    /\ subscribed \in BOOLEAN
    /\ inflight \in Seq(Claims)
    /\ cancelled \in BOOLEAN
    /\ published \in 0..MaxPublished
    /\ acked \in SUBSET Claims
    /\ saveFailed \in BOOLEAN

Init ==
    /\ wait = "subscribe"
    /\ outcome = "none"
    /\ state = NoClaim
    /\ resultCh = << >>
    /\ errCh = << >>
    /\ handler = "idle"
    /\ claim = NoClaim
    /\ disk = NoClaim
    /\ online = TRUE
    /\ subscribed = FALSE
    /\ inflight = << >>
    /\ cancelled = FALSE
    /\ published = 0
    /\ acked = {}
    /\ saveFailed = FALSE

-----------------------------------------------------------------------------
(* Wait: subscribe, then the select over ctx, errCh and resultCh. *)

(* The broker takes the subscription.  From here on the handler is called,
   also before Wait knows. *)
SubscribeArrives ==
    /\ wait = "subscribe"
    /\ online
    /\ ~subscribed
    /\ subscribed' = TRUE
    /\ UNCHANGED <<waitVars, resultCh, errCh, handlerVars, diskVars, online, inflight,
                   published, cancelled>>

SubscribeOk ==
    /\ wait = "subscribe"
    /\ subscribed
    /\ wait' = "select"
    /\ UNCHANGED <<outcome, state, resultCh, errCh, handlerVars, diskVars, netVars,
                   cancelled>>

(* Five seconds without an answer, or a refusal.  The request may still reach
   the broker, and the handler stays registered in the client. *)
SubscribeFails ==
    /\ wait = "subscribe"
    /\ subscribed' \in {subscribed, online}
    /\ wait' = "returned"
    /\ outcome' = "subscribeFailed"
    /\ UNCHANGED <<state, resultCh, errCh, handlerVars, diskVars, online, inflight,
                   published, cancelled>>

TakeCancel ==
    /\ wait = "select"
    /\ cancelled
    /\ outcome' = "cancelled"
    /\ wait' = "unsubscribe"
    /\ UNCHANGED <<state, resultCh, errCh, handlerVars, diskVars, netVars, cancelled>>

(* The one branch that returns without Unsubscribe. *)
TakeError ==
    /\ wait = "select"
    /\ errCh # << >>
    /\ outcome' = Head(errCh)
    /\ errCh' = Tail(errCh)
    /\ wait' = "returned"
    /\ UNCHANGED <<state, resultCh, handlerVars, diskVars, netVars, cancelled>>

TakeResult ==
    /\ wait = "select"
    /\ resultCh # << >>
    /\ state' = Head(resultCh)
    /\ resultCh' = Tail(resultCh)
    /\ outcome' = "claimed"
    /\ wait' = "unsubscribe"
    /\ UNCHANGED <<errCh, handlerVars, diskVars, netVars, cancelled>>

(* Unsubscribe waits two seconds at most; its error is thrown away. *)
UnsubscribeAndReturn ==
    /\ wait = "unsubscribe"
    /\ subscribed' \in {subscribed, FALSE}
    /\ wait' = "returned"
    /\ UNCHANGED <<outcome, state, resultCh, errCh, handlerVars, diskVars, online,
                   inflight, published, cancelled>>

-----------------------------------------------------------------------------
(* The claim handler.  Every send is a select with a default branch. *)

TryError(f) == errCh' = IF Len(errCh) < ChannelCap THEN Append(errCh, f) ELSE errCh

(* The handler returns; only then does the client ack the message. *)
Return ==
    /\ handler' = "idle"
    /\ claim' = NoClaim
    /\ acked' = acked \cup {claim}

(* Mutant of Dispatch: the message is acked before the handler is called. *)
DispatchAcked ==
    /\ handler = "idle"
    /\ inflight # << >>
    /\ claim' = Head(inflight)
    /\ acked' = acked \cup {Head(inflight)}
    /\ inflight' = Tail(inflight)
    /\ handler' = "check"
    /\ UNCHANGED <<waitVars, resultCh, errCh, diskVars, online, subscribed, published,
                   cancelled>>

Dispatch ==
    /\ handler = "idle"
    /\ inflight # << >>
    /\ claim' = Head(inflight)
    /\ inflight' = Tail(inflight)
    /\ handler' = "check"
    /\ UNCHANGED <<waitVars, resultCh, errCh, acked, diskVars, online, subscribed,
                   published, cancelled>>

(* Mutant of Refuse: the result of Verify is not looked at. *)
RefuseUnparsedOnly ==
    /\ handler = "check"
    /\ IF claim \notin Parsed
          THEN TryError("parse") /\ Return
          ELSE handler' = "save" /\ UNCHANGED <<errCh, claim, acked>>
    /\ UNCHANGED <<waitVars, resultCh, diskVars, netVars, cancelled>>

(* json.Unmarshal or Verify reports an error. *)
Refuse ==
    /\ handler = "check"
    /\ claim \notin Verified
    /\ TryError(IF claim \in Parsed THEN "verify" ELSE "parse")
    /\ Return
    /\ UNCHANGED <<waitVars, resultCh, diskVars, netVars, cancelled>>

Accept ==
    /\ handler = "check"
    /\ claim \in Verified
    /\ handler' = "save"
    /\ UNCHANGED <<waitVars, resultCh, errCh, claim, acked, diskVars, netVars, cancelled>>

(* Mutant of Save: the file is written later, by someone else. *)
SaveLater ==
    /\ handler = "save"
    /\ handler' = "announce"
    /\ UNCHANGED <<waitVars, resultCh, errCh, claim, acked, diskVars, netVars, cancelled>>

Save ==
    /\ handler = "save"
    /\ disk' = claim
    /\ handler' = "announce"
    /\ UNCHANGED <<waitVars, resultCh, errCh, claim, acked, saveFailed, netVars, cancelled>>

SaveFails ==
    /\ handler = "save"
    /\ TryError("persist")
    /\ saveFailed' = TRUE
    /\ Return
    /\ UNCHANGED <<waitVars, resultCh, disk, netVars, cancelled>>

(* Mutants of Announce: the send blocks while the channel is full; the
   result is thrown away. *)
AnnounceBlocks ==
    /\ handler = "announce"
    /\ Len(resultCh) < ChannelCap
    /\ resultCh' = Append(resultCh, claim)
    /\ Return
    /\ UNCHANGED <<waitVars, errCh, diskVars, netVars, cancelled>>

AnnounceNothing ==
    /\ handler = "announce"
    /\ Return
    /\ UNCHANGED <<waitVars, resultCh, errCh, diskVars, netVars, cancelled>>

Announce ==
    /\ handler = "announce"
    /\ resultCh' = IF Len(resultCh) < ChannelCap THEN Append(resultCh, claim) ELSE resultCh
    /\ Return
    /\ UNCHANGED <<waitVars, errCh, diskVars, netVars, cancelled>>

-----------------------------------------------------------------------------
(* The broker and the caller.  A message published while the broker has no
   subscription of this client is not delivered; redelivery by the broker is
   publishing the same claim again. *)

Publish(c) ==
    /\ published < MaxPublished
    /\ published' = published + 1
    /\ inflight' = IF subscribed /\ online THEN Append(inflight, c) ELSE inflight
    /\ UNCHANGED <<waitVars, resultCh, errCh, handlerVars, diskVars, online, subscribed,
                   cancelled>>

LoseConnection ==
    /\ online
    /\ online' = FALSE
    /\ subscribed' = FALSE
    /\ inflight' \in {inflight, << >>}
    /\ UNCHANGED <<waitVars, resultCh, errCh, handlerVars, diskVars, published, cancelled>>

(* No OnConnect handler is set: the subscription is not renewed. *)
Reconnect ==
    /\ ~online
    /\ online' = TRUE
    /\ UNCHANGED <<waitVars, resultCh, errCh, handlerVars, diskVars, subscribed, inflight,
                   published, cancelled>>

Cancel ==
    /\ ~cancelled
    /\ cancelled' = TRUE
    /\ UNCHANGED <<waitVars, resultCh, errCh, handlerVars, diskVars, netVars>>

SubscribeStep == SubscribeOk \/ SubscribeFails
SelectStep    == TakeCancel \/ TakeError \/ TakeResult
HandlerStep   == Dispatch \/ Refuse \/ Accept \/ Save \/ SaveFails \/ Announce

Next ==
    \/ SubscribeArrives
    \/ SubscribeStep
    \/ SelectStep
    \/ UnsubscribeAndReturn
    \/ HandlerStep
    \/ \E c \in Claims : Publish(c)
    \/ LoseConnection
    \/ Reconnect
    \/ Cancel

Spec == Init /\ [][Next]_vars

(* The scheduler runs the handler and the waiting goroutine; the two waits on
   tokens are bounded by timeouts in the code.  Nothing is assumed of the
   broker, the server or the caller. *)
LiveSpec ==
    /\ Spec
    /\ WF_vars(SubscribeStep)
    /\ WF_vars(SelectStep)
    /\ WF_vars(UnsubscribeAndReturn)
    /\ WF_vars(HandlerStep)

-----------------------------------------------------------------------------
(* Properties. *)

(* Whatever is in state.json, in the channel, or returned, passed Verify. *)
OnlyVerified ==
    /\ {disk, state} \subseteq Verified \cup {NoClaim}
    /\ \A i \in DOMAIN resultCh : resultCh[i] \in Verified

(* Among the interfaces that are suitable, the one the system lists first. *)
IsPrimary(n) ==
    Suitable(Interfaces[n]) /\ \A m \in 1..(n - 1) : ~Suitable(Interfaces[m])

(* What is in state.json belongs to this Pi and is a complete pairing: the
   next boot takes it for one, under the MAC of the interface that is up. *)
SavedClaimIsOurs ==
    disk # NoClaim =>
        LET s == ToActiveState(disk) IN
        /\ IsClaimed(s) /\ s.serverHttpUrl # NoText
        /\ \E n \in DOMAIN Interfaces :
              IsPrimary(n) /\ s.controllerMac = FormatMAC(Interfaces[n].hw)

(* A complete claim that names the hardware address of this Pi is not refused,
   in whatever notation net.ParseMAC knows the server writes it. *)
OwnClaimAccepted ==
    [][/\ handler = "check" /\ claim.parses
       /\ claim.schema = 1 /\ NoText \notin {claim.id, claim.url}
       /\ ParsesMAC(claim.mac)
       /\ \E n \in DOMAIN Interfaces : IsPrimary(n) /\ claim.mac.bytes = Interfaces[n].hw
       => handler' \in {"check", "save"}]_vars

(* Wait reports a claim only when a restart would find one: between the moment
   a result is sent and any later moment state.json is there. *)
ClaimedMeansPersisted ==
    outcome = "claimed" \/ resultCh # << >> => disk # NoClaim

(* The broker is told that a good claim was received only when it is on disk,
   or saving it failed: a crash after the ack cannot lose the pairing. *)
AckedMeansPersisted ==
    acked \cap Verified # {} => disk # NoClaim \/ saveFailed

(* The handler always returns, also when nobody reads the channels any more;
   a stuck handler would stop the client from reading its connection. *)
HandlerReturns == handler # "idle" ~> handler = "idle"

(* Once the handler has a good claim in its hands, Wait returns. *)
GoodClaimEndsWait ==
    handler # "idle" /\ claim \in Verified ~> wait = "returned"

(* What claim.go:171-174 says: after the first claim a second one is silently
   ignored.  The code ignores it only after it has replaced state.json. *)
SecondClaimIgnored == [][disk # NoClaim => disk' = disk]_vars
=============================================================================
