----------------------------- MODULE Unclaimed -----------------------------
(***************************************************************************)
(* RunUnclaimed of internal/provision: the claim PIN, the ticker goroutine *)
(* that builds beacons, the sender goroutine that broadcasts them, the     *)
(* mDNS advertiser, and the calling goroutine that waits for a claim and   *)
(* then runs its deferred calls in reverse order.                          *)
(*                                                                         *)
(* PINs are numbered in the order they are minted; 0 is "no PIN".  Time is *)
(* abstract: the five minutes of validity end by Expire, and a tick of the *)
(* beacon ticker can come at any moment.  A beacon, and the TXT record of  *)
(* the advertiser, is the PIN it carries (its expiry goes with it);        *)
(* serial, MAC, address and manifest never change during a run.            *)
(* What ClaimSubscriber.Wait does in detail is in ClaimWait.               *)
(***************************************************************************)
EXTENDS Integers, Sequences

CONSTANTS
    BeaconCap,    \* capacity of beaconCh (8 in the code)
    MdnsWorks,    \* the mDNS library accepts the service and starts
    MaxMints      \* bound: PINs that can expire, plus one

ASSUME BeaconCapAssumption == BeaconCap \in Nat \ {0}
ASSUME MdnsAssumption == MdnsWorks \in BOOLEAN
ASSUME MaxMintsAssumption == MaxMints \in Nat \ {0}

VARIABLES
    run,              \* where RunUnclaimed is
    outcome,          \* what it returns
    pin,              \* the live PIN
    lapsed,           \* PINs up to this number are past their expiry
    minted,           \* number of PINs minted
    beaconCh,         \* the buffered channel of beacons
    ticker,           \* where the ticker goroutine is
    payload,          \* the last beacon it built
    sender,           \* where the sender goroutine is
    sending,          \* the beacon it took from beaconCh
    socketOpen,       \* the UDP socket is open
    aired,            \* the last PIN broadcast
    beaconCancelled,  \* beaconCancel has been called
    cancelled,        \* the caller's context is cancelled
    mdns,             \* the advertiser: off, up, or shut down ("done")
    txt               \* the PIN in the TXT record it is built with

pinVars    == <<pin, lapsed, minted>>
tickerVars == <<ticker, payload>>
senderVars == <<sender, sending, aired>>
runVars    == <<run, outcome, socketOpen, beaconCancelled>>
vars == <<run, outcome, pin, lapsed, minted, beaconCh, ticker, payload, sender, sending,
          socketOpen, aired, beaconCancelled, cancelled, mdns, txt>>

PinNumbers == 0..(MaxMints + 1)

TypeOK ==
    /\ run \in {"setup", "firstBeacon", "spawn", "mdns", "mdnsServe", "wait", "invalidate",
                "shutdown", "cancel", "close", "returned"}
    /\ outcome \in {"none", "setupFailed", "claimed", "waitFailed"}
    /\ pin \in PinNumbers
    /\ lapsed \in PinNumbers
    /\ minted \in PinNumbers
    /\ beaconCh \in Seq(PinNumbers)
    /\ Len(beaconCh) <= BeaconCap
    /\ ticker \in {"unborn", "select", "build", "send", "stopped"}
    /\ payload \in PinNumbers
    /\ sender \in {"unborn", "receive", "write", "stopped"}
    /\ sending \in PinNumbers
    /\ socketOpen \in BOOLEAN
    /\ aired \in PinNumbers
    /\ beaconCancelled \in BOOLEAN
    /\ cancelled \in BOOLEAN
    /\ mdns \in {"off", "up", "done"}
    /\ txt \in PinNumbers

Init ==
    /\ run = "setup"
    /\ outcome = "none"
    /\ pin = 0
    /\ lapsed = 0
    /\ minted = 0
    /\ beaconCh = << >>
    /\ ticker = "unborn"
    /\ payload = 0
    /\ sender = "unborn"
    /\ sending = 0
    /\ socketOpen = FALSE
    /\ aired = 0
    /\ beaconCancelled = FALSE
    /\ cancelled = FALSE
    /\ mdns = "off"
    /\ txt = 0

(* Mutant of BeaconDone: beaconCtx made from context.Background(). *)
BeaconCtxDetached == beaconCancelled

(* beaconCtx is a child of the caller's context. *)
BeaconDone == cancelled \/ beaconCancelled

(* Mutant of Current: the PIN is rotated ahead of its expiry. *)
RotateAhead ==
    IF pin = 0 \/ minted < MaxMints
       THEN minted' = minted + 1 /\ pin' = minted + 1 /\ UNCHANGED lapsed
       ELSE UNCHANGED pinVars

(* Pin.Current, under the PIN's mutex: the live PIN, minted if need be. *)
Current ==
    IF pin = 0 \/ pin <= lapsed
       THEN minted' = minted + 1 /\ pin' = minted + 1 /\ UNCHANGED lapsed
       ELSE UNCHANGED pinVars

-----------------------------------------------------------------------------
(* The calling goroutine. *)

(* The serial, the interface, the manifest or the socket cannot be had; no
   goroutine has been started. *)
SetupFails ==
    /\ run = "setup"
    /\ outcome' = "setupFailed"
    /\ run' = "returned"
    /\ UNCHANGED <<pinVars, beaconCh, tickerVars, senderVars, socketOpen, beaconCancelled,
                   cancelled, mdns, txt>>

Setup ==
    /\ run = "setup"
    /\ socketOpen' = TRUE
    /\ run' = "firstBeacon"
    /\ UNCHANGED <<outcome, pinVars, beaconCh, tickerVars, senderVars, beaconCancelled,
                   cancelled, mdns, txt>>

FirstBeacon ==
    /\ run = "firstBeacon"
    /\ Current
    /\ payload' = pin'
    /\ beaconCh' = Append(beaconCh, pin')
    /\ run' = "spawn"
    /\ UNCHANGED <<outcome, ticker, senderVars, socketOpen, beaconCancelled, cancelled, mdns, txt>>

Spawn ==
    /\ run = "spawn"
    /\ ticker' = "select"
    /\ sender' = "receive"
    /\ run' = "mdns"
    /\ UNCHANGED <<outcome, pinVars, beaconCh, payload, sending, aired, socketOpen, beaconCancelled, cancelled, mdns, txt>>

(* Start reads the PIN for its TXT record once, on the way. *)
BuildTXT ==
    /\ run = "mdns"
    /\ Current
    /\ txt' = pin'
    /\ run' = "mdnsServe"
    /\ UNCHANGED <<outcome, beaconCh, tickerVars, senderVars, socketOpen, beaconCancelled,
                   cancelled, mdns>>

(* The record goes on air and stays as it is for the advertiser's life. *)
MdnsUp ==
    /\ run = "mdnsServe"
    /\ MdnsWorks
    /\ mdns' = "up"
    /\ run' = "wait"
    /\ UNCHANGED <<outcome, pinVars, beaconCh, tickerVars, senderVars, socketOpen,
                   beaconCancelled, cancelled, txt>>

(* Start refuses its inputs before it reads the PIN, or the library fails. *)
MdnsFails ==
    /\ run \in {"mdns", "mdnsServe"}
    /\ run' = "wait"
    /\ UNCHANGED <<outcome, pinVars, beaconCh, tickerVars, senderVars, socketOpen,
                   beaconCancelled, cancelled, mdns, txt>>

Claimed ==
    /\ run = "wait"
    /\ outcome' = "claimed"
    /\ run' = "invalidate"
    /\ UNCHANGED <<pinVars, beaconCh, tickerVars, senderVars, socketOpen, beaconCancelled,
                   cancelled, mdns, txt>>

(* An invalid claim, a failed subscription, a failed save, or the context. *)
WaitFails ==
    /\ run = "wait"
    /\ outcome' = "waitFailed"
    /\ run' = "shutdown"
    /\ UNCHANGED <<pinVars, beaconCh, tickerVars, senderVars, socketOpen, beaconCancelled,
                   cancelled, mdns, txt>>

Invalidate ==
    /\ run = "invalidate"
    /\ pin' = 0
    /\ run' = "shutdown"
    /\ UNCHANGED <<outcome, lapsed, minted, beaconCh, tickerVars, senderVars, socketOpen,
                   beaconCancelled, cancelled, mdns, txt>>

(* Deferred calls run last in, first out: shutdown() of the advertiser comes
   first and waits until the advertiser has seen beaconCtx end. *)
Shutdown ==
    /\ run = "shutdown"
    /\ mdns # "up"
    /\ run' = "cancel"
    /\ UNCHANGED <<outcome, pinVars, beaconCh, tickerVars, senderVars, socketOpen,
                   beaconCancelled, cancelled, mdns, txt>>

(* Mutant of BeaconCancel: the child context is never cancelled. *)
CancelForgotten ==
    /\ run = "cancel"
    /\ run' = "close"
    /\ UNCHANGED <<outcome, pinVars, beaconCh, tickerVars, senderVars, socketOpen,
                   beaconCancelled, cancelled, mdns, txt>>

BeaconCancel ==
    /\ run = "cancel"
    /\ beaconCancelled' = TRUE
    /\ run' = "close"
    /\ UNCHANGED <<outcome, pinVars, beaconCh, tickerVars, senderVars, socketOpen, cancelled,
                   mdns, txt>>

CloseSender ==
    /\ run = "close"
    /\ socketOpen' = FALSE
    /\ run' = "returned"
    /\ UNCHANGED <<outcome, pinVars, beaconCh, tickerVars, senderVars, beaconCancelled,
                   cancelled, mdns, txt>>

-----------------------------------------------------------------------------
(* The ticker goroutine.  With beaconCtx ended and a tick due, its select may
   still take the tick. *)

Tick ==
    /\ ticker = "select"
    /\ ticker' = "build"
    /\ UNCHANGED <<runVars, pinVars, beaconCh, payload, senderVars, cancelled, mdns, txt>>

Build ==
    /\ ticker = "build"
    /\ Current
    /\ payload' = pin'
    /\ ticker' = "send"
    /\ UNCHANGED <<runVars, beaconCh, senderVars, cancelled, mdns, txt>>

(* With the channel full the new beacon is dropped. *)
Send ==
    /\ ticker = "send"
    /\ beaconCh' = IF Len(beaconCh) < BeaconCap THEN Append(beaconCh, payload) ELSE beaconCh
    /\ ticker' = "select"
    /\ UNCHANGED <<runVars, pinVars, payload, senderVars, cancelled, mdns, txt>>

(* The deferred close(beaconCh) goes with it. *)
StopTicker ==
    /\ ticker = "select"
    /\ BeaconDone
    /\ ticker' = "stopped"
    /\ UNCHANGED <<runVars, pinVars, beaconCh, payload, senderVars, cancelled, mdns, txt>>

-----------------------------------------------------------------------------
(* The sender goroutine ranges over beaconCh. *)

Receive ==
    /\ sender = "receive"
    /\ beaconCh # << >>
    /\ sending' = Head(beaconCh)
    /\ beaconCh' = Tail(beaconCh)
    /\ sender' = "write"
    /\ UNCHANGED <<runVars, pinVars, tickerVars, aired, cancelled, mdns, txt>>

Write ==
    /\ sender = "write"
    /\ socketOpen
    /\ aired' = sending
    /\ sender' = "receive"
    /\ UNCHANGED <<runVars, pinVars, beaconCh, tickerVars, sending, cancelled, mdns, txt>>

(* Mutants of WriteFails: the goroutine gives up; the beacon is retried after
   those already waiting. *)
WriteFailsForGood ==
    /\ sender = "write"
    /\ sender' = "stopped"
    /\ UNCHANGED <<runVars, pinVars, beaconCh, tickerVars, sending, aired, cancelled, mdns, txt>>

WriteRetried ==
    /\ sender = "write"
    /\ Len(beaconCh) < BeaconCap
    /\ beaconCh' = Append(beaconCh, sending)
    /\ sender' = "receive"
    /\ UNCHANGED <<runVars, pinVars, tickerVars, sending, aired, cancelled, mdns, txt>>

(* The network is unreachable or the socket is closed; only a log line. *)
WriteFails ==
    /\ sender = "write"
    /\ sender' = "receive"
    /\ UNCHANGED <<runVars, pinVars, beaconCh, tickerVars, sending, aired, cancelled, mdns, txt>>

StopSender ==
    /\ sender = "receive"
    /\ beaconCh = << >>
    /\ ticker = "stopped"
    /\ sender' = "stopped"
    /\ UNCHANGED <<runVars, pinVars, beaconCh, tickerVars, sending, aired, cancelled, mdns, txt>>

-----------------------------------------------------------------------------
(* The goroutine of the advertiser, the clock, and the caller. *)

MdnsShutdown ==
    /\ mdns = "up"
    /\ BeaconDone
    /\ mdns' = "done"
    /\ UNCHANGED <<runVars, pinVars, beaconCh, tickerVars, senderVars, cancelled, txt>>

Expire ==
    /\ pin > lapsed
    /\ minted < MaxMints
    /\ lapsed' = pin
    /\ UNCHANGED <<runVars, pin, minted, beaconCh, tickerVars, senderVars, cancelled, mdns, txt>>

Cancel ==
    /\ ~cancelled
    /\ cancelled' = TRUE
    /\ UNCHANGED <<runVars, pinVars, beaconCh, tickerVars, senderVars, mdns, txt>>

(* RunUnclaimed has returned and its goroutines have ended. *)
Ended ==
    /\ run = "returned"
    /\ ticker \in {"unborn", "stopped"}
    /\ sender \in {"unborn", "stopped"}
    /\ mdns # "up"
    /\ UNCHANGED vars

CallerStep ==
    \/ SetupFails \/ Setup \/ FirstBeacon \/ Spawn \/ BuildTXT \/ MdnsUp \/ MdnsFails
    \/ Invalidate \/ Shutdown \/ BeaconCancel \/ CloseSender
TickerWork == Tick \/ Build \/ Send
SenderStep == Receive \/ Write \/ WriteFails \/ StopSender

Next ==
    \/ CallerStep
    \/ Claimed
    \/ WaitFails
    \/ TickerWork
    \/ StopTicker
    \/ SenderStep
    \/ MdnsShutdown
    \/ Expire
    \/ Cancel
    \/ Ended

Spec == Init /\ [][Next]_vars

(* The scheduler runs every goroutine; a select that finds beaconCtx ended
   again and again takes that branch in the end.  A claim, a failure of the
   wait and the end of the caller's context are not assumed to come. *)
LiveSpec ==
    /\ Spec
    /\ WF_vars(CallerStep)
    /\ WF_vars(TickerWork)
    /\ SF_vars(StopTicker)
    /\ WF_vars(SenderStep)
    /\ WF_vars(MdnsShutdown)

-----------------------------------------------------------------------------
(* Properties. *)

(* Beacons go out in the order their PINs were minted: what was broadcast last,
   what is in the hands of the sender, in the channel and in the hands of the
   ticker never goes back to an older PIN, so a listener of the UDP beacons sees
   no rotation undone.  (The TXT record keeps its first PIN: OnePinValid.) *)
PinsAirInOrder ==
    /\ aired <= sending
    /\ \A i \in DOMAIN beaconCh :
          /\ sending <= beaconCh[i]
          /\ beaconCh[i] <= payload
          /\ \A j \in DOMAIN beaconCh : i < j => beaconCh[i] <= beaconCh[j]
    /\ payload <= minted

(* The PINs a listener can still learn: the last broadcast, the TXT record as
   long as it is advertised, and the beacons under way. *)
OnAir ==
    ({aired, sending, payload} \cup {beaconCh[i] : i \in DOMAIN beaconCh}
        \cup {p \in {txt} : mdns = "up"}) \ {0}

(* Until a claim, a listener that heeds the expiry has one PIN to claim with:
   every other PIN still on air, in a beacon of before the rotation or in the
   record that no rotation changes, is past its expiry. *)
OnePinValid ==
    outcome # "claimed" => \A p \in OnAir : p = pin \/ p <= lapsed

(* Nothing the run started outlives it: when RunUnclaimed has returned, its
   goroutines end, in particular the sender, which is never stopped itself. *)
GoroutinesEnd ==
    run = "returned" ~> /\ ticker \in {"unborn", "stopped"}
                        /\ sender \in {"unborn", "stopped"}
                        /\ mdns # "up"

(* As long as the Pi waits for a claim, beacons are handed to the network again
   and again, whatever fails on the way; and after a rotation they carry the
   new PIN, which no other channel does. *)
BeaconsGoOn ==
    \A k \in 1..MaxMints :
        <>[](run = "wait" /\ ~cancelled /\ minted >= k)
            => []<>(sender = "write" /\ sending >= k)

BeaconStopped == ticker = "stopped" /\ sender = "stopped"

(* What provision.go:50-53 says: a successful claim stops the beacon without
   depending on the caller's context. *)
ClaimStopsBeacon == outcome = "claimed" ~> BeaconStopped

(* The same where no advertiser has to be waited for: a claim alone, with the
   caller's context still live, stops the ticker and drains the sender. *)
ClaimStopsPlainBeacon == outcome = "claimed" /\ mdns = "off" ~> BeaconStopped

(* The wait of shutdown() for the advertiser ends when the caller's context
   does; until then beaconCancel is not reached. *)
CancelEndsRun == outcome # "none" /\ cancelled ~> run = "returned"
=============================================================================
