--------------------------- MODULE CommandService ---------------------------
(***************************************************************************)
(* What the controller promises of device commands, without its channel,   *)
(* goroutines, lookups and tokens.  A command is refused or accepted once; *)
(* accepted commands are served one at a time in that order; only the      *)
(* command being served moves a pin, its own, to its own level; its device *)
(* reports it only while that level stands, and it ends once, as           *)
(* "reported" only if the report was made.                                 *)
(***************************************************************************)
EXTENDS Naturals, Sequences

CONSTANTS Handlers, Messages, NoMessage, OnActions

VARIABLES asked, accepted, outcome, level, stateTopic

vars == <<asked, accepted, outcome, level, stateTopic>>

LevelOf(h) == IF asked[h].body.action \in OnActions THEN "high" ELSE "low"
PinOf(h)   == asked[h].body.pin

(* h is the oldest accepted command without an outcome. *)
Served(h) ==
    \E i \in DOMAIN accepted :
        /\ accepted[i] = h
        /\ outcome[h] = "none"
        /\ \A k \in DOMAIN accepted : k < i => outcome[accepted[k]] # "none"

Ends(h, f) == outcome' = [outcome EXCEPT ![h] = f]
Moves(h)   == level' = [level EXCEPT ![PinOf(h)] = LevelOf(h)]

Init ==
    /\ asked \in [Handlers -> {NoMessage}]
    /\ accepted = << >>
    /\ outcome \in [Handlers -> {"none"}]
    /\ \A p \in DOMAIN level : level[p] = "boot"
    /\ \A d \in DOMAIN stateTopic : stateTopic[d] \notin Handlers

Ask(h) ==
    /\ asked[h] = NoMessage
    /\ \E m \in Messages : asked' = [asked EXCEPT ![h] = m]
    /\ UNCHANGED <<accepted, outcome, level, stateTopic>>

Waiting(h) ==
    /\ asked[h] # NoMessage
    /\ outcome[h] = "none"
    /\ \A i \in DOMAIN accepted : accepted[i] # h

Refuse(h) ==
    /\ Waiting(h)
    /\ \E f \in {"rejected", "dropped"} : Ends(h, f)
    /\ UNCHANGED <<asked, accepted, level, stateTopic>>

Accept(h) ==
    /\ Waiting(h)
    /\ accepted' = Append(accepted, h)
    /\ UNCHANGED <<asked, outcome, level, stateTopic>>

Drive(h) ==
    /\ Served(h)
    /\ Moves(h)
    /\ UNCHANGED <<asked, accepted, outcome, stateTopic>>

Report(h) ==
    /\ Served(h)
    /\ level[PinOf(h)] = LevelOf(h)
    /\ stateTopic' = [stateTopic EXCEPT ![asked[h].dev] = h]
    /\ UNCHANGED <<asked, accepted, outcome, level>>

Reported(h) ==
    /\ Served(h)
    /\ stateTopic[asked[h].dev] = h
    /\ Ends(h, "reported")
    /\ UNCHANGED <<asked, accepted, level, stateTopic>>

(* A failing pin may have moved all the same. *)
Fail(h) ==
    /\ Served(h)
    /\ \E f \in {"unknownAction", "failed", "unreported"} : Ends(h, f)
    /\ UNCHANGED level \/ Moves(h)
    /\ UNCHANGED <<asked, accepted, stateTopic>>

Next ==
    \E h \in Handlers :
        Ask(h) \/ Refuse(h) \/ Accept(h) \/ Drive(h) \/ Report(h) \/ Reported(h) \/ Fail(h)

Spec == Init /\ [][Next]_vars
=============================================================================
