----------------------------- MODULE AtomicFile -----------------------------
(***************************************************************************)
(* What SaveActiveState promises of state.json: whoever looks at the file, *)
(* at any moment and after any crash, finds one whole claim or no file.    *)
(* The file changes in single steps, from anything to a claim that has     *)
(* been handed to a save since the last reset, and disappears only by one. *)
(***************************************************************************)
CONSTANTS Claims, NoFile   \* NoFile is not a claim

VARIABLES file, offered   \* the file; the claims handed to a save since the last reset

Init == file = NoFile /\ offered = {}

Offer(c) == offered' = offered \cup {c} /\ UNCHANGED file
Replace  == file' \in offered /\ UNCHANGED offered
Reset    == file' = NoFile /\ offered' = {}

Next == (\E c \in Claims : Offer(c)) \/ Replace \/ Reset

Spec == Init /\ [][Next]_<<file, offered>>
=============================================================================
