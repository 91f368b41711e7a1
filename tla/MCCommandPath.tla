--------------------------- MODULE MCCommandPath ---------------------------
(* CommandPath with messages for two devices that share a wired pin: one
   device is switched on and off and gets a payload that is no JSON, the other
   is switched off, gets an action nobody knows, and a pin that is not wired. *)
EXTENDS CommandPath

CONSTANTS lamp, pump, on, off, dim, p17, p99

Command(d, a, p) == [dev |-> d, body |-> [action |-> a, pin |-> p]]

MCMessages == {
    Command(lamp, on, p17),
    Command(lamp, off, p17),
    [dev |-> lamp, body |-> Malformed],
    Command(pump, off, p17),
    Command(pump, dim, p17),
    Command(pump, on, p99)}
=============================================================================
