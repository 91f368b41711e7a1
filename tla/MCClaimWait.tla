---------------------------- MODULE MCClaimWait ----------------------------
(* ClaimWait with claims as ClaimMessage describes them, for a Pi with four
   interfaces of which only the last is suitable. *)
EXTENDS ClaimWait

OwnHw == <<184, 39, 235, 1, 2, 175>>

Iface(up, loopback, hw, ips) ==
    [up |-> up, loopback |-> loopback, hw |-> hw, readable |-> TRUE, ips |-> ips]
MCInterfaces == <<
    Iface(TRUE, TRUE, << >>, <<"127.0.0.1">>),
    Iface(FALSE, FALSE, <<184, 39, 235, 9, 9, 9>>, <<"10.0.0.9">>),
    Iface(TRUE, FALSE, <<2, 66, 0, 0, 0, 1>>, << >>),
    Iface(TRUE, FALSE, OwnHw, <<"10.0.0.7">>) >>

Text(bytes, sep, upper) == [bytes |-> bytes, sep |-> sep, upper |-> upper]
Claim(id, mac, url) == [parses |-> TRUE, schema |-> 1, id |-> id, mac |-> mac, url |-> url]

\* Two good claims in different notations, the second under another id; one
\* for another Pi, one without an id, a newer schema, and one that is not JSON.
MCClaims == {
    Claim("id1", Text(OwnHw, ":", TRUE), "url"),
    Claim("id2", Text(OwnHw, "-", FALSE), "url"),
    Claim("id3", Text(<<184, 39, 235, 1, 2, 9>>, ":", TRUE), "url"),
    Claim(NoText, Text(OwnHw, ":", TRUE), "url"),
    [Claim("id5", Text(OwnHw, ":", TRUE), "url") EXCEPT !.schema = 2],
    [Claim("id6", NoText, NoText) EXCEPT !.parses = FALSE]}
=============================================================================
