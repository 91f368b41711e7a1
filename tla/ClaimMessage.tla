---------------------------- MODULE ClaimMessage ----------------------------
(***************************************************************************)
(* What identifies the Pi, and what a ClaimResponse must say to be taken:  *)
(* the choice of the primary interface, the notations of a MAC, Verify,    *)
(* and the ActiveState a claim becomes.                                    *)
(*                                                                         *)
(* The text of a MAC is its bytes, the separator and the case it is        *)
(* written in; NoText is the empty string.  An interface is [up, loopback, *)
(* hw, readable, ips]: its flags, the bytes of its hardware address,       *)
(* whether its addresses can be listed, and the IPv4 ones among them.      *)
(***************************************************************************)
EXTENDS Integers, Sequences

CONSTANT NoText

-----------------------------------------------------------------------------
(* MAC addresses and interfaces. *)

(* net.ParseMAC: 48 or 64 bits, or a 20-octet InfiniBand address. *)
ParsesMAC(t) == t # NoText /\ t.sep \in {":", "-", "."} /\ Len(t.bytes) \in {6, 8, 20}

FormatMAC(bytes) == [bytes |-> bytes, sep |-> ":", upper |-> TRUE]

(* Mutant of FormatMACString: the text is compared as it is written. *)
TextAsIs(t) == t

(* NoText is the error of ParseMAC. *)
FormatMACString(t) == IF ParsesMAC(t) THEN FormatMAC(t.bytes) ELSE NoText

FormatMACStringOr(t) == IF ParsesMAC(t) THEN FormatMACString(t) ELSE t

Suitable(i) == i.up /\ ~i.loopback /\ i.hw # << >> /\ i.readable /\ i.ips # << >>

(* The first one counts; NoText if there is none. *)
PickPrimaryInterface(ifaces) ==
    LET suitable == {n \in DOMAIN ifaces : Suitable(ifaces[n])}
        first == ifaces[CHOOSE n \in suitable : \A m \in suitable : n <= m]
    IN  IF suitable = {} THEN NoText
        ELSE [mac |-> FormatMAC(first.hw), ip |-> Head(first.ips)]

-----------------------------------------------------------------------------
(* Claims: [parses, schema, id, mac, url] and more that nobody checks. *)

(* Mutant of Verify: any MAC in a known notation will do. *)
VerifyAnyMac(r, own) ==
    r.schema = 1 /\ ParsesMAC(own) /\ ParsesMAC(r.mac) /\ r.id # NoText /\ r.url # NoText

Verify(r, own) ==
    /\ r.schema = 1
    /\ ParsesMAC(own) /\ ParsesMAC(r.mac)
    /\ FormatMACString(own) = FormatMACString(r.mac)
    /\ r.id # NoText
    /\ r.url # NoText

ToActiveState(r) ==
    [provisionState |-> "ACTIVE", controllerId |-> r.id,
     controllerMac |-> FormatMACStringOr(r.mac), serverHttpUrl |-> r.url]

IsClaimed(s) == s.provisionState = "ACTIVE" /\ s.controllerId # NoText
=============================================================================
