----------------------------- MODULE MCSensing -----------------------------
(* Sensing on small files: every list of up to two entries of each kind. *)
EXTENDS Sensing

Y(id, type, dev, num, addr, interval) ==
    [id |-> id, type |-> type, path |-> [dev |-> dev, num |-> num],
     addr |-> addr, interval |-> interval]
S(id, type, bus, addr, pin, interval) ==
    [id |-> id, type |-> type, bus |-> bus, addr |-> addr, pin |-> pin, interval |-> interval]
D(id, type, pin) == [id |-> id, type |-> type, pin |-> pin]

\* Well wired; another spelling and no id; an unusable path; an unknown type; a
\* zero interval; an address outside seven bits; no type.
YamlSensors == {
    Y("y1", "SHT", TRUE, 1, 68, 10), Y(NoId, "SHT", FALSE, 1, 69, 10),
    Y("y3", "SHT", TRUE, Nil, 70, 10), Y("y4", "LIGHT", TRUE, 1, 68, 10),
    Y("y5", "SHT", TRUE, 1, 69, 0), Y("y6", "SHT", TRUE, 1, 200, 10),
    Y("y7", "", TRUE, 1, 68, 10)}

\* Two chips, one with a pin as well and no usable interval; a second id for the
\* first; no id; a pin only; no address; an address that is truncated to 68; an
\* interval that overflows.
ServerSensors == {
    S("u1", "SHT", 1, 68, Nil, Nil), S("u2", "SHT", 1, 69, 4, 0),
    S("u3", "SHT", 1, 68, Nil, 5), S(NoId, "SHT", 1, 69, Nil, 5),
    S("u5", "PROBE", Nil, Nil, 4, 5), S("u6", "PROBE", Nil, 68, Nil, 5),
    S("u7", "SHT", 1, 65604, Nil, 5), S("u8", "SHT", 1, 69, Nil, 101)}

UpToTwo(E) == {<< >>} \cup {<<a>> : a \in E} \cup {<<a, b>> : a, b \in E}

MCInputs ==
    [sensors : UpToTwo(YamlSensors), issued : UpToTwo(ServerSensors),
     devices : {<< >>}, relays : {<< >>}]
    \cup
    [sensors : {<< >>}, issued : {<< >>},
     devices : UpToTwo({D("d1", "RELAY", 17), D(NoId, "RELAY", 27), D("d3", "FAN", 0),
                        D("d4", "", 22)}),
     relays : UpToTwo({D("r1", "RELAY", 17), D("r2", "FAN", 17),
                       D("r3", "RELAY", 17), D(NoId, "RELAY", 5)})]

\* The first chip is as cold as it can be in full moisture, any other is dry.
MCSamples ==
    [c \in {1} \X {68, 69} |->
        IF c[2] = 68 THEN {[temp |-> <<{}, {}>>, hum |-> <<Bits, Bits>>]}
        ELSE {[temp |-> <<{1, 2, 5, 6}, {0}>>, hum |-> <<{}, {3}>>]}]

\* A clean frame, and each byte with one bit or a burst flipped.
MCNoise == {<<1, {}>>} \cup ((1..6) \X {{7}, {2, 3, 5}})
=============================================================================
