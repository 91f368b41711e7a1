------------------------------ MODULE Overlay ------------------------------
(***************************************************************************)
(* ResolveActiveConfig of internal/provision: what the server assigned in  *)
(* the claim is laid over the sensors and devices of config.yaml, which    *)
(* config.Load has validated.                                              *)
(*                                                                         *)
(* A YAML sensor is [id, type, path, addr, interval]; its path             *)
(* [dev, num] is "/dev/i2c-<num>" or just "<num>", and num = Nil is a path *)
(* strconv.Atoi rejects.  A sensor of the server is [id, type, bus, addr,  *)
(* pin, interval], where Nil is an absent field.  Devices of both are      *)
(* [id, type, pin].  Intervals are seconds; Nil in a YAML sensor is an     *)
(* interval that does not parse.                                           *)
(***************************************************************************)
EXTENDS Integers, Sequences, FiniteSets

CONSTANTS
    Nil,              \* an absent or unusable number
    NoId,             \* the empty id
    LongestInterval   \* the longest duration in seconds, about 2^63 ns

(* The interval the client takes by default is a duration. *)
ASSUME LongestIntervalAssumption == LongestInterval \in Nat /\ LongestInterval >= 30
ASSUME NilAssumption == Nil \notin Int

-----------------------------------------------------------------------------
(* config.validate and ParseInterval. *)

ValidSensor(y) ==
    /\ y.type # ""
    /\ y.interval # Nil /\ y.interval <= LongestInterval
    /\ y.addr \in 8..119
ValidDevice(d) == d.type # "" /\ d.pin > 0

(* A duration that overflows is an error, which ParseInterval turns into 0. *)
ParseInterval(y) == IF y.interval > LongestInterval THEN 0 ELSE y.interval

-----------------------------------------------------------------------------
(* The matching keys; << >> is the empty key. *)

(* Mutant of SensorStateKey: the pin before the I2C address. *)
PinFirstKey(s) ==
    IF s.pin # Nil THEN <<"pin", s.type, s.pin>>
    ELSE IF s.bus # Nil /\ s.addr # Nil THEN <<"i2c", s.type, s.bus, s.addr>>
    ELSE << >>

SensorStateKey(s) ==
    IF s.bus # Nil /\ s.addr # Nil THEN <<"i2c", s.type, s.bus, s.addr>>
    ELSE IF s.pin # Nil THEN <<"pin", s.type, s.pin>>
    ELSE << >>

(* Mutant of YamlSensorKey: only the path of a device file is understood. *)
DevicePathKey(y) ==
    IF y.path.num = Nil \/ ~y.path.dev
       THEN << >> ELSE <<"i2c", y.type, y.path.num, y.addr>>

YamlSensorKey(y) ==
    IF y.path.num = Nil THEN << >> ELSE <<"i2c", y.type, y.path.num, y.addr>>

DeviceKey(d) == <<d.type, d.pin>>

-----------------------------------------------------------------------------
(* What a server entry without a YAML counterpart becomes. *)

(* Mutant of Representable: a sensor with a pin counts as a pin sensor. *)
PinMeansPinSensor(s) == s.bus # Nil /\ s.addr # Nil /\ s.pin = Nil

Representable(s) == s.bus # Nil /\ s.addr # Nil

(* Mutant of ServerInterval: only a missing interval is replaced. *)
IntervalAsIs(s) == IF s.interval # Nil THEN s.interval ELSE 30

ServerInterval(s) == IF s.interval # Nil /\ s.interval > 0 THEN s.interval ELSE 30

ConvertStateSensor(s) ==
    [id |-> s.id, type |-> s.type, path |-> [dev |-> TRUE, num |-> s.bus],
     addr |-> s.addr % 65536, interval |-> ServerInterval(s)]

-----------------------------------------------------------------------------
(* The merge, on the keys of the two lists: localKeys and keys give the key of
   each entry, converted the local form of the entries that have one. *)

LastOf(I)  == CHOOSE i \in I : \A j \in I : j <= i
FirstOf(I) == CHOOSE i \in I : \A j \in I : i <= j

(* stateOrder: the entries of the server that count; one without an id has
   nothing to lay over, one without a key no place to go. *)
Named(remote, keys) == {m \in DOMAIN keys : remote[m].id # NoId /\ keys[m] # << >>}

(* stateIndex: of the entries with key k the last one counts. *)
Winner(named, keys, k) == LastOf({m \in named : keys[m] = k})

(* Entries keep their place and their wiring and get the server's id. *)
Matched(local, localKeys, remote, keys) ==
    LET named == Named(remote, keys) IN
    [n \in DOMAIN local |->
        IF \E m \in named : keys[m] = localKeys[n]
           THEN [local[n] EXCEPT !.id = remote[Winner(named, keys, localKeys[n])].id]
           ELSE local[n]]

(* Where a key without a local counterpart comes first in the server's list, if
   the entry that counts for it can be converted. *)
Fresh(localKeys, remote, keys, converted) ==
    LET named == Named(remote, keys) IN
    {m \in named :
        /\ \A n \in DOMAIN localKeys : localKeys[n] # keys[m]
        /\ m = FirstOf({j \in named : keys[j] = keys[m]})
        /\ Winner(named, keys, keys[m]) \in DOMAIN converted}

(* The n-th of the positions I, and the entries of s at these positions. *)
Nth(I, n) == CHOOSE i \in I : Cardinality({j \in I : j <= i}) = n
Keep(s, I) == [n \in 1..Cardinality(I) |-> s[Nth(I, n)]]

Appended(localKeys, remote, keys, converted) ==
    LET fresh == Fresh(localKeys, remote, keys, converted)
        entry == [m \in fresh |-> converted[Winner(Named(remote, keys), keys, keys[m])]]
    IN  Keep(entry, fresh)

Merge(local, localKeys, remote, keys, converted) ==
    Matched(local, localKeys, remote, keys) \o Appended(localKeys, remote, keys, converted)

-----------------------------------------------------------------------------
YamlKeys(yaml)   == [n \in DOMAIN yaml |-> YamlSensorKey(yaml[n])]
StateKeys(state) == [m \in DOMAIN state |-> SensorStateKey(state[m])]
DeviceKeys(list) == [n \in DOMAIN list |-> DeviceKey(list[n])]

ConvertedSensors(state) ==
    [m \in {i \in DOMAIN state : Representable(state[i])} |-> ConvertStateSensor(state[m])]

OverlaySensors(yaml, state) ==
    Merge(yaml, YamlKeys(yaml), state, StateKeys(state), ConvertedSensors(state))

(* Mutant of OverlayDevices: relays that config.yaml lacks are not appended. *)
RenameDevices(yaml, state) ==
    Matched(yaml, DeviceKeys(yaml), state, DeviceKeys(state))

(* A relay of the server has the form of a local one already. *)
OverlayDevices(yaml, state) ==
    Merge(yaml, DeviceKeys(yaml), state, DeviceKeys(state), state)
=============================================================================
