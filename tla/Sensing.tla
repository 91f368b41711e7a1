------------------------------ MODULE Sensing ------------------------------
(***************************************************************************)
(* From config.yaml and the claim to telemetry: config.Load,               *)
(* ResolveActiveConfig, buildSensors and the sensor loops with their SHT40 *)
(* reads.  A read is a trigger, a wait of 10 ms and a fetch; nothing locks *)
(* a chip in between, so loops that share a chip would interleave.  Bytes  *)
(* of a frame can be corrupted on the wire, and either transfer can fail.  *)
(***************************************************************************)
EXTENDS Overlay, Sht40

CONSTANTS
    Inputs,     \* [sensors, devices] of config.yaml, [issued, relays] of the claim
    Hardware,   \* the type string of an SHT40, "TEMP_HUMIDITY"
    Buses,      \* the I2C buses the host has
    Samples,    \* what each chip there is may measure: [temp, hum], two bytes each
    Noise,      \* what the wire does to a read: <<byte of the frame, bits that flip>>
    Nothing     \* no measurement waiting, no telemetry yet

Ids     == STRING \cup {NoId}
Numbers == Int \cup {Nil}
UInt16  == {n \in Int : 0 <= n /\ n < 65536}

YamlEntries ==
    [id : Ids, type : STRING, path : [dev : BOOLEAN, num : Numbers],
     addr : UInt16, interval : Numbers]
StateEntries ==
    [id : Ids, type : STRING, bus : Numbers, addr : Numbers, pin : Numbers, interval : Numbers]
DeviceEntries == [id : Ids, type : STRING, pin : Int]

(* What the YAML and the JSON decoder can deliver. *)
ASSUME InputsAssumption ==
    Inputs \subseteq [sensors : Seq(YamlEntries), issued : Seq(StateEntries),
                     devices : Seq(DeviceEntries), relays : Seq(DeviceEntries)]
ASSUME BusesAssumption == Buses \subseteq Int
ASSUME SamplesAssumption ==
    \A c \in DOMAIN Samples : Samples[c] \subseteq [temp : Bytes \X Bytes, hum : Bytes \X Bytes]
(* At most one byte of a frame is damaged; the checksum promises no more. *)
ASSUME NoiseAssumption == Noise \subseteq (1..6) \X Bytes

VARIABLES
    in,          \* the two files as they are at boot
    phase,       \* how far the boot is, and how it ended
    resolved,    \* the sensors of the resolved configuration
    resolvedDevices,
    sensors,     \* what buildSensors returned
    loop,        \* where each sensorLoop is
    measured,    \* the measurement waiting in each chip
    telemetry    \* the last message handed to the MQTT client

vars == <<in, phase, resolved, resolvedDevices, sensors, loop, measured, telemetry>>
bootVars == <<in, resolved, resolvedDevices, sensors>>

ChipOf(y) == <<y.path.num, y.addr>>

TypeOK ==
    /\ in \in Inputs
    /\ phase \in {"load", "resolve", "build", "run", "exit", "panic"}
    /\ \A n \in DOMAIN sensors : ChipOf(sensors[n]) \in Buses \X UInt16
    /\ DOMAIN loop = DOMAIN sensors
    /\ \A n \in DOMAIN loop : loop[n] \in {"unborn", "trigger", "fetch", "select"}
    /\ \A c \in DOMAIN measured :
          measured[c] # Nothing => c \in DOMAIN Samples /\ measured[c] \in Samples[c]
    /\ telemetry # Nothing =>
          telemetry.id \in {NoId} \cup {sensors[n].id : n \in DOMAIN sensors}

Init ==
    /\ in \in Inputs
    /\ phase = "load"
    /\ resolved = << >>
    /\ resolvedDevices = << >>
    /\ sensors = << >>
    /\ loop = << >>
    /\ measured = << >>
    /\ telemetry = Nothing

-----------------------------------------------------------------------------
(* config.yaml cannot be read, or is not YAML. *)
LoadFails ==
    /\ phase = "load"
    /\ phase' = "exit"
    /\ UNCHANGED <<bootVars, loop, measured, telemetry>>

Load ==
    /\ phase = "load"
    /\ phase' = IF /\ \A n \in DOMAIN in.sensors : ValidSensor(in.sensors[n])
                   /\ \A n \in DOMAIN in.devices : ValidDevice(in.devices[n])
                   THEN "resolve" ELSE "exit"
    /\ UNCHANGED <<bootVars, loop, measured, telemetry>>

Resolve ==
    /\ phase = "resolve"
    /\ resolved' = OverlaySensors(in.sensors, in.issued)
    /\ resolvedDevices' = OverlayDevices(in.devices, in.relays)
    /\ phase' = "build"
    /\ UNCHANGED <<in, sensors, loop, measured, telemetry>>

IsHardware(y) == y.type = Hardware

(* An entry of another type is skipped. *)
Wanted == {n \in DOMAIN resolved : IsHardware(resolved[n])}

(* openBus takes both spellings of a path. *)
Opens(y) == y.path.num \in Buses

Build ==
    /\ phase = "build"
    /\ LET wanted == Keep(resolved, Wanted) IN
       IF \A n \in DOMAIN wanted : Opens(wanted[n])
          THEN /\ sensors' = wanted
               /\ loop' = [n \in DOMAIN wanted |-> "unborn"]
               /\ measured' = [c \in {ChipOf(wanted[n]) : n \in DOMAIN wanted} |-> Nothing]
               /\ phase' = "run"
          ELSE phase' = "exit" /\ UNCHANGED <<sensors, loop, measured>>
    /\ UNCHANGED <<in, resolved, resolvedDevices, telemetry>>

(* sensorLoop makes its ticker; time.NewTicker panics unless the interval is
   positive, and nothing recovers. *)
StartLoop(n) ==
    /\ phase = "run"
    /\ loop[n] = "unborn"
    /\ IF ParseInterval(sensors[n]) > 0
          THEN loop' = [loop EXCEPT ![n] = "trigger"] /\ phase' = phase
          ELSE phase' = "panic" /\ loop' = loop
    /\ UNCHANGED <<bootVars, measured, telemetry>>

(* The chip acknowledges its address and starts to measure. *)
Trigger(n) ==
    /\ phase = "run"
    /\ loop[n] = "trigger"
    /\ LET chip == ChipOf(sensors[n]) IN
       /\ chip \in DOMAIN Samples
       /\ \E s \in Samples[chip] : measured' = [measured EXCEPT ![chip] = s]
    /\ loop' = [loop EXCEPT ![n] = "fetch"]
    /\ UNCHANGED <<bootVars, phase, telemetry>>

(* Either transfer fails; the error is logged until the next tick. *)
ReadFails(n) ==
    /\ phase = "run"
    /\ loop[n] \in {"trigger", "fetch"}
    /\ loop' = [loop EXCEPT ![n] = "select"]
    /\ UNCHANGED <<bootVars, phase, measured, telemetry>>

Received(s, flip) ==
    LET f == Frame(s.temp, s.hum) IN [f EXCEPT ![flip[1]] = SymDiff(@, flip[2])]

(* Mutant of Fetch: every loop publishes under the id of the last sensor. *)
FetchAsLast(n, flip) ==
    /\ phase = "run"
    /\ loop[n] = "fetch"
    /\ LET chip == ChipOf(sensors[n]) IN
       /\ measured[chip] # Nothing
       /\ telemetry' = [id |-> sensors[Len(sensors)].id, chip |-> chip,
                        sample |-> measured[chip],
                        reading |-> Decode(Received(measured[chip], <<1, {}>>))]
    /\ loop' = [loop EXCEPT ![n] = "select"]
    /\ UNCHANGED <<bootVars, phase, measured>>

(* The chip hands out its measurement; a frame with a wrong checksum is an
   error, a good one becomes telemetry under the id of the sensor. *)
Fetch(n, flip) ==
    /\ phase = "run"
    /\ loop[n] = "fetch"
    /\ LET chip == ChipOf(sensors[n])
           frame == Received(measured[chip], flip) IN
       /\ measured[chip] # Nothing
       /\ telemetry' = IF FrameValid(frame)
                          THEN [id |-> sensors[n].id, chip |-> chip,
                                sample |-> measured[chip], reading |-> Decode(frame)]
                          ELSE telemetry
       /\ measured' = [measured EXCEPT ![chip] = Nothing]
    /\ loop' = [loop EXCEPT ![n] = "select"]
    /\ UNCHANGED <<bootVars, phase>>

Tick(n) ==
    /\ phase = "run"
    /\ loop[n] = "select"
    /\ loop' = [loop EXCEPT ![n] = "trigger"]
    /\ UNCHANGED <<bootVars, phase, measured, telemetry>>

Next ==
    \/ LoadFails \/ Load \/ Resolve \/ Build
    \/ \E n \in DOMAIN sensors :
          \/ StartLoop(n) \/ Trigger(n) \/ ReadFails(n) \/ Tick(n)
          \/ \E flip \in Noise : Fetch(n, flip)

Spec == Init /\ [][Next]_vars

-----------------------------------------------------------------------------
(* Properties. *)

(* The configuration is resolved; an exit before that leaves it empty. *)
Resolved == phase \notin {"load", "resolve"} /\ (phase = "exit" => resolved # << >>)

Distinct(s) == \A a, b \in DOMAIN s : s[a] = s[b] => a = b

(* What the server names, and which of it can be driven over I2C. *)
Issued == Named(in.issued, StateKeys(in.issued))
Drivable == {m \in Issued : Representable(in.issued[m])}

(* The addresses of the server are those of chips. *)
AddressesFit == \A m \in Drivable : in.issued[m].addr \in 8..119
(* An id of the server stands for one address, also where a user copied it into
   config.yaml. *)
IdsSane ==
    \A m \in DOMAIN in.issued : in.issued[m].id # NoId =>
        /\ \A o \in DOMAIN in.issued : in.issued[o].id = in.issued[m].id =>
              SensorStateKey(in.issued[o]) = SensorStateKey(in.issued[m])
        /\ \A n \in DOMAIN in.sensors : in.sensors[n].id = in.issued[m].id =>
              YamlSensorKey(in.sensors[n]) = SensorStateKey(in.issued[m])
(* config.yaml names no chip twice. *)
YamlSane == Distinct([n \in DOMAIN in.sensors |-> ChipOf(in.sensors[n])])

(* What the server has under the type and the address of a sensor of config.yaml. *)
NamesFor(y) ==
    {m \in DOMAIN in.issued :
        /\ in.issued[m].id # NoId
        /\ in.issued[m].type = y.type
        /\ <<in.issued[m].bus, in.issued[m].addr>> = ChipOf(y)}

(* r is y, under the id of one of these if there are any. *)
Wired(y, r) ==
    IF y.path.num = Nil \/ NamesFor(y) = {}
       THEN r = y
       ELSE \E m \in NamesFor(y) : r = [y EXCEPT !.id = in.issued[m].id]

(* The server's ids never change the wiring: the sensors of config.yaml keep
   their order, bus, address and interval, and one whose address the server
   named under that type has the server's id, any other its own. *)
WiringKept ==
    Resolved => \A n \in DOMAIN in.sensors : Wired(in.sensors[n], resolved[n])

(* Every I2C sensor of the server is driven exactly once, by the id the server
   listed last for its address, also when config.yaml no longer has it. *)
ServerSensorsDriven ==
    Resolved /\ YamlSane /\ IdsSane =>
        \A m \in Drivable :
            \E last \in Issued, n \in DOMAIN resolved :
                LET Same(i) == SensorStateKey(in.issued[i]) = SensorStateKey(in.issued[m]) IN
                /\ Same(last)
                /\ \A i \in Issued : Same(i) => i <= last
                /\ resolved[n].id = in.issued[last].id
                /\ \A o \in DOMAIN resolved :
                      resolved[o].id = in.issued[last].id => o = n

(* The entries of devs with the numbers I, by type and pin. *)
KeySet(devs, I) == {DeviceKey(devs[n]) : n \in I}

(* The same for relays, whose type and pin is their address: each that either
   side names is resolved exactly once and nothing else is, under an id of the
   server if the server has one for it, and else as config.yaml has it.  (The
   client resolves the list and nothing in it reads the result: relays are
   switched by the id of a topic and the pin in a command.) *)
DevicesMerged ==
    Resolved /\ Distinct(DeviceKeys(in.devices)) =>
        LET named == {m \in DOMAIN in.relays : in.relays[m].id # NoId} IN
        /\ Distinct(DeviceKeys(resolvedDevices))
        /\ KeySet(resolvedDevices, DOMAIN resolvedDevices) =
              KeySet(in.devices, DOMAIN in.devices) \cup KeySet(in.relays, named)
        /\ \A n \in DOMAIN resolvedDevices :
              LET namesake == {m \in named :
                                 DeviceKey(in.relays[m]) = DeviceKey(resolvedDevices[n])}
              IN  IF namesake = {}
                     THEN \E l \in DOMAIN in.devices : resolvedDevices[n] = in.devices[l]
                     ELSE \E m \in namesake : resolvedDevices[n].id = in.relays[m].id

(* No two loops share a chip, whose measurements they would take from each
   other, as long as config.yaml names no chip twice and the server only
   addresses of chips: matching and appending add no second loop, whatever
   entries the server repeats. *)
OneLoopPerChip ==
    YamlSane /\ AddressesFit => Distinct([n \in DOMAIN sensors |-> ChipOf(sensors[n])])

(* Telemetry under an id of the server comes from the chip that the server
   assigned to it; telemetry without an id only from a sensor of config.yaml
   that has none. *)
TelemetryAssigned ==
    telemetry # Nothing /\ AddressesFit /\ IdsSane =>
        /\ telemetry.id \in {in.issued[m].id : m \in DOMAIN in.issued} \ {NoId} =>
              \E m \in DOMAIN in.issued :
                  /\ in.issued[m].id = telemetry.id
                  /\ <<in.issued[m].bus, in.issued[m].addr>> = telemetry.chip
        /\ telemetry.id = NoId =>
              \E n \in DOMAIN in.sensors : in.sensors[n].id = NoId

(* v, in tenths, is nearest to num / 65535. *)
Nearest(v, num) == 2 * (65535 * v - num) <= 65535 /\ 2 * (num - 65535 * v) <= 65535

(* The reading of two raw values, up to half a tenth. *)
Faithful(reading, rawTemp, rawHum) ==
    LET t == 1750 * rawTemp - 450 * 65535
        h == 1250 * rawHum - 60 * 65535
    IN  /\ Nearest(reading.temperature, t)
        /\ reading.humidity \in 0..1000
        /\ \/ Nearest(reading.humidity, h)
           \/ h < 0 /\ reading.humidity = 0
           \/ h > 65535000 /\ reading.humidity = 1000

(* A reading that is published is what the chip measured, to the nearest tenth
   and with the humidity within 0..100 %: a corrupted frame is never taken for
   a measurement, and both readings come from one frame. *)
ReadingFaithful ==
    telemetry # Nothing =>
        Faithful(telemetry.reading,
                 Word(telemetry.sample.temp[1], telemetry.sample.temp[2]),
                 Word(telemetry.sample.hum[1], telemetry.sample.hum[2]))

(* What the server leaves out or sets to zero never stops the program: a loop
   panics only for an interval of config.yaml that is not positive, or one of
   the server that is too long for a duration. *)
PanicExplained ==
    phase = "panic" =>
        \/ \E n \in DOMAIN in.sensors : in.sensors[n].interval <= 0
        \/ \E m \in DOMAIN in.issued :
              in.issued[m].interval # Nil /\ in.issued[m].interval > LongestInterval
=============================================================================
