--------------------------- MODULE SensingProofs ---------------------------
(***************************************************************************)
(* From the files at boot to telemetry, for any files, buses, chips and    *)
(* measurements: the properties that TLC checks of Sensing on a small      *)
(* instance hold in general.                                               *)
(***************************************************************************)
EXTENDS Sensing, OverlayProofs

-----------------------------------------------------------------------------
(* The checksum.  A shift loses nothing: bit 0 of its result tells what bit 7
   was, since the polynomial sets it. *)
LEMMA ShiftInjective ==
  ASSUME NEW a \in Bytes, NEW b \in Bytes, CrcShift(a) = CrcShift(b)
  PROVE  CrcShift(a) \in Bytes /\ a = b
<1>1. ASSUME NEW c \in Bytes
      PROVE  /\ CrcShift(c) \in Bytes
             /\ 0 \in CrcShift(c) <=> 7 \in c
             /\ \A i \in 0..6 : i \in c <=> (i + 1 \in CrcShift(c)) # (7 \in c /\ i + 1 \in {4, 5})
  <2> DEFINE up == {i + 1 : i \in c \ {7}}
  <2>1. /\ \A i \in 0..6 : i + 1 \in up <=> i \in c
        /\ 0 \notin up /\ up \subseteq Bits
    BY DEF Bytes, Bits
  <2> HIDE DEF up
  <2>2. CrcShift(c) = IF 7 \in c THEN SymDiff(up, {0, 4, 5}) ELSE up
    BY DEF CrcShift, up
  <2> QED BY <2>1, <2>2 DEF SymDiff, Bytes, Bits
<1>2. \A i \in 0..6 : i \in a <=> i \in b
  BY <1>1
<1>3. 7 \in a <=> 7 \in b
  BY <1>1
<1>4. \A i \in Bits : i \in a <=> i \in b
  BY <1>2, <1>3 DEF Bits
<1>5. a = b
  BY <1>4 DEF Bytes
<1> QED BY <1>1, <1>5

(* The xor of two bytes is a byte, and neither loses the other. *)
LEMMA XorOf ==
  ASSUME NEW a \in Bytes, NEW b \in Bytes
  PROVE  /\ SymDiff(a, b) \in Bytes
         /\ \A c \in Bytes : SymDiff(a, b) = SymDiff(a, c) => b = c
         /\ \A c \in Bytes : SymDiff(a, b) = SymDiff(c, b) => a = c
<1>1. SymDiff(a, b) \in Bytes
  BY DEF SymDiff, Bytes
<1>2. ASSUME NEW c \in Bytes, SymDiff(a, b) = SymDiff(a, c) PROVE b = c
  <2>1. \A i : i \in b <=> i \in c
    BY <1>2 DEF SymDiff
  <2> QED BY <2>1
<1>3. ASSUME NEW c \in Bytes, SymDiff(a, b) = SymDiff(c, b) PROVE a = c
  <2>1. \A i : i \in a <=> i \in c
    BY <1>3 DEF SymDiff
  <2> QED BY <2>1
<1> QED BY <1>1, <1>2, <1>3

(* Nor do the eight rounds for a byte. *)
LEMMA CrcByteOf ==
  ASSUME NEW a \in Bytes
  PROVE  CrcByte[a] \in Bytes /\ \A b \in Bytes : CrcByte[a] = CrcByte[b] => a = b
<1>1. ASSUME NEW c \in Bytes
      PROVE  FourShifts(c) \in Bytes /\ \A d \in Bytes : FourShifts(c) = FourShifts(d) => c = d
  <2>1. /\ \A x \in Bytes : CrcShift(x) \in Bytes
        /\ \A x, y \in Bytes : CrcShift(x) = CrcShift(y) => x = y
    BY ShiftInjective
  <2> QED BY <2>1 DEF FourShifts
<1>2. \A c \in Bytes : CrcByte[c] = FourShifts(FourShifts(c))
  BY DEF CrcByte
<1> QED BY <1>1, <1>2

(* Two words that differ in one byte have different checksums. *)
LEMMA Crc8Of ==
  ASSUME NEW hi \in Bytes, NEW lo \in Bytes
  PROVE  /\ Crc8(hi, lo) \in Bytes
         /\ \A b \in Bytes : Crc8(hi, lo) = Crc8(b, lo) => hi = b
         /\ \A b \in Bytes : Crc8(hi, lo) = Crc8(hi, b) => lo = b
<1>1. Bits \in Bytes
  BY DEF Bytes
<1>2. /\ \A x \in Bytes : CrcByte[x] \in Bytes
      /\ \A x, y \in Bytes : CrcByte[x] = CrcByte[y] => x = y
  BY CrcByteOf
<1>3. \A x, y \in Bytes :
         /\ SymDiff(x, y) \in Bytes
         /\ \A z \in Bytes : SymDiff(x, y) = SymDiff(x, z) => y = z
         /\ \A z \in Bytes : SymDiff(x, y) = SymDiff(z, y) => x = z
  BY XorOf
<1> DEFINE A(x) == CrcByte[SymDiff(Bits, x)]
<1>4. /\ \A x \in Bytes : A(x) \in Bytes
      /\ \A x, y \in Bytes : A(x) = A(y) => x = y
  BY <1>1, <1>2, <1>3
<1>5. \A x, y \in Bytes : Crc8(x, y) = CrcByte[SymDiff(A(x), y)]
  BY DEF Crc8
<1> HIDE DEF A
<1>6. A(hi) \in Bytes /\ SymDiff(A(hi), lo) \in Bytes
  BY <1>3, <1>4
<1>7. Crc8(hi, lo) \in Bytes
  BY <1>2, <1>5, <1>6
<1>8. ASSUME NEW b \in Bytes, Crc8(hi, lo) = Crc8(b, lo) PROVE hi = b
  <2>1. A(b) \in Bytes /\ SymDiff(A(b), lo) \in Bytes
    BY <1>3, <1>4
  <2>2. SymDiff(A(hi), lo) = SymDiff(A(b), lo)
    BY <1>2, <1>5, <1>6, <1>8, <2>1
  <2>3. A(hi) = A(b)
    BY <1>3, <1>6, <2>1, <2>2
  <2> QED BY <1>4, <2>3
<1>9. ASSUME NEW b \in Bytes, Crc8(hi, lo) = Crc8(hi, b) PROVE lo = b
  <2>1. SymDiff(A(hi), b) \in Bytes
    BY <1>3, <1>6
  <2>2. SymDiff(A(hi), lo) = SymDiff(A(hi), b)
    BY <1>2, <1>5, <1>6, <1>9, <2>1
  <2> QED BY <1>3, <1>6, <2>2
<1> QED BY <1>7, <1>8, <1>9

(* A frame in which at most one byte was damaged is refused, or it carries the
   measurement. *)
LEMMA DamageDetected ==
  ASSUME NEW th \in Bytes, NEW tl \in Bytes, NEW hh \in Bytes, NEW hl \in Bytes,
         NEW sample, sample = [temp |-> <<th, tl>>, hum |-> <<hh, hl>>],
         NEW k \in 1..6, NEW bits \in Bytes, NEW f, f = Received(sample, <<k, bits>>),
         FrameValid(f)
  PROVE  f[1] = th /\ f[2] = tl /\ f[4] = hh /\ f[5] = hl
<1> DEFINE sent == <<th, tl, Crc8(th, tl), hh, hl, Crc8(hh, hl)>>
<1>1. Crc8(th, tl) \in Bytes /\ Crc8(hh, hl) \in Bytes
  BY Crc8Of
<1>2. f = [sent EXCEPT ![k] = SymDiff(sent[k], bits)]
  <2>1. Frame(sample.temp, sample.hum) = sent
    BY DEF Frame
  <2> HIDE DEF sent
  <2>2. <<k, bits>>[1] = k /\ <<k, bits>>[2] = bits
    OBVIOUS
  <2> QED BY <2>1, <2>2 DEF Received
<1>3. sent \in [1..6 -> Bytes]
  BY <1>1
<1>4. ASSUME NEW i \in 1..6 PROVE f[i] \in Bytes /\ (i = k \/ f[i] = sent[i])
  <2> HIDE DEF sent
  <2>1. f[i] = IF i = k THEN SymDiff(sent[k], bits) ELSE sent[i]
    BY <1>2, <1>3
  <2>2. sent[k] \in Bytes /\ sent[i] \in Bytes
    BY <1>3
  <2> QED BY <2>1, <2>2, XorOf
<1>5. /\ sent[1] = th /\ sent[2] = tl /\ sent[3] = Crc8(th, tl)
      /\ sent[4] = hh /\ sent[5] = hl /\ sent[6] = Crc8(hh, hl)
  OBVIOUS
<1> HIDE DEF sent
<1>6. Crc8(f[1], f[2]) = f[3] /\ Crc8(f[4], f[5]) = f[6]
  BY DEF FrameValid
<1>7. f[1] = th /\ f[2] = tl
  <2>1. CASE k = 1
    BY <1>4, <1>5, <1>6, <2>1, Crc8Of
  <2>2. CASE k = 2
    BY <1>4, <1>5, <1>6, <2>2, Crc8Of
  <2> QED BY <1>4, <1>5, <2>1, <2>2
<1>8. f[4] = hh /\ f[5] = hl
  <2>1. CASE k = 4
    BY <1>4, <1>5, <1>6, <2>1, Crc8Of
  <2>2. CASE k = 5
    BY <1>4, <1>5, <1>6, <2>2, Crc8Of
  <2> QED BY <1>4, <1>5, <2>1, <2>2
<1> QED BY <1>7, <1>8

-----------------------------------------------------------------------------
(* The readings. *)

(* A word of the chip is a number. *)
LEMMA WordOf ==
  ASSUME NEW hi, NEW lo
  PROVE  Word(hi, lo) \in Int
<1>1. \A b, i : Bit(b, i) \in Int
  BY DEF Bit
<1> HIDE DEF Bit
<1>2. \A b : ByteValue(b) \in Int
  BY <1>1 DEF ByteValue
<1> QED BY <1>2 DEF Word

(* Rounding to a tenth is off by half of one at most. *)
LEMMA Rounded ==
  ASSUME NEW num \in Int, NEW v, v = (2 * num + 65535) \div (2 * 65535)
  PROVE  v \in Int /\ Nearest(v, num)
<1>1. v \in Int /\ 131070 * v <= 2 * num + 65535 /\ 2 * num + 65535 < 131070 * v + 131070
  <2> DEFINE x == 2 * num + 65535
  <2>1. x \in Int /\ v = x \div 131070
    OBVIOUS
  <2> HIDE DEF x
  <2>2. v \in Int /\ 131070 * v <= x /\ x < 131070 * v + 131070
    BY <2>1
  <2> QED BY <2>2 DEF x
<1> QED BY <1>1 DEF Nearest

(* The two readings are those of the raw values. *)
LEMMA ReadingOf ==
  ASSUME NEW rawTemp \in Int, NEW rawHum \in Int
  PROVE  Faithful(ToReading(rawTemp, rawHum), rawTemp, rawHum)
<1>0. PICK reading, t, h : /\ reading = ToReading(rawTemp, rawHum)
                          /\ t = 1750 * rawTemp - 450 * 65535
                          /\ h = 1250 * rawHum - 60 * 65535
  OBVIOUS
<1>1. t \in Int /\ h \in Int
  BY <1>0
<1>2. reading.temperature = (2 * t + 65535) \div (2 * 65535)
  <2>1. Tenths(175, -45, rawTemp) = (2 * t + 65535) \div (2 * 65535)
    <3>1. 10 * 175 * rawTemp + 10 * (-45) * 65535 = t
      BY <1>0
    <3> QED BY <3>1 DEF Tenths
  <2> QED BY <1>0, <2>1 DEF ToReading
<1>3. PICK v : v = (2 * h + 65535) \div (2 * 65535)
  OBVIOUS
<1>4. reading.humidity = Clamp(v, 0, 1000)
  <2>1. Tenths(125, -6, rawHum) = v
    <3>1. 10 * 125 * rawHum + 10 * (-6) * 65535 = h
      BY <1>0
    <3> QED BY <1>3, <3>1 DEF Tenths
  <2> QED BY <1>0, <2>1 DEF ToReading
<1>5. Nearest(reading.temperature, t)
  BY <1>1, <1>2, Rounded
<1>6. v \in Int /\ Nearest(v, h)
  BY <1>1, <1>3, Rounded
<1>7. reading.humidity = IF v < 0 THEN 0 ELSE IF v > 1000 THEN 1000 ELSE v
  BY <1>4 DEF Clamp
<1>8. v < 0 => h < 0
  BY <1>1, <1>6 DEF Nearest
<1>9. v > 1000 => h > 65535000
  BY <1>1, <1>6 DEF Nearest
<1>10. /\ reading.humidity \in 0..1000
       /\ \/ Nearest(reading.humidity, h)
          \/ h < 0 /\ reading.humidity = 0
          \/ h > 65535000 /\ reading.humidity = 1000
  BY <1>6, <1>7, <1>8, <1>9
<1> QED BY <1>0, <1>5, <1>10 DEF Faithful

-----------------------------------------------------------------------------
(* The inductive invariant. *)

FilesValid ==
    /\ \A n \in DOMAIN in.sensors : ValidSensor(in.sensors[n])
    /\ \A n \in DOMAIN in.devices : ValidDevice(in.devices[n])
Overlaid ==
    /\ resolved = OverlaySensors(in.sensors, in.issued)
    /\ resolvedDevices = OverlayDevices(in.devices, in.relays)
Built ==
    /\ sensors = Keep(resolved, Wanted)
    /\ \A n \in DOMAIN sensors : Opens(sensors[n])

(* How far the boot is tells what there is; nothing runs before the sensors are
   built, and a boot that ends early may end before or after the overlay. *)
BootInv ==
    /\ in \in Inputs
    /\ phase \in {"load", "resolve", "build", "run", "exit", "panic"}
    /\ phase \in {"load", "resolve"} => resolved = << >>
    /\ phase \in {"resolve", "build", "run", "panic"} => FilesValid
    /\ phase \in {"build", "run", "panic"} => Overlaid
    /\ phase = "exit" => resolved = << >> \/ Overlaid
    /\ IF phase \in {"run", "panic"} THEN Built
       ELSE sensors = << >> /\ loop = << >> /\ measured = << >> /\ telemetry = Nothing

(* The telemetry is what the n-th loop made of a frame with good checksums. *)
Published(n) ==
    LET chip == ChipOf(sensors[n]) IN
    /\ chip \in DOMAIN Samples
    /\ \E sample \in Samples[chip], flip \in Noise :
          /\ FrameValid(Received(sample, flip))
          /\ telemetry = [id |-> sensors[n].id, chip |-> chip, sample |-> sample,
                          reading |-> Decode(Received(sample, flip))]

RunInv ==
    /\ DOMAIN loop = DOMAIN sensors
    /\ \A n \in DOMAIN loop : loop[n] \in {"unborn", "trigger", "fetch", "select"}
    /\ \A n \in DOMAIN sensors : ChipOf(sensors[n]) \in DOMAIN measured
    /\ \A c \in DOMAIN measured :
          measured[c] # Nothing => c \in DOMAIN Samples /\ measured[c] \in Samples[c]
    /\ telemetry # Nothing => \E n \in DOMAIN sensors : Published(n)
    /\ phase = "panic" => \E n \in DOMAIN sensors : ~(ParseInterval(sensors[n]) > 0)

-----------------------------------------------------------------------------
(* The keys of sensors. *)

(* An address is a number, *)
LEMMA AddressIsInt ==
  ASSUME NEW x \in UInt16
  PROVE  x \in Int
BY DEF UInt16

(* and the conversion to one keeps those of chips. *)
LEMMA Truncated ==
  ASSUME NEW x \in Int
  PROVE  x % 65536 \in UInt16 /\ (x \in 8..119 => x % 65536 = x)
<1>1. x % 65536 \in UInt16
  <2>1. x % 65536 \in Int /\ 0 <= x % 65536 /\ x % 65536 < 65536
    OBVIOUS
  <2> QED BY <2>1 DEF UInt16
<1>2. x \in 8..119 => x % 65536 = x
  OBVIOUS
<1> QED BY <1>1, <1>2

(* A key of the server that is also one of config.yaml stands for one chip. *)
LEMMA KeysMatch ==
  ASSUME NEW y \in YamlEntries, NEW s \in StateEntries
  PROVE  /\ SensorStateKey(s) # << >> /\ SensorStateKey(s) = YamlSensorKey(y) =>
               /\ y.path.num # Nil /\ s.type = y.type
               /\ s.bus = y.path.num /\ s.addr = y.addr
         /\ y.path.num # Nil /\ s.type = y.type /\ s.bus = y.path.num /\ s.addr = y.addr =>
               SensorStateKey(s) # << >> /\ SensorStateKey(s) = YamlSensorKey(y)
<1>1. y.addr # Nil
  <2>1. y.addr \in UInt16
    BY DEF YamlEntries
  <2>2. y.addr \in Int
    BY <2>1, AddressIsInt
  <2> QED BY <2>2, NilAssumption
<1>2. CASE s.bus # Nil /\ s.addr # Nil
  BY <1>1, <1>2 DEF SensorStateKey, YamlSensorKey
<1>3. CASE ~(s.bus # Nil /\ s.addr # Nil)
  <2>1. SensorStateKey(s) \in {<< >>, <<"pin", s.type, s.pin>>}
    BY <1>3 DEF SensorStateKey
  <2>2. YamlSensorKey(y) \in {<< >>, <<"i2c", y.type, y.path.num, y.addr>>}
    BY DEF YamlSensorKey
  <2>3. <<"pin", s.type, s.pin>> # <<"i2c", y.type, y.path.num, y.addr>>
    OBVIOUS
  <2>4. SensorStateKey(s) # << >> => SensorStateKey(s) # YamlSensorKey(y)
    BY <2>1, <2>2, <2>3
  <2> QED BY <1>1, <1>3, <2>4
<1> QED BY <1>2, <1>3

(* What an I2C sensor of the server becomes is an entry config.yaml could hold,
   with the same key if its address is that of a chip. *)
LEMMA ConvertedOf ==
  ASSUME NEW s \in StateEntries, Representable(s), NEW y, y = ConvertStateSensor(s)
  PROVE  /\ y \in YamlEntries
         /\ y.id = s.id /\ y.type = s.type /\ y.path.num = s.bus
         /\ SensorStateKey(s) # << >>
         /\ s.addr \in 8..119 => y.addr = s.addr /\ YamlSensorKey(y) = SensorStateKey(s)
<1>1. s.bus \in Int /\ s.addr \in Int /\ s.bus # Nil /\ s.addr # Nil
  BY DEF StateEntries, Numbers, Representable
<1>2. /\ y.id = s.id /\ y.type = s.type /\ y.path = [dev |-> TRUE, num |-> s.bus]
      /\ y.addr = s.addr % 65536 /\ y.interval = ServerInterval(s)
  BY DEF ConvertStateSensor
<1>3. s.addr % 65536 \in UInt16 /\ (s.addr \in 8..119 => s.addr % 65536 = s.addr)
  BY <1>1, Truncated
<1>4. ServerInterval(s) \in Numbers
  BY DEF ServerInterval, StateEntries, Numbers
<1>5. y \in YamlEntries
  <2>1. s.id \in Ids /\ s.type \in STRING
    BY DEF StateEntries
  <2>2. [dev |-> TRUE, num |-> s.bus] \in [dev : BOOLEAN, num : Numbers]
    BY <1>1 DEF Numbers
  <2>3. y = [id |-> s.id, type |-> s.type, path |-> [dev |-> TRUE, num |-> s.bus],
             addr |-> s.addr % 65536, interval |-> ServerInterval(s)]
    BY DEF ConvertStateSensor
  <2> QED BY <1>3, <1>4, <2>1, <2>2, <2>3 DEF YamlEntries
<1>6. SensorStateKey(s) = <<"i2c", s.type, s.bus, s.addr>>
  BY <1>1 DEF SensorStateKey
<1>7. YamlSensorKey(y) = <<"i2c", s.type, s.bus, s.addr % 65536>>
  BY <1>1, <1>2 DEF YamlSensorKey
<1>8. y.path.num = s.bus /\ SensorStateKey(s) # << >>
  BY <1>2, <1>6
<1>9. ASSUME s.addr \in 8..119 PROVE y.addr = s.addr /\ YamlSensorKey(y) = SensorStateKey(s)
  <2>1. s.addr % 65536 = s.addr
    BY <1>3, <1>9
  <2> QED BY <1>2, <1>6, <1>7, <2>1
<1> QED BY <1>2, <1>5, <1>8, <1>9

-----------------------------------------------------------------------------
(* The resolved sensors. *)

(* What the decoders delivered. *)
LEMMA FilesOf ==
  ASSUME in \in Inputs
  PROVE  /\ Len(in.sensors) \in Nat /\ DOMAIN in.sensors = 1..Len(in.sensors)
         /\ Len(in.issued) \in Nat /\ DOMAIN in.issued = 1..Len(in.issued)
         /\ Len(in.devices) \in Nat /\ DOMAIN in.devices = 1..Len(in.devices)
         /\ Len(in.relays) \in Nat /\ DOMAIN in.relays = 1..Len(in.relays)
         /\ \A n \in DOMAIN in.sensors : in.sensors[n] \in YamlEntries
         /\ \A m \in DOMAIN in.issued : in.issued[m] \in StateEntries
         /\ \A n \in DOMAIN in.devices : in.devices[n] \in DeviceEntries
         /\ \A m \in DOMAIN in.relays : in.relays[m] \in DeviceEntries
<1>1. /\ in.sensors \in Seq(YamlEntries) /\ in.issued \in Seq(StateEntries)
      /\ in.devices \in Seq(DeviceEntries) /\ in.relays \in Seq(DeviceEntries)
  BY InputsAssumption
<1>2. ASSUME NEW S, NEW s \in Seq(S)
      PROVE  Len(s) \in Nat /\ DOMAIN s = 1..Len(s) /\ \A n \in DOMAIN s : s[n] \in S
  OBVIOUS
<1> QED BY <1>1, <1>2

(* What the server names. *)
LEMMA IssuedOf ==
  ASSUME in \in Inputs
  PROVE  /\ Issued \subseteq DOMAIN in.issued
         /\ \A m \in DOMAIN in.issued :
               m \in Issued <=> in.issued[m].id # NoId /\ SensorStateKey(in.issued[m]) # << >>
         /\ \A m \in DOMAIN in.issued : StateKeys(in.issued)[m] = SensorStateKey(in.issued[m])
         /\ \A n \in DOMAIN in.sensors : YamlKeys(in.sensors)[n] = YamlSensorKey(in.sensors[n])
BY DEF Issued, Named, StateKeys, YamlKeys

(* The three kinds of entries: one of config.yaml that the server does not name,
   one that has the id of the server's entry w, and one made of w. *)
Unnamed(p) ==
    /\ p \in DOMAIN in.sensors /\ resolved[p] = in.sensors[p]
    /\ \A m \in Issued : SensorStateKey(in.issued[m]) # YamlSensorKey(in.sensors[p])
NamedBy(p, w) ==
    /\ p \in DOMAIN in.sensors /\ w \in Issued
    /\ SensorStateKey(in.issued[w]) = YamlSensorKey(in.sensors[p])
    /\ resolved[p] = [in.sensors[p] EXCEPT !.id = in.issued[w].id]
MadeOf(p, w) ==
    /\ p \notin DOMAIN in.sensors /\ w \in Drivable
    /\ resolved[p] = ConvertStateSensor(in.issued[w])

Merged(T, winner) ==
    IsMerge(resolved, T, winner, Len(in.sensors), in.sensors, YamlKeys(in.sensors),
            in.issued, StateKeys(in.issued), ConvertedSensors(in.issued), Issued)

(* The overlay is a merge. *)
LEMMA OverlayMerges ==
  ASSUME in \in Inputs, Overlaid
  PROVE  \E T \in Nat : \E winner \in [(Len(in.sensors) + 1)..T -> Issued] : Merged(T, winner)
<1>1. DOMAIN YamlKeys(in.sensors) = DOMAIN in.sensors
      /\ DOMAIN StateKeys(in.issued) = DOMAIN in.issued
  BY DEF YamlKeys, StateKeys
<1>2. resolved = Merge(in.sensors, YamlKeys(in.sensors), in.issued, StateKeys(in.issued),
                       ConvertedSensors(in.issued))
  BY DEF Overlaid, OverlaySensors
<1> QED BY <1>1, <1>2, FilesOf, MergeOf DEF Merged, Issued

(* Each entry is of one of these kinds. *)
LEMMA EntryOf ==
  ASSUME in \in Inputs, NEW T \in Nat,
         NEW winner \in [(Len(in.sensors) + 1)..T -> Issued], Merged(T, winner), NEW p \in 1..T
  PROVE  \/ Unnamed(p)
         \/ \E w \in Issued : NamedBy(p, w)
         \/ p \in (Len(in.sensors) + 1)..T /\ MadeOf(p, winner[p])
<1> DEFINE K == Len(in.sensors)
<1>1. K \in Nat /\ DOMAIN in.sensors = 1..K /\ Issued \subseteq DOMAIN in.issued
  BY FilesOf, IssuedOf
<1>2. /\ \A m \in Issued : StateKeys(in.issued)[m] = SensorStateKey(in.issued[m])
      /\ \A n \in 1..K : YamlKeys(in.sensors)[n] = YamlSensorKey(in.sensors[n])
  BY <1>1, IssuedOf
<1> HIDE DEF K
<1>3. CASE p \in 1..K
  <2>1. \/ resolved[p] = in.sensors[p]
           /\ \A m \in Issued : StateKeys(in.issued)[m] # YamlKeys(in.sensors)[p]
        \/ \E w \in Issued : /\ StateKeys(in.issued)[w] = YamlKeys(in.sensors)[p]
                             /\ resolved[p] = [in.sensors[p] EXCEPT !.id = in.issued[w].id]
    BY <1>3 DEF Merged, IsMerge, K
  <2> QED BY <1>1, <1>2, <1>3, <2>1 DEF Unnamed, NamedBy
<1>4. CASE p \in (K + 1)..T
  <2>1. PICK w \in Issued : w = winner[p]
    BY <1>4 DEF K
  <2>2. /\ w \in DOMAIN ConvertedSensors(in.issued)
        /\ resolved[p] = ConvertedSensors(in.issued)[w]
    BY <1>4, <2>1 DEF Merged, IsMerge, K
  <2>3. Representable(in.issued[w]) /\ resolved[p] = ConvertStateSensor(in.issued[w])
    BY <2>2 DEF ConvertedSensors
  <2>4. p \notin 1..K
    BY <1>1, <1>4
  <2>5. MadeOf(p, w)
    BY <1>1, <2>1, <2>3, <2>4 DEF MadeOf, Drivable
  <2> QED BY <1>4, <2>1, <2>5 DEF K
<1>5. p \in 1..K \/ p \in (K + 1)..T
  BY <1>1
<1> QED BY <1>3, <1>4, <1>5

(* What each kind has from where. *)
LEMMA FieldsOf ==
  ASSUME in \in Inputs, NEW p
  PROVE  /\ Unnamed(p) => resolved[p] \in YamlEntries
         /\ \A w \in Issued : NamedBy(p, w) =>
               /\ resolved[p] \in YamlEntries
               /\ resolved[p].id = in.issued[w].id
               /\ resolved[p].type = in.sensors[p].type
               /\ ChipOf(resolved[p]) = ChipOf(in.sensors[p])
               /\ resolved[p].path = in.sensors[p].path
               /\ resolved[p].addr = in.sensors[p].addr
               /\ resolved[p].interval = in.sensors[p].interval
         /\ \A w \in Issued : MadeOf(p, w) =>
               /\ resolved[p] \in YamlEntries
               /\ resolved[p].id = in.issued[w].id
               /\ resolved[p].type = in.issued[w].type
               /\ resolved[p].path.num = in.issued[w].bus
               /\ in.issued[w].addr \in 8..119 =>
                     /\ resolved[p].addr = in.issued[w].addr
                     /\ YamlSensorKey(resolved[p]) = SensorStateKey(in.issued[w])
<1>1. Unnamed(p) => resolved[p] \in YamlEntries
  BY FilesOf DEF Unnamed
<1>2. ASSUME NEW w \in Issued, NamedBy(p, w)
      PROVE  /\ resolved[p] \in YamlEntries
             /\ resolved[p].id = in.issued[w].id
             /\ resolved[p].type = in.sensors[p].type
             /\ ChipOf(resolved[p]) = ChipOf(in.sensors[p])
             /\ resolved[p].path = in.sensors[p].path
             /\ resolved[p].addr = in.sensors[p].addr
             /\ resolved[p].interval = in.sensors[p].interval
  <2>1. PICK y \in YamlEntries : y = in.sensors[p]
    BY <1>2, FilesOf DEF NamedBy
  <2>2. in.issued[w] \in StateEntries
    BY FilesOf, IssuedOf
  <2>3. PICK id \in Ids : id = in.issued[w].id
    BY <2>2 DEF StateEntries
  <2>4. resolved[p] = [y EXCEPT !.id = id]
    BY <1>2, <2>1, <2>3 DEF NamedBy
  <2>5. /\ [y EXCEPT !.id = id] \in YamlEntries
        /\ [y EXCEPT !.id = id].id = id
        /\ [y EXCEPT !.id = id].type = y.type
        /\ [y EXCEPT !.id = id].path = y.path
        /\ [y EXCEPT !.id = id].addr = y.addr
        /\ [y EXCEPT !.id = id].interval = y.interval
    BY DEF YamlEntries
  <2>6. ChipOf(resolved[p]) = ChipOf(y)
    BY <2>4, <2>5 DEF ChipOf
  <2> QED BY <2>1, <2>3, <2>4, <2>5, <2>6
<1>3. ASSUME NEW w \in Issued, MadeOf(p, w)
      PROVE  /\ resolved[p] \in YamlEntries
             /\ resolved[p].id = in.issued[w].id
             /\ resolved[p].type = in.issued[w].type
             /\ resolved[p].path.num = in.issued[w].bus
             /\ in.issued[w].addr \in 8..119 =>
                   /\ resolved[p].addr = in.issued[w].addr
                   /\ YamlSensorKey(resolved[p]) = SensorStateKey(in.issued[w])
  <2>1. PICK s \in StateEntries : s = in.issued[w]
    BY FilesOf, IssuedOf
  <2>2. Representable(s) /\ resolved[p] = ConvertStateSensor(s)
    BY <1>3, <2>1 DEF MadeOf, Drivable
  <2> QED BY <2>1, <2>2, ConvertedOf
<1> QED BY <1>1, <1>2, <1>3

(* The key that brought in the entry at place p. *)
KeyAt(p, winner) ==
    EntryKey(p, winner, Len(in.sensors), YamlKeys(in.sensors), StateKeys(in.issued))

(* It is that of the file the entry comes from. *)
LEMMA KeyAtOf ==
  ASSUME in \in Inputs, NEW p \in Nat, p >= 1, NEW winner
  PROVE  /\ p \in DOMAIN in.sensors => KeyAt(p, winner) = YamlSensorKey(in.sensors[p])
         /\ p \notin DOMAIN in.sensors /\ winner[p] \in DOMAIN in.issued =>
               KeyAt(p, winner) = SensorStateKey(in.issued[winner[p]])
<1>1. Len(in.sensors) \in Nat /\ DOMAIN in.sensors = 1..Len(in.sensors)
  BY FilesOf
<1>2. CASE p <= Len(in.sensors)
  <2>1. p \in DOMAIN in.sensors
    BY <1>1, <1>2
  <2>2. KeyAt(p, winner) = YamlKeys(in.sensors)[p]
    BY <1>2 DEF KeyAt, EntryKey
  <2> QED BY <2>1, <2>2, IssuedOf
<1>3. CASE ~(p <= Len(in.sensors))
  <2>1. p \notin DOMAIN in.sensors
    BY <1>1, <1>3
  <2>2. KeyAt(p, winner) = StateKeys(in.issued)[winner[p]]
    BY <1>3 DEF KeyAt, EntryKey
  <2> QED BY <2>1, <2>2, IssuedOf
<1> QED BY <1>2, <1>3

(* If config.yaml names no chip twice, no key has two places. *)
LEMMA OnePlace ==
  ASSUME in \in Inputs, YamlSane, NEW T \in Nat, NEW winner, Merged(T, winner),
         NEW p \in 1..T, NEW q \in 1..T,
         KeyAt(p, winner) = KeyAt(q, winner), KeyAt(p, winner) # << >>
  PROVE  p = q
<1> DEFINE K == Len(in.sensors)
           localKeys == YamlKeys(in.sensors)
<1>1. K \in Nat /\ DOMAIN in.sensors = 1..K
  BY FilesOf
<1>2. ASSUME NEW a \in 1..K, NEW b \in 1..K, localKeys[a] # << >>, localKeys[a] = localKeys[b]
      PROVE  a = b
  <2>1. YamlSensorKey(in.sensors[a]) # << >>
        /\ YamlSensorKey(in.sensors[a]) = YamlSensorKey(in.sensors[b])
    BY <1>1, <1>2, IssuedOf
  <2>2. ChipOf(in.sensors[a]) = ChipOf(in.sensors[b])
    BY <2>1 DEF YamlSensorKey, ChipOf
  <2> QED BY <1>1, <2>2 DEF YamlSane, Distinct
<1>3. \A a, b \in 1..K : localKeys[a] = KeyAt(p, winner) /\ localKeys[a] = localKeys[b] => a = b
  BY <1>2
<1> HIDE DEF K, localKeys
<1> QED BY <1>1, <1>3, EntriesDistinct DEF Merged, KeyAt, K, localKeys

-----------------------------------------------------------------------------
(* What the properties of the overlay say of the files, once resolved. *)

(* WiringKept. *)
LEMMA OverlayKeepsWiring ==
  ASSUME in \in Inputs, Overlaid, NEW n \in DOMAIN in.sensors
  PROVE  Wired(in.sensors[n], resolved[n])
<1>0. PICK y, names : y = in.sensors[n] /\ names = NamesFor(y)
  OBVIOUS
<1>1. PICK T \in Nat : \E winner \in [(Len(in.sensors) + 1)..T -> Issued] : Merged(T, winner)
  BY OverlayMerges
<1>2. PICK winner \in [(Len(in.sensors) + 1)..T -> Issued] : Merged(T, winner)
  BY <1>1
<1>3. n \in 1..T
  <2>1. Len(in.sensors) <= T
    BY <1>2 DEF Merged, IsMerge
  <2> QED BY <2>1, FilesOf
<1>4. \/ Unnamed(n)
      \/ \E w \in Issued : NamedBy(n, w)
      \/ MadeOf(n, winner[n])
  BY <1>2, <1>3, EntryOf
<1>5. y \in YamlEntries /\ \A m \in DOMAIN in.issued : in.issued[m] \in StateEntries
  BY <1>0, FilesOf
<1>6. ASSUME y.path.num # Nil, NEW m \in names
      PROVE  m \in Issued /\ SensorStateKey(in.issued[m]) = YamlSensorKey(y)
  <2>1. PICK s \in StateEntries : s = in.issued[m]
    BY <1>0, <1>5 DEF NamesFor
  <2>2. s.type = y.type /\ s.bus = y.path.num /\ s.addr = y.addr /\ s.id # NoId
    BY <1>0, <2>1 DEF NamesFor, ChipOf
  <2>3. SensorStateKey(s) # << >> /\ SensorStateKey(s) = YamlSensorKey(y)
    BY <1>5, <1>6, <2>2, KeysMatch
  <2> QED BY <1>0, <2>1, <2>2, <2>3, IssuedOf DEF NamesFor
<1>7. ASSUME NEW m \in Issued, SensorStateKey(in.issued[m]) = YamlSensorKey(y)
      PROVE  y.path.num # Nil /\ m \in names
  <2>1. m \in DOMAIN in.issued /\ in.issued[m].id # NoId /\ SensorStateKey(in.issued[m]) # << >>
    BY IssuedOf
  <2>2. PICK s \in StateEntries : s = in.issued[m]
    BY <1>5, <2>1
  <2>3. y.path.num # Nil /\ s.type = y.type /\ s.bus = y.path.num /\ s.addr = y.addr
    BY <1>5, <1>7, <2>1, <2>2, KeysMatch
  <2> QED BY <1>0, <2>1, <2>2, <2>3 DEF NamesFor, ChipOf
<1>8. CASE Unnamed(n)
  BY <1>0, <1>6, <1>8 DEF Unnamed, Wired
<1>9. CASE \E w \in Issued : NamedBy(n, w)
  BY <1>0, <1>7, <1>9 DEF NamedBy, Wired
<1>10. ~MadeOf(n, winner[n])
  BY DEF MadeOf
<1> QED BY <1>4, <1>8, <1>9, <1>10

(* The key of an entry that can be driven is that of a bus and an address. *)
LEMMA DrivableKeys ==
  ASSUME in \in Inputs, NEW m \in Drivable, NEW w \in Issued,
         SensorStateKey(in.issued[w]) = SensorStateKey(in.issued[m])
  PROVE  w \in Drivable
<1>1. SensorStateKey(in.issued[m]) =
         <<"i2c", in.issued[m].type, in.issued[m].bus, in.issued[m].addr>>
  BY DEF Drivable, Representable, SensorStateKey
<1>2. ASSUME ~Representable(in.issued[w])
      PROVE  SensorStateKey(in.issued[w]) \in
                {<< >>, <<"pin", in.issued[w].type, in.issued[w].pin>>}
  BY <1>2 DEF Representable, SensorStateKey
<1>3. Representable(in.issued[w])
  BY <1>1, <1>2
<1> QED BY <1>3 DEF Drivable

(* ServerSensorsDriven. *)
LEMMA OverlayDrives ==
  ASSUME in \in Inputs, Overlaid, YamlSane, IdsSane, NEW m \in Drivable
  PROVE  \E last \in Issued, n \in DOMAIN resolved :
            LET Same(i) == SensorStateKey(in.issued[i]) = SensorStateKey(in.issued[m]) IN
            /\ Same(last)
            /\ \A i \in Issued : Same(i) => i <= last
            /\ resolved[n].id = in.issued[last].id
            /\ \A o \in DOMAIN resolved : resolved[o].id = in.issued[last].id => o = n
<1> DEFINE keys == StateKeys(in.issued)
           K == Len(in.sensors)
<1>1. PICK T \in Nat : \E winner \in [(K + 1)..T -> Issued] : Merged(T, winner)
  BY OverlayMerges
<1>2. PICK winner \in [(K + 1)..T -> Issued] : Merged(T, winner)
  BY <1>1
<1>3. /\ K \in Nat /\ DOMAIN in.sensors = 1..K
      /\ Len(in.issued) \in Nat /\ Issued \subseteq 1..Len(in.issued)
      /\ \A i \in Issued : keys[i] = SensorStateKey(in.issued[i])
      /\ \A i \in Issued : in.issued[i].id # NoId /\ keys[i] # << >>
  BY FilesOf, IssuedOf
<1>4. m \in Issued
  BY DEF Drivable
<1> HIDE DEF keys
<1>5. PICK w \in Issued : keys[w] = keys[m] /\ Counts(Issued, keys, w)
  BY <1>3, <1>4, SomeCounts
<1>6. w \in Drivable
  BY <1>3, <1>4, <1>5, DrivableKeys
<1>7. w \in DOMAIN ConvertedSensors(in.issued)
      /\ ConvertedSensors(in.issued)[w] = ConvertStateSensor(in.issued[w])
  BY <1>3, <1>6 DEF ConvertedSensors, Drivable
<1>8. DOMAIN resolved = 1..T
  BY <1>2 DEF Merged, IsMerge
<1>9. PICK n \in 1..T :
         /\ KeyAt(n, winner) = keys[w]
         /\ \/ n \in 1..K /\ resolved[n] = [in.sensors[n] EXCEPT !.id = in.issued[w].id]
            \/ resolved[n] = ConvertStateSensor(in.issued[w])
  <2>a. IsMerge(resolved, T, winner, K, in.sensors, YamlKeys(in.sensors), in.issued, keys,
                ConvertedSensors(in.issued), Issued)
    BY <1>2 DEF Merged, keys
  <2>b. PICK N \in Nat : Issued \in SUBSET (1..N)
    BY <1>3
  <2>c. K \in Nat
    BY <1>3
  <2>d. w \in DOMAIN ConvertedSensors(in.issued) /\ Counts(Issued, keys, w)
    BY <1>5, <1>7
  <2> HIDE DEF K
  <2>1. PICK p \in 1..T :
           IsPresent(p, w, resolved, winner, K, in.sensors, YamlKeys(in.sensors), in.issued,
                     keys, ConvertedSensors(in.issued))
    BY <2>a, <2>b, <2>c, <2>d, EntryPresent
  <2> QED BY <1>7, <2>1 DEF IsPresent, KeyAt, keys, K
<1>10. resolved[n].id = in.issued[w].id
  <2>1. CASE n \in 1..K /\ resolved[n] = [in.sensors[n] EXCEPT !.id = in.issued[w].id]
    <3>1. PICK y \in YamlEntries : y = in.sensors[n]
      BY <1>3, <2>1, FilesOf
    <3>2. [y EXCEPT !.id = in.issued[w].id].id = in.issued[w].id
      BY DEF YamlEntries
    <3> QED BY <2>1, <3>1, <3>2
  <2>2. CASE resolved[n] = ConvertStateSensor(in.issued[w])
    BY <2>2 DEF ConvertStateSensor
  <2> QED BY <1>9, <2>1, <2>2
<1>11. ASSUME NEW o \in 1..T, resolved[o].id = in.issued[w].id PROVE o = n
  <2>0. w \in DOMAIN in.issued /\ in.issued[w].id # NoId
    BY <1>3, FilesOf
  <2>1. KeyAt(o, winner) = keys[w]
    <3>1. CASE Unnamed(o)
      <4>1. o \in DOMAIN in.sensors /\ in.sensors[o].id = in.issued[w].id
        BY <1>11, <3>1 DEF Unnamed
      <4>2. YamlSensorKey(in.sensors[o]) = SensorStateKey(in.issued[w])
        BY <2>0, <4>1 DEF IdsSane
      <4> QED BY <3>1, <4>2 DEF Unnamed
    <3>2. ASSUME NEW v \in Issued, NamedBy(o, v) PROVE KeyAt(o, winner) = keys[w]
      <4>1. in.issued[v].id = in.issued[w].id
        BY <1>11, <3>2, FieldsOf
      <4>2. SensorStateKey(in.issued[v]) = SensorStateKey(in.issued[w])
        BY <1>3, <2>0, <4>1, IssuedOf DEF IdsSane
      <4>3. KeyAt(o, winner) = YamlSensorKey(in.sensors[o])
        BY <3>2, KeyAtOf DEF NamedBy
      <4> QED BY <1>3, <3>2, <4>2, <4>3 DEF NamedBy
    <3>3. CASE o \in (K + 1)..T /\ MadeOf(o, winner[o])
      <4>1. PICK v \in Issued : v = winner[o]
        BY <3>3
      <4>2. in.issued[v].id = in.issued[w].id
        BY <1>11, <3>3, <4>1, FieldsOf
      <4>3. SensorStateKey(in.issued[v]) = SensorStateKey(in.issued[w])
        BY <1>3, <2>0, <4>2, IssuedOf DEF IdsSane
      <4>4. KeyAt(o, winner) = SensorStateKey(in.issued[v])
        BY <3>3, <4>1, KeyAtOf, IssuedOf DEF MadeOf
      <4> QED BY <1>3, <4>3, <4>4
    <3> QED BY <1>2, <3>1, <3>2, <3>3, EntryOf
  <2>2. keys[w] # << >>
    BY <1>3
  <2> QED BY <1>2, <1>9, <2>1, <2>2, OnePlace
<1>12. \A i \in Issued : SensorStateKey(in.issued[i]) = SensorStateKey(in.issued[m]) => i <= w
  BY <1>3, <1>4, <1>5 DEF Counts
<1>13. SensorStateKey(in.issued[w]) = SensorStateKey(in.issued[m])
  BY <1>3, <1>4, <1>5
<1>14. n \in DOMAIN resolved
  BY <1>8
<1> WITNESS w \in Issued, n \in DOMAIN resolved
<1> QED BY <1>8, <1>10, <1>11, <1>12, <1>13

-----------------------------------------------------------------------------
(* The relays, whose own fields are their key: what the merge makes of those of
   config.yaml and those that the server names. *)
DevicesMatched(named) ==
    /\ Distinct(DeviceKeys(resolvedDevices))
    /\ \A m \in named :
          \E n \in DOMAIN resolvedDevices :
             DeviceKey(resolvedDevices[n]) = DeviceKey(in.relays[m])
    /\ \A l \in DOMAIN in.devices :
          \E n \in DOMAIN resolvedDevices :
             DeviceKey(resolvedDevices[n]) = DeviceKey(in.devices[l])
    /\ \A n \in DOMAIN resolvedDevices :
          \/ \E o \in named : /\ DeviceKey(in.relays[o]) = DeviceKey(resolvedDevices[n])
                              /\ resolvedDevices[n].id = in.relays[o].id
          \/ /\ \E l \in DOMAIN in.devices : resolvedDevices[n] = in.devices[l]
             /\ \A m \in named : DeviceKey(in.relays[m]) # DeviceKey(resolvedDevices[n])
    /\ \A n \in DOMAIN resolvedDevices :
          \/ \E l \in DOMAIN in.devices :
                DeviceKey(resolvedDevices[n]) = DeviceKey(in.devices[l])
          \/ \E m \in named : DeviceKey(resolvedDevices[n]) = DeviceKey(in.relays[m])

(* The overlay gives every relay of either side one entry. *)
LEMMA DevicesOverlaid ==
  ASSUME in \in Inputs, Overlaid, Distinct(DeviceKeys(in.devices)),
         NEW named, named = {m \in DOMAIN in.relays : in.relays[m].id # NoId}
  PROVE  DevicesMatched(named)
<1> DEFINE K == Len(in.devices)
           N == Len(in.relays)
           localKeys == DeviceKeys(in.devices)
           keys == DeviceKeys(in.relays)
           Key(n, winner) == EntryKey(n, winner, K, localKeys, keys)
<1>1. /\ K \in Nat /\ DOMAIN in.devices = 1..K /\ DOMAIN localKeys = 1..K
      /\ N \in Nat /\ DOMAIN in.relays = 1..N /\ DOMAIN keys = 1..N
      /\ \A n \in 1..K : in.devices[n] \in DeviceEntries /\ localKeys[n] = DeviceKey(in.devices[n])
      /\ \A m \in 1..N : in.relays[m] \in DeviceEntries /\ keys[m] = DeviceKey(in.relays[m])
  BY FilesOf DEF DeviceKeys
<1>2. named = Named(in.relays, keys)
  <2>1. \A m \in 1..N : keys[m] # << >>
    BY <1>1 DEF DeviceKey
  <2> QED BY <1>1, <2>1 DEF Named
<1>3. named \in SUBSET (1..N)
  BY <1>1
<1>4. resolvedDevices = Merge(in.devices, localKeys, in.relays, keys, in.relays)
  BY DEF Overlaid, OverlayDevices
<1>5. \A a, b \in 1..K : localKeys[a] = localKeys[b] => a = b
  BY <1>1 DEF Distinct
<1> HIDE DEF K, N, localKeys, keys
<1>6. PICK T \in Nat : \E winner \in [(K + 1)..T -> named] :
         IsMerge(resolvedDevices, T, winner, K, in.devices, localKeys, in.relays, keys,
                 in.relays, named)
  BY <1>1, <1>2, <1>4, MergeOf
<1>7. PICK winner \in [(K + 1)..T -> named] :
         IsMerge(resolvedDevices, T, winner, K, in.devices, localKeys, in.relays, keys,
                 in.relays, named)
  BY <1>6
<1>8. K <= T /\ DOMAIN resolvedDevices = 1..T
  BY <1>7 DEF IsMerge
<1>9. ASSUME NEW n \in 1..T
      PROVE  /\ DeviceKey(resolvedDevices[n]) = Key(n, winner)
             /\ \/ \E o \in named : /\ keys[o] = Key(n, winner)
                                     /\ resolvedDevices[n].id = in.relays[o].id
                \/ /\ \E l \in 1..K : resolvedDevices[n] = in.devices[l]
                   /\ \A m \in named : keys[m] # Key(n, winner)
             /\ \/ \E l \in 1..K : Key(n, winner) = localKeys[l]
                \/ \E m \in named : Key(n, winner) = keys[m]
  <2>1. CASE n \in 1..K
    <3>1. Key(n, winner) = localKeys[n]
      BY <1>1, <2>1 DEF EntryKey
    <3>2. PICK d \in DeviceEntries : d = in.devices[n]
      BY <1>1, <2>1
    <3>3. CASE resolvedDevices[n] = d /\ \A m \in named : keys[m] # localKeys[n]
      BY <1>1, <2>1, <3>1, <3>2, <3>3
    <3>4. ASSUME NEW w \in named, keys[w] = localKeys[n],
                 resolvedDevices[n] = [d EXCEPT !.id = in.relays[w].id]
          PROVE  /\ DeviceKey(resolvedDevices[n]) = localKeys[n]
                 /\ resolvedDevices[n].id = in.relays[w].id
      <4>1. /\ [d EXCEPT !.id = in.relays[w].id].type = d.type
            /\ [d EXCEPT !.id = in.relays[w].id].pin = d.pin
            /\ [d EXCEPT !.id = in.relays[w].id].id = in.relays[w].id
        BY DEF DeviceEntries
      <4> QED BY <1>1, <2>1, <3>2, <3>4, <4>1 DEF DeviceKey
    <3>5. \/ resolvedDevices[n] = d /\ \A m \in named : keys[m] # localKeys[n]
          \/ \E w \in named : /\ keys[w] = localKeys[n]
                              /\ resolvedDevices[n] = [d EXCEPT !.id = in.relays[w].id]
      <4>1. \/ resolvedDevices[n] = in.devices[n] /\ \A m \in named : keys[m] # localKeys[n]
            \/ \E w \in named :
                  /\ Counts(named, keys, w)
                  /\ keys[w] = localKeys[n]
                  /\ resolvedDevices[n] = [in.devices[n] EXCEPT !.id = in.relays[w].id]
        BY <1>7, <2>1 DEF IsMerge
      <4> QED BY <3>2, <4>1
    <3> QED BY <3>1, <3>3, <3>4, <3>5
  <2>2. CASE n \in (K + 1)..T
    <3>1. PICK w \in named : w = winner[n]
      BY <1>7, <2>2
    <3>2. resolvedDevices[n] = in.relays[w]
      BY <1>7, <2>2, <3>1 DEF IsMerge
    <3>3. Key(n, winner) = keys[w]
      BY <1>1, <2>2, <3>1 DEF EntryKey
    <3> QED BY <1>1, <1>3, <3>2, <3>3
  <2> QED BY <1>1, <2>1, <2>2
<1>10. ASSUME NEW a \in 1..T, NEW b \in 1..T, Key(a, winner) = Key(b, winner) PROVE a = b
  BY <1>1, <1>5, <1>7, <1>10, EntriesDistinct
<1>11. ASSUME NEW m \in named PROVE \E n \in 1..T : Key(n, winner) = keys[m]
  <2>1. PICK w \in named : keys[w] = keys[m] /\ Counts(named, keys, w)
    BY <1>1, <1>3, SomeCounts
  <2>2. w \in DOMAIN in.relays
    BY <1>1, <1>3
  <2>3. PICK p \in 1..T : IsPresent(p, w, resolvedDevices, winner, K, in.devices, localKeys,
                                    in.relays, keys, in.relays)
    BY <1>1, <1>3, <1>7, <2>1, <2>2, EntryPresent
  <2> QED BY <2>1, <2>3 DEF IsPresent
<1>12. ASSUME NEW l \in 1..K PROVE l \in 1..T /\ Key(l, winner) = localKeys[l]
  BY <1>1, <1>8 DEF EntryKey
<1> HIDE DEF Key
<1>13. Distinct(DeviceKeys(resolvedDevices))
  BY <1>8, <1>9, <1>10 DEF Distinct, DeviceKeys
<1>14. \A m \in named : DeviceKey(in.relays[m]) = keys[m]
  BY <1>1, <1>3
<1>15. ASSUME NEW m \in named
       PROVE \E n \in DOMAIN resolvedDevices :
                DeviceKey(resolvedDevices[n]) = DeviceKey(in.relays[m])
  <2>1. PICK n \in 1..T : Key(n, winner) = keys[m]
    BY <1>11
  <2>2. DeviceKey(resolvedDevices[n]) = Key(n, winner)
    BY <1>9
  <2>3. DeviceKey(resolvedDevices[n]) = DeviceKey(in.relays[m])
    BY <1>14, <2>1, <2>2
  <2> QED BY <1>8, <2>3
<1>16. ASSUME NEW l \in DOMAIN in.devices
       PROVE \E n \in DOMAIN resolvedDevices :
                DeviceKey(resolvedDevices[n]) = DeviceKey(in.devices[l])
  <2>1. l \in 1..T /\ DeviceKey(resolvedDevices[l]) = localKeys[l]
    BY <1>1, <1>9, <1>12
  <2> QED BY <1>1, <1>8, <2>1
<1>17. ASSUME NEW n \in DOMAIN resolvedDevices
       PROVE /\ \/ \E o \in named : /\ DeviceKey(in.relays[o]) = DeviceKey(resolvedDevices[n])
                                     /\ resolvedDevices[n].id = in.relays[o].id
                \/ /\ \E l \in DOMAIN in.devices : resolvedDevices[n] = in.devices[l]
                   /\ \A m \in named : DeviceKey(in.relays[m]) # DeviceKey(resolvedDevices[n])
             /\ \/ \E l \in DOMAIN in.devices :
                      DeviceKey(resolvedDevices[n]) = DeviceKey(in.devices[l])
                \/ \E m \in named : DeviceKey(resolvedDevices[n]) = DeviceKey(in.relays[m])
  <2>1. n \in 1..T
    BY <1>8
  <2>2. DeviceKey(resolvedDevices[n]) = Key(n, winner)
    BY <1>9, <2>1
  <2>3. \/ \E o \in named : /\ keys[o] = Key(n, winner)
                            /\ resolvedDevices[n].id = in.relays[o].id
        \/ /\ \E l \in 1..K : resolvedDevices[n] = in.devices[l]
           /\ \A m \in named : keys[m] # Key(n, winner)
    BY <1>9, <2>1
  <2>4. \/ \E l \in 1..K : Key(n, winner) = localKeys[l]
        \/ \E m \in named : Key(n, winner) = keys[m]
    BY <1>9, <2>1
  <2>5. \A l \in 1..K : l \in DOMAIN in.devices /\ localKeys[l] = DeviceKey(in.devices[l])
    BY <1>1
  <2>6. \/ \E o \in named : /\ DeviceKey(in.relays[o]) = DeviceKey(resolvedDevices[n])
                            /\ resolvedDevices[n].id = in.relays[o].id
        \/ /\ \E l \in DOMAIN in.devices : resolvedDevices[n] = in.devices[l]
           /\ \A m \in named : DeviceKey(in.relays[m]) # DeviceKey(resolvedDevices[n])
    <3>1. CASE \E o \in named : /\ keys[o] = Key(n, winner)
                                /\ resolvedDevices[n].id = in.relays[o].id
      BY <1>14, <2>2, <3>1
    <3>2. CASE /\ \E l \in 1..K : resolvedDevices[n] = in.devices[l]
               /\ \A m \in named : keys[m] # Key(n, winner)
      BY <1>14, <2>2, <2>5, <3>2
    <3> QED BY <2>3, <3>1, <3>2
  <2>7. \/ \E l \in DOMAIN in.devices :
              DeviceKey(resolvedDevices[n]) = DeviceKey(in.devices[l])
        \/ \E m \in named : DeviceKey(resolvedDevices[n]) = DeviceKey(in.relays[m])
    <3>1. CASE \E l \in 1..K : Key(n, winner) = localKeys[l]
      BY <2>2, <2>5, <3>1
    <3>2. CASE \E m \in named : Key(n, winner) = keys[m]
      BY <1>14, <2>2, <3>2
    <3> QED BY <2>4, <3>1, <3>2
  <2> QED BY <2>6, <2>7
<1> QED BY <1>13, <1>15, <1>16, <1>17 DEF DevicesMatched

-----------------------------------------------------------------------------
(* What buildSensors returns. *)

(* Every sensor is a resolved entry of its own, and one whose bus there is. *)
LEMMA SensorsOf ==
  ASSUME in \in Inputs, Overlaid, Built, NEW T \in Nat, DOMAIN resolved = 1..T
  PROVE  \E C \in Nat : \E at \in [1..C -> 1..T] :
            /\ DOMAIN sensors = 1..C
            /\ \A n \in 1..C : sensors[n] = resolved[at[n]] /\ sensors[n].type = Hardware
            /\ \A a, b \in 1..C : at[a] = at[b] => a = b
<1>1. Wanted \in SUBSET (1..T)
  BY DEF Wanted
<1>2. \E C \in Nat : \E at \in [1..C -> Wanted] : IsKept(sensors, C, at, resolved, Wanted)
  BY <1>1, KeepOf DEF Built
<1>3. PICK C \in Nat : \E at \in [1..C -> Wanted] : IsKept(sensors, C, at, resolved, Wanted)
  BY <1>2
<1>4. PICK at \in [1..C -> Wanted] : IsKept(sensors, C, at, resolved, Wanted)
  BY <1>3
<1>5. at \in [1..C -> 1..T]
  BY <1>1
<1>6. \A n \in 1..C : sensors[n] = resolved[at[n]] /\ sensors[n].type = Hardware
  BY <1>4 DEF IsKept, Wanted, IsHardware
<1>7. DOMAIN sensors = 1..C /\ \A a, b \in 1..C : at[a] = at[b] => a = b
  BY <1>4 DEF IsKept
<1> WITNESS C \in Nat
<1> WITNESS at \in [1..C -> 1..T]
<1> QED BY <1>6, <1>7

(* Every resolved entry has an address and a key of its own, which is that of
   the chip if the server only addresses chips. *)
LEMMA ResolvedTypes ==
  ASSUME in \in Inputs, NEW T \in Nat,
         NEW winner \in [(Len(in.sensors) + 1)..T -> Issued], Merged(T, winner), NEW p \in 1..T
  PROVE  /\ resolved[p] \in YamlEntries
         /\ AddressesFit => KeyAt(p, winner) = YamlSensorKey(resolved[p])
<1>1. CASE Unnamed(p)
  BY <1>1, FieldsOf, KeyAtOf DEF Unnamed
<1>2. ASSUME NEW w \in Issued, NamedBy(p, w)
      PROVE  resolved[p] \in YamlEntries /\ KeyAt(p, winner) = YamlSensorKey(resolved[p])
  <2>1. /\ resolved[p] \in YamlEntries
        /\ resolved[p].type = in.sensors[p].type
        /\ resolved[p].path = in.sensors[p].path
        /\ resolved[p].addr = in.sensors[p].addr
    BY <1>2, FieldsOf
  <2>2. YamlSensorKey(resolved[p]) = YamlSensorKey(in.sensors[p])
    BY <2>1 DEF YamlSensorKey
  <2> QED BY <1>2, <2>1, <2>2, KeyAtOf DEF NamedBy
<1>3. CASE p \in (Len(in.sensors) + 1)..T /\ MadeOf(p, winner[p])
  <2>1. PICK w \in Issued : w = winner[p]
    BY <1>3
  <2>2. MadeOf(p, w) /\ w \in Drivable /\ p \notin DOMAIN in.sensors
    BY <1>3, <2>1 DEF MadeOf
  <2>3. KeyAt(p, winner) = SensorStateKey(in.issued[w])
    BY <2>1, <2>2, KeyAtOf, IssuedOf
  <2>4. ASSUME AddressesFit PROVE in.issued[w].addr \in 8..119
    BY <2>2, <2>4 DEF AddressesFit
  <2> QED BY <2>2, <2>3, <2>4, FieldsOf
<1> QED BY <1>1, <1>2, <1>3, EntryOf

(* OneLoopPerChip. *)
LEMMA BuiltDistinct ==
  ASSUME in \in Inputs, Overlaid, Built, YamlSane, AddressesFit
  PROVE  Distinct([n \in DOMAIN sensors |-> ChipOf(sensors[n])])
<1>1. PICK T \in Nat : \E winner \in [(Len(in.sensors) + 1)..T -> Issued] : Merged(T, winner)
  BY OverlayMerges
<1>2. PICK winner \in [(Len(in.sensors) + 1)..T -> Issued] : Merged(T, winner)
  BY <1>1
<1>3. DOMAIN resolved = 1..T
  BY <1>2 DEF Merged, IsMerge
<1>4. PICK C \in Nat : \E at \in [1..C -> 1..T] :
         /\ DOMAIN sensors = 1..C
         /\ \A n \in 1..C : sensors[n] = resolved[at[n]] /\ sensors[n].type = Hardware
         /\ \A a, b \in 1..C : at[a] = at[b] => a = b
  BY <1>3, SensorsOf
<1>5. PICK at \in [1..C -> 1..T] :
         /\ DOMAIN sensors = 1..C
         /\ \A n \in 1..C : sensors[n] = resolved[at[n]] /\ sensors[n].type = Hardware
         /\ \A a, b \in 1..C : at[a] = at[b] => a = b
  BY <1>4
<1>6. ASSUME NEW n \in 1..C
      PROVE  /\ at[n] \in 1..T /\ sensors[n].type = Hardware
             /\ KeyAt(at[n], winner) = YamlSensorKey(sensors[n])
             /\ KeyAt(at[n], winner) # << >>
  <2>1. sensors[n].path.num # Nil
    BY <1>5, BusesAssumption, NilAssumption DEF Built, Opens
  <2>2. KeyAt(at[n], winner) = YamlSensorKey(sensors[n])
    BY <1>2, <1>5, ResolvedTypes
  <2>3. YamlSensorKey(sensors[n]) # << >>
    BY <2>1 DEF YamlSensorKey
  <2> QED BY <1>5, <2>2, <2>3
<1>7. ASSUME NEW a \in 1..C, NEW b \in 1..C, ChipOf(sensors[a]) = ChipOf(sensors[b])
      PROVE  a = b
  <2>1. sensors[a].path.num = sensors[b].path.num /\ sensors[a].addr = sensors[b].addr
    BY <1>7 DEF ChipOf
  <2>2. YamlSensorKey(sensors[a]) = YamlSensorKey(sensors[b])
    BY <1>6, <2>1 DEF YamlSensorKey
  <2>3. at[a] = at[b]
    BY <1>2, <1>6, <2>2, OnePlace
  <2> QED BY <1>5, <2>3
<1> QED BY <1>5, <1>7 DEF Distinct

(* Where a built sensor has its id, its chip and its interval from. *)
LEMMA SensorFrom ==
  ASSUME in \in Inputs, Overlaid, Built, NEW n \in DOMAIN sensors
  PROVE  /\ sensors[n].path.num \in Buses /\ sensors[n].addr \in UInt16
         /\ \/ \E p \in DOMAIN in.sensors :
                  /\ sensors[n] = in.sensors[p]
            \/ \E p \in DOMAIN in.sensors, w \in Issued :
                  /\ SensorStateKey(in.issued[w]) = YamlSensorKey(in.sensors[p])
                  /\ sensors[n].id = in.issued[w].id
                  /\ ChipOf(sensors[n]) = ChipOf(in.sensors[p])
                  /\ sensors[n].interval = in.sensors[p].interval
            \/ \E w \in Drivable : sensors[n] = ConvertStateSensor(in.issued[w])
<1>1. PICK T \in Nat : \E winner \in [(Len(in.sensors) + 1)..T -> Issued] : Merged(T, winner)
  BY OverlayMerges
<1>2. PICK winner \in [(Len(in.sensors) + 1)..T -> Issued] : Merged(T, winner)
  BY <1>1
<1>3. DOMAIN resolved = 1..T
  BY <1>2 DEF Merged, IsMerge
<1>4. PICK p \in 1..T : sensors[n] = resolved[p]
  BY <1>3, SensorsOf
<1>5. sensors[n] \in YamlEntries
  BY <1>2, <1>4, ResolvedTypes
<1>6. sensors[n].path.num \in Buses /\ sensors[n].addr \in UInt16
  BY <1>5 DEF Built, Opens, YamlEntries
<1>7. \/ Unnamed(p)
      \/ \E w \in Issued : NamedBy(p, w)
      \/ MadeOf(p, winner[p])
  BY <1>2, EntryOf
<1>8. CASE Unnamed(p)
  BY <1>4, <1>6, <1>8 DEF Unnamed
<1>9. ASSUME NEW w \in Issued, NamedBy(p, w)
      PROVE  /\ p \in DOMAIN in.sensors
             /\ SensorStateKey(in.issued[w]) = YamlSensorKey(in.sensors[p])
             /\ sensors[n].id = in.issued[w].id
             /\ ChipOf(sensors[n]) = ChipOf(in.sensors[p])
             /\ sensors[n].interval = in.sensors[p].interval
  BY <1>4, <1>9, FieldsOf DEF NamedBy
<1>10. CASE MadeOf(p, winner[p])
  BY <1>4, <1>6, <1>10 DEF MadeOf
<1> QED BY <1>6, <1>7, <1>8, <1>9, <1>10

(* TelemetryAssigned: the id of a sensor is that of its chip. *)
LEMMA SensorAssigned ==
  ASSUME in \in Inputs, Overlaid, Built, AddressesFit, IdsSane, NEW n \in DOMAIN sensors
  PROVE  /\ sensors[n].id \in {in.issued[m].id : m \in DOMAIN in.issued} \ {NoId} =>
               \E m \in DOMAIN in.issued :
                  /\ in.issued[m].id = sensors[n].id
                  /\ <<in.issued[m].bus, in.issued[m].addr>> = ChipOf(sensors[n])
         /\ sensors[n].id = NoId => \E p \in DOMAIN in.sensors : in.sensors[p].id = NoId
<1>0. /\ \A p \in DOMAIN in.sensors : in.sensors[p] \in YamlEntries
      /\ \A m \in DOMAIN in.issued : in.issued[m] \in StateEntries
      /\ \A m \in Issued : /\ m \in DOMAIN in.issued /\ in.issued[m].id # NoId
                           /\ SensorStateKey(in.issued[m]) # << >>
  BY FilesOf, IssuedOf
<1>1. ASSUME NEW p \in DOMAIN in.sensors, NEW m \in DOMAIN in.issued,
             SensorStateKey(in.issued[m]) = YamlSensorKey(in.sensors[p]),
             in.sensors[p].path.num # Nil
      PROVE  <<in.issued[m].bus, in.issued[m].addr>> = ChipOf(in.sensors[p])
  <2>1. SensorStateKey(in.issued[m]) # << >>
    BY <1>1 DEF YamlSensorKey
  <2>2. in.issued[m].bus = in.sensors[p].path.num /\ in.issued[m].addr = in.sensors[p].addr
    BY <1>0, <1>1, <2>1, KeysMatch
  <2> QED BY <2>2 DEF ChipOf
<1>2. sensors[n].path.num # Nil
  BY SensorFrom, BusesAssumption, NilAssumption
<1>3. ASSUME NEW p \in DOMAIN in.sensors, sensors[n] = in.sensors[p],
             NEW m \in DOMAIN in.issued, in.issued[m].id = sensors[n].id, sensors[n].id # NoId
      PROVE  <<in.issued[m].bus, in.issued[m].addr>> = ChipOf(sensors[n])
  <2>1. YamlSensorKey(in.sensors[p]) = SensorStateKey(in.issued[m])
    BY <1>3 DEF IdsSane
  <2> QED BY <1>1, <1>2, <1>3, <2>1
<1>4. ASSUME NEW p \in DOMAIN in.sensors, NEW w \in Issued,
             SensorStateKey(in.issued[w]) = YamlSensorKey(in.sensors[p]),
             sensors[n].id = in.issued[w].id, ChipOf(sensors[n]) = ChipOf(in.sensors[p])
      PROVE  /\ w \in DOMAIN in.issued /\ sensors[n].id # NoId
             /\ <<in.issued[w].bus, in.issued[w].addr>> = ChipOf(sensors[n])
  <2>1. in.sensors[p].path.num # Nil
    BY <1>2, <1>4 DEF ChipOf
  <2> QED BY <1>0, <1>1, <1>4, <2>1
<1>5. ASSUME NEW w \in Drivable, sensors[n] = ConvertStateSensor(in.issued[w])
      PROVE  /\ w \in DOMAIN in.issued /\ sensors[n].id # NoId
             /\ in.issued[w].id = sensors[n].id
             /\ <<in.issued[w].bus, in.issued[w].addr>> = ChipOf(sensors[n])
  <2>1. w \in Issued /\ Representable(in.issued[w]) /\ in.issued[w].addr \in 8..119
    BY DEF Drivable, AddressesFit
  <2>2. PICK s \in StateEntries : s = in.issued[w]
    BY <1>0, <2>1
  <2>3. sensors[n].id = s.id /\ sensors[n].path.num = s.bus /\ sensors[n].addr = s.addr
    BY <1>5, <2>1, <2>2, ConvertedOf
  <2> QED BY <1>0, <2>1, <2>2, <2>3 DEF ChipOf
<1> QED BY <1>3, <1>4, <1>5, SensorFrom

(* PanicExplained. *)
LEMMA NoTicker ==
  ASSUME in \in Inputs, FilesValid, Overlaid, Built, NEW n \in DOMAIN sensors,
         ~(ParseInterval(sensors[n]) > 0)
  PROVE  \/ \E p \in DOMAIN in.sensors : in.sensors[p].interval <= 0
         \/ \E m \in DOMAIN in.issued :
               in.issued[m].interval # Nil /\ in.issued[m].interval > LongestInterval
<1>1. ASSUME NEW p \in DOMAIN in.sensors, sensors[n].interval = in.sensors[p].interval
      PROVE  in.sensors[p].interval <= 0
  <2>1. PICK i \in Int : i = in.sensors[p].interval
    <3>1. in.sensors[p] \in YamlEntries
      BY FilesOf
    <3>2. in.sensors[p].interval \in Numbers
      BY <3>1 DEF YamlEntries
    <3> QED BY <3>2 DEF Numbers, FilesValid, ValidSensor
  <2>2. i <= LongestInterval
    BY <2>1 DEF FilesValid, ValidSensor
  <2>3. ParseInterval(sensors[n]) = i
    BY <1>1, <2>1, <2>2, LongestIntervalAssumption DEF ParseInterval
  <2> QED BY <2>1, <2>3
<1>2. ASSUME NEW w \in Drivable, sensors[n] = ConvertStateSensor(in.issued[w])
      PROVE  in.issued[w].interval # Nil /\ in.issued[w].interval > LongestInterval
  <2>1. sensors[n].interval = ServerInterval(in.issued[w])
    BY <1>2 DEF ConvertStateSensor
  <2>2. in.issued[w].interval \in Numbers
    <3>1. in.issued[w] \in StateEntries
      BY FilesOf, IssuedOf DEF Drivable
    <3> QED BY <3>1 DEF StateEntries
  <2>3. CASE in.issued[w].interval # Nil /\ in.issued[w].interval > 0
    <3>1. sensors[n].interval = in.issued[w].interval
      BY <2>1, <2>3 DEF ServerInterval
    <3> QED BY <2>3, <3>1 DEF ParseInterval
  <2>4. CASE ~(in.issued[w].interval # Nil /\ in.issued[w].interval > 0)
    <3>1. sensors[n].interval = 30
      BY <2>1, <2>4 DEF ServerInterval
    <3>2. ParseInterval(sensors[n]) = 30
      BY <3>1, LongestIntervalAssumption DEF ParseInterval
    <3> QED BY <3>2
  <2> QED BY <2>3, <2>4
<1>3. \A w \in Drivable : w \in DOMAIN in.issued
  BY IssuedOf DEF Drivable
<1> QED BY <1>1, <1>2, <1>3, SensorFrom

-----------------------------------------------------------------------------
(* The invariant is inductive. *)

SensingInv == BootInv /\ RunInv

(* Before the boot there is nothing. *)
LEMMA SensingInit == Init => SensingInv
BY DEF Init, SensingInv, BootInv, RunInv

(* The boot. *)
LEMMA BootStep ==
  ASSUME SensingInv, LoadFails \/ Load \/ Resolve \/ Build
  PROVE  SensingInv'
<1> USE DEF SensingInv
<1>0. CASE LoadFails
  <2>1. /\ phase = "load" /\ phase' = "exit"
        /\ UNCHANGED <<in, resolved, resolvedDevices, sensors, loop, measured, telemetry>>
    BY <1>0 DEF LoadFails, bootVars
  <2>2. BootInv'
    BY <2>1 DEF BootInv
  <2>3. RunInv'
    BY <2>1 DEF BootInv, RunInv
  <2> QED BY <2>2, <2>3
<1>1. CASE Load
  <2>1. /\ phase = "load" /\ phase' \in {"resolve", "exit"}
        /\ phase' = "resolve" => FilesValid
        /\ UNCHANGED <<in, resolved, resolvedDevices, sensors, loop, measured, telemetry>>
    BY <1>1 DEF Load, bootVars, FilesValid
  <2>2. phase' = "resolve" => FilesValid'
    BY <2>1 DEF FilesValid
  <2>3. BootInv'
    BY <2>1, <2>2 DEF BootInv
  <2>4. RunInv'
    BY <2>1 DEF BootInv, RunInv
  <2> QED BY <2>3, <2>4
<1>2. CASE Resolve
  <2>1. /\ phase = "resolve" /\ phase' = "build"
        /\ UNCHANGED <<in, sensors, loop, measured, telemetry>>
        /\ resolved' = OverlaySensors(in.sensors, in.issued)
        /\ resolvedDevices' = OverlayDevices(in.devices, in.relays)
    BY <1>2 DEF Resolve
  <2>2. Overlaid'
    BY <2>1 DEF Overlaid
  <2>3. FilesValid'
    BY <2>1 DEF BootInv, FilesValid
  <2>4. BootInv'
    BY <2>1, <2>2, <2>3 DEF BootInv
  <2>5. RunInv'
    BY <2>1 DEF BootInv, RunInv
  <2> QED BY <2>4, <2>5
<1>3. CASE Build
  <2>1. phase = "build" /\ UNCHANGED <<in, resolved, resolvedDevices, telemetry>>
        /\ telemetry = Nothing /\ FilesValid /\ Overlaid
    BY <1>3 DEF Build, BootInv
  <2>2. FilesValid' /\ Overlaid' /\ Wanted' = Wanted
    BY <2>1 DEF FilesValid, Overlaid, Wanted
  <2>3. CASE phase' = "exit" /\ UNCHANGED <<sensors, loop, measured>>
    <3>1. BootInv'
      BY <2>1, <2>2, <2>3 DEF BootInv
    <3>2. RunInv'
      BY <2>1, <2>3 DEF BootInv, RunInv
    <3> QED BY <3>1, <3>2
  <2>4. CASE /\ sensors' = Keep(resolved, Wanted)
             /\ \A n \in DOMAIN sensors' : Opens(sensors'[n])
             /\ loop' = [n \in DOMAIN sensors' |-> "unborn"]
             /\ measured' = [c \in {ChipOf(sensors'[n]) : n \in DOMAIN sensors'} |-> Nothing]
             /\ phase' = "run"
    <3>1. Built'
      BY <2>1, <2>2, <2>4 DEF Built
    <3>2. BootInv'
      BY <2>1, <2>2, <2>4, <3>1 DEF BootInv
    <3>3. RunInv'
      BY <2>1, <2>4 DEF RunInv
    <3> QED BY <3>2, <3>3
  <2> QED BY <1>3, <2>3, <2>4 DEF Build
<1> QED BY <1>0, <1>1, <1>2, <1>3

(* The loops leave what the boot made alone. *)
LEMMA LoopsLeaveBoot ==
  ASSUME BootInv, phase = "run", phase' \in {"run", "panic"}, UNCHANGED bootVars
  PROVE  BootInv'
<1>1. Built' /\ FilesValid' /\ Overlaid'
  BY DEF BootInv, Built, FilesValid, Overlaid, Wanted, bootVars
<1> QED BY <1>1 DEF BootInv, bootVars

(* Nor do they change what was published before. *)
LEMMA PublishedStays ==
  ASSUME NEW n, Published(n), UNCHANGED <<sensors, telemetry>>
  PROVE  Published(n)'
BY DEF Published

(* A loop starts or the program panics for its interval. *)
LEMMA StartLoopStep ==
  ASSUME SensingInv, NEW n \in DOMAIN sensors, StartLoop(n)
  PROVE  SensingInv'
<1>1. phase = "run" /\ phase' \in {"run", "panic"} /\ UNCHANGED <<bootVars, measured, telemetry>>
  BY DEF StartLoop
<1>2. BootInv'
  BY <1>1, LoopsLeaveBoot DEF SensingInv
<1>3. DOMAIN loop' = DOMAIN loop /\ \A m \in DOMAIN loop :
         loop'[m] \in {"unborn", "trigger", "fetch", "select"}
  BY DEF StartLoop, SensingInv, RunInv
<1>4. telemetry' # Nothing => \E m \in DOMAIN sensors : Published(m)'
  BY <1>1, PublishedStays DEF SensingInv, RunInv, bootVars
<1>5. phase' = "panic" => ~(ParseInterval(sensors[n]) > 0)
  BY <1>1 DEF StartLoop
<1> QED BY <1>1, <1>2, <1>3, <1>4, <1>5 DEF SensingInv, RunInv, bootVars

(* A chip measures; what waits in it is one of its samples. *)
LEMMA TriggerStep ==
  ASSUME SensingInv, NEW n \in DOMAIN sensors, Trigger(n)
  PROVE  SensingInv'
<1>1. phase = "run" /\ UNCHANGED <<bootVars, phase, telemetry>>
  BY DEF Trigger
<1>2. BootInv'
  BY <1>1, LoopsLeaveBoot DEF SensingInv
<1>3. loop' = [loop EXCEPT ![n] = "fetch"]
  BY DEF Trigger
<1>4. PICK chip, s : /\ chip = ChipOf(sensors[n])
                     /\ chip \in DOMAIN Samples /\ s \in Samples[chip]
                     /\ measured' = [measured EXCEPT ![chip] = s]
  BY DEF Trigger
<1>5. DOMAIN measured' = DOMAIN measured /\ \A c \in DOMAIN measured' :
         measured'[c] # Nothing => c \in DOMAIN Samples /\ measured'[c] \in Samples[c]
  BY <1>4 DEF SensingInv, RunInv
<1>6. telemetry' # Nothing => \E m \in DOMAIN sensors : Published(m)'
  BY <1>1, PublishedStays DEF SensingInv, RunInv, bootVars
<1> QED BY <1>1, <1>2, <1>3, <1>5, <1>6 DEF SensingInv, RunInv, bootVars

(* A read that fails, and the tick for the next one. *)
LEMMA ReadFailsStep ==
  ASSUME SensingInv, NEW n \in DOMAIN sensors, ReadFails(n) \/ Tick(n)
  PROVE  SensingInv'
<1>1. phase = "run" /\ UNCHANGED <<bootVars, phase, measured, telemetry>>
  BY DEF ReadFails, Tick
<1>2. BootInv'
  BY <1>1, LoopsLeaveBoot DEF SensingInv
<1>3. DOMAIN loop' = DOMAIN loop /\ \A m \in DOMAIN loop :
         loop'[m] \in {"unborn", "trigger", "fetch", "select"}
  BY DEF ReadFails, Tick, SensingInv, RunInv
<1>4. telemetry' # Nothing => \E m \in DOMAIN sensors : Published(m)'
  BY <1>1, PublishedStays DEF SensingInv, RunInv, bootVars
<1> QED BY <1>1, <1>2, <1>3, <1>4 DEF SensingInv, RunInv, bootVars

(* A frame arrives; it is published only if its checksums are good. *)
LEMMA FetchStep ==
  ASSUME SensingInv, NEW n \in DOMAIN sensors, NEW flip \in Noise, Fetch(n, flip)
  PROVE  SensingInv'
<1>1. phase = "run" /\ UNCHANGED <<bootVars, phase>> /\ loop' = [loop EXCEPT ![n] = "select"]
  BY DEF Fetch
<1>2. BootInv'
  BY <1>1, LoopsLeaveBoot DEF SensingInv
<1>3. PICK chip : chip = ChipOf(sensors[n])
  OBVIOUS
<1>4. /\ measured[chip] # Nothing /\ measured' = [measured EXCEPT ![chip] = Nothing]
      /\ telemetry' = IF FrameValid(Received(measured[chip], flip))
                         THEN [id |-> sensors[n].id, chip |-> chip, sample |-> measured[chip],
                               reading |-> Decode(Received(measured[chip], flip))]
                         ELSE telemetry
  BY <1>3 DEF Fetch
<1>5. chip \in DOMAIN Samples /\ measured[chip] \in Samples[chip]
  BY <1>3, <1>4 DEF SensingInv, RunInv
<1>6. DOMAIN measured' = DOMAIN measured /\ \A c \in DOMAIN measured' :
         measured'[c] # Nothing => c \in DOMAIN Samples /\ measured'[c] \in Samples[c]
  BY <1>4 DEF SensingInv, RunInv
<1>7. telemetry' # Nothing => \E m \in DOMAIN sensors : Published(m)'
  <2>1. CASE FrameValid(Received(measured[chip], flip))
    <3>1. Published(n)'
      BY <1>1, <1>3, <1>4, <1>5, <2>1 DEF Published, bootVars
    <3> QED BY <3>1
  <2>2. CASE ~FrameValid(Received(measured[chip], flip))
    BY <1>1, <1>4, <2>2, PublishedStays DEF SensingInv, RunInv, bootVars
  <2> QED BY <2>1, <2>2
<1> QED BY <1>1, <1>2, <1>6, <1>7 DEF SensingInv, RunInv, bootVars

(* Every reachable state has what the invariant says: what the boot made is the
   overlay of the files, and what was published came from a frame with good
   checksums. *)
THEOREM SensingInvariant == Spec => []SensingInv
<1>1. SensingInv /\ [Next]_vars => SensingInv'
  <2> SUFFICES ASSUME SensingInv, [Next]_vars PROVE SensingInv'
    OBVIOUS
  <2>1. CASE UNCHANGED vars
    <3>1. UNCHANGED <<in, phase, resolved, resolvedDevices, sensors, loop, measured, telemetry>>
      BY <2>1 DEF vars
    <3> QED BY <3>1 DEF SensingInv, BootInv, RunInv, FilesValid, Overlaid, Built, Wanted,
                        Published
  <2>2. CASE Next
    BY <2>2, BootStep, StartLoopStep, TriggerStep, ReadFailsStep, FetchStep DEF Next
  <2> QED BY <2>1, <2>2
<1> QED BY <1>1, SensingInit, PTL DEF Spec

-----------------------------------------------------------------------------
(* The properties. *)

(* Once resolved, the configuration is the overlay; a loop runs only then. *)
LEMMA ResolvedIsOverlaid ==
  ASSUME BootInv
  PROVE  /\ in \in Inputs
         /\ Resolved => Overlaid
         /\ sensors # << >> \/ telemetry # Nothing \/ phase = "panic" =>
               FilesValid /\ Overlaid /\ Built
BY DEF BootInv, Resolved

(* Every sensor is on a bus of the host, every waiting measurement is one of its
   chip, and telemetry carries the id of a sensor. *)
THEOREM SensingTypes == Spec => []TypeOK
<1>1. SensingInv => TypeOK
  <2> SUFFICES ASSUME SensingInv PROVE TypeOK
    OBVIOUS
  <2>1. in \in Inputs /\ phase \in {"load", "resolve", "build", "run", "exit", "panic"}
    BY DEF SensingInv, BootInv
  <2>2. ASSUME NEW n \in DOMAIN sensors PROVE ChipOf(sensors[n]) \in Buses \X UInt16
    <3>1. sensors # << >>
      OBVIOUS
    <3>2. Overlaid /\ Built
      BY <3>1, ResolvedIsOverlaid DEF SensingInv
    <3>3. sensors[n].path.num \in Buses /\ sensors[n].addr \in UInt16
      BY <2>1, <3>2, SensorFrom
    <3> QED BY <3>3 DEF ChipOf
  <2>3. telemetry # Nothing =>
           telemetry.id \in {NoId} \cup {sensors[n].id : n \in DOMAIN sensors}
    BY DEF SensingInv, RunInv, Published
  <2> QED BY <2>1, <2>2, <2>3 DEF SensingInv, RunInv, TypeOK
<1> QED BY <1>1, SensingInvariant, PTL

(* The server's ids never change the wiring of config.yaml. *)
THEOREM WiringStays == Spec => []WiringKept
<1>1. SensingInv => WiringKept
  BY ResolvedIsOverlaid, OverlayKeepsWiring DEF SensingInv, WiringKept
<1> QED BY <1>1, SensingInvariant, PTL

(* Every I2C sensor of the server is driven once, under the id listed last. *)
THEOREM ServerDrives == Spec => []ServerSensorsDriven
<1>1. SensingInv => ServerSensorsDriven
  BY ResolvedIsOverlaid, OverlayDrives DEF SensingInv, ServerSensorsDriven
<1> QED BY <1>1, SensingInvariant, PTL

(* Each relay that either side names is resolved exactly once and nothing else
   is, under an id of the server if it has one for it, else as in config.yaml. *)
THEOREM RelaysMerged == Spec => []DevicesMerged
<1>1. SensingInv => DevicesMerged
  <2> SUFFICES ASSUME SensingInv, Resolved, Distinct(DeviceKeys(in.devices)),
                      NEW named, named = {m \in DOMAIN in.relays : in.relays[m].id # NoId}
               PROVE  /\ Distinct(DeviceKeys(resolvedDevices))
                      /\ KeySet(resolvedDevices, DOMAIN resolvedDevices) =
                            KeySet(in.devices, DOMAIN in.devices) \cup KeySet(in.relays, named)
                      /\ \A n \in DOMAIN resolvedDevices :
                            LET namesake == {m \in named : DeviceKey(in.relays[m]) =
                                                            DeviceKey(resolvedDevices[n])}
                            IN  IF namesake = {}
                                   THEN \E l \in DOMAIN in.devices :
                                           resolvedDevices[n] = in.devices[l]
                                   ELSE \E m \in namesake :
                                           resolvedDevices[n].id = in.relays[m].id
    BY DEF DevicesMerged
  <2>1. in \in Inputs /\ Overlaid
    BY ResolvedIsOverlaid DEF SensingInv
  <2>2. DevicesMatched(named)
    BY <2>1, DevicesOverlaid
  <2>3. Distinct(DeviceKeys(resolvedDevices))
    BY <2>2 DEF DevicesMatched
  <2>4. KeySet(resolvedDevices, DOMAIN resolvedDevices) =
           KeySet(in.devices, DOMAIN in.devices) \cup KeySet(in.relays, named)
    BY <2>2 DEF KeySet, DevicesMatched
  <2>5. ASSUME NEW n \in DOMAIN resolvedDevices
        PROVE  \/ \E o \in named : /\ DeviceKey(in.relays[o]) = DeviceKey(resolvedDevices[n])
                                    /\ resolvedDevices[n].id = in.relays[o].id
               \/ /\ \E l \in DOMAIN in.devices : resolvedDevices[n] = in.devices[l]
                  /\ \A m \in named : DeviceKey(in.relays[m]) # DeviceKey(resolvedDevices[n])
    BY <2>2 DEF DevicesMatched
  <2>6. ASSUME NEW n \in DOMAIN resolvedDevices
        PROVE  LET namesake == {m \in named : DeviceKey(in.relays[m]) =
                                               DeviceKey(resolvedDevices[n])}
               IN  IF namesake = {}
                      THEN \E l \in DOMAIN in.devices : resolvedDevices[n] = in.devices[l]
                      ELSE \E m \in namesake : resolvedDevices[n].id = in.relays[m].id
    BY <2>5
  <2> QED BY <2>3, <2>4, <2>6
<1> QED BY <1>1, SensingInvariant, PTL

(* No two loops share a chip. *)
THEOREM ChipsApart == Spec => []OneLoopPerChip
<1>1. SensingInv => OneLoopPerChip
  <2> SUFFICES ASSUME SensingInv, YamlSane, AddressesFit
               PROVE  Distinct([n \in DOMAIN sensors |-> ChipOf(sensors[n])])
    BY DEF OneLoopPerChip
  <2>1. CASE sensors = << >>
    BY <2>1 DEF Distinct
  <2>2. CASE sensors # << >>
    BY <2>2, ResolvedIsOverlaid, BuiltDistinct DEF SensingInv
  <2> QED BY <2>1, <2>2
<1> QED BY <1>1, SensingInvariant, PTL

(* Telemetry comes from the chip its id stands for. *)
THEOREM TelemetryFromItsChip == Spec => []TelemetryAssigned
<1>1. SensingInv => TelemetryAssigned
  <2> SUFFICES ASSUME SensingInv, telemetry # Nothing, AddressesFit, IdsSane
               PROVE  /\ telemetry.id \in {in.issued[m].id : m \in DOMAIN in.issued} \ {NoId} =>
                            \E m \in DOMAIN in.issued :
                               /\ in.issued[m].id = telemetry.id
                               /\ <<in.issued[m].bus, in.issued[m].addr>> = telemetry.chip
                      /\ telemetry.id = NoId =>
                            \E n \in DOMAIN in.sensors : in.sensors[n].id = NoId
    BY DEF TelemetryAssigned
  <2>1. in \in Inputs /\ Overlaid /\ Built
    BY ResolvedIsOverlaid DEF SensingInv
  <2>2. PICK n \in DOMAIN sensors : Published(n)
    BY DEF SensingInv, RunInv
  <2>3. telemetry.id = sensors[n].id /\ telemetry.chip = ChipOf(sensors[n])
    BY <2>2 DEF Published
  <2> QED BY <2>1, <2>3, SensorAssigned
<1> QED BY <1>1, SensingInvariant, PTL

(* A reading that is published is what the chip measured. *)
THEOREM ReadingsFaithful == Spec => []ReadingFaithful
<1>1. SensingInv => ReadingFaithful
  <2> SUFFICES ASSUME SensingInv, telemetry # Nothing PROVE ReadingFaithful
    BY DEF ReadingFaithful
  <2>1. PICK n \in DOMAIN sensors : Published(n)
    BY DEF SensingInv, RunInv
  <2>2. PICK chip \in DOMAIN Samples : chip = ChipOf(sensors[n])
    BY <2>1 DEF Published
  <2>3. PICK sample \in Samples[chip], flip \in Noise :
           /\ FrameValid(Received(sample, flip))
           /\ telemetry = [id |-> sensors[n].id, chip |-> chip, sample |-> sample,
                           reading |-> Decode(Received(sample, flip))]
    BY <2>1, <2>2 DEF Published
  <2>4. sample \in [temp : Bytes \X Bytes, hum : Bytes \X Bytes]
    BY SamplesAssumption
  <2>5. PICK th \in Bytes, tl \in Bytes, hh \in Bytes, hl \in Bytes :
           sample = [temp |-> <<th, tl>>, hum |-> <<hh, hl>>]
    BY <2>4
  <2>6. PICK k \in 1..6, bits \in Bytes : flip = <<k, bits>>
    BY NoiseAssumption
  <2>7. PICK f : f = Received(sample, flip)
    OBVIOUS
  <2>8. f[1] = th /\ f[2] = tl /\ f[4] = hh /\ f[5] = hl
    BY <2>3, <2>5, <2>6, <2>7, DamageDetected
  <2>9. telemetry.reading = ToReading(Word(th, tl), Word(hh, hl))
    BY <2>3, <2>7, <2>8 DEF Decode
  <2>10. /\ telemetry.sample.temp[1] = th /\ telemetry.sample.temp[2] = tl
         /\ telemetry.sample.hum[1] = hh /\ telemetry.sample.hum[2] = hl
    BY <2>3, <2>5
  <2> QED BY <2>9, <2>10, WordOf, ReadingOf DEF ReadingFaithful
<1> QED BY <1>1, SensingInvariant, PTL

(* A panic has its cause in config.yaml or in an interval beyond a duration. *)
THEOREM PanicHasCause == Spec => []PanicExplained
<1>1. SensingInv => PanicExplained
  <2> SUFFICES ASSUME SensingInv, phase = "panic" PROVE PanicExplained
    BY DEF PanicExplained
  <2>1. in \in Inputs /\ FilesValid /\ Overlaid /\ Built
    BY ResolvedIsOverlaid DEF SensingInv
  <2>2. PICK n \in DOMAIN sensors : ~(ParseInterval(sensors[n]) > 0)
    BY DEF SensingInv, RunInv
  <2> QED BY <2>1, <2>2, NoTicker DEF PanicExplained
<1> QED BY <1>1, SensingInvariant, PTL
=============================================================================
