------------------------------- MODULE Sht40 -------------------------------
(***************************************************************************)
(* The data of the SHT40 driver in internal/sensor: the CRC-8 of a frame,  *)
(* its decoding, and the rounding and clamping of the readings.            *)
(*                                                                         *)
(* A byte is the set of its one bits, so that the xor of two bytes is      *)
(* their symmetric difference.  Readings are integers in tenths; the       *)
(* float arithmetic of the code rounds to the same tenth, since no raw     *)
(* value lies half way between two.                                        *)
(***************************************************************************)
EXTENDS Integers, Sequences, FiniteSetsExt

Bits  == 0..7
Bytes == SUBSET Bits

Bit(b, i) == IF i \in b THEN 1 ELSE 0
ByteValue(b) ==
    128 * Bit(b, 7) + 64 * Bit(b, 6) + 32 * Bit(b, 5) + 16 * Bit(b, 4)
    + 8 * Bit(b, 3) + 4 * Bit(b, 2) + 2 * Bit(b, 1) + Bit(b, 0)

Word(hi, lo) == 256 * ByteValue(hi) + ByteValue(lo)

(* Polynomial 0x31, most significant bit first. *)
CrcShift(crc) ==
    LET shifted == {i + 1 : i \in crc \ {7}}
    IN  IF 7 \in crc THEN SymDiff(shifted, {0, 4, 5}) ELSE shifted

(* The eight rounds for one byte. *)
FourShifts(crc) == CrcShift(CrcShift(CrcShift(CrcShift(crc))))
CrcByte == [crc \in Bytes |-> FourShifts(FourShifts(crc))]

(* crc8 of the two bytes of a word, initial value 0xFF. *)
Crc8(hi, lo) == CrcByte[SymDiff(CrcByte[SymDiff(Bits, hi)], lo)]

(* The test vector of the data sheet: 0xBE 0xEF has the checksum 0x92. *)
ASSUME CrcVector == Crc8({1, 2, 3, 4, 5, 7}, {0, 1, 2, 3, 5, 6, 7}) = {1, 4, 7}

(* offset + span * raw / 65535 in tenths, rounded to the nearest. *)
Tenths(span, offset, raw) ==
    (2 * (10 * span * raw + 10 * offset * 65535) + 65535) \div (2 * 65535)

Clamp(v, lo, hi) == IF v < lo THEN lo ELSE IF v > hi THEN hi ELSE v

ToReading(rawTemp, rawHum) ==
    [temperature |-> Tenths(175, -45, rawTemp),
     humidity |-> Clamp(Tenths(125, -6, rawHum), 0, 1000)]

(* The six bytes a chip sends. *)
Frame(temp, hum) ==
    <<temp[1], temp[2], Crc8(temp[1], temp[2]),
      hum[1], hum[2], Crc8(hum[1], hum[2])>>

(* Mutant of FrameValid: only the checksum of the temperature is compared. *)
TemperatureValid(f) == Crc8(f[1], f[2]) = f[3]

FrameValid(f) == Crc8(f[1], f[2]) = f[3] /\ Crc8(f[4], f[5]) = f[6]

Decode(f) == ToReading(Word(f[1], f[2]), Word(f[4], f[5]))
=============================================================================
