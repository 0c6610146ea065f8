------------------------------ MODULE MsgEncoder ------------------------------
(***************************************************************************)
(* How empty_fifo_fn (sensor.c) fills payloads: it predicts the size of    *)
(* the CBOR encoding of encode_msg_buf while it adds acceleration triples, *)
(* and encodes and stores the message when one more would exceed           *)
(* PAYLOAD_SIZE.                                                           *)
(*                                                                         *)
(* Of a value only the width of its encoding counts (cbor_bit_width and    *)
(* cbor_bit_width_timestamp).  A message is the array of the array of      *)
(* timestamp, temperature, pressure and humidity and of one array per      *)
(* triple (msg_encode.c).                                                  *)
(*                                                                         *)
(* A definition marked "Variant" is a wrong form of the one that follows:  *)
(* no specification uses it, and with it in place of the right one a       *)
(* property fails.                                                         *)
(***************************************************************************)
EXTENDS Integers

CONSTANTS PAYLOAD_SIZE,     \* predicted size a message may have (1024)
          Triples,          \* triples in a FIFO (FIFO_SIZE / 3 = 170)
          MaxCount,         \* elements of msg_xyz, and most a message may have (256)
          PayloadBytes,     \* bytes of a slot of message[][] (1100)
          TemporaryBytes,   \* bytes of the encoding buffer (1200)
          TripleWidths,     \* widths of three int16_t values (3 to 9)
          TphWidths,        \* widths of temperature, pressure, humidity (3 to 15)
          StampWidths       \* widths of a timestamp (1, 2, 3, 5, 9)

ARRAY_BYTE == 1         \* header of an array of less than 24 elements
TABLE_BYTES == 2        \* header of the array of all arrays
ZeroTph == 3            \* three zeroes
ZeroStamp == 1
UINT16_MAX == 65535     \* size is a uint16_t

ASSUME SizesAssumption ==
    /\ PAYLOAD_SIZE \in Nat /\ Triples \in Nat /\ MaxCount \in Nat
    /\ PayloadBytes \in Nat /\ TemporaryBytes \in Nat
    /\ TripleWidths \subseteq 3 .. 9
    /\ TphWidths \subseteq 3 .. 15
    /\ StampWidths \subseteq 1 .. 9
    /\ PAYLOAD_SIZE >= 41                   \* metadata and a triple always fit
    /\ PAYLOAD_SIZE <= 1026                 \* so few triples that TABLE_BYTES is right
    /\ PAYLOAD_SIZE < 4 * MaxCount + 4      \* no triple takes less than 4 bytes
    /\ PAYLOAD_SIZE + 20 <= UINT16_MAX
    /\ PAYLOAD_SIZE + 20 <= PayloadBytes    \* metadata may grow by 20 bytes
    /\ PayloadBytes <= TemporaryBytes

\* Two messages of the largest triples hold more than a FIFO.
ASSUME TriplesAssumption == 10 * (Triples - 1) < 2 * (PAYLOAD_SIZE - 16)

VARIABLES
    pc,             \* empty_fifo_fn: "idle", "loop" (past its last blocking read)
    left,           \* triples of the FIFO not yet added
    count,          \* encode_index, msg_xyz_count
    size,           \* encode_msg_buf.size
    tph, stamp,     \* widths of the metadata in encode_msg_buf
    flushes,        \* messages stored by this call
    bytes,          \* ghost: bytes the encoded triples take
    origin,         \* ghost: the metadata is from the "bme680", or zeroes from "memset"
    length,         \* ghost: length of the last message stored, before compression
    unmeasured      \* ghost: its number within the call if it has those zeroes, or 0

meta == <<tph, stamp, origin>>
stored == <<flushes, length, unmeasured>>
vars == <<pc, left, count, size, meta, bytes, stored>>

Init ==
    /\ pc = "idle"
    /\ left = 0
    /\ count = 0
    /\ size = 0
    /\ tph = ZeroTph
    /\ stamp = ZeroStamp
    /\ flushes = 0
    /\ bytes = 0
    /\ origin = "memset"
    /\ length = 0
    /\ unmeasured = 0

\* What the metadata adds to the predicted size.
Overhead(p, s) == p + s + TABLE_BYTES + ARRAY_BYTE

-----------------------------------------------------------------------------
\* The length of the encoding: an array header (zcbor's canonical form), the metadata in
\* an array of its own, and the triples.
ArrayHeader(n) == IF n < 24 THEN 1 ELSE IF n < 256 THEN 2 ELSE 3
Encoded == ArrayHeader(count + 1) + ARRAY_BYTE + tph + stamp + bytes

\* cbor_encode_msg succeeds.
Encodable == count \in 1 .. MaxCount /\ Encoded <= TemporaryBytes

\* The reads succeeded: the new measurement replaces the old one.  (If one fails, the
\* call returns before it changes anything.)
StartCall ==
    /\ pc = "idle"
    /\ pc' = "loop"
    /\ left' = Triples
    /\ flushes' = 0
    /\ tph' \in TphWidths
    /\ size' = size + Overhead(tph', stamp)
    /\ origin' = "bme680"
    /\ UNCHANGED <<count, stamp, bytes, length, unmeasured>>

\* What a triple adds to the predicted size.
\* Variant: the byte of its array is forgotten.
TripleSizeBare(w) == w
TripleSize(w) == w + ARRAY_BYTE

Fits(w) == size + TripleSize(w) <= PAYLOAD_SIZE

AddTriple(w) ==
    /\ pc = "loop"
    /\ left > 0
    /\ Fits(w)
    /\ count' = count + 1
    /\ size' = size + TripleSize(w)
    /\ bytes' = bytes + w + ARRAY_BYTE
    /\ left' = left - 1
    /\ UNCHANGED <<pc, meta, stored>>

\* The size memset leaves, with the zeroed metadata added.
\* Variants: the metadata is left out, or the size is not cleared.
ClearedSizeBare == 0
ClearedSizeKept == size
ClearedSize == Overhead(ZeroTph, ZeroStamp)

\* The message is stored (or dropped, if it cannot be encoded) and cleared; the triple
\* that did not fit is the first of the next one.
FlushAndAddTriple(w) ==
    /\ pc = "loop"
    /\ left > 0
    /\ ~ Fits(w)
    /\ IF Encodable
       THEN /\ flushes' = flushes + 1
            /\ length' = Encoded
            /\ unmeasured' = IF origin = "bme680" THEN 0 ELSE flushes'
       ELSE UNCHANGED stored
    /\ tph' = ZeroTph
    /\ stamp' = ZeroStamp
    /\ origin' = "memset"
    /\ count' = 1
    /\ size' = ClearedSize + TripleSize(w)
    /\ bytes' = w + ARRAY_BYTE
    /\ left' = left - 1
    /\ UNCHANGED pc

\* The metadata is taken off the size again, and the timestamp of this call is kept.
EndCall ==
    /\ pc = "loop"
    /\ left = 0
    /\ pc' = "idle"
    /\ size' = size - Overhead(tph, stamp)
    /\ stamp' \in StampWidths
    /\ UNCHANGED <<left, count, tph, origin, bytes, stored>>

Next == \/ StartCall
        \/ \E w \in TripleWidths : AddTriple(w) \/ FlushAndAddTriple(w)
        \/ EndCall

Spec == Init /\ [][Next]_vars

-----------------------------------------------------------------------------
(* Properties. *)

\* The variables keep their types: size never wraps (uint16_t), and msg_xyz[count] is
\* an element of the array whenever a triple is written.
TypeOK ==
    /\ pc \in {"idle", "loop"}
    /\ left \in 0 .. Triples
    /\ count \in 0 .. MaxCount
    /\ size \in 0 .. UINT16_MAX
    /\ tph \in 3 .. 15
    /\ stamp \in 1 .. 9
    /\ flushes \in Nat
    /\ bytes \in Nat
    /\ origin \in {"bme680", "memset"}
    /\ length \in Nat
    /\ unmeasured \in Nat

\* The size carried from call to call neither drifts nor forgets: it is what the triples
\* take, and within a call what the metadata takes besides (sensor.c:144, 182, 200).
SizeExact ==
    size = bytes + IF pc = "loop" THEN Overhead(tph, stamp) ELSE 0

\* A message can always be encoded when it must be: it holds a triple, its array does
\* not overflow, and the prediction is no less than the length (sensor.c:157-164).
AlwaysEncodable ==
    pc = "loop" /\ (\E w \in TripleWidths : ~ Fits(w)) =>
        Encodable /\ Encoded <= size

\* An encoded message fits the slot it is copied to when compression fails, although
\* the metadata of a later call may be wider than what was predicted (sensor.c:174).
PayloadFits == length <= PayloadBytes

\* A call stores no third message, and only the second of a call carries the zeroes
\* memset left instead of a measurement.
AtMostTwoFlushes ==
    /\ flushes <= 2
    /\ unmeasured \in {0, 2}
=============================================================================
