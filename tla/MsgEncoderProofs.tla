--------------------------- MODULE MsgEncoderProofs ---------------------------
(***************************************************************************)
(* Theorems about MsgEncoder, for all sizes and widths that satisfy        *)
(* SizesAssumption and TriplesAssumption.                                  *)
(***************************************************************************)
EXTENDS MsgEncoder, TLAPS

\* The inductive invariant.  What makes it so are the bytes of the triples: between 4
\* and 10 for each of them, and never more than fit with the smallest metadata.  While
\* a call runs the size exceeds PAYLOAD_SIZE by what its metadata may have grown.
EncoderInvariant ==
    /\ TypeOK
    /\ SizeExact
    /\ 4 * count <= bytes
    /\ bytes <= 10 * count
    /\ bytes + Overhead(ZeroTph, ZeroStamp) <= PAYLOAD_SIZE
    /\ length <= PAYLOAD_SIZE + 20

\* Every flush but the first of a call needs a message full of triples of this call,
\* which bounds the flushes by the triples of a FIFO.
FlushInvariant ==
    /\ flushes \in 0 .. 2
    /\ pc = "loop" /\ flushes = 0 => origin = "bme680"
    /\ pc = "loop" /\ flushes > 0 => tph = ZeroTph /\ stamp = ZeroStamp
    /\ pc = "loop" /\ flushes = 1 => bytes <= 10 * (Triples - left)
    /\ pc = "loop" /\ flushes = 2 =>
           bytes + PAYLOAD_SIZE - 16 <= 10 * (Triples - left)
    /\ unmeasured \in {0, 2}

\* (UINT16_MAX stays unexpanded below: the provers need no more of it than this.)
LEMMA UINT16_MAX_Nat == UINT16_MAX \in Nat
BY DEF UINT16_MAX

USE DEF ARRAY_BYTE, TABLE_BYTES, ZeroTph, ZeroStamp, Overhead

\* The array header never takes more than the byte or two TABLE_BYTES allows besides
\* the header of the metadata, and a message that must be encoded holds a triple.
LEMMA EncodingBounded ==
    ASSUME EncoderInvariant, pc = "loop", NEW w \in TripleWidths, ~ Fits(w)
    PROVE  Encodable /\ Encoded <= size /\ size <= PAYLOAD_SIZE + 20
<1>a. /\ tph \in 3 .. 15 /\ stamp \in 1 .. 9
      /\ count \in 0 .. MaxCount /\ bytes \in Nat
      /\ 4 * count <= bytes /\ bytes <= 10 * count
      /\ bytes + (3 + 1 + 2 + 1) <= PAYLOAD_SIZE
  BY DEF EncoderInvariant, TypeOK
<1>b. /\ PAYLOAD_SIZE \in Nat /\ PAYLOAD_SIZE >= 41 /\ PAYLOAD_SIZE <= 1026
      /\ MaxCount \in Nat /\ PayloadBytes \in Nat /\ TemporaryBytes \in Nat
      /\ PAYLOAD_SIZE + 20 <= PayloadBytes /\ PayloadBytes <= TemporaryBytes
  BY SizesAssumption
<1>c. w \in 3 .. 9
  BY SizesAssumption
<1>d. size = bytes + (tph + stamp + 2 + 1)
  BY DEF EncoderInvariant, SizeExact
<1>1. /\ size = bytes + tph + stamp + 3
      /\ bytes + 7 <= PAYLOAD_SIZE
      /\ PAYLOAD_SIZE + 20 <= TemporaryBytes
  BY <1>a, <1>b, <1>d
<1>2. size + w + 1 > PAYLOAD_SIZE
  BY <1>a, <1>b, <1>c, <1>1 DEF Fits, TripleSize
<1>3. count >= 1 /\ count + 1 < 256
  BY <1>a, <1>b, <1>c, <1>1, <1>2
<1>4. ArrayHeader(count + 1) \in 1 .. 2
  BY <1>a, <1>3 DEF ArrayHeader
<1>5. Encoded \in Nat /\ Encoded <= size
  BY <1>a, <1>1, <1>4 DEF Encoded
<1>6. size \in Nat /\ size <= PAYLOAD_SIZE + 20
  BY <1>a, <1>b, <1>1
<1>7. QED
  BY <1>a, <1>b, <1>1, <1>3, <1>5, <1>6 DEF Encodable

\* Metadata that grows between two calls adds no more than 20 bytes to the size.
LEMMA GrownSize ==
    ASSUME NEW b \in Nat, NEW p \in 3 .. 15, NEW s \in 1 .. 9, NEW limit \in Nat,
           b + 7 <= limit
    PROVE  b + (p + s + 2 + 1) \in Nat /\ b + (p + s + 2 + 1) <= limit + 20
OBVIOUS

\* EncoderInvariant holds in every reachable state.
THEOREM EncoderCorrect == Spec => []EncoderInvariant
<1>1. Init => EncoderInvariant
  <2> SUFFICES ASSUME Init PROVE EncoderInvariant
    OBVIOUS
  <2>1. /\ PAYLOAD_SIZE \in Nat /\ Triples \in Nat /\ MaxCount \in Nat
        /\ UINT16_MAX \in Nat /\ PAYLOAD_SIZE >= 41
    BY SizesAssumption, UINT16_MAX_Nat
  <2>2. TypeOK
    BY <2>1 DEF Init, TypeOK
  <2>3. SizeExact
    BY DEF Init, SizeExact
  <2>4. QED
    BY <2>1, <2>2, <2>3 DEF Init, EncoderInvariant
<1>2. EncoderInvariant /\ [Next]_vars => EncoderInvariant'
  <2> SUFFICES ASSUME EncoderInvariant, [Next]_vars PROVE EncoderInvariant'
    OBVIOUS
  <2>0. /\ PAYLOAD_SIZE \in Nat /\ Triples \in Nat /\ MaxCount \in Nat
        /\ UINT16_MAX \in Nat /\ PAYLOAD_SIZE + 20 <= UINT16_MAX
        /\ PAYLOAD_SIZE >= 41 /\ PAYLOAD_SIZE <= 1026
        /\ PAYLOAD_SIZE < 4 * MaxCount + 4
        /\ TripleWidths \subseteq 3 .. 9
        /\ TphWidths \subseteq 3 .. 15
        /\ StampWidths \subseteq 1 .. 9
    BY SizesAssumption, UINT16_MAX_Nat
  <2>1. CASE StartCall
    <3>1. tph' \in 3 .. 15 /\ stamp \in 1 .. 9 /\ bytes \in Nat
      BY <2>0, <2>1 DEF EncoderInvariant, TypeOK, StartCall
    <3>2. bytes + 7 <= PAYLOAD_SIZE
      BY <2>0, <3>1 DEF EncoderInvariant
    <3>3. size' = bytes + (tph' + stamp + 2 + 1)
      BY <2>1, <3>1 DEF EncoderInvariant, SizeExact, StartCall
    <3>4. size' \in Nat /\ size' <= PAYLOAD_SIZE + 20
      BY <2>0, <3>1, <3>2, <3>3, GrownSize
    <3>5. size' \in 0 .. UINT16_MAX
      BY <2>0, <3>4
    <3>6. TypeOK'
      <4>1. left' \in 0 .. Triples
        BY <2>0, <2>1 DEF StartCall
      <4>2. flushes' \in Nat
        BY <2>1 DEF StartCall
      <4>3. QED
        BY <2>1, <3>1, <3>5, <4>1, <4>2 DEF EncoderInvariant, TypeOK, StartCall
    <3>7. SizeExact'
      BY <2>1, <3>3 DEF SizeExact, StartCall
    <3>8. QED
      BY <2>1, <3>6, <3>7 DEF EncoderInvariant, StartCall
  <2>2. ASSUME NEW w \in TripleWidths, AddTriple(w) PROVE EncoderInvariant'
    <3>1. w \in 3 .. 9
      BY <2>0
    <3>a. size + w + 1 <= PAYLOAD_SIZE
      BY <2>0, <2>2, <3>1 DEF EncoderInvariant, TypeOK, AddTriple, Fits, TripleSize
    <3>2. SizeExact' /\ (4 * count <= bytes)' /\ (bytes <= 10 * count)'
      BY <2>2, <3>1 DEF EncoderInvariant, TypeOK, SizeExact, AddTriple, TripleSize, meta, stored
    <3>3. (bytes + Overhead(ZeroTph, ZeroStamp) <= PAYLOAD_SIZE)'
      BY <2>0, <2>2, <3>1, <3>a
      DEF EncoderInvariant, TypeOK, SizeExact, AddTriple, TripleSize, meta, stored
    <3>4. count' \in 0 .. MaxCount
      BY <2>0, <2>2, <3>2, <3>3, <3>1 DEF EncoderInvariant, TypeOK, AddTriple, stored
    <3>5. TypeOK'
      BY <2>0, <2>2, <3>1, <3>a, <3>4
      DEF EncoderInvariant, TypeOK, AddTriple, TripleSize, meta, stored
    <3>6. QED
      BY <2>2, <3>2, <3>3, <3>5 DEF EncoderInvariant, AddTriple, stored
  <2>3. ASSUME NEW w \in TripleWidths, FlushAndAddTriple(w) PROVE EncoderInvariant'
    <3>1. w \in 3 .. 9 /\ pc = "loop" /\ ~ Fits(w)
      BY <2>0, <2>3 DEF FlushAndAddTriple
    <3>2. Encodable /\ Encoded <= size /\ size <= PAYLOAD_SIZE + 20
      BY <3>1, EncodingBounded
    <3>3. Encoded \in Nat
      BY DEF EncoderInvariant, TypeOK, Encoded, ArrayHeader
    <3>4. /\ length' = Encoded
          /\ flushes' = flushes + 1
          /\ unmeasured' = IF origin = "bme680" THEN 0 ELSE flushes'
      BY <2>3, <3>2 DEF FlushAndAddTriple
    <3>5. length' <= PAYLOAD_SIZE + 20
      BY <2>0, <3>2, <3>3, <3>4 DEF EncoderInvariant, TypeOK
    <3>6. /\ tph' = 3 /\ stamp' = 1 /\ count' = 1
          /\ size' = 7 + w + 1 /\ bytes' = w + 1 /\ left' = left - 1 /\ left > 0
          /\ pc' = "loop" /\ origin' = "memset"
      BY <2>3, <3>1 DEF FlushAndAddTriple, ClearedSize, TripleSize
    <3>7. flushes' \in Nat /\ length' \in Nat /\ unmeasured' \in Nat
      BY <3>3, <3>4 DEF EncoderInvariant, TypeOK
    <3>8. TypeOK'
      BY <2>0, <3>1, <3>4, <3>6, <3>7 DEF EncoderInvariant, TypeOK
    <3>9. QED
      BY <2>0, <3>1, <3>5, <3>6, <3>8 DEF EncoderInvariant, SizeExact
  <2>4. CASE EndCall
    BY <2>0, <2>4 DEF EncoderInvariant, TypeOK, SizeExact, EndCall, stored
  <2>5. CASE UNCHANGED vars
    BY <2>5
    DEF EncoderInvariant, TypeOK, SizeExact, vars, meta, stored
  <2>6. QED
    BY <2>1, <2>2, <2>3, <2>4, <2>5 DEF Next
<1>3. QED
  BY <1>1, <1>2, PTL DEF Spec

\* The variables keep their types: the predicted size never wraps, and the index into
\* msg_xyz never leaves the array (empty_fifo_fn's while loop).
THEOREM TypeCorrect == Spec => []TypeOK
<1>1. EncoderInvariant => TypeOK
  BY DEF EncoderInvariant
<1>2. QED
  BY <1>1, EncoderCorrect, PTL

\* The size carried from one call to the next is exact.
THEOREM SizeCorrect == Spec => []SizeExact
<1>1. EncoderInvariant => SizeExact
  BY DEF EncoderInvariant
<1>2. QED
  BY <1>1, EncoderCorrect, PTL

\* cbor_encode_msg never fails, so the branch that drops the samples is never taken.
THEOREM EncodingSucceeds == Spec => []AlwaysEncodable
<1>1. EncoderInvariant => AlwaysEncodable
  BY EncodingBounded DEF AlwaysEncodable
<1>2. QED
  BY <1>1, EncoderCorrect, PTL

\* An uncompressed message fits its slot.
THEOREM PayloadsFit == Spec => []PayloadFits
<1>1. EncoderInvariant => PayloadFits
  <2>1. ASSUME EncoderInvariant PROVE length \in Nat
    BY <2>1 DEF EncoderInvariant, TypeOK
  <2>2. QED
    BY <2>1, SizesAssumption DEF EncoderInvariant, PayloadFits
<1>2. QED
  BY <1>1, EncoderCorrect, PTL

\* No call stores a third message, and a message without measurements is a second one.
THEOREM FlushesBounded == Spec => []AtMostTwoFlushes
<1>1. Init => FlushInvariant
  BY DEF Init, FlushInvariant
<1>2. EncoderInvariant /\ FlushInvariant /\ [Next]_vars => FlushInvariant'
  <2> SUFFICES ASSUME EncoderInvariant, FlushInvariant, [Next]_vars
               PROVE FlushInvariant'
    OBVIOUS
  <2>0. /\ PAYLOAD_SIZE \in Nat /\ Triples \in Nat /\ PAYLOAD_SIZE >= 41
        /\ TripleWidths \subseteq 3 .. 9
        /\ left \in 0 .. Triples /\ bytes \in Nat /\ size \in Nat
        /\ tph \in 3 .. 15 /\ stamp \in 1 .. 9
        /\ pc = "loop" => size = bytes + tph + stamp + 3
    BY SizesAssumption DEF EncoderInvariant, TypeOK, SizeExact
  <2>1. CASE StartCall
    BY <2>1 DEF FlushInvariant, StartCall
  <2>2. ASSUME NEW w \in TripleWidths, AddTriple(w) PROVE FlushInvariant'
    BY <2>0, <2>2 DEF FlushInvariant, AddTriple, meta, stored
  <2>3. ASSUME NEW w \in TripleWidths, FlushAndAddTriple(w) PROVE FlushInvariant'
    <3>1. /\ w \in 3 .. 9 /\ pc = "loop" /\ left > 0
          /\ size + w + 1 > PAYLOAD_SIZE
      BY <2>0, <2>3 DEF FlushAndAddTriple, Fits, TripleSize
    <3>2. Encodable
      BY <2>3, EncodingBounded DEF FlushAndAddTriple
    <3>3. /\ flushes' = flushes + 1
          /\ unmeasured' = IF origin = "bme680" THEN 0 ELSE flushes'
      BY <2>3, <3>2 DEF FlushAndAddTriple
    <3>4. /\ tph' = 3 /\ stamp' = 1 /\ bytes' = w + 1 /\ left' = left - 1
      BY <2>3 DEF FlushAndAddTriple
    <3>5. flushes # 2
      BY <2>0, <3>1, TriplesAssumption DEF FlushInvariant
    <3>6. CASE flushes = 0
      BY <2>0, <3>1, <3>3, <3>4, <3>6 DEF FlushInvariant
    <3>7. CASE flushes = 1
      BY <2>0, <3>1, <3>3, <3>4, <3>7 DEF FlushInvariant
    <3>8. QED
      BY <3>5, <3>6, <3>7 DEF FlushInvariant
  <2>4. CASE EndCall
    BY <2>4 DEF FlushInvariant, EndCall, stored
  <2>5. CASE UNCHANGED vars
    BY <2>5 DEF FlushInvariant, vars, meta, stored
  <2>6. QED
    BY <2>1, <2>2, <2>3, <2>4, <2>5 DEF Next
<1>3. FlushInvariant => AtMostTwoFlushes
  BY DEF FlushInvariant, AtMostTwoFlushes
<1>4. QED
  BY <1>1, <1>2, <1>3, EncoderCorrect, PTL DEF Spec
=============================================================================
