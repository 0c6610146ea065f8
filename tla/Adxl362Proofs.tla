---------------------------- MODULE Adxl362Proofs ----------------------------
(***************************************************************************)
(* Theorems about Adxl362, for every size of the FIFO, every argument and  *)
(* every sample.                                                           *)
(***************************************************************************)
EXTENDS Adxl362, TLAPS

NoBits == {}
FifoMode == FIFO_STREAM \cup FIFO_AH
Mapped == INTMAP1_FIFO_WATERMARK \subseteq regs["INTMAP1"]
Pending == sysq # <<>> \/ running # "none"
Starting == stage \in {"reset", "part_id", "write", "pin"}

\* How far adxl362_init has come at each of its stages.
ProgressInvariant ==
    /\ stage \in {"reset", "part_id"} => written = 0 /\ pin = "off"
    /\ stage = "write" => written < 14 /\ (pin = "edge" <=> written >= 12)
    /\ stage = "pin" => written = 12 /\ pin = "off"
    /\ stage = "ready" => written = 14
    /\ stage = "ready" => pin = "edge"
    /\ pin = "edge" => written >= 12

\* What the writes done so far have left in the registers.
ControlInvariant ==
    stage \in {"part_id", "write", "pin", "ready"} =>
        /\ regs["ACT_INACT_CTL"] = (IF written >= 3 THEN ACT_EN ELSE {})
                                       \cup (IF written >= 6 THEN INACT_EN ELSE {})
                                       \cup (IF written >= 12 THEN LINKLOOP(3) ELSE {})
        /\ 4 \in regs["FILTER_CTL"]
        /\ regs["FILTER_CTL"] \cap FILTER_CTL_RANGE(3) = FILTER_CTL_RANGE(selected_range)
        /\ written >= 10 => regs["FILTER_CTL"] \cap FILTER_CTL_ODR(7) = FILTER_CTL_ODR(0)
FifoInvariant ==
    /\ written >= 7 => regs["FIFO_CTL"] = FifoMode
    /\ written >= 8 => regs["FIFO_SAMPLES"] = Reg(WaterMarkLevel % 256)
    /\ written >= 11 => regs["POWER_CTL"] = MEASURE_ON
RegisterInvariant == ProgressInvariant /\ ControlInvariant /\ FifoInvariant

\* Nothing is mapped or pending before adxl362_init returns; then only a set
\* handler's interrupt is mapped.
StartInvariant ==
    /\ Starting => ~Pending /\ fetched = NothingFetched /\ ~FetchFailed /\ selected_range = 0
    /\ stage \in {"part_id", "write", "pin"} => regs["INTMAP1"] = {}
    /\ Pending => pin = "edge"
    /\ pin = "edge" /\ Mapped => fifo_handler # "none"

\* Until a transfer fails the FIFO holds whole sets and what is pending is one
\* fetch, for the one edge there was; the line stays high until it is done.
OneFetch ==
    \/ sysq \in {<<"work">>, <<"empty_fifo">>} /\ running = "none"
    \/ sysq = <<>> /\ running = "empty_fifo"
FetchInvariant ==
    /\ stage \in {"part_id", "write", "pin"} \/ pin = "edge" => FetchFailed \/ level % 3 = 0
    /\ Pending => FetchFailed \/ (Line /\ OneFetch)
    /\ pin = "edge" /\ Line => Pending \/ FetchFailed

Adxl362Invariant ==
    /\ TypeOK /\ RegisterInvariant /\ StartInvariant /\ FetchInvariant
    /\ ReadsWholeSets /\ HandlerBeforeWork

-----------------------------------------------------------------------------
(* Registers.                                                              *)

\* The bits of a number, one by one.
LEMMA RegBits ==
    ASSUME NEW v \in Nat
    PROVE  /\ Reg(v) \subseteq 0..15
           /\ 0 \in Reg(v) <=> v % 2 = 1
           /\ 1 \in Reg(v) <=> (v \div 2) % 2 = 1
           /\ 2 \in Reg(v) <=> (v \div 4) % 2 = 1
           /\ 3 \in Reg(v) <=> (v \div 8) % 2 = 1
           /\ 4 \in Reg(v) <=> (v \div 16) % 2 = 1
           /\ 5 \in Reg(v) <=> (v \div 32) % 2 = 1
           /\ 6 \in Reg(v) <=> (v \div 64) % 2 = 1
           /\ 7 \in Reg(v) <=> (v \div 128) % 2 = 1
           /\ 8 \in Reg(v) <=> (v \div 256) % 2 = 1
           /\ 9 \in Reg(v) <=> (v \div 512) % 2 = 1
           /\ 10 \in Reg(v) <=> (v \div 1024) % 2 = 1
           /\ 11 \in Reg(v) <=> (v \div 2048) % 2 = 1
           /\ 12 \in Reg(v) <=> (v \div 4096) % 2 = 1
           /\ 13 \in Reg(v) <=> (v \div 8192) % 2 = 1
           /\ 14 \in Reg(v) <=> (v \div 16384) % 2 = 1
           /\ 15 \in Reg(v) <=> (v \div 32768) % 2 = 1
<1>1. Reg(v) \subseteq 0..15
  BY DEF Reg
<1>2. 0 \in Reg(v) <=> v % 2 = 1
  BY 2^0 = 1 DEF Reg
<1>3. 1 \in Reg(v) <=> (v \div 2) % 2 = 1
  BY 2^1 = 2 DEF Reg
<1>4. 2 \in Reg(v) <=> (v \div 4) % 2 = 1
  BY 2^2 = 4 DEF Reg
<1>5. 3 \in Reg(v) <=> (v \div 8) % 2 = 1
  BY 2^3 = 8 DEF Reg
<1>6. 4 \in Reg(v) <=> (v \div 16) % 2 = 1
  BY 2^4 = 16 DEF Reg
<1>7. 5 \in Reg(v) <=> (v \div 32) % 2 = 1
  BY 2^5 = 32 DEF Reg
<1>8. 6 \in Reg(v) <=> (v \div 64) % 2 = 1
  BY 2^6 = 64 DEF Reg
<1>9. 7 \in Reg(v) <=> (v \div 128) % 2 = 1
  BY 2^7 = 128 DEF Reg
<1>10. 8 \in Reg(v) <=> (v \div 256) % 2 = 1
  BY 2^8 = 256 DEF Reg
<1>11. 9 \in Reg(v) <=> (v \div 512) % 2 = 1
  BY 2^9 = 512 DEF Reg
<1>12. 10 \in Reg(v) <=> (v \div 1024) % 2 = 1
  BY 2^10 = 1024 DEF Reg
<1>13. 11 \in Reg(v) <=> (v \div 2048) % 2 = 1
  BY 2^11 = 2048 DEF Reg
<1>14. 12 \in Reg(v) <=> (v \div 4096) % 2 = 1
  BY 2^12 = 4096 DEF Reg
<1>15. 13 \in Reg(v) <=> (v \div 8192) % 2 = 1
  BY 2^13 = 8192 DEF Reg
<1>16. 14 \in Reg(v) <=> (v \div 16384) % 2 = 1
  BY 2^14 = 16384 DEF Reg
<1>17. 15 \in Reg(v) <=> (v \div 32768) % 2 = 1
  BY 2^15 = 32768 DEF Reg
<1> QED
  BY <1>1, <1>2, <1>3, <1>4, <1>5, <1>6, <1>7, <1>8, <1>9, <1>10, <1>11, <1>12, <1>13, <1>14, <1>15, <1>16, <1>17

\* The fields and bits of adxl362.h.
LEMMA Fields ==
    /\ INTMAP1_FIFO_WATERMARK = {2} /\ MEASURE_ON = {1}
    /\ FIFO_STREAM = {1} /\ FIFO_AH = {3}
    /\ ACT_EN = {0} /\ ACT_REF = {1} /\ INACT_EN = {2} /\ INACT_REF = {3}
    /\ LINKLOOP(3) = {4, 5}
    /\ FILTER_CTL_RANGE(3) = {6, 7} /\ FILTER_CTL_RANGE(0) = {}
    /\ FILTER_CTL_RANGE(1) = {6} /\ FILTER_CTL_RANGE(2) = {7}
    /\ FILTER_CTL_ODR(7) = {0, 1, 2} /\ FILTER_CTL_ODR(0) = {}
    /\ Reg(19) = {0, 1, 4}
<1>1. Reg(0) = {} /\ Reg(1) = {0} /\ Reg(2) = {1} /\ Reg(3) = {0, 1}
  BY RegBits
<1>2. Reg(4) = {2} /\ Reg(7) = {0, 1, 2} /\ Reg(8) = {3} /\ Reg(19) = {0, 1, 4}
  BY RegBits
<1>3. FILTER_CTL_RANGE(0) = {} /\ FILTER_CTL_RANGE(1) = {6}
  BY <1>1 DEF FILTER_CTL_RANGE
<1>4. FILTER_CTL_RANGE(2) = {7} /\ FILTER_CTL_RANGE(3) = {6, 7}
  BY <1>1 DEF FILTER_CTL_RANGE
<1>5. LINKLOOP(3) = {4, 5}
  BY <1>1 DEF LINKLOOP
<1> QED
  BY <1>1, <1>2, <1>3, <1>4, <1>5
  DEF INTMAP1_FIFO_WATERMARK, MEASURE_ON, FIFO_STREAM, FIFO_AH, ACT_EN, ACT_REF,
      INACT_EN, INACT_REF, FILTER_CTL_ODR

\* A byte is written and read back.
LEMMA ValReg == ASSUME NEW v \in Nat, v < 256 PROVE Val(Reg(v)) = v
<1>1. Val(Reg(v)) = (v % 2) + 2 * ((v \div 2) % 2) + 4 * ((v \div 4) % 2)
                    + 8 * ((v \div 8) % 2) + 16 * ((v \div 16) % 2)
                    + 32 * ((v \div 32) % 2) + 64 * ((v \div 64) % 2)
                    + 128 * ((v \div 128) % 2)
  BY RegBits DEF Val
<1> QED
  BY <1>1

\* A sequence put together as InitWrites is.
LEMMA Joined ==
    ASSUME NEW a, NEW b, NEW c, NEW d, NEW e, NEW f, NEW g, NEW h, NEW i, NEW j,
           NEW k, NEW l, NEW m, NEW n
    PROVE  LET s == (<<a, b, c>> \o <<d, e, f>> \o <<g, h>> \o <<i, j, k>>) \o <<l>> \o <<m, n>>
           IN  /\ Len(s) = 14
               /\ s[1] = a /\ s[2] = b /\ s[3] = c /\ s[4] = d /\ s[5] = e /\ s[6] = f
               /\ s[7] = g /\ s[8] = h /\ s[9] = i /\ s[10] = j /\ s[11] = k
               /\ s[12] = l /\ s[13] = m /\ s[14] = n
OBVIOUS

\* What each write of the initialisation replaces and sets.
ThreshAct == Reg(Settings["activity_threshold"] % 2048)
TimeAct == Reg(Settings["activity_time"] % 256)
ThreshInact == Reg(Settings["inactivity_threshold"] % 2048)
TimeInact == Reg(Settings["inactivity_time"] % 65536)
WaterMark == Reg(WaterMarkLevel % 256)

LEMMA InitSequence ==
    /\ Len(InitWrites) = 14 /\ Len(ChipInit) = 11
    /\ InitWrites[1] = <<"THRESH_ACT", All, ThreshAct>>
    /\ InitWrites[2] = <<"TIME_ACT", All, TimeAct>>
    /\ InitWrites[3] = <<"ACT_INACT_CTL", ACT_REF, ACT_EN>>
    /\ InitWrites[4] = <<"THRESH_INACT", All, ThreshInact>>
    /\ InitWrites[5] = <<"TIME_INACT", All, TimeInact>>
    /\ InitWrites[6] = <<"ACT_INACT_CTL", INACT_REF, INACT_EN>>
    /\ InitWrites[7] = <<"FIFO_CTL", All, FifoMode>>
    /\ InitWrites[8] = <<"FIFO_SAMPLES", All, WaterMark>>
    /\ InitWrites[9] = <<"FILTER_CTL", FILTER_CTL_RANGE(3), FILTER_CTL_RANGE(0)>>
    /\ InitWrites[10] = <<"FILTER_CTL", FILTER_CTL_ODR(7), FILTER_CTL_ODR(0)>>
    /\ InitWrites[11] = <<"POWER_CTL", All, MEASURE_ON>>
    /\ InitWrites[12] = <<"ACT_INACT_CTL", NoBits, LINKLOOP(3)>>
    /\ InitWrites[13] = <<"INTMAP1", All, NoBits>>
    /\ InitWrites[14] = <<"INTMAP2", All, NoBits>>
<1> DEFINE w1 == <<"THRESH_ACT", All, ThreshAct>>
           w2 == <<"TIME_ACT", All, TimeAct>>
           w3 == <<"ACT_INACT_CTL", ACT_REF, ACT_EN>>
           w4 == <<"THRESH_INACT", All, ThreshInact>>
           w5 == <<"TIME_INACT", All, TimeInact>>
           w6 == <<"ACT_INACT_CTL", INACT_REF, INACT_EN>>
           w7 == <<"FIFO_CTL", All, FifoMode>>
           w8 == <<"FIFO_SAMPLES", All, WaterMark>>
           w9 == <<"FILTER_CTL", FILTER_CTL_RANGE(3), FILTER_CTL_RANGE(0)>>
           w10 == <<"FILTER_CTL", FILTER_CTL_ODR(7), FILTER_CTL_ODR(0)>>
           w11 == <<"POWER_CTL", All, MEASURE_ON>>
           w12 == <<"ACT_INACT_CTL", NoBits, LINKLOOP(3)>>
           w13 == <<"INTMAP1", All, NoBits>>
           w14 == <<"INTMAP2", All, NoBits>>
<1>1. ChipInit = <<w1, w2, w3>> \o <<w4, w5, w6>> \o <<w7, w8>> \o <<w9, w10, w11>>
  BY DEF ChipInit, ActivityDetection, InactivityDetection, FifoSetup, SetRange, SetOutputRate,
         ThreshAct, TimeAct, ThreshInact, TimeInact, WaterMark, FifoMode
<1>2. InitWrites = ChipInit \o <<w12>> \o <<w13, w14>>
  BY DEF InitWrites, SetInterruptMode, InterruptConfig, NoBits
<1> HIDE DEF w1, w2, w3, w4, w5, w6, w7, w8, w9, w10, w11, w12, w13, w14
<1>3. Len(ChipInit) = 11
  BY <1>1
<1>4. /\ Len(InitWrites) = 14
      /\ InitWrites[1] = w1 /\ InitWrites[2] = w2 /\ InitWrites[3] = w3 /\ InitWrites[4] = w4
      /\ InitWrites[5] = w5 /\ InitWrites[6] = w6 /\ InitWrites[7] = w7 /\ InitWrites[8] = w8
      /\ InitWrites[9] = w9 /\ InitWrites[10] = w10 /\ InitWrites[11] = w11
      /\ InitWrites[12] = w12 /\ InitWrites[13] = w13 /\ InitWrites[14] = w14
  BY <1>1, <1>2, Joined
<1> QED
  BY <1>3, <1>4 DEF w1, w2, w3, w4, w5, w6, w7, w8, w9, w10, w11, w12, w13, w14

-----------------------------------------------------------------------------
(* Operators.                                                              *)

LEMMA MaxWithZero == ASSUME NEW n \in Int PROVE Max({0, n}) = IF n > 0 THEN n ELSE 0
<1>1. \E x \in {0, n} : \A y \in {0, n} : x >= y
  OBVIOUS
<1>2. Max({0, n}) \in {0, n} /\ \A y \in {0, n} : Max({0, n}) >= y
  BY <1>1 DEF Max
<1> QED
  BY <1>2

\* A FIFO entry carries its sample unchanged: the axis is removed, the sign extended.
LEMMA ConversionExact ==
    ASSUME NEW axis \in 0..2, NEW v \in SampleValues
    PROVE  Converted(Entry(axis, v)) = v
<1>1. v \in Int /\ -2048 <= v /\ v <= 2047
  BY SamplesAssumption
<1>2. 2^12 = 4096 /\ 2^14 = 16384 /\ 2^15 = 32768 /\ 2^16 = 65536
  OBVIOUS
<1>3. Entry(axis, v) % 16384 = v % 16384
  BY <1>1, <1>2 DEF Entry
<1>4. CASE v >= 0
  <2>1. v % 16384 = v /\ v \div 4096 = 0
    BY <1>1, <1>4
  <2> QED
    BY <1>1, <1>2, <1>3, <2>1 DEF Converted
<1>5. CASE v < 0
  <2>1. v % 16384 = v + 16384 /\ (v + 16384) \div 4096 = 3
    BY <1>1, <1>5
  <2> QED
    BY <1>1, <1>2, <1>3, <2>1 DEF Converted
<1> QED
  BY <1>1, <1>4, <1>5

LEMMA RangeIsRange == ASSUME NEW scale \in Nat, scale <= 8 PROVE RangeFor(scale) \in 0..2
<1>1. 2^(0 + 1) = 2 /\ 2^(1 + 1) = 4 /\ 2^(2 + 1) = 8
  OBVIOUS
<1>2. \E x \in 0..2 : scale <= 2^(x + 1) /\ \A y \in 0..(x - 1) : scale > 2^(y + 1)
  <2>1. CASE scale <= 2
    BY <1>1, <2>1
  <2>2. CASE scale > 2 /\ scale <= 4
    <3>1. \A y \in 0..(1 - 1) : y = 0
      OBVIOUS
    <3> QED
      BY <1>1, <2>2, <3>1
  <2>3. CASE scale > 4
    <3>1. \A y \in 0..(2 - 1) : y = 0 \/ y = 1
      OBVIOUS
    <3> QED
      BY <1>1, <2>3, <3>1
  <2> QED
    BY <2>1, <2>2, <2>3
<1> QED
  BY <1>2 DEF RangeFor

LEMMA AppendPair == ASSUME NEW x, NEW y PROVE Append(<<x>>, y) = <<x, y>>
<1> DEFINE s == Append(<<x>>, y)
           t == <<x, y>>
<1>1. \A T : \A p, q \in Seq(T) :
          Len(p) = Len(q) /\ (\A i \in 1..Len(p) : p[i] = q[i]) => p = q
  OBVIOUS
<1>2. s \in Seq({x, y})
  <2>1. <<x>> \in Seq({x, y})
    OBVIOUS
  <2> QED
    BY <2>1
<1>3. t \in Seq({x, y})
  OBVIOUS
<1>4. Len(s) = 2 /\ Len(t) = 2 /\ s[1] = t[1] /\ s[2] = t[2]
  OBVIOUS
<1>5. \A i \in 1..2 : i = 1 \/ i = 2
  OBVIOUS
<1> HIDE DEF s, t
<1>6. s = t
  BY <1>1, <1>2, <1>3, <1>4, <1>5
<1> QED
  BY <1>6 DEF s, t

LEMMA TailPair == ASSUME NEW x, NEW y PROVE Tail(<<x, y>>) = <<y>> /\ Tail(<<x>>) = <<>>
<1> DEFINE s == Tail(<<x, y>>)
           t == <<y>>
<1>1. \A T : \A p, q \in Seq(T) :
          Len(p) = Len(q) /\ (\A i \in 1..Len(p) : p[i] = q[i]) => p = q
  OBVIOUS
<1>2. s \in Seq({x, y}) /\ t \in Seq({x, y})
  <2>1. <<x, y>> \in Seq({x, y}) /\ <<x, y>> # <<>>
    OBVIOUS
  <2> QED
    BY <2>1
<1>3. Len(s) = 1 /\ Len(t) = 1 /\ s[1] = t[1]
  OBVIOUS
<1>4. \A i \in 1..1 : i = 1
  OBVIOUS
<1> HIDE DEF s, t
<1>5. s = t
  BY <1>1, <1>2, <1>3, <1>4
<1>6. Tail(<<x>>) = <<>>
  OBVIOUS
<1> QED
  BY <1>5, <1>6 DEF s, t

Queues == {<<>>, <<"work">>, <<"empty_fifo">>, <<"work", "empty_fifo">>, <<"empty_fifo", "work">>}

\* Submitting an item changes a queue only if it is not in it.
LEMMA SubmittedQueue ==
    ASSUME NEW q \in Queues
    PROVE  /\ Submitted(q, "work") \in Queues \ {<<>>}
           /\ q = <<>> => Submitted(q, "work") = <<"work">>
           /\ Contains(Submitted(q, "work"), "work")
           /\ q # <<>> /\ Head(q) = "work" =>
                  /\ Submitted(Tail(q), "empty_fifo") \in Queues \ {<<>>}
                  /\ q = <<"work">> => Submitted(Tail(q), "empty_fifo") = <<"empty_fifo">>
                  /\ ~Contains(Submitted(Tail(q), "empty_fifo"), "work")
<1>1. CASE q = <<>>
  <2>1. ~Contains(q, "work")
    BY <1>1 DEF Contains
  <2>2. Submitted(q, "work") = <<"work">>
    BY <1>1, <2>1 DEF Submitted
  <2>3. Contains(<<"work">>, "work")
    BY DEF Contains
  <2> QED
    BY <1>1, <2>2, <2>3 DEF Queues
<1>2. CASE q = <<"work">>
  BY <1>2 DEF Queues, Submitted, Contains
<1>3. CASE q = <<"empty_fifo">>
  <2>1. ~Contains(q, "work")
    BY <1>3 DEF Contains
  <2>2. Submitted(q, "work") = <<"empty_fifo", "work">>
    <3>1. Append(<<"empty_fifo">>, "work") = <<"empty_fifo", "work">>
      BY AppendPair
    <3> QED
      BY <1>3, <2>1, <3>1 DEF Submitted
  <2>3. Contains(<<"empty_fifo", "work">>, "work")
    <3>1. 2 \in 1..Len(<<"empty_fifo", "work">>) /\ <<"empty_fifo", "work">>[2] = "work"
      OBVIOUS
    <3> QED
      BY <3>1 DEF Contains
  <2> QED
    BY <1>3, <2>2, <2>3 DEF Queues
<1>4. CASE q = <<"work", "empty_fifo">>
  BY <1>4 DEF Queues, Submitted, Contains
<1>5. CASE q = <<"empty_fifo", "work">>
  BY <1>5 DEF Queues, Submitted, Contains
<1> QED
  BY <1>1, <1>2, <1>3, <1>4, <1>5 DEF Queues

LEMMA InitLengths == Len(InitWrites) = 14 /\ Len(ChipInit) = 11
BY InitSequence

LEMMA ResetRegisters ==
    /\ ResetValue \in [Registers -> SUBSET All]
    /\ ResetValue["FILTER_CTL"] = {0, 1, 4}
    /\ ResetValue["ACT_INACT_CTL"] = {} /\ ResetValue["INTMAP1"] = {}
<1>1. {0, 1, 4} \in SUBSET All /\ {} \in SUBSET All
  BY DEF All
<1>2. Reg(128) \in SUBSET All
  BY DEF Reg, All
<1>3. ASSUME NEW r \in Registers
      PROVE  ResetValue[r] \in SUBSET All
  <2> DEFINE samples == Reg(128)
  <2>1. samples \in SUBSET All
    BY <1>2
  <2>2. ResetValue[r] \in {{0, 1, 4}, samples, {}}
    BY Fields DEF ResetValue
  <2> HIDE DEF samples
  <2> QED
    BY <1>1, <2>1, <2>2
<1>4. ResetValue = [r \in Registers |-> ResetValue[r]]
  BY DEF ResetValue
<1> QED
  BY <1>3, <1>4, Fields DEF ResetValue, Registers

\* The watermark of a chip that is configured is one sample short of what a
\* fetch reads.
LEMMA ConfiguredWatermark ==
    ASSUME NEW r,
           r["FIFO_CTL"] = FifoMode,
           r["FIFO_SAMPLES"] = Reg(WaterMarkLevel % 256)
    PROVE  Watermark(r) = ReadLength - 1
<1>1. WaterMarkLevel % 256 = WaterMarkLevel
  BY FifoAssumption
<1>2. Val(r["FIFO_SAMPLES"]) = WaterMarkLevel
  BY <1>1, ValReg, FifoAssumption
<1> QED
  BY <1>2, Fields, FifoAssumption DEF Watermark, FifoMode

\* Its interrupt line.
LEMMA LineOfConfigured ==
    ASSUME NEW r, NEW n \in Nat,
           r["FIFO_CTL"] = FifoMode,
           r["FIFO_SAMPLES"] = Reg(WaterMarkLevel % 256),
           r["POWER_CTL"] = MEASURE_ON
    PROVE  LineHigh(r, n) <=> INTMAP1_FIFO_WATERMARK \subseteq r["INTMAP1"] /\ n >= ReadLength - 1
BY ConfiguredWatermark DEF LineHigh

-----------------------------------------------------------------------------
(* adxl362_init.                                                           *)

LEMMA InitInvariant == Init => Adxl362Invariant
<1> SUFFICES ASSUME Init PROVE Adxl362Invariant
  OBVIOUS
<1>1. TypeOK
  BY ResetRegisters, InitLengths, FifoAssumption DEF Init, TypeOK
<1>2. RegisterInvariant
  BY DEF Init, RegisterInvariant, ProgressInvariant, ControlInvariant, FifoInvariant
<1>3. StartInvariant
  BY DEF Init, StartInvariant, Pending, Starting, FetchFailed
<1>4. FetchInvariant
  BY DEF Init, FetchInvariant, Pending
<1>5. ReadsWholeSets /\ HandlerBeforeWork
  BY DEF Init, ReadsWholeSets, HandlerBeforeWork, NothingFetched, Contains
<1> QED
  BY <1>1, <1>2, <1>3, <1>4, <1>5 DEF Adxl362Invariant

\* While nothing is pending the properties of fetches hold trivially.
LEMMA NothingPending ==
    ASSUME ~Pending, Adxl362Invariant, UNCHANGED <<sysq, running, ghosts>>
    PROVE  ~Pending' /\ ReadsWholeSets' /\ HandlerBeforeWork'
BY DEF Pending, Adxl362Invariant, ReadsWholeSets, HandlerBeforeWork, Contains, ghosts, FetchFailed

LEMMA StepReset == Adxl362Invariant /\ SoftwareReset => Adxl362Invariant'
<1> SUFFICES ASSUME Adxl362Invariant, SoftwareReset PROVE Adxl362Invariant'
  OBVIOUS
<1>1. /\ stage = "reset" /\ stage' = "part_id" /\ regs' = ResetValue /\ level' = 0
      /\ UNCHANGED <<written, pin, selected_range, fifo_handler, sysq, running, fetched, transfers>>
  BY DEF SoftwareReset, queue, ghosts
<1>2. ~Pending /\ fetched = NothingFetched /\ selected_range = 0 /\ written = 0 /\ pin = "off" /\ ~FetchFailed
  BY <1>1 DEF Adxl362Invariant, StartInvariant, Starting, RegisterInvariant, ProgressInvariant
<1>3. ~Pending' /\ ReadsWholeSets' /\ HandlerBeforeWork'
  BY <1>1, <1>2, NothingPending DEF ghosts
<1>4. TypeOK'
  BY <1>1, ResetRegisters, FifoAssumption DEF Adxl362Invariant, TypeOK
<1>5. RegisterInvariant'
  <2>1. ProgressInvariant' /\ FifoInvariant'
    BY <1>1, <1>2 DEF ProgressInvariant, FifoInvariant
  <2>2. ControlInvariant'
    BY <1>1, <1>2, ResetRegisters, Fields DEF ControlInvariant
  <2> QED
    BY <2>1, <2>2 DEF RegisterInvariant
<1>6. StartInvariant'
  BY <1>1, <1>2, <1>3, ResetRegisters DEF StartInvariant, Starting, FetchFailed
<1>7. FetchInvariant'
  <2>1. level' % 3 = 0 /\ pin' = "off"
    BY <1>1, <1>2
  <2> QED
    BY <1>3, <2>1 DEF FetchInvariant
<1> QED
  BY <1>3, <1>4, <1>5, <1>6, <1>7 DEF Adxl362Invariant

\* The steps of the initialisation that do not write a register.
LEMMA StepInit ==
    Adxl362Invariant /\ (ReadPartId \/ ConfigurePin \/ InitFails) => Adxl362Invariant'
<1> SUFFICES ASSUME Adxl362Invariant, ReadPartId \/ ConfigurePin \/ InitFails
             PROVE  Adxl362Invariant'
  OBVIOUS
<1>1. /\ UNCHANGED <<regs, level, written, selected_range, fifo_handler, sysq, running, fetched, transfers>>
      /\ \/ stage = "part_id" /\ stage' = "write" /\ pin' = pin
         \/ stage = "pin" /\ stage' = "write" /\ pin' = "edge"
         \/ Starting /\ stage' = "failed" /\ pin' = pin
  BY DEF ReadPartId, ConfigurePin, InitFails, Starting, queue, ghosts
<1>2. Starting /\ ~Pending /\ fetched = NothingFetched /\ ~FetchFailed
  BY <1>1 DEF Adxl362Invariant, StartInvariant, Starting
<1>3. ~Pending' /\ ReadsWholeSets' /\ HandlerBeforeWork'
  BY <1>1, <1>2, NothingPending DEF ghosts
<1>4. TypeOK'
  BY <1>1 DEF Adxl362Invariant, TypeOK
<1>5. RegisterInvariant'
  <2>1. ProgressInvariant'
    BY <1>1, InitLengths DEF Adxl362Invariant, TypeOK, RegisterInvariant, ProgressInvariant, Starting
  <2>2. FifoInvariant'
    BY <1>1 DEF Adxl362Invariant, RegisterInvariant, FifoInvariant
  <2>3. ControlInvariant'
    BY <1>1 DEF Adxl362Invariant, RegisterInvariant, ControlInvariant
  <2> QED
    BY <2>1, <2>2, <2>3 DEF RegisterInvariant
<1>6. pin' = "edge" => ~Mapped' /\ ~Line'
  BY <1>1, Fields DEF Adxl362Invariant, StartInvariant, RegisterInvariant, ProgressInvariant,
                      Starting, Mapped, Line, LineHigh
<1>7. StartInvariant'
  BY <1>1, <1>2, <1>3, <1>6 DEF Adxl362Invariant, StartInvariant, Starting, FetchFailed
<1>8. FetchInvariant'
  BY <1>1, <1>2, <1>3, <1>6 DEF Adxl362Invariant, FetchInvariant, Starting,
     RegisterInvariant, ProgressInvariant
<1> QED
  BY <1>3, <1>4, <1>5, <1>7, <1>8 DEF Adxl362Invariant

LEMMA RegIsRegister == \A v : Reg(v) \in SUBSET All
BY DEF Reg, All

\* A register written takes bits of its width.
LEMMA MaskedIsRegister ==
    ASSUME NEW old \in SUBSET All, NEW mask, NEW data \in SUBSET All
    PROVE  Masked(old, mask, data) \in SUBSET All
BY DEF Masked

\* What was there is replaced as a whole.
LEMMA MaskedAllIsData ==
    ASSUME NEW old \in SUBSET All, NEW data PROVE Masked(old, All, data) = data
BY DEF Masked

\* A register was written, the others are as they were.
Changed(r, mask, data) ==
    /\ regs' \in [Registers -> SUBSET All]
    /\ regs'[r] = Masked(regs[r], mask, data)
    /\ \A q \in Registers \ {r} : regs'[q] = regs[q]

LEMMA WriteChanges ==
    ASSUME regs \in [Registers -> SUBSET All],
           NEW r \in Registers, NEW mask, NEW data \in SUBSET All, Write(<<r, mask, data>>)
    PROVE  Changed(r, mask, data)
<1>1. regs' = [regs EXCEPT ![r] = Masked(@, mask, data)]
  BY DEF Write
<1>2. Masked(regs[r], mask, data) \in SUBSET All
  BY MaskedIsRegister
<1> QED
  BY <1>1, <1>2 DEF Changed

\* All that the initialisation writes.
LEMMA DataIsRegister ==
    /\ ThreshAct \in SUBSET All /\ TimeAct \in SUBSET All
    /\ ThreshInact \in SUBSET All /\ TimeInact \in SUBSET All /\ WaterMark \in SUBSET All
    /\ ACT_EN \in SUBSET All /\ INACT_EN \in SUBSET All /\ LINKLOOP(3) \in SUBSET All
    /\ FifoMode \in SUBSET All /\ MEASURE_ON \in SUBSET All /\ NoBits \in SUBSET All
    /\ \A x \in 0..2 : FILTER_CTL_RANGE(x) \in SUBSET All
    /\ FILTER_CTL_ODR(0) \in SUBSET All
<1>1. /\ ThreshAct \in SUBSET All /\ TimeAct \in SUBSET All
      /\ ThreshInact \in SUBSET All /\ TimeInact \in SUBSET All /\ WaterMark \in SUBSET All
  BY RegIsRegister DEF ThreshAct, TimeAct, ThreshInact, TimeInact, WaterMark
<1>2. /\ ACT_EN \in SUBSET All /\ INACT_EN \in SUBSET All /\ LINKLOOP(3) \in SUBSET All
      /\ FifoMode \in SUBSET All /\ MEASURE_ON \in SUBSET All /\ NoBits \in SUBSET All
  BY Fields DEF All, FifoMode, NoBits
<1>3. \A x \in 0..2 : FILTER_CTL_RANGE(x) \in SUBSET All
  <2>1. \A x \in 0..2 : x = 0 \/ x = 1 \/ x = 2
    OBVIOUS
  <2> QED
    BY <2>1, Fields DEF All
<1>4. FILTER_CTL_ODR(0) \in SUBSET All
  BY Fields DEF All
<1> QED
  BY <1>1, <1>2, <1>3, <1>4

\* The register a write of the initialisation changes, and how.
LEMMA WriteEffect ==
    ASSUME regs \in [Registers -> SUBSET All], NEW k \in 0..13, Write(InitWrites[k + 1])
    PROVE  /\ k = 0 => Changed("THRESH_ACT", All, ThreshAct)
           /\ k = 1 => Changed("TIME_ACT", All, TimeAct)
           /\ k = 2 => Changed("ACT_INACT_CTL", ACT_REF, ACT_EN)
           /\ k = 3 => Changed("THRESH_INACT", All, ThreshInact)
           /\ k = 4 => Changed("TIME_INACT", All, TimeInact)
           /\ k = 5 => Changed("ACT_INACT_CTL", INACT_REF, INACT_EN)
           /\ k = 6 => Changed("FIFO_CTL", All, FifoMode)
           /\ k = 7 => Changed("FIFO_SAMPLES", All, WaterMark)
           /\ k = 8 => Changed("FILTER_CTL", FILTER_CTL_RANGE(3), FILTER_CTL_RANGE(0))
           /\ k = 9 => Changed("FILTER_CTL", FILTER_CTL_ODR(7), FILTER_CTL_ODR(0))
           /\ k = 10 => Changed("POWER_CTL", All, MEASURE_ON)
           /\ k = 11 => Changed("ACT_INACT_CTL", NoBits, LINKLOOP(3))
           /\ k = 12 => Changed("INTMAP1", All, NoBits)
           /\ k = 13 => Changed("INTMAP2", All, NoBits)
<1>1. CASE k = 0
  <2>1. Write(<<"THRESH_ACT", All, ThreshAct>>)
    BY <1>1, InitSequence
  <2> QED
    BY <1>1, <2>1, WriteChanges, DataIsRegister DEF Registers
<1>2. CASE k = 1
  <2>1. Write(<<"TIME_ACT", All, TimeAct>>)
    BY <1>2, InitSequence
  <2> QED
    BY <1>2, <2>1, WriteChanges, DataIsRegister DEF Registers
<1>3. CASE k = 2
  <2>1. Write(<<"ACT_INACT_CTL", ACT_REF, ACT_EN>>)
    BY <1>3, InitSequence
  <2> QED
    BY <1>3, <2>1, WriteChanges, DataIsRegister DEF Registers
<1>4. CASE k = 3
  <2>1. Write(<<"THRESH_INACT", All, ThreshInact>>)
    BY <1>4, InitSequence
  <2> QED
    BY <1>4, <2>1, WriteChanges, DataIsRegister DEF Registers
<1>5. CASE k = 4
  <2>1. Write(<<"TIME_INACT", All, TimeInact>>)
    BY <1>5, InitSequence
  <2> QED
    BY <1>5, <2>1, WriteChanges, DataIsRegister DEF Registers
<1>6. CASE k = 5
  <2>1. Write(<<"ACT_INACT_CTL", INACT_REF, INACT_EN>>)
    BY <1>6, InitSequence
  <2> QED
    BY <1>6, <2>1, WriteChanges, DataIsRegister DEF Registers
<1>7. CASE k = 6
  <2>1. Write(<<"FIFO_CTL", All, FifoMode>>)
    BY <1>7, InitSequence
  <2> QED
    BY <1>7, <2>1, WriteChanges, DataIsRegister DEF Registers
<1>8. CASE k = 7
  <2>1. Write(<<"FIFO_SAMPLES", All, WaterMark>>)
    BY <1>8, InitSequence
  <2> QED
    BY <1>8, <2>1, WriteChanges, DataIsRegister DEF Registers
<1>9. CASE k = 8
  <2>1. Write(<<"FILTER_CTL", FILTER_CTL_RANGE(3), FILTER_CTL_RANGE(0)>>)
    BY <1>9, InitSequence
  <2> QED
    BY <1>9, <2>1, WriteChanges, DataIsRegister DEF Registers
<1>10. CASE k = 9
  <2>1. Write(<<"FILTER_CTL", FILTER_CTL_ODR(7), FILTER_CTL_ODR(0)>>)
    BY <1>10, InitSequence
  <2> QED
    BY <1>10, <2>1, WriteChanges, DataIsRegister DEF Registers
<1>11. CASE k = 10
  <2>1. Write(<<"POWER_CTL", All, MEASURE_ON>>)
    BY <1>11, InitSequence
  <2> QED
    BY <1>11, <2>1, WriteChanges, DataIsRegister DEF Registers
<1>12. CASE k = 11
  <2>1. Write(<<"ACT_INACT_CTL", NoBits, LINKLOOP(3)>>)
    BY <1>12, InitSequence
  <2> QED
    BY <1>12, <2>1, WriteChanges, DataIsRegister DEF Registers
<1>13. CASE k = 12
  <2>1. Write(<<"INTMAP1", All, NoBits>>)
    BY <1>13, InitSequence
  <2> QED
    BY <1>13, <2>1, WriteChanges, DataIsRegister DEF Registers
<1>14. CASE k = 13
  <2>1. Write(<<"INTMAP2", All, NoBits>>)
    BY <1>14, InitSequence
  <2> QED
    BY <1>14, <2>1, WriteChanges, DataIsRegister DEF Registers
<1> QED
  BY <1>1, <1>2, <1>3, <1>4, <1>5, <1>6, <1>7, <1>8, <1>9, <1>10, <1>11, <1>12, <1>13, <1>14

\* The invariants of the registers after each of the writes.
LEMMA ControlWritten ==
    ASSUME TypeOK, ControlInvariant, stage = "write", written < 14,
           Write(InitWrites[written + 1]), written' = written + 1, selected_range = 0,
           selected_range' = selected_range
    PROVE  ControlInvariant'
<1>1. written \in 0..13 /\ regs \in [Registers -> SUBSET All]
  BY InitLengths DEF TypeOK
<1> DEFINE act == regs["ACT_INACT_CTL"]
           filter == regs["FILTER_CTL"]
<1>2. /\ written = 2 => act' = (act \ ACT_REF) \cup ACT_EN
      /\ written = 5 => act' = (act \ INACT_REF) \cup INACT_EN
      /\ written = 11 => act' = act \cup LINKLOOP(3)
      /\ written \notin {2, 5, 11} => act' = act
  BY <1>1, WriteEffect DEF Changed, Masked, NoBits, Registers
<1>3. /\ written = 8 => filter' = (filter \ FILTER_CTL_RANGE(3)) \cup FILTER_CTL_RANGE(0)
      /\ written = 9 => filter' = (filter \ FILTER_CTL_ODR(7)) \cup FILTER_CTL_ODR(0)
      /\ written \notin {8, 9} => filter' = filter
  BY <1>1, WriteEffect DEF Changed, Masked, Registers
<1> HIDE DEF act, filter
<1>4. /\ act = (IF written >= 3 THEN ACT_EN ELSE {}) \cup (IF written >= 6 THEN INACT_EN ELSE {})
                   \cup (IF written >= 12 THEN LINKLOOP(3) ELSE {})
      /\ 4 \in filter /\ filter \cap FILTER_CTL_RANGE(3) = FILTER_CTL_RANGE(0)
      /\ written >= 10 => filter \cap FILTER_CTL_ODR(7) = FILTER_CTL_ODR(0)
  BY DEF ControlInvariant, act, filter
<1>5. act' = (IF written' >= 3 THEN ACT_EN ELSE {}) \cup (IF written' >= 6 THEN INACT_EN ELSE {})
                   \cup (IF written' >= 12 THEN LINKLOOP(3) ELSE {})
  BY <1>1, <1>2, <1>4, Fields
<1>6. 4 \in filter' /\ filter' \cap FILTER_CTL_RANGE(3) = FILTER_CTL_RANGE(0)
  BY <1>1, <1>3, <1>4, Fields
<1>7. written' >= 10 => filter' \cap FILTER_CTL_ODR(7) = FILTER_CTL_ODR(0)
  BY <1>1, <1>3, <1>4, Fields
<1> QED
  BY <1>5, <1>6, <1>7 DEF ControlInvariant, act, filter

LEMMA FifoWritten ==
    ASSUME TypeOK, FifoInvariant, stage = "write", written < 14,
           Write(InitWrites[written + 1]), written' = written + 1
    PROVE  /\ FifoInvariant'
           /\ regs' \in [Registers -> SUBSET All]
           /\ regs["INTMAP1"] = {} => regs'["INTMAP1"] = {}
<1>1. written \in 0..13 /\ regs \in [Registers -> SUBSET All]
  BY InitLengths DEF TypeOK
<1>2. /\ written = 6 => regs'["FIFO_CTL"] = FifoMode
      /\ written # 6 => regs'["FIFO_CTL"] = regs["FIFO_CTL"]
      /\ written = 7 => regs'["FIFO_SAMPLES"] = WaterMark
      /\ written # 7 => regs'["FIFO_SAMPLES"] = regs["FIFO_SAMPLES"]
  BY <1>1, WriteEffect, MaskedAllIsData DEF Changed, Registers
<1>3. /\ written = 10 => regs'["POWER_CTL"] = MEASURE_ON
      /\ written # 10 => regs'["POWER_CTL"] = regs["POWER_CTL"]
      /\ written = 12 => regs'["INTMAP1"] = NoBits
      /\ written # 12 => regs'["INTMAP1"] = regs["INTMAP1"]
  BY <1>1, WriteEffect, MaskedAllIsData DEF Changed, Registers
<1>4. regs' \in [Registers -> SUBSET All]
  BY <1>1, WriteEffect DEF Changed
<1>5. FifoInvariant'
  BY <1>1, <1>2, <1>3 DEF FifoInvariant, WaterMark
<1> QED
  BY <1>1, <1>3, <1>4, <1>5 DEF NoBits

LEMMA StepInitWrite == Adxl362Invariant /\ InitWrite => Adxl362Invariant'
<1> SUFFICES ASSUME Adxl362Invariant, InitWrite PROVE Adxl362Invariant'
  OBVIOUS
<1>1. /\ stage = "write" /\ Write(InitWrites[written + 1]) /\ written' = written + 1
      /\ stage' = IF written' = 14 THEN "ready" ELSE IF written' = 12 THEN "pin" ELSE stage
      /\ UNCHANGED <<level, pin, selected_range, fifo_handler, sysq, running, fetched, transfers>>
  BY InitLengths DEF InitWrite, queue, ghosts
<1>2. /\ ~Pending /\ fetched = NothingFetched /\ ~FetchFailed /\ selected_range = 0
      /\ regs["INTMAP1"] = {} /\ written < 14 /\ (pin = "edge" <=> written >= 12)
      /\ written \in 0..13
  BY <1>1, InitLengths DEF Adxl362Invariant, TypeOK, StartInvariant, Starting, RegisterInvariant,
                           ProgressInvariant
<1>3. ~Pending' /\ ReadsWholeSets' /\ HandlerBeforeWork'
  BY <1>1, <1>2, NothingPending DEF ghosts
<1>4. /\ FifoInvariant' /\ ControlInvariant' /\ regs'["INTMAP1"] = {}
      /\ regs' \in [Registers -> SUBSET All]
  BY <1>1, <1>2, FifoWritten, ControlWritten DEF Adxl362Invariant, RegisterInvariant
<1>5. TypeOK'
  BY <1>1, <1>2, <1>4, InitLengths DEF Adxl362Invariant, TypeOK
<1>6. RegisterInvariant'
  BY <1>1, <1>2, <1>4 DEF Adxl362Invariant, TypeOK, RegisterInvariant, ProgressInvariant
<1>7. ~Mapped' /\ ~Line'
  BY <1>4, Fields DEF Mapped, Line, LineHigh
<1>8. StartInvariant'
  BY <1>1, <1>2, <1>3, <1>4, <1>7 DEF StartInvariant, Starting, FetchFailed
<1>9. FetchInvariant'
  BY <1>1, <1>2, <1>3, <1>7 DEF Adxl362Invariant, FetchInvariant, FetchFailed
<1> QED
  BY <1>3, <1>5, <1>6, <1>8, <1>9 DEF Adxl362Invariant

LEMMA StepRestart == Adxl362Invariant /\ Restart => Adxl362Invariant'
<1> SUFFICES ASSUME Adxl362Invariant, Restart PROVE Adxl362Invariant'
  OBVIOUS
<1>1. /\ stage' = "reset" /\ written' = 0 /\ pin' = "off" /\ selected_range' = 0
      /\ fifo_handler' = "none" /\ sysq' = <<>> /\ running' = "none"
      /\ fetched' = NothingFetched /\ transfers' = "fine"
      /\ regs' = regs /\ level' = level
  BY DEF Restart
<1>2. ~Pending' /\ ~FetchFailed' /\ ReadsWholeSets' /\ HandlerBeforeWork'
  BY <1>1 DEF Pending, FetchFailed, ReadsWholeSets, NothingFetched, HandlerBeforeWork, Contains
<1>3. TypeOK'
  BY <1>1, InitLengths DEF Adxl362Invariant, TypeOK
<1>4. RegisterInvariant'
  BY <1>1 DEF RegisterInvariant, ProgressInvariant, ControlInvariant, FifoInvariant
<1>5. StartInvariant' /\ FetchInvariant'
  BY <1>1, <1>2 DEF StartInvariant, Starting, FetchInvariant
<1> QED
  BY <1>2, <1>3, <1>4, <1>5 DEF Adxl362Invariant

-----------------------------------------------------------------------------
(* The calls of the driver's interface.                                    *)

FifoRegisters == {"FIFO_CTL", "FIFO_SAMPLES", "POWER_CTL", "INTMAP1"}

\* A call that leaves the FIFO and its interrupt alone.
LEMMA StepQuiet ==
    ASSUME Adxl362Invariant, Callable,
           UNCHANGED <<level, stage, written, pin, sysq, running, fetched, transfers>>,
           regs' \in [Registers -> SUBSET All],
           \A r \in FifoRegisters : regs'[r] = regs[r],
           ControlInvariant', selected_range' \in 0..2,
           fifo_handler' = fifo_handler \/ fifo_handler' = "trigger_handler"
    PROVE  Adxl362Invariant'
<1>1. /\ regs'["FIFO_CTL"] = regs["FIFO_CTL"] /\ regs'["FIFO_SAMPLES"] = regs["FIFO_SAMPLES"]
      /\ regs'["POWER_CTL"] = regs["POWER_CTL"] /\ regs'["INTMAP1"] = regs["INTMAP1"]
  BY DEF FifoRegisters
<1>2. TypeOK'
  BY DEF Adxl362Invariant, TypeOK
<1>3. RegisterInvariant'
  BY <1>1 DEF Adxl362Invariant, RegisterInvariant, ProgressInvariant, FifoInvariant
<1>4. (Line <=> Line') /\ (Mapped <=> Mapped') /\ (Pending <=> Pending') /\ (OneFetch <=> OneFetch')
  BY <1>1 DEF Line, LineHigh, Watermark, Mapped, Pending, OneFetch
<1>5. StartInvariant'
  BY <1>4 DEF Adxl362Invariant, StartInvariant, Starting, Callable
<1>6. FetchInvariant'
  BY <1>4 DEF Adxl362Invariant, FetchInvariant, FetchFailed
<1>7. ReadsWholeSets'
  BY DEF Adxl362Invariant, ReadsWholeSets, FetchFailed
<1>8. HandlerBeforeWork'
  BY DEF Adxl362Invariant, HandlerBeforeWork
<1> QED
  BY <1>2, <1>3, <1>5, <1>6, <1>7, <1>8 DEF Adxl362Invariant

LEMMA StepThreshold ==
    ASSUME Adxl362Invariant, NEW r \in {"THRESH_ACT", "THRESH_INACT", "TIME_INACT"}, NEW v,
           Callable, Write(<<r, All, Reg(v)>>), UNCHANGED <<level, driver, queue, ghosts>>
    PROVE  Adxl362Invariant'
<1>1. Changed(r, All, Reg(v))
  <2>1. r \in Registers /\ Reg(v) \in SUBSET All /\ regs \in [Registers -> SUBSET All]
    BY RegIsRegister DEF Registers, Adxl362Invariant, TypeOK
  <2> QED
    BY <2>1, WriteChanges
<1>2. /\ regs' \in [Registers -> SUBSET All]
      /\ \A q \in FifoRegisters \cup {"ACT_INACT_CTL", "FILTER_CTL"} : regs'[q] = regs[q]
  BY <1>1 DEF Changed, FifoRegisters, Registers
<1>3. UNCHANGED <<level, stage, written, pin, selected_range, fifo_handler, sysq, running, fetched, transfers>>
  BY DEF driver, queue, ghosts
<1>4. ControlInvariant'
  BY <1>2, <1>3 DEF Adxl362Invariant, RegisterInvariant, ControlInvariant
<1> QED
  BY <1>2, <1>3, <1>4, StepQuiet DEF Adxl362Invariant, TypeOK

LEMMA StepRange ==
    ASSUME Adxl362Invariant, NEW scale \in Scales, AttrSetRange(scale) PROVE Adxl362Invariant'
<1> DEFINE range == RangeFor(scale % 65536)
<1>1. range \in 0..2
  <2>1. scale % 65536 \in Nat /\ scale % 65536 <= 8
    BY ArgumentsAssumption DEF AttrSetRange
  <2> QED
    BY <2>1, RangeIsRange
<1>2. Write(<<"FILTER_CTL", FILTER_CTL_RANGE(3), FILTER_CTL_RANGE(range)>>)
  BY DEF AttrSetRange, SetRange
<1>3. /\ Callable /\ selected_range' = range
      /\ UNCHANGED <<level, stage, written, pin, fifo_handler, sysq, running, fetched, transfers>>
  BY DEF AttrSetRange, queue, ghosts
<1> HIDE DEF range
<1>4. Changed("FILTER_CTL", FILTER_CTL_RANGE(3), FILTER_CTL_RANGE(range))
  BY <1>1, <1>2, WriteChanges, DataIsRegister DEF Registers, Adxl362Invariant, TypeOK
<1>5. /\ regs' \in [Registers -> SUBSET All]
      /\ \A q \in FifoRegisters \cup {"ACT_INACT_CTL"} : regs'[q] = regs[q]
      /\ regs'["FILTER_CTL"] = (regs["FILTER_CTL"] \ FILTER_CTL_RANGE(3)) \cup FILTER_CTL_RANGE(range)
  BY <1>4 DEF Changed, Masked, FifoRegisters, Registers
<1>6. FILTER_CTL_RANGE(range) \subseteq {6, 7}
  <2>1. range = 0 \/ range = 1 \/ range = 2
    BY <1>1
  <2> QED
    BY <2>1, Fields
<1>7. /\ regs'["FILTER_CTL"] \cap FILTER_CTL_RANGE(3) = FILTER_CTL_RANGE(range)
      /\ regs'["FILTER_CTL"] \cap FILTER_CTL_ODR(7) = regs["FILTER_CTL"] \cap FILTER_CTL_ODR(7)
      /\ 4 \in regs["FILTER_CTL"] => 4 \in regs'["FILTER_CTL"]
  BY <1>5, <1>6, Fields
<1>8. ControlInvariant'
  BY <1>3, <1>5, <1>7 DEF Adxl362Invariant, RegisterInvariant, ControlInvariant
<1> QED
  BY <1>1, <1>3, <1>5, <1>8, StepQuiet

LEMMA StepHandler == Adxl362Invariant /\ TriggerSetHandler => Adxl362Invariant'
<1> SUFFICES ASSUME Adxl362Invariant, TriggerSetHandler PROVE Adxl362Invariant'
  OBVIOUS
<1>1. /\ Callable /\ fifo_handler' = "trigger_handler"
      /\ UNCHANGED <<regs, level, stage, written, pin, selected_range, sysq, running, fetched, transfers>>
  BY DEF TriggerSetHandler, queue, ghosts
<1>2. ControlInvariant'
  BY <1>1 DEF Adxl362Invariant, RegisterInvariant, ControlInvariant
<1> QED
  BY <1>1, <1>2, StepQuiet DEF Adxl362Invariant, TypeOK

-----------------------------------------------------------------------------
(* The interrupt line.                                                     *)

\* A step after which the line, if it is served, is high where it was before:
\* when it rises the one fetch for this edge is queued.
LEMMA StepInterrupt ==
    ASSUME Adxl362Invariant, InterruptServed,
           UNCHANGED <<stage, written, pin, selected_range, fifo_handler, running, fetched, transfers>>,
           regs' \in [Registers -> SUBSET All], level' \in 0..FifoSize,
           \A r \in FifoRegisters \ {"INTMAP1"} : regs'[r] = regs[r],
           ControlInvariant',
           level % 3 = 0 => level' % 3 = 0,
           pin = "edge" /\ Line => Line',
           pin = "edge" /\ Mapped' => fifo_handler # "none",
           stage \in {"part_id", "write", "pin"} => regs'["INTMAP1"] = {}
    PROVE  Adxl362Invariant'
<1>1. /\ regs'["FIFO_CTL"] = regs["FIFO_CTL"] /\ regs'["FIFO_SAMPLES"] = regs["FIFO_SAMPLES"]
      /\ regs'["POWER_CTL"] = regs["POWER_CTL"]
  BY DEF FifoRegisters
<1> DEFINE rises == pin = "edge" /\ ~Line /\ Line'
<1>2. Line' => Mapped'
  BY DEF Line, LineHigh, Mapped
<1>3. rises => ~Starting /\ fifo_handler # "none"
  BY <1>2, Fields DEF Mapped, Starting, Adxl362Invariant, RegisterInvariant, ProgressInvariant
<1>4. sysq \in Queues /\ (~rises => sysq' = sysq) /\ (rises => sysq' = Submitted(sysq, "work"))
  BY DEF InterruptServed, Adxl362Invariant, TypeOK, Queues
<1>5. sysq' \in Queues
  BY <1>4, SubmittedQueue
<1>6. rises => sysq' # <<>>
  BY <1>4, SubmittedQueue
<1>7. sysq # <<>> => sysq' # <<>>
  BY <1>4, <1>6
<1> HIDE DEF rises
<1>8. TypeOK'
  BY <1>5 DEF Adxl362Invariant, TypeOK, Queues
<1>9. RegisterInvariant'
  BY <1>1 DEF Adxl362Invariant, RegisterInvariant, ProgressInvariant, FifoInvariant
<1>10. Pending' => Pending \/ rises
  BY <1>4 DEF Pending
<1>11. StartInvariant'
  <2>1. Pending' => pin' = "edge"
    BY <1>10 DEF rises, Adxl362Invariant, StartInvariant
  <2>2. Starting' => ~Pending'
    BY <1>3, <1>10 DEF Starting, Adxl362Invariant, StartInvariant
  <2> QED
    BY <2>1, <2>2 DEF Adxl362Invariant, StartInvariant, Starting, FetchFailed
<1>12. FetchInvariant'
  <2>1. Pending' => FetchFailed' \/ (Line' /\ OneFetch')
    <3>1. CASE Pending
      <4>1. FetchFailed \/ (Line /\ OneFetch /\ pin = "edge")
        BY <3>1 DEF Adxl362Invariant, FetchInvariant, StartInvariant
      <4>2. Line => ~rises
        BY DEF rises
      <4> QED
        BY <1>4, <4>1, <4>2 DEF FetchFailed, OneFetch
    <3>2. CASE ~Pending /\ rises
      <4>1. sysq = <<>> /\ running' = "none" /\ Line'
        BY <3>2 DEF Pending, rises
      <4>2. sysq' = <<"work">>
        BY <1>4, <3>2, <4>1, SubmittedQueue
      <4> QED
        BY <4>1, <4>2 DEF OneFetch
    <3> QED
      BY <1>10, <3>1, <3>2
  <2>2. pin' = "edge" /\ Line' => Pending' \/ FetchFailed'
    <3>1. CASE Line
      BY <1>7, <3>1 DEF Adxl362Invariant, FetchInvariant, Pending, FetchFailed
    <3>2. CASE ~Line
      BY <1>6, <3>2 DEF rises, Pending
    <3> QED
      BY <3>1, <3>2
  <2> QED
    BY <2>1, <2>2 DEF Adxl362Invariant, FetchInvariant, FetchFailed
<1>13. ReadsWholeSets'
  BY DEF Adxl362Invariant, ReadsWholeSets, FetchFailed
<1>14. HandlerBeforeWork'
  BY <1>3, <1>4 DEF Adxl362Invariant, HandlerBeforeWork
<1> QED
  BY <1>8, <1>9, <1>11, <1>12, <1>13, <1>14 DEF Adxl362Invariant

\* The line of a chip whose interrupt is served.
LEMMA LineOfServed ==
    ASSUME Adxl362Invariant, pin = "edge"
    PROVE  Line <=> Mapped /\ level >= ReadLength - 1
<1>1. /\ regs["FIFO_CTL"] = FifoMode /\ regs["FIFO_SAMPLES"] = Reg(WaterMarkLevel % 256)
      /\ regs["POWER_CTL"] = MEASURE_ON /\ level \in Nat
  BY InitLengths, FifoAssumption DEF Adxl362Invariant, RegisterInvariant, ProgressInvariant,
                                     FifoInvariant, TypeOK
<1>2. LineHigh(regs, level) <=> Mapped /\ level >= ReadLength - 1
  BY <1>1, LineOfConfigured DEF Mapped
<1> QED
  BY <1>2 DEF Line

LEMMA StepStore == Adxl362Invariant /\ StoreSample => Adxl362Invariant'
<1> SUFFICES ASSUME Adxl362Invariant, StoreSample PROVE Adxl362Invariant'
  OBVIOUS
<1>1. /\ InterruptServed /\ regs' = regs
      /\ UNCHANGED <<stage, written, pin, selected_range, fifo_handler, running, fetched, transfers>>
      /\ level' = IF level + 3 <= FifoSize THEN level + 3 ELSE level
  BY DEF StoreSample, driver, ghosts
<1>2. level \in 0..FifoSize /\ FifoSize \in Nat /\ ReadLength \in Nat
  BY FifoAssumption DEF Adxl362Invariant, TypeOK
<1>3. level' \in 0..FifoSize /\ level' >= level /\ (level % 3 = 0 => level' % 3 = 0)
  BY <1>1, <1>2
<1>4. ControlInvariant'
  BY <1>1 DEF Adxl362Invariant, RegisterInvariant, ControlInvariant
<1>5. pin = "edge" /\ Line => Line'
  <2> SUFFICES ASSUME pin = "edge", Line PROVE Line'
    OBVIOUS
  <2>1. /\ regs["FIFO_CTL"] = FifoMode /\ regs["FIFO_SAMPLES"] = Reg(WaterMarkLevel % 256)
        /\ regs["POWER_CTL"] = MEASURE_ON
    BY InitLengths DEF Adxl362Invariant, RegisterInvariant, ProgressInvariant, FifoInvariant, TypeOK
  <2>2. Mapped /\ level >= ReadLength - 1
    BY LineOfServed
  <2>3. LineHigh(regs, level')
    BY <1>2, <1>3, <2>1, <2>2, LineOfConfigured DEF Mapped
  <2> QED
    BY <1>1, <2>3 DEF Line
<1>6. pin = "edge" /\ Mapped' => fifo_handler # "none"
  BY <1>1 DEF Adxl362Invariant, StartInvariant, Mapped
<1>7. /\ regs' \in [Registers -> SUBSET All]
      /\ stage \in {"part_id", "write", "pin"} => regs'["INTMAP1"] = {}
      /\ \A r \in FifoRegisters \ {"INTMAP1"} : regs'[r] = regs[r]
  BY <1>1 DEF Adxl362Invariant, StartInvariant, TypeOK
<1> QED
  BY <1>1, <1>3, <1>4, <1>5, <1>6, <1>7, StepInterrupt

LEMMA StepMask == Adxl362Invariant /\ TriggerSetMask => Adxl362Invariant'
<1> SUFFICES ASSUME Adxl362Invariant, TriggerSetMask PROVE Adxl362Invariant'
  OBVIOUS
<1>1. /\ InterruptServed /\ Callable /\ fifo_handler # "none" /\ level' = level
      /\ Write(<<"INTMAP1", INTMAP1_FIFO_WATERMARK, INTMAP1_FIFO_WATERMARK>>)
      /\ UNCHANGED <<stage, written, pin, selected_range, fifo_handler, running, fetched, transfers>>
  BY DEF TriggerSetMask, HandlerKnown, driver, ghosts
<1>2. regs \in [Registers -> SUBSET All] /\ level \in 0..FifoSize
  BY DEF Adxl362Invariant, TypeOK
<1>3. Changed("INTMAP1", INTMAP1_FIFO_WATERMARK, INTMAP1_FIFO_WATERMARK)
  <2>1. INTMAP1_FIFO_WATERMARK \in SUBSET All /\ "INTMAP1" \in Registers
    BY Fields DEF All, Registers
  <2> QED
    BY <1>1, <1>2, <2>1, WriteChanges
<1>4. /\ regs' \in [Registers -> SUBSET All]
      /\ \A q \in (FifoRegisters \ {"INTMAP1"}) \cup {"ACT_INACT_CTL", "FILTER_CTL"} : regs'[q] = regs[q]
      /\ Mapped'
  BY <1>3 DEF Changed, FifoRegisters, Registers, Masked, Mapped
<1>5. ControlInvariant'
  BY <1>1, <1>4 DEF Adxl362Invariant, RegisterInvariant, ControlInvariant
<1>6. Line => Line'
  <2>1. /\ regs'["FIFO_CTL"] = regs["FIFO_CTL"] /\ regs'["FIFO_SAMPLES"] = regs["FIFO_SAMPLES"]
        /\ regs'["POWER_CTL"] = regs["POWER_CTL"]
    BY <1>4 DEF FifoRegisters
  <2> QED
    BY <1>1, <1>4, <2>1 DEF Line, LineHigh, Watermark, Mapped
<1>7. stage \notin {"part_id", "write", "pin"}
  BY <1>1 DEF Callable
<1> QED
  BY <1>1, <1>2, <1>4, <1>5, <1>6, <1>7, StepInterrupt

-----------------------------------------------------------------------------
(* The system work queue.                                                  *)

\* A step of the queue leaves the driver and the registers alone.
LEMMA StepQueue ==
    ASSUME Adxl362Invariant, pin = "edge",
           UNCHANGED <<regs, stage, written, pin, selected_range, fifo_handler>>,
           level' \in 0..FifoSize, sysq' \in Queues, running' \in {"none", "empty_fifo"},
           fetched' = fetched, transfers' \in {"fine", "failed"}, ~Starting
    PROVE  TypeOK' /\ RegisterInvariant' /\ StartInvariant'
<1>1. TypeOK'
  BY DEF Adxl362Invariant, TypeOK, Queues
<1>2. RegisterInvariant'
  BY DEF Adxl362Invariant, RegisterInvariant, ProgressInvariant, ControlInvariant, FifoInvariant
<1>3. StartInvariant'
  BY DEF Adxl362Invariant, StartInvariant, Starting, Mapped
<1> QED
  BY <1>1, <1>2, <1>3

\* What an item on the queue says of the driver.
LEMMA PendingIsServed ==
    ASSUME Adxl362Invariant, Pending
    PROVE  pin = "edge" /\ ~Starting /\ sysq \in Queues /\ level \in 0..FifoSize
BY DEF Adxl362Invariant, StartInvariant, TypeOK, Queues

LEMMA StepWork == Adxl362Invariant /\ RunWork => Adxl362Invariant'
<1> SUFFICES ASSUME Adxl362Invariant, RunWork PROVE Adxl362Invariant'
  OBVIOUS
<1>1. /\ running = "none" /\ sysq # <<>> /\ Head(sysq) = "work"
      /\ sysq' = Submitted(Tail(sysq), "empty_fifo")
      /\ UNCHANGED <<regs, level, stage, written, pin, selected_range, fifo_handler, running, fetched, transfers>>
  BY DEF RunWork, driver, ghosts
<1>2. Pending /\ pin = "edge" /\ ~Starting /\ sysq \in Queues /\ level \in 0..FifoSize
  BY <1>1, PendingIsServed DEF Pending
<1>3. /\ sysq' \in Queues /\ sysq' # <<>> /\ ~Contains(sysq', "work")
      /\ sysq = <<"work">> => sysq' = <<"empty_fifo">>
  BY <1>1, <1>2, SubmittedQueue
<1>4. TypeOK' /\ RegisterInvariant' /\ StartInvariant'
  BY <1>1, <1>2, <1>3, StepQueue DEF Adxl362Invariant, TypeOK
<1>5. FetchInvariant'
  <2>1. FetchFailed \/ (Line /\ OneFetch)
    BY <1>2 DEF Adxl362Invariant, FetchInvariant
  <2>2. OneFetch => OneFetch'
    <3>1. OneFetch => sysq = <<"work">>
      BY <1>1 DEF OneFetch
    <3> QED
      BY <1>1, <1>3, <3>1 DEF OneFetch
  <2>3. Line' <=> Line
    BY <1>1 DEF Line
  <2> QED
    BY <1>1, <1>2, <1>3, <2>1, <2>2, <2>3
    DEF Adxl362Invariant, FetchInvariant, FetchFailed, Pending
<1>6. ReadsWholeSets' /\ HandlerBeforeWork'
  BY <1>1, <1>3 DEF Adxl362Invariant, ReadsWholeSets, HandlerBeforeWork, FetchFailed
<1> QED
  BY <1>4, <1>5, <1>6 DEF Adxl362Invariant

LEMMA StepEmptyFifo == Adxl362Invariant /\ StartEmptyFifo => Adxl362Invariant'
<1> SUFFICES ASSUME Adxl362Invariant, StartEmptyFifo PROVE Adxl362Invariant'
  OBVIOUS
<1>1. /\ running = "none" /\ sysq # <<>> /\ Head(sysq) = "empty_fifo"
      /\ sysq' = Tail(sysq) /\ running' = "empty_fifo"
      /\ UNCHANGED <<regs, level, stage, written, pin, selected_range, fifo_handler, fetched, transfers>>
  BY DEF StartEmptyFifo, driver, ghosts
<1>2. Pending /\ pin = "edge" /\ ~Starting /\ sysq \in Queues /\ level \in 0..FifoSize
  BY <1>1, PendingIsServed DEF Pending
<1>3. \/ sysq = <<"empty_fifo">> /\ sysq' = <<>>
      \/ sysq = <<"empty_fifo", "work">> /\ sysq' = <<"work">>
  <2>1. Tail(<<"empty_fifo", "work">>) = <<"work">> /\ Tail(<<"empty_fifo">>) = <<>>
    BY TailPair
  <2>2. sysq = <<"empty_fifo">> \/ sysq = <<"empty_fifo", "work">>
    BY <1>1, <1>2 DEF Queues
  <2> QED
    BY <1>1, <2>1, <2>2
<1>4. TypeOK' /\ RegisterInvariant' /\ StartInvariant'
  <2>1. sysq' \in Queues
    BY <1>3 DEF Queues
  <2> QED
    BY <1>1, <1>2, <2>1, StepQueue DEF Adxl362Invariant, TypeOK
<1>5. FetchInvariant'
  <2>1. FetchFailed \/ (Line /\ OneFetch)
    BY <1>2 DEF Adxl362Invariant, FetchInvariant
  <2>2. OneFetch => OneFetch'
    <3>1. OneFetch => sysq = <<"empty_fifo">>
      BY <1>1 DEF OneFetch
    <3>2. sysq = <<"empty_fifo">> => sysq' = <<>>
      BY <1>1
    <3> QED
      BY <1>1, <3>1, <3>2 DEF OneFetch
  <2>3. (Line' <=> Line) /\ Pending'
    BY <1>1 DEF Line, Pending
  <2> QED
    BY <1>1, <1>2, <2>1, <2>2, <2>3
    DEF Adxl362Invariant, FetchInvariant, FetchFailed
<1>6. ReadsWholeSets'
  BY <1>1 DEF Adxl362Invariant, ReadsWholeSets, FetchFailed
<1>7. HandlerBeforeWork'
  <2>1. sysq = <<"empty_fifo", "work">> => Contains(sysq, "work")
    <3>1. 2 \in 1..Len(<<"empty_fifo", "work">>) /\ <<"empty_fifo", "work">>[2] = "work"
      OBVIOUS
    <3> QED
      BY <3>1 DEF Contains
  <2>2. ~Contains(<<>>, "work")
    BY DEF Contains
  <2> QED
    BY <1>1, <1>3, <2>1, <2>2 DEF Adxl362Invariant, HandlerBeforeWork
<1> QED
  BY <1>4, <1>5, <1>6, <1>7 DEF Adxl362Invariant

\* The FIFO when the handler that fetches runs, unless a transfer has failed:
\* whole sets only, at least as many as are read and less than one more.
LEMMA LevelAtFetch ==
    ASSUME Adxl362Invariant, running = "empty_fifo", ~FetchFailed
    PROVE  level >= ReadLength /\ level < ReadLength + 3 /\ level % 3 = 0 /\ sysq = <<>>
<1>1. Pending
  BY DEF Pending
<1>2. pin = "edge" /\ level \in 0..FifoSize
  BY <1>1, PendingIsServed
<1>3. Line /\ OneFetch /\ level % 3 = 0
  BY <1>1, <1>2 DEF Adxl362Invariant, FetchInvariant
<1>4. level >= ReadLength - 1
  BY <1>2, <1>3, LineOfServed
<1>5. level >= ReadLength
  BY <1>2, <1>3, <1>4, FifoAssumption
<1> QED
  BY <1>2, <1>3, <1>5, FifoAssumption DEF OneFetch

LEMMA StepFetchDone == Adxl362Invariant /\ FetchDone => Adxl362Invariant'
<1> SUFFICES ASSUME Adxl362Invariant, FetchDone PROVE Adxl362Invariant'
  OBVIOUS
<1>1. /\ running = "empty_fifo" /\ running' = "none"
      /\ level' = Max({0, level - ReadLength})
      /\ UNCHANGED <<regs, stage, written, pin, selected_range, fifo_handler, sysq, transfers>>
  BY DEF FetchDone, FetchedLength, driver
<1>2. Pending /\ pin = "edge" /\ ~Starting /\ sysq \in Queues /\ level \in 0..FifoSize
      /\ FifoSize \in Nat /\ ReadLength \in Nat
  BY <1>1, PendingIsServed, FifoAssumption DEF Pending
<1>3. level' = IF level - ReadLength > 0 THEN level - ReadLength ELSE 0
  BY <1>1, <1>2, MaxWithZero
<1>4. level' \in 0..FifoSize
  BY <1>2, <1>3
<1>5. PICK axis \in 0..2, v \in SampleValues :
          fetched' = [set |-> IF level >= ReadLength /\ level % 3 = 0 THEN "whole" ELSE "torn",
                      sampled |-> v, stored |-> Converted(Entry(axis, v))]
  BY DEF FetchDone, FetchedLength
<1>6. TypeOK' /\ RegisterInvariant' /\ StartInvariant'
  <2>1. TypeOK'
    BY <1>1, <1>2, <1>4 DEF Adxl362Invariant, TypeOK
  <2>2. RegisterInvariant'
    BY <1>1 DEF Adxl362Invariant, RegisterInvariant, ProgressInvariant, ControlInvariant, FifoInvariant
  <2>3. StartInvariant'
    BY <1>1, <1>2 DEF Adxl362Invariant, StartInvariant, Starting, Mapped
  <2> QED
    BY <2>1, <2>2, <2>3
<1>7. FetchInvariant'
  <2>1. CASE FetchFailed
    BY <1>1, <2>1 DEF FetchInvariant, FetchFailed
  <2>2. CASE ~FetchFailed
    <3>1. level >= ReadLength /\ level < ReadLength + 3 /\ level % 3 = 0 /\ sysq = <<>>
      BY <1>1, <2>2, LevelAtFetch
    <3>2. level' % 3 = 0 /\ level' < ReadLength - 1
      BY <1>2, <1>3, <3>1, FifoAssumption
    <3>3. ~Line'
      <4>1. /\ regs["FIFO_CTL"] = FifoMode /\ regs["FIFO_SAMPLES"] = Reg(WaterMarkLevel % 256)
            /\ regs["POWER_CTL"] = MEASURE_ON
        BY <1>2, InitLengths
        DEF Adxl362Invariant, RegisterInvariant, ProgressInvariant, FifoInvariant, TypeOK
      <4>2. ~LineHigh(regs, level')
        BY <1>2, <1>4, <3>2, <4>1, LineOfConfigured
      <4> QED
        BY <1>1, <4>2 DEF Line
    <3>4. ~Pending'
      BY <1>1, <3>1 DEF Pending
    <3> QED
      BY <3>2, <3>3, <3>4 DEF FetchInvariant
  <2> QED
    BY <2>1, <2>2
<1>8. ReadsWholeSets'
  <2>1. fetched'.stored = fetched'.sampled
    BY <1>5, ConversionExact
  <2>2. fetched'.set = "torn" => FetchFailed
    BY <1>1, <1>5, LevelAtFetch
  <2> QED
    BY <1>1, <2>1, <2>2 DEF ReadsWholeSets, FetchFailed
<1>9. HandlerBeforeWork'
  BY <1>1 DEF Adxl362Invariant, HandlerBeforeWork
<1> QED
  BY <1>6, <1>7, <1>8, <1>9 DEF Adxl362Invariant

LEMMA StepFetchFails == Adxl362Invariant /\ FetchFails => Adxl362Invariant'
<1> SUFFICES ASSUME Adxl362Invariant, FetchFails PROVE Adxl362Invariant'
  OBVIOUS
<1>1. /\ running = "empty_fifo" /\ running' = "none" /\ transfers' = "failed"
      /\ level' \in Max({0, level - ReadLength})..level
      /\ UNCHANGED <<regs, stage, written, pin, selected_range, fifo_handler, sysq, fetched>>
  BY DEF FetchFails, FetchedLength, driver
<1>2. Pending /\ pin = "edge" /\ ~Starting /\ sysq \in Queues /\ level \in 0..FifoSize
      /\ FifoSize \in Nat /\ ReadLength \in Nat
  BY <1>1, PendingIsServed, FifoAssumption DEF Pending
<1>3. level' \in 0..FifoSize
  BY <1>1, <1>2, MaxWithZero
<1>4. TypeOK' /\ RegisterInvariant' /\ StartInvariant'
  BY <1>1, <1>2, <1>3, StepQueue
<1>5. FetchFailed'
  BY <1>1 DEF FetchFailed
<1>6. FetchInvariant' /\ ReadsWholeSets' /\ HandlerBeforeWork'
  BY <1>1, <1>5 DEF Adxl362Invariant, FetchInvariant, ReadsWholeSets, HandlerBeforeWork
<1> QED
  BY <1>4, <1>6 DEF Adxl362Invariant

-----------------------------------------------------------------------------
(* The theorems.                                                           *)

LEMMA StepSet ==
    Adxl362Invariant
    /\ (\/ \E v \in Thresholds, r \in {"THRESH_ACT", "THRESH_INACT"} : AttrSetThreshold(r, v)
        \/ \E v \in Timeouts : AttrSetTimeout(v))
    => Adxl362Invariant'
<1> SUFFICES ASSUME Adxl362Invariant,
                    NEW r \in {"THRESH_ACT", "THRESH_INACT"}, NEW v,
                    AttrSetThreshold(r, v) \/ AttrSetTimeout(v)
             PROVE  Adxl362Invariant'
  OBVIOUS
<1>1. CASE AttrSetThreshold(r, v)
  BY <1>1, StepThreshold DEF AttrSetThreshold
<1>2. CASE AttrSetTimeout(v)
  BY <1>2, StepThreshold DEF AttrSetTimeout
<1> QED
  BY <1>1, <1>2

LEMMA NextInvariant == Adxl362Invariant /\ [Next]_vars => Adxl362Invariant'
<1> SUFFICES ASSUME Adxl362Invariant, [Next]_vars PROVE Adxl362Invariant'
  OBVIOUS
<1>1. CASE SoftwareReset
  BY <1>1, StepReset
<1>2. CASE ReadPartId \/ ConfigurePin \/ InitFails
  BY <1>2, StepInit
<1>3. CASE InitWrite
  BY <1>3, StepInitWrite
<1>4. CASE Restart
  BY <1>4, StepRestart
<1>5. CASE \/ \E v \in Thresholds, r \in {"THRESH_ACT", "THRESH_INACT"} : AttrSetThreshold(r, v)
           \/ \E v \in Timeouts : AttrSetTimeout(v)
  BY <1>5, StepSet
<1>6. CASE \E v \in Scales : AttrSetRange(v)
  BY <1>6, StepRange
<1>7. CASE TriggerSetHandler
  BY <1>7, StepHandler
<1>8. CASE TriggerSetMask
  BY <1>8, StepMask
<1>9. CASE StoreSample
  BY <1>9, StepStore
<1>10. CASE RunWork
  BY <1>10, StepWork
<1>11. CASE StartEmptyFifo
  BY <1>11, StepEmptyFifo
<1>12. CASE FetchDone
  BY <1>12, StepFetchDone
<1>13. CASE FetchFails
  BY <1>13, StepFetchFails
<1>14. CASE UNCHANGED vars
  <2>1. UNCHANGED <<regs, level, stage, written, pin, selected_range, fifo_handler,
                    sysq, running, fetched, transfers>>
    BY <1>14 DEF vars
  <2>2. TypeOK' /\ RegisterInvariant' /\ StartInvariant'
    BY <2>1 DEF Adxl362Invariant, TypeOK, RegisterInvariant, ProgressInvariant, ControlInvariant,
                FifoInvariant, StartInvariant, Starting, Pending, Mapped, FetchFailed
  <2>3. FetchInvariant' /\ ReadsWholeSets' /\ HandlerBeforeWork'
    BY <2>1 DEF Adxl362Invariant, FetchInvariant, ReadsWholeSets, HandlerBeforeWork, Pending,
                FetchFailed, Line, OneFetch
  <2> QED
    BY <2>2, <2>3 DEF Adxl362Invariant
<1> QED
  BY <1>1, <1>2, <1>3, <1>4, <1>5, <1>6, <1>7, <1>8, <1>9, <1>10, <1>11, <1>12, <1>13, <1>14 DEF Next

(* The inductive invariant: how far adxl362_init has come determines the   *)
(* registers it has written, and until a transfer fails what is queued is  *)
(* exactly one fetch for the one edge since the last.                      *)
THEOREM Invariance == Spec => []Adxl362Invariant
<1>1. Init => Adxl362Invariant
  BY InitInvariant
<1>2. Adxl362Invariant /\ [Next]_vars => Adxl362Invariant'
  BY NextInvariant
<1> QED
  BY <1>1, <1>2, PTL DEF Spec

(* Whatever is set and sampled, registers hold bits of their width, the    *)
(* FIFO at most its size, the work queue each of the two items once.       *)
THEOREM TypeCorrect == Spec => []TypeOK
<1>1. Adxl362Invariant => TypeOK
  BY DEF Adxl362Invariant
<1> QED
  BY <1>1, Invariance, PTL

(* An adxl362_init that returns has left the chip measuring at 12.5 Hz,    *)
(* with activity and inactivity linked in loop mode and the watermark one  *)
(* short of a fetch, whatever the chip held before the reset and whatever  *)
(* adxl362_attr_set is called with afterwards.                             *)
THEOREM Configured == Spec => []ConfiguredWhenReady
<1>1. Adxl362Invariant => ConfiguredWhenReady
  <2> SUFFICES ASSUME Adxl362Invariant, stage = "ready" PROVE ConfiguredWhenReady
    BY DEF ConfiguredWhenReady
  <2>1. written = 14
    BY DEF Adxl362Invariant, RegisterInvariant, ProgressInvariant
  <2>2. /\ regs["ACT_INACT_CTL"] = ACT_EN \cup INACT_EN \cup LINKLOOP(3)
        /\ 4 \in regs["FILTER_CTL"]
        /\ regs["FILTER_CTL"] \cap FILTER_CTL_ODR(7) = FILTER_CTL_ODR(0)
    BY <2>1 DEF Adxl362Invariant, RegisterInvariant, ControlInvariant
  <2>3. /\ regs["FIFO_CTL"] = FifoMode /\ regs["FIFO_SAMPLES"] = Reg(WaterMarkLevel % 256)
        /\ regs["POWER_CTL"] = MEASURE_ON
    BY <2>1 DEF Adxl362Invariant, RegisterInvariant, FifoInvariant
  <2>4. Watermark(regs) = ReadLength - 1
    BY <2>3, ConfiguredWatermark
  <2> QED
    BY <2>2, <2>3, <2>4 DEF ConfiguredWhenReady
<1> QED
  BY <1>1, Invariance, PTL

(* The range that adxl362_attr_set notes is the range of the chip.         *)
THEOREM RangeStays == Spec => []RangeInStep
<1>1. Adxl362Invariant => RangeInStep
  BY DEF Adxl362Invariant, RegisterInvariant, ControlInvariant, RangeInStep
<1> QED
  BY <1>1, Invariance, PTL

(* While the FIFO is at its watermark, so that its line cannot rise again, *)
(* the fetch that will empty it is queued or running, unless one failed.   *)
THEOREM EdgesKept == Spec => []EdgeNotLost
<1>1. Adxl362Invariant => EdgeNotLost
  <2> SUFFICES ASSUME Adxl362Invariant, stage = "ready", Line
               PROVE  sysq # <<>> \/ running = "empty_fifo" \/ FetchFailed
    BY DEF EdgeNotLost
  <2>1. Pending \/ FetchFailed
    BY DEF Adxl362Invariant, RegisterInvariant, ProgressInvariant, FetchInvariant
  <2> QED
    BY <2>1 DEF Pending, Adxl362Invariant, TypeOK
<1> QED
  BY <1>1, Invariance, PTL

(* A fetch finds at least what it reads and starts with the first sample   *)
(* of a set, unless a transfer failed before; every sample of 12 bits is   *)
(* stored as it was measured.                                              *)
THEOREM WholeSets == Spec => []ReadsWholeSets
<1>1. Adxl362Invariant => ReadsWholeSets
  BY DEF Adxl362Invariant
<1> QED
  BY <1>1, Invariance, PTL

(* The interrupt's work is never queued before there is a handler to call, *)
(* not even when the chip goes on interrupting across a restart.           *)
THEOREM HandlerFirst == Spec => []HandlerBeforeWork
<1>1. Adxl362Invariant => HandlerBeforeWork
  BY DEF Adxl362Invariant
<1> QED
  BY <1>1, Invariance, PTL
=============================================================================
