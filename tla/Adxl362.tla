------------------------------- MODULE Adxl362 -------------------------------
(***************************************************************************)
(* The ADXL362 driver (adxl362.c, adxl362_trigger.c) as configured by      *)
(* prj.conf: FIFO in stream mode, interrupts handled by the system work    *)
(* queue (ADXL362_TRIGGER_GLOBAL_THREAD), range set at run time.  With it  *)
(* the chip, its FIFO and interrupt line, and the work items that lead     *)
(* from an interrupt to the fetch in empty_fifo_fn.                        *)
(*                                                                         *)
(* A register is the set of its bits that are 1.  Every access over SPI    *)
(* may fail; one that fails has no effect, except that a failing FIFO      *)
(* transfer may have taken samples out.  The processor may restart at any  *)
(* time, which the chip does not notice.                                   *)
(*                                                                         *)
(* A definition marked "Variant" is a wrong form of the one that follows:  *)
(* no specification uses it, and with it in place of the right one a       *)
(* property fails.                                                         *)
(***************************************************************************)
EXTENDS Integers, Sequences, SequencesExt, FiniteSetsExt

CONSTANTS FifoSize,          \* samples the chip's FIFO holds (512)
          HighBit,           \* weight of FIFO_CTL's bit AH in the watermark (256)
          WaterMarkLevel,    \* adxl362_chip_init (253)
          ReadLength,        \* samples of a fetch (510)
          Settings,          \* Kconfig: thresholds and times of (in)activity
          Thresholds, Timeouts, Scales,   \* arguments of attr_set
          SampleValues       \* accelerations, 12-bit signed

ASSUME FifoAssumption ==
    /\ {FifoSize, HighBit, WaterMarkLevel, ReadLength} \subseteq Nat
    /\ ReadLength % 3 = 0 /\ ReadLength <= FifoSize /\ FifoSize < ReadLength + 3
    /\ WaterMarkLevel + HighBit = ReadLength - 1
    /\ WaterMarkLevel \in 3..255
ASSUME ArgumentsAssumption ==
    /\ Settings \in [{"activity_threshold", "activity_time",
                      "inactivity_threshold", "inactivity_time"} -> Nat]
    /\ Thresholds \cup Timeouts \cup Scales \subseteq Int
ASSUME SamplesAssumption ==
    \A v \in SampleValues : v \in Int /\ -2048 <= v /\ v <= 2047

VARIABLES regs,              \* the chip's registers
          level,             \* samples in its FIFO, sets of x, y, z
          stage, written,    \* progress of adxl362_init
          pin,               \* whether the pin's interrupt is configured
          selected_range, fifo_handler,      \* adxl362_data
          sysq,              \* items queued on the system work queue
          running,           \* the item whose handler runs
          fetched,           \* ghost: of the last fetch, what was sampled and what was stored
          transfers          \* ghost: whether a fetch failed since the last restart

vars == <<regs, level, stage, written, pin, selected_range, fifo_handler,
          sysq, running, fetched, transfers>>
driver == <<stage, written, pin, selected_range, fifo_handler>>
queue == <<sysq, running>>
ghosts == <<fetched, transfers>>

FetchFailed == transfers = "failed"

\* A register that holds v; the value of one that has a byte.
Reg(v) == {i \in 0..15 : (v \div 2^i) % 2 = 1}
Val(r) == LET bit(i) == IF i \in r THEN 2^i ELSE 0
          IN  bit(0) + bit(1) + bit(2) + bit(3) + bit(4) + bit(5) + bit(6) + bit(7)

\* adxl362.h
INTMAP1_FIFO_WATERMARK == Reg(4)
FILTER_CTL_RANGE(x) == {i + 6 : i \in Reg(x)}
FILTER_CTL_ODR(x) == Reg(x)
LINKLOOP(x) == {i + 4 : i \in Reg(x)}
ACT_EN == Reg(1)
ACT_REF == Reg(2)
INACT_EN == Reg(4)
INACT_REF == Reg(8)
FIFO_STREAM == Reg(2)
FIFO_AH == Reg(8)
MEASURE_ON == Reg(2)

\* The registers written; the two bytes of a threshold or a time are one.
Registers == {"THRESH_ACT", "TIME_ACT", "THRESH_INACT", "TIME_INACT", "ACT_INACT_CTL", "FIFO_CTL",
              "FIFO_SAMPLES", "FILTER_CTL", "POWER_CTL", "INTMAP1", "INTMAP2"}
ResetValue ==
    [r \in Registers |-> CASE r = "FILTER_CTL" -> Reg(19) [] r = "FIFO_SAMPLES" -> Reg(128)
                            [] OTHER -> {}]

-----------------------------------------------------------------------------
(* The interrupt line and the work queue.                                  *)

\* The watermark the chip compares its FIFO with.
Watermark(r) == (IF FIFO_AH \subseteq r["FIFO_CTL"] THEN HighBit ELSE 0)
                    + Val(r["FIFO_SAMPLES"])

LineHigh(r, n) == /\ INTMAP1_FIFO_WATERMARK \subseteq r["INTMAP1"]
                  /\ MEASURE_ON \subseteq r["POWER_CTL"]
                  /\ n >= Watermark(r)
Line == LineHigh(regs, level)

\* k_work_submit: an item that is queued is not queued again.
Submitted(q, item) == IF Contains(q, item) THEN q ELSE Append(q, item)

\* adxl362_gpio_callback, called at a rising edge of the line
\* (GPIO_INT_EDGE_TO_ACTIVE) once adxl362_init_interrupt has configured it.
InterruptServed ==
    sysq' = IF pin = "edge" /\ ~Line /\ Line' THEN Submitted(sysq, "work") ELSE sysq

\* The chip stores a set of three samples; when there is no space for it the
\* oldest set is lost.
StoreSample ==
    /\ MEASURE_ON \subseteq regs["POWER_CTL"] /\ FIFO_STREAM \subseteq regs["FIFO_CTL"]
    /\ level' = IF level + 3 <= FifoSize THEN level + 3 ELSE level
    /\ UNCHANGED <<regs, driver, running, ghosts>>
    /\ InterruptServed

-----------------------------------------------------------------------------
(* Register accesses.                                                      *)

\* Variant: keeps nothing of the old value.
MaskedAll(old, mask, data) == data

\* adxl362_reg_write_mask, and the reads, masks and writes spelt out elsewhere.
Masked(old, mask, data) == (old \ mask) \cup data

All == 0..15

\* A register access that succeeds.
Write(w) == regs' = [regs EXCEPT ![w[1]] = Masked(@, w[2], w[3])]

\* The writes of the initialisation: register, bits replaced, bits set.
\* adxl362_setup_activity_detection and adxl362_setup_inactivity_detection
\* (ABS_REF_MODE is 0).
ActivityDetection == <<
    <<"THRESH_ACT",    All, Reg(Settings["activity_threshold"] % 2048)>>,
    <<"TIME_ACT",      All, Reg(Settings["activity_time"] % 256)>>,
    <<"ACT_INACT_CTL", ACT_REF, ACT_EN>> >>
InactivityDetection == <<
    <<"THRESH_INACT",  All, Reg(Settings["inactivity_threshold"] % 2048)>>,
    <<"TIME_INACT",    All, Reg(Settings["inactivity_time"] % 65536)>>,
    <<"ACT_INACT_CTL", INACT_REF, INACT_EN>> >>

\* adxl362_fifo_setup, without temperature.
FifoSetup(mode, water_mark_lvl) == <<
    <<"FIFO_CTL",      All, mode \cup FIFO_AH>>,
    <<"FIFO_SAMPLES",  All, Reg(water_mark_lvl % 256)>> >>

SetRange(range) == <<"FILTER_CTL", FILTER_CTL_RANGE(3), FILTER_CTL_RANGE(range)>>
SetOutputRate(out_rate) == <<"FILTER_CTL", FILTER_CTL_ODR(7), FILTER_CTL_ODR(out_rate)>>

\* Bits are only added: the old value is part of the new one.
SetInterruptMode(mode) == <<"ACT_INACT_CTL", {}, LINKLOOP(mode)>>

\* With int1_config and int2_config, which nothing sets.
InterruptConfig == <<<<"INTMAP1", All, {}>>, <<"INTMAP2", All, {}>>>>

\* adxl362_chip_init
ChipInit ==
    ActivityDetection \o InactivityDetection \o FifoSetup(FIFO_STREAM, WaterMarkLevel)
        \o <<SetRange(0), SetOutputRate(0), <<"POWER_CTL", All, MEASURE_ON>>>>

InitWrites == ChipInit \o <<SetInterruptMode(3)>> \o InterruptConfig

-----------------------------------------------------------------------------
(* adxl362_init.  At any access the initialisation may end as failed.      *)

NothingFetched == [set |-> "none", sampled |-> 0, stored |-> 0]

Init ==
    /\ regs = ResetValue /\ level = 0
    /\ stage = "reset" /\ written = 0 /\ pin = "off" /\ selected_range = 0 /\ fifo_handler = "none"
    /\ sysq = <<>> /\ running = "none"
    /\ fetched = NothingFetched /\ transfers = "fine"

\* adxl362_software_reset: the chip's registers and FIFO are cleared.
SoftwareReset ==
    /\ stage = "reset"
    /\ stage' = "part_id"
    /\ regs' = ResetValue /\ level' = 0
    /\ UNCHANGED <<written, pin, selected_range, fifo_handler, queue, ghosts>>

\* A failing read of the part id leaves 0, which is not the id.
ReadPartId ==
    /\ stage = "part_id"
    /\ stage' = "write"
    /\ UNCHANGED <<regs, level, written, pin, selected_range, fifo_handler, queue, ghosts>>

\* The next of the writes; adxl362_set_range also notes the range.  The pin's
\* interrupt is configured between the mode and the interrupt map.
InitWrite ==
    LET w == InitWrites[written + 1] IN
    /\ stage = "write"
    /\ Write(w)
    /\ written' = written + 1
    /\ stage' = IF written' = Len(InitWrites) THEN "ready"
                ELSE IF written' = Len(ChipInit) + 1 THEN "pin" ELSE stage
    /\ UNCHANGED <<level, pin, selected_range, fifo_handler, queue, ghosts>>

\* The rest of adxl362_init_interrupt: the pin, its callback and its interrupt.
ConfigurePin ==
    /\ stage = "pin"
    /\ stage' = "write"
    /\ pin' = "edge"
    /\ UNCHANGED <<regs, level, written, selected_range, fifo_handler, queue, ghosts>>

InitFails ==
    /\ stage \in {"reset", "part_id", "write", "pin"}
    /\ stage' = "failed"
    /\ UNCHANGED <<regs, level, written, pin, selected_range, fifo_handler, queue, ghosts>>

\* NVIC_SystemReset or a fault: all memory is lost, the chip goes on.
Restart ==
    /\ stage \in {"ready", "failed"}
    /\ stage' = "reset" /\ written' = 0 /\ pin' = "off" /\ selected_range' = 0 /\ fifo_handler' = "none"
    /\ sysq' = <<>> /\ running' = "none"
    /\ fetched' = NothingFetched /\ transfers' = "fine"
    /\ UNCHANGED <<regs, level>>

-----------------------------------------------------------------------------
(* The calls of the driver's interface.  An application may also call when *)
(* the initialisation has failed: initialize_sensors does.                 *)

Callable == stage \in {"ready", "failed"}

\* adxl362_attr_set: thresholds of one axis ...
AttrSetThreshold(reg, value) ==
    /\ Callable
    /\ value % 65536 <= 2047
    /\ Write(<<reg, All, Reg(value % 65536)>>)
    /\ UNCHANGED <<level, driver, queue, ghosts>>

\* ... the inactivity time ...
AttrSetTimeout(value) ==
    /\ Callable
    /\ Write(<<"TIME_INACT", All, Reg(value % 65536)>>)
    /\ UNCHANGED <<level, driver, queue, ghosts>>

\* Variant: the scale is taken for the register's step, as if 1 g were the smallest.
RangeForNoStep(scale) == CHOOSE x \in 0..3 : scale <= 2^x /\ \A y \in 0..(x - 1) : scale > 2^y

\* adxl362_range_to_reg_val: the smallest range that holds the scale.
RangeFor(scale) == CHOOSE x \in 0..2 : scale <= 2^(x + 1) /\ \A y \in 0..(x - 1) : scale > 2^(y + 1)

\* Variant: the range is noted although the chip was not reached.
AttrSetRangeEarly(scale) ==
    /\ Callable
    /\ scale % 65536 <= 8
    /\ UNCHANGED regs \/ Write(SetRange(RangeFor(scale % 65536)))
    /\ selected_range' = RangeFor(scale % 65536)
    /\ UNCHANGED <<level, stage, written, pin, fifo_handler, queue, ghosts>>

\* ... and the range, in g.  Everything else is refused.
AttrSetRange(scale) ==
    /\ Callable
    /\ scale % 65536 <= 8
    /\ Write(SetRange(RangeFor(scale % 65536)))
    /\ selected_range' = RangeFor(scale % 65536)
    /\ UNCHANGED <<level, stage, written, pin, fifo_handler, queue, ghosts>>

\* adxl362_trigger_set for SENSOR_TRIG_FIFO: first the handler, then the
\* interrupt is mapped to the pin.
TriggerSetHandler ==
    /\ Callable
    /\ fifo_handler' = "trigger_handler"
    /\ UNCHANGED <<regs, level, stage, written, pin, selected_range, queue, ghosts>>

\* Variant: the interrupt may be mapped before there is a handler.
HandlerKnownAnyway == TRUE

\* The handler has been set when the mask is written.
HandlerKnown == fifo_handler # "none"

TriggerSetMask ==
    /\ Callable /\ HandlerKnown
    /\ Write(<<"INTMAP1", INTMAP1_FIFO_WATERMARK, INTMAP1_FIFO_WATERMARK>>)
    /\ UNCHANGED <<level, driver, running, ghosts>>
    /\ InterruptServed

-----------------------------------------------------------------------------
(* The system work queue.                                                  *)

\* Variant: the FIFO's handler does not queue what empties it.
RunWorkDropping ==
    /\ running = "none" /\ sysq # <<>> /\ Head(sysq) = "work"
    /\ sysq' = Tail(sysq)
    /\ UNCHANGED <<regs, level, driver, running, ghosts>>

\* Variant: the interrupt is taken as pending as long as the line is high.
RunWorkRequeued ==
    /\ running = "none" /\ sysq # <<>> /\ Head(sysq) = "work"
    /\ sysq' = Append(Tail(sysq), "work")
    /\ UNCHANGED <<regs, level, driver, running, ghosts>>

\* adxl362_work_cb, adxl362_thread_cb_fifo and trigger_handler: the FIFO's
\* handler queues empty_fifo.
RunWork ==
    /\ running = "none" /\ sysq # <<>> /\ Head(sysq) = "work"
    /\ sysq' = Submitted(Tail(sysq), "empty_fifo")
    /\ UNCHANGED <<regs, level, driver, running, ghosts>>

StartEmptyFifo ==
    /\ running = "none" /\ sysq # <<>> /\ Head(sysq) = "empty_fifo"
    /\ running' = "empty_fifo"
    /\ sysq' = Tail(sysq)
    /\ UNCHANGED <<regs, level, driver, ghosts>>

\* A 16-bit entry of the FIFO: the axis, then 14 bits of two's complement.
Entry(axis, v) == (axis * 2^14) + (v % 2^14)

\* Variant: masks the axis out without extending the sign.
ConvertedUnsigned(entry) == entry % 2^14

\* adxl362_sample_fetch: the axis is masked out, the sign bits 13 and 12 are
\* copied to 15 and 14, and the result is taken as an int16_t.
Converted(entry) ==
    LET fifo == entry % 2^14
        raw == ((fifo \div 2^12) % 4) * 2^14 + fifo
    IN  IF raw >= 2^15 THEN raw - 2^16 ELSE raw

FetchedLength == ReadLength

\* The FIFO read of empty_fifo_fn; the rest of the call does not touch the
\* driver.  A read of more than the FIFO holds, or one that starts within a
\* set, does not return whole sets.
FetchDone ==
    /\ running = "empty_fifo"
    /\ running' = "none"
    /\ level' = Max({0, level - FetchedLength})
    /\ \E axis \in 0..2, v \in SampleValues :
           fetched' = [set |-> IF level >= FetchedLength /\ level % 3 = 0 THEN "whole" ELSE "torn",
                       sampled |-> v, stored |-> Converted(Entry(axis, v))]
    /\ UNCHANGED <<regs, driver, sysq, transfers>>

\* The transfer fails at once or after some samples; the call returns.
FetchFails ==
    /\ running = "empty_fifo"
    /\ running' = "none"
    /\ level' \in Max({0, level - FetchedLength})..level
    /\ transfers' = "failed"
    /\ UNCHANGED <<regs, driver, sysq, fetched>>

Next ==
    \/ SoftwareReset \/ ReadPartId \/ InitWrite \/ ConfigurePin \/ InitFails \/ Restart
    \/ \E v \in Thresholds, r \in {"THRESH_ACT", "THRESH_INACT"} : AttrSetThreshold(r, v)
    \/ \E v \in Timeouts : AttrSetTimeout(v)
    \/ \E v \in Scales : AttrSetRange(v)
    \/ TriggerSetHandler \/ TriggerSetMask
    \/ StoreSample \/ RunWork \/ StartEmptyFifo \/ FetchDone \/ FetchFails

\* The system work queue runs what is queued; a transfer ends.
Fairness == WF_vars(RunWork) /\ WF_vars(StartEmptyFifo) /\ WF_vars(FetchDone \/ FetchFails)
Spec == Init /\ [][Next]_vars /\ Fairness

-----------------------------------------------------------------------------
(* Properties.                                                             *)

(* Registers hold bits of their width, the FIFO never more than its size,  *)
(* the work queue each item at most once.                                  *)
TypeOK ==
    /\ regs \in [Registers -> SUBSET All]
    /\ level \in 0..FifoSize
    /\ stage \in {"reset", "part_id", "write", "pin", "ready", "failed"}
    /\ written \in 0..Len(InitWrites) /\ pin \in {"off", "edge"}
    /\ selected_range \in 0..2 /\ fifo_handler \in {"none", "trigger_handler"}
    /\ sysq \in {<<>>, <<"work">>, <<"empty_fifo">>, <<"work", "empty_fifo">>, <<"empty_fifo", "work">>}
    /\ running \in {"none", "empty_fifo"}
    /\ transfers \in {"fine", "failed"}

(* When the initialisation has succeeded the chip measures at 12.5 Hz in   *)
(* stream mode with activity and inactivity detection linked in loop mode, *)
(* whatever it was set to before a restart: the read-modify-writes of a    *)
(* register keep each other's bits.                                        *)
ConfiguredWhenReady ==
    stage = "ready" =>
        /\ regs["ACT_INACT_CTL"] = ACT_EN \cup INACT_EN \cup LINKLOOP(3)
        /\ regs["FILTER_CTL"] \cap FILTER_CTL_ODR(7) = FILTER_CTL_ODR(0)
        /\ 4 \in regs["FILTER_CTL"]
        /\ MEASURE_ON \subseteq regs["POWER_CTL"]
        /\ Watermark(regs) = ReadLength - 1

(* The range by which the driver would scale samples is the chip's.        *)
RangeInStep ==
    stage = "ready" => regs["FILTER_CTL"] \cap FILTER_CTL_RANGE(3) = FILTER_CTL_RANGE(selected_range)

(* No edge is lost: while the FIFO is at its watermark, and the line can   *)
(* not rise again, a fetch is under way; unless an earlier one failed,     *)
(* after which the line may stay high for good (adxl362_trigger.c:212).    *)
EdgeNotLost ==
    stage = "ready" /\ Line => sysq # <<>> \/ running = "empty_fifo" \/ FetchFailed

(* A fetch returns 170 whole sets, the values as sampled, unless a         *)
(* transfer has failed: the watermark, the length of the read and the      *)
(* order of interrupt and fetch leave none too early and none out of step. *)
ReadsWholeSets ==
    /\ fetched.stored = fetched.sampled
    /\ fetched.set = "torn" => FetchFailed

(* adxl362_thread_cb_fifo calls the handler without a check; it is there.  *)
HandlerBeforeWork == Contains(sysq, "work") => fifo_handler # "none"

(* A FIFO at its watermark is emptied, unless a fetch fails.               *)
WatermarkServed ==
    stage = "ready" /\ Line ~> ~Line \/ FetchFailed \/ stage # "ready"
=============================================================================
