------------------------------ MODULE Heatshrink ------------------------------
(***************************************************************************)
(* The encoder of heatshrink_encoder.c, as built for the device: dynamic   *)
(* allocation and HEATSHRINK_USE_INDEX.  Its client sinks pieces of input, *)
(* polls with an output space of its choice and declares the end with      *)
(* finish, in any order.  A poll is a sequence of steps, one for each turn *)
(* of its loop.                                                            *)
(*                                                                         *)
(* Bits are packed from the highest of a byte downwards, so current_byte   *)
(* and bit_index are the sequence current of the bits that wait for a full *)
(* byte, outgoing_bits and its count the sequence outgoing, and the bytes  *)
(* written to output buffers are kept as the sequence of their bits.       *)
(*                                                                         *)
(* A definition marked "Variant" is a wrong form of the one that follows:  *)
(* no specification uses it, and with it in place of the right one a       *)
(* property fails.                                                         *)
(***************************************************************************)
EXTENDS Integers, Sequences, FiniteSetsExt

CONSTANTS WindowBits, LookaheadBits,   \* arguments of heatshrink_encoder_alloc
          Bytes,                       \* the byte values of the inputs
          Inputs,                      \* what a client may want to encode
          SinkSizes, PollSizes         \* sizes a client passes

VARIABLES input,       \* the client's data
          buffer, input_size, match_scan_index, match_length, match_pos,
          index,       \* search_index->index
          outgoing, current, flags, state,
          cap,         \* out_buf_size of the poll in progress, 0 if there is none
          count,       \* what output_size and input_size of the calls point to
          ret,         \* what the last call returned
          out,         \* bits of all bytes written to output buffers
          accepted     \* ghost: all bytes that were sunk

encoder == <<buffer, input_size, match_scan_index, match_length, match_pos, index,
             outgoing, current, flags, state, cap, count, ret, out, accepted>>
vars == <<input, encoder>>

Window == 2^WindowBits           \* get_input_buffer_size, get_input_offset
Lookahead == 2^LookaheadBits     \* get_lookahead_size

(* What heatshrink_encoder_alloc accepts.  Above 14 window bits the int16_t *)
(* entries of the index would overflow; the device uses 9 and 3.            *)
ASSUME ParametersAssumption ==
    /\ WindowBits \in 4..14
    /\ LookaheadBits \in 3..(WindowBits - 1)
    /\ Bytes \subseteq 0..255
    /\ Inputs \subseteq Seq(Bytes)
    /\ SinkSizes \subseteq Nat /\ PollSizes \subseteq Nat

NotFound == -1                   \* MATCH_NOT_FOUND
IsFinishing == flags = 1         \* FLAG_IS_FINISHING
States == {"NOT_FULL", "FILLED", "SEARCH", "YIELD_TAG_BIT", "YIELD_LITERAL",
           "YIELD_BR_INDEX", "YIELD_BR_LENGTH", "SAVE_BACKLOG", "FLUSH_BITS", "DONE"}

\* The lowest n bits of v, the highest first.
Bits(v, n) == [i \in 1..n |-> (v \div 2^(n - i)) % 2]

-----------------------------------------------------------------------------
(* The index and the search.                                               *)

\* do_indexing: each position of the first end ones holds the last earlier
\* position with the same byte.
Indexed(end) ==
    [i \in DOMAIN index |->
        IF i < end THEN Max({NotFound} \cup {j \in 0..(i - 1) : buffer[j] = buffer[i]})
                   ELSE index[i]]

\* Bytes at pos that equal those at end, known to agree in the first.
CommonLength(pos, end, maxlen) ==
    Min({k \in 1..maxlen : k = maxlen \/ buffer[pos + k] # buffer[end + k]})

\* The next position on the chain of end, with the best match so far: a position
\* is skipped if it cannot beat it; a match of maxlen bytes ends the chain.
Chains == [pos : Int, length : Nat, at : Int]
Follow(start, end, maxlen) ==
    [c \in Chains |->
        LET len == CommonLength(c.pos, end, maxlen) IN
        IF c.pos < start THEN c
        ELSE IF buffer[c.pos + c.length] # buffer[end + c.length] \/ len <= c.length
        THEN [c EXCEPT !.pos = index[@]]
        ELSE [pos |-> IF len = maxlen THEN NotFound ELSE index[c.pos],
              length |-> len, at |-> c.pos]]

\* Length and distance of the longest match in the window before end, found by
\* following the chain of the index back to start.
FollowChain(start, end, maxlen) ==
    LET follow == Follow(start, end, maxlen)
        best[k \in 0..(end - start)] ==
            IF k = 0 THEN [pos |-> index[end], length |-> 0, at |-> NotFound]
                     ELSE follow[best[k - 1]]
        found == best[end - start]
    IN  [length |-> found.length, distance |-> end - found.at]

\* A match must be longer than break_even_point / 8.
Worthwhile(length) == length > (1 + WindowBits + LookaheadBits) \div 8

-----------------------------------------------------------------------------
(* Output.                                                                 *)

\* Variant: one byte more than there is room for.
CanTakeByteMore == cap > 0 /\ count <= cap

\* can_take_byte
CanTakeByte == count < cap

\* push_bits: bytes that become full are written.
PushBits(bits) ==
    LET all == current \o bits
        full == 8 * (Len(all) \div 8)
    IN  /\ out' = out \o SubSeq(all, 1, full)
        /\ current' = SubSeq(all, full + 1, Len(all))
        /\ count' = count + full \div 8

\* push_outgoing_bits, which returns 0 when there was nothing left to push.
PushOutgoing ==
    LET n == Min({8, Len(outgoing)}) IN
    /\ PushBits(SubSeq(outgoing, 1, n))
    /\ outgoing' = SubSeq(outgoing, n + 1, Len(outgoing))

\* Variant: only a change of state is noticed, the loop goes on.
TurnOn(next) ==
    /\ state' = next
    /\ UNCHANGED <<cap, ret>>

\* The end of a turn of poll's loop: it returns when the state waits for space.
Turn(next) ==
    /\ state' = next
    /\ IF next = state /\ count' = cap
       THEN cap' = 0 /\ ret' = "MORE"
       ELSE UNCHANGED <<cap, ret>>

Return(r) == cap' = 0 /\ ret' = r

\* An emission waits, the state unchanged, while the output is full.
OutputFull ==
    /\ state \in {"YIELD_TAG_BIT", "YIELD_LITERAL", "YIELD_BR_INDEX", "YIELD_BR_LENGTH"}
    /\ cap > 0 /\ ~CanTakeByte
    /\ UNCHANGED <<buffer, input_size, match_scan_index, match_length, match_pos, index,
                   outgoing, current, flags, count, out, accepted>>
    /\ Turn(state)

-----------------------------------------------------------------------------
(* The calls of a client.                                                  *)

\* heatshrink_encoder_reset, called by heatshrink_encoder_alloc.
EncoderInit ==
    /\ buffer = [i \in 0..(2 * Window - 1) |-> 0]
    /\ index = [i \in 0..(2 * Window - 1) |-> 0]     \* not initialised by the code
    /\ input_size = 0 /\ match_scan_index = 0 /\ match_length = 0 /\ match_pos = 0
    /\ outgoing = <<>> /\ current = <<>> /\ flags = 0 /\ state = "NOT_FULL"
    /\ cap = 0 /\ count = 0 /\ ret = "none" /\ out = <<>> /\ accepted = <<>>

\* heatshrink_encoder_sink: copies what fits.
Sink(bytes) ==
    LET n == Min({Window - input_size, Len(bytes)})
        at == Window + input_size IN
    /\ cap = 0
    /\ IF IsFinishing \/ state # "NOT_FULL"
       THEN /\ ret' = "MISUSE"
            /\ UNCHANGED <<buffer, input_size, count, state, accepted>>
       ELSE /\ buffer' = [i \in DOMAIN buffer |->
                             IF i \in at..(at + n - 1) THEN bytes[i - at + 1] ELSE buffer[i]]
            /\ input_size' = input_size + n
            /\ count' = n
            /\ state' = IF n = Window - input_size THEN "FILLED" ELSE state
            /\ ret' = "OK"
            /\ accepted' = accepted \o SubSeq(bytes, 1, n)
    /\ UNCHANGED <<match_scan_index, match_length, match_pos, index, outgoing, current,
                   flags, cap, out>>

\* heatshrink_encoder_finish
Finish ==
    /\ cap = 0
    /\ flags' = 1
    /\ state' = IF state = "NOT_FULL" THEN "FILLED" ELSE state
    /\ ret' = IF state' = "DONE" THEN "DONE" ELSE "MORE"
    /\ UNCHANGED <<buffer, input_size, match_scan_index, match_length, match_pos, index,
                   outgoing, current, cap, count, out, accepted>>

\* heatshrink_encoder_poll up to its loop; without output space it returns
\* before it sets *output_size.
PollBegin(size) ==
    /\ cap = 0
    /\ IF size = 0 THEN ret' = "MISUSE" /\ UNCHANGED <<cap, count>>
                   ELSE cap' = size /\ count' = 0 /\ ret' = "none"
    /\ UNCHANGED <<buffer, input_size, match_scan_index, match_length, match_pos, index,
                   outgoing, current, flags, state, out, accepted>>

-----------------------------------------------------------------------------
(* The turns of poll's loop, named for the state they start in.            *)

\* HSES_NOT_FULL and HSES_DONE.
PollEmpty ==
    /\ cap > 0 /\ state \in {"NOT_FULL", "DONE"}
    /\ Return("EMPTY")
    /\ UNCHANGED <<buffer, input_size, match_scan_index, match_length, match_pos, index,
                   outgoing, current, flags, state, count, out, accepted>>

PollFilled ==
    /\ cap > 0 /\ state = "FILLED"
    /\ index' = Indexed(Window + input_size)
    /\ UNCHANGED <<buffer, input_size, match_scan_index, match_length, match_pos,
                   outgoing, current, flags, count, out, accepted>>
    /\ Turn("SEARCH")

\* Variant: a byte short of the lookahead.
ReserveShort == IF IsFinishing THEN 1 ELSE Lookahead - 1

\* Input that must stay ahead of the scan: all of the lookahead, or one byte
\* when no more will come.
Reserve == IF IsFinishing THEN 1 ELSE Lookahead

\* st_step_search
PollSearch ==
    LET msi == match_scan_index
        end == Window + msi
        max_possible == Min({Lookahead, input_size - msi})
        match == FollowChain(end - Window, end, max_possible) IN
    /\ cap > 0 /\ state = "SEARCH"
    /\ IF msi > input_size - Reserve
       THEN /\ Turn(IF IsFinishing THEN "FLUSH_BITS" ELSE "SAVE_BACKLOG")
            /\ UNCHANGED <<match_scan_index, match_length, match_pos>>
       ELSE /\ Turn("YIELD_TAG_BIT")
            /\ IF Worthwhile(match.length)
               THEN /\ match_pos' = match.distance
                    /\ match_length' = match.length
                    /\ UNCHANGED match_scan_index
               ELSE /\ match_scan_index' = msi + 1
                    /\ match_length' = 0
                    /\ UNCHANGED match_pos
    /\ UNCHANGED <<buffer, input_size, index, outgoing, current, flags, count, out, accepted>>

\* st_yield_tag_bit: 1 marks a literal, 0 a back-reference.
PollTagBit ==
    /\ state = "YIELD_TAG_BIT" /\ CanTakeByte
    /\ IF match_length = 0
       THEN /\ PushBits(<<1>>) /\ UNCHANGED outgoing
            /\ Turn("YIELD_LITERAL")
       ELSE /\ PushBits(<<0>>)
            /\ outgoing' = Bits(match_pos - 1, WindowBits)
            /\ Turn("YIELD_BR_INDEX")
    /\ UNCHANGED <<buffer, input_size, match_scan_index, match_length, match_pos, index,
                   flags, accepted>>

\* st_yield_literal: the byte before the scan.
PollLiteral ==
    /\ state = "YIELD_LITERAL" /\ CanTakeByte
    /\ PushBits(Bits(buffer[Window + match_scan_index - 1], 8))
    /\ Turn("SEARCH")
    /\ UNCHANGED <<buffer, input_size, match_scan_index, match_length, match_pos, index,
                   outgoing, flags, accepted>>

\* st_yield_br_index
PollBackrefIndex ==
    /\ state = "YIELD_BR_INDEX" /\ CanTakeByte
    /\ IF outgoing # <<>>
       THEN PushOutgoing /\ Turn(state)
       ELSE /\ outgoing' = Bits(match_length - 1, LookaheadBits)
            /\ Turn("YIELD_BR_LENGTH")
            /\ UNCHANGED <<current, count, out>>
    /\ UNCHANGED <<buffer, input_size, match_scan_index, match_length, match_pos, index,
                   flags, accepted>>

\* st_yield_br_length
PollBackrefLength ==
    /\ state = "YIELD_BR_LENGTH" /\ CanTakeByte
    /\ IF outgoing # <<>>
       THEN PushOutgoing /\ Turn(state) /\ UNCHANGED <<match_scan_index, match_length>>
       ELSE /\ match_scan_index' = match_scan_index + match_length
            /\ match_length' = 0
            /\ Turn("SEARCH")
            /\ UNCHANGED <<outgoing, current, count, out>>
    /\ UNCHANGED <<buffer, input_size, match_pos, index, flags, accepted>>

\* Variant: moves by what is left instead of what is done.
BacklogShiftWrong == Window - match_scan_index

\* Distance by which save_backlog moves the buffer: all bytes processed.
BacklogShift == match_scan_index

\* save_backlog: what was processed becomes history, the rest moves forward.
PollSaveBacklog ==
    /\ cap > 0 /\ state = "SAVE_BACKLOG"
    /\ buffer' = [i \in DOMAIN buffer |->
                     IF i + BacklogShift \in DOMAIN buffer THEN buffer[i + BacklogShift] ELSE buffer[i]]
    /\ match_scan_index' = 0
    /\ input_size' = input_size - match_scan_index
    /\ UNCHANGED <<match_length, match_pos, index, outgoing, current, flags, count, out, accepted>>
    /\ Turn("NOT_FULL")

\* st_flush_bit_buffer; poll then returns whether the last byte fitted or not.
PollFlush ==
    /\ cap > 0 /\ state = "FLUSH_BITS"
    /\ CASE current = <<>> -> state' = "DONE" /\ UNCHANGED <<out, count>>
         [] current # <<>> /\ CanTakeByte ->
                /\ out' = out \o current \o [i \in 1..(8 - Len(current)) |-> 0]
                /\ count' = count + 1
                /\ state' = "DONE"
         [] OTHER -> UNCHANGED <<state, out, count>>
    /\ Return("EMPTY")
    /\ UNCHANGED <<buffer, input_size, match_scan_index, match_length, match_pos, index,
                   outgoing, current, flags, accepted>>

PollTurn == \/ PollEmpty \/ PollFilled \/ PollSearch \/ PollTagBit \/ PollLiteral
            \/ PollBackrefIndex \/ PollBackrefLength \/ PollSaveBacklog \/ PollFlush
            \/ OutputFull

-----------------------------------------------------------------------------
(* A client that calls in any order, with pieces of its input.             *)

Init == input \in Inputs /\ EncoderInit

ClientSink(n) ==
    LET rest == SubSeq(input, Len(accepted) + 1, Len(input)) IN
    rest # <<>> /\ Sink(SubSeq(rest, 1, Min({n, Len(rest)}))) /\ UNCHANGED input

ClientPoll(n) == PollBegin(n) /\ UNCHANGED input
ClientFinish == Finish /\ UNCHANGED input
EncoderTurn == PollTurn /\ UNCHANGED input

Next == \/ \E n \in SinkSizes : ClientSink(n)
        \/ \E n \in PollSizes : ClientPoll(n)
        \/ ClientFinish
        \/ EncoderTurn

\* A poll runs in the client's thread.
Spec == Init /\ [][Next]_vars /\ WF_vars(EncoderTurn)

-----------------------------------------------------------------------------
(* What the stream means.  The window starts filled with zeros.            *)

At(s, i) == IF i < 1 THEN 0 ELSE s[i]
IsPrefix(s, t) == Len(s) <= Len(t) /\ s = SubSeq(t, 1, Len(s))
Value(bits) == LET v[i \in 0..Len(bits)] == IF i = 0 THEN 0 ELSE 2 * v[i - 1] + bits[i]
               IN  v[Len(bits)]

\* s with n more bytes copied from distance d before its end, one by one.
Copied(s, d, n) ==
    LET c[i \in 0..n] == IF i = 0 THEN s ELSE Append(c[i - 1], At(c[i - 1], Len(s) + i - d))
    IN  c[n]

\* The bytes a decoder makes of bits, after one token after the other; bits
\* too few for a token, the padding of the last byte, are ignored.
Decode(bits) ==
    LET Field(pos, n) == Value(SubSeq(bits, pos + 1, pos + n))
        Size(pos) == IF bits[pos + 1] = 1 THEN 9 ELSE 1 + WindowBits + LookaheadBits
        after[k \in 0..Len(bits)] ==
            IF k = 0 THEN [pos |-> 0, bytes |-> <<>>]
            ELSE LET d == after[k - 1] IN
                 IF d.pos >= Len(bits) THEN d
                 ELSE IF d.pos + Size(d.pos) > Len(bits) THEN d
                 ELSE [pos |-> d.pos + Size(d.pos),
                       bytes |-> IF bits[d.pos + 1] = 1
                                 THEN Append(d.bytes, Field(d.pos + 1, 8))
                                 ELSE Copied(d.bytes, Field(d.pos + 1, WindowBits) + 1,
                                     Field(d.pos + 1 + WindowBits, LookaheadBits) + 1)]
    IN  after[Len(bits) \div 8].bytes

\* The greedy encoding of s: at each position the longest earlier occurrence
\* in the window, the nearest of them, if it is worthwhile, else a literal.
Greedy(s) ==
    LET Agreement(p, d) ==
            Max({k \in 0..Min({Lookahead, Len(s) - p}) :
                     \A j \in 1..k : At(s, p + j - d) = s[p + j]})
        after[k \in 0..Len(s)] ==
            IF k = 0 THEN [pos |-> 0, bits |-> <<>>]
            ELSE LET e == after[k - 1] IN
                 IF e.pos = Len(s) THEN e
                 ELSE LET agree == [d \in 1..Window |-> Agreement(e.pos, d)]
                          best == Max({agree[d] : d \in 1..Window})
                          dist == Min({d \in 1..Window : agree[d] = best})
                      IN  IF Worthwhile(best)
                          THEN [pos |-> e.pos + best,
                                bits |-> e.bits \o <<0>> \o Bits(dist - 1, WindowBits)
                                                \o Bits(best - 1, LookaheadBits)]
                          ELSE [pos |-> e.pos + 1,
                                bits |-> e.bits \o <<1>> \o Bits(s[e.pos + 1], 8)]
    IN  after[Len(s)].bits

-----------------------------------------------------------------------------
(* Properties.                                                             *)

(* The encoder's state stays in its ranges; the scan never passes the      *)
(* input, a poll never writes more than the space it was given.            *)
TypeOK ==
    /\ input \in Inputs
    /\ DOMAIN buffer = 0..(2 * Window - 1) /\ DOMAIN index = DOMAIN buffer
    /\ input_size \in 0..Window /\ match_scan_index \in 0..input_size
    /\ match_length \in 0..Lookahead /\ match_pos \in 0..Window
    /\ Len(outgoing) <= WindowBits /\ Len(current) <= 7
    /\ flags \in {0, 1} /\ state \in States
    /\ cap \in Nat /\ count \in Nat /\ (cap > 0 => count <= cap)
    /\ ret \in {"none", "OK", "EMPTY", "MORE", "DONE", "MISUSE"}
    /\ Len(out) % 8 = 0

(* However the input is cut into pieces and the output into polls, what is *)
(* emitted at any time decodes to a prefix of the input: no byte is lost,  *)
(* repeated or changed at the moves of the buffer or at a full output.     *)
OutputDecodes ==
    IsPrefix(Decode(IF state = "DONE" THEN out ELSE out \o current), accepted)

(* When the encoder says it is done, the output is the greedy encoding of  *)
(* all its input, byte for byte, and so independent of how it was cut: the *)
(* index finds the longest and nearest match, no byte waits inside.        *)
DoneIsGreedy ==
    state = "DONE" =>
        /\ IsPrefix(Greedy(accepted), out)
        /\ Len(out) - Len(Greedy(accepted)) < 8
        /\ Decode(out) = accepted

(* Every poll returns: no turn of its loop repeats itself forever.         *)
PollReturns == cap > 0 ~> cap = 0
=============================================================================
