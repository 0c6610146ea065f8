--------------------------- MODULE CompressionProofs ---------------------------
(***************************************************************************)
(* Theorems about Compression, for every window and lookahead and every    *)
(* message.  What they need of the encoder is its invariant and Moves,     *)
(* what a turn of poll's loop does to the sizes and to the state.          *)
(***************************************************************************)
EXTENDS Compression, HeatshrinkProofs

-----------------------------------------------------------------------------
(* A turn of poll's loop.                                                  *)

\* The bytes written are counted; a poll ends for one of two reasons.
Ends ==
    \/ cap' = cap
    \/ cap' = 0 /\ ret' = "MORE" /\ count' = cap
    \/ /\ cap' = 0 /\ ret' = "EMPTY"
       /\ state' \in {"NOT_FULL", "DONE"} \/ (state' = "FLUSH_BITS" /\ count' = cap)

\* The encoder takes input until it is told to finish, and ends only then.
Order ==
    /\ IsFinishing /\ state \notin {"NOT_FULL", "SAVE_BACKLOG"} => state' \notin {"NOT_FULL", "SAVE_BACKLOG"}
    /\ ~IsFinishing /\ state \notin {"FLUSH_BITS", "DONE"} => state' \notin {"FLUSH_BITS", "DONE"}

Moves ==
    /\ cap > 0 /\ count' \in Nat /\ count' <= cap
    /\ Len(out') - Len(out) = 8 * (count' - count)
    /\ flags' = flags /\ accepted' = accepted
    /\ Ends /\ Order

LEMMA TurnLeaves ==
    ASSUME NEW next, Turn(next)
    PROVE  /\ state' = next
           /\ cap' = cap \/ (cap' = 0 /\ ret' = "MORE" /\ count' = cap)
BY DEF Turn

LEMMA Ranges == EncoderInvariant => /\ cap \in Nat /\ count \in Nat /\ (cap > 0 => count <= cap)
                                    /\ Len(out) \in Nat /\ state \in States /\ flags \in {0, 1}
BY LenProperties DEF EncoderInvariant, TypeOK, DataInvariant

\* The turns that write nothing.
LEMMA MovesIdle ==
    ASSUME EncoderInvariant, PollEmpty \/ PollFilled \/ PollSearch \/ PollSaveBacklog \/ OutputFull
    PROVE  Moves
<1>0. /\ cap \in Nat /\ count \in Nat /\ (cap > 0 => count <= cap) /\ Len(out) \in Nat
  BY Ranges
<1>1. cap > 0 /\ count' = count /\ out' = out /\ flags' = flags /\ accepted' = accepted
  BY DEF PollEmpty, PollFilled, PollSearch, PollSaveBacklog, OutputFull
<1>2. CASE PollEmpty
  <2>1. Ends /\ Order
    BY <1>2 DEF PollEmpty, Return, Ends, Order
  <2> QED
    BY <1>0, <1>1, <2>1 DEF Moves
<1>3. CASE PollFilled
  <2>1. state' = "SEARCH" /\ Ends
    BY <1>3, TurnLeaves DEF PollFilled, Ends
  <2> QED
    BY <1>0, <1>1, <2>1 DEF Moves, Order
<1>4. CASE PollSearch
  <2>1. PICK next \in {IF IsFinishing THEN "FLUSH_BITS" ELSE "SAVE_BACKLOG", "YIELD_TAG_BIT"} : Turn(next)
    BY <1>4 DEF PollSearch
  <2>2. state' = next /\ Ends
    BY <2>1, TurnLeaves DEF Ends
  <2> QED
    BY <1>0, <1>1, <2>1, <2>2 DEF Moves, Order
<1>5. CASE PollSaveBacklog
  <2>1. state = "SAVE_BACKLOG" /\ state' = "NOT_FULL" /\ Ends
    BY <1>5, TurnLeaves DEF PollSaveBacklog, Ends
  <2> QED
    BY <1>0, <1>1, <2>1 DEF Moves, Order
<1>6. CASE OutputFull
  <2>1. state' = state /\ Ends
    BY <1>6, TurnLeaves DEF OutputFull, Ends
  <2> QED
    BY <1>0, <1>1, <2>1 DEF Moves, Order
<1> QED
  BY <1>2, <1>3, <1>4, <1>5, <1>6

\* The turns that write bits of a token.
LEMMA MovesToken ==
    ASSUME EncoderInvariant, PollTagBit \/ PollLiteral \/ PollBackrefIndex \/ PollBackrefLength
    PROVE  Moves
<1>0. cap \in Nat /\ count \in Nat /\ Len(out) \in Nat
  BY Ranges
<1>1. CanTakeByte /\ flags' = flags /\ accepted' = accepted
  BY DEF PollTagBit, PollLiteral, PollBackrefIndex, PollBackrefLength
<1>2. count < cap
  BY <1>1 DEF CanTakeByte
<1>3. /\ count' \in Nat /\ count' <= cap
      /\ Len(out') - Len(out) = 8 * (count' - count)
  <2>1. CASE PollTagBit
    BY <2>1, TagBitEmits, EmissionFits DEF Fits
  <2>2. CASE PollLiteral
    <3>1. match_scan_index >= 1
      BY <2>2 DEF PollLiteral, EncoderInvariant, TypeOK, SearchInvariant
    <3> QED
      BY <2>2, <3>1, LiteralEmits, EmissionFits DEF Fits
  <2>3. CASE PollBackrefIndex \/ PollBackrefLength
    <3>1. PushOutgoing \/ UNCHANGED <<count, out>>
      BY <2>3 DEF PollBackrefIndex, PollBackrefLength
    <3>2. CASE PushOutgoing
      <4>1. \E a \in Seq(Bit) : Emits(a)
        BY <1>1, <3>2, OutgoingEmits
      <4> QED
        BY <4>1, EmissionFits DEF Fits
    <3>3. CASE UNCHANGED <<count, out>>
      BY <1>0, <1>2, <3>3
    <3> QED
      BY <3>1, <3>2, <3>3
  <2> QED
    BY <2>1, <2>2, <2>3
<1>4. PICK next \in {"YIELD_LITERAL", "YIELD_BR_INDEX", "YIELD_BR_LENGTH", "SEARCH"} : Turn(next)
  BY DEF PollTagBit, PollLiteral, PollBackrefIndex, PollBackrefLength
<1>5. Ends /\ Order
  BY <1>4, TurnLeaves DEF Ends, Order
<1> QED
  BY <1>0, <1>1, <1>2, <1>3, <1>5 DEF Moves

LEMMA MovesFlush == ASSUME EncoderInvariant, PollFlush PROVE Moves
<1> DEFINE padded == out \o current \o [i \in 1..(8 - Len(current)) |-> 0]
<1>0. cap \in Nat /\ count \in Nat /\ (cap > 0 => count <= cap) /\ Len(out) \in Nat
  BY Ranges
<1>1. /\ cap > 0 /\ state = "FLUSH_BITS" /\ cap' = 0 /\ ret' = "EMPTY"
      /\ flags' = flags /\ accepted' = accepted
      /\ \/ state' = "DONE" /\ out' = out /\ count' = count
         \/ state' = "DONE" /\ out' = padded /\ count' = count + 1 /\ CanTakeByte
         \/ state' = "FLUSH_BITS" /\ out' = out /\ count' = count /\ ~CanTakeByte
  BY DEF PollFlush, Return
<1>2. Len(padded) = Len(out) + 8
  BY Padded DEF EncoderInvariant, TypeOK, DataInvariant
<1> HIDE DEF padded
<1>3. count' \in Nat /\ count' <= cap /\ Len(out') - Len(out) = 8 * (count' - count)
  BY <1>0, <1>1, <1>2 DEF CanTakeByte
<1>4. Ends /\ Order
  BY <1>0, <1>1 DEF Ends, Order, CanTakeByte
<1> QED
  BY <1>1, <1>3, <1>4 DEF Moves

LEMMA TurnMoves == ASSUME EncoderInvariant, PollTurn PROVE Moves
BY MovesIdle, MovesToken, MovesFlush DEF PollTurn

-----------------------------------------------------------------------------
(* The inductive invariant.                                                *)

Pcs == {"alloc", "sink", "finish", "poll", "polling", "finish_again", "returned", "stored"}

\* What was sunk is the beginning of the message.
SunkInvariant == sunk \in Nat /\ sunk <= InputLen /\ accepted = Prefix(input, sunk)

\* The encoder is told to finish after all of the message, and only then.
FinishInvariant ==
    /\ IsFinishing => state \notin {"NOT_FULL", "SAVE_BACKLOG"}
    /\ ~IsFinishing => state \notin {"FLUSH_BITS", "DONE"}
    /\ pc \in {"alloc", "sink"} => ~IsFinishing /\ state = "NOT_FULL"
    /\ pc = "finish" => sunk = InputLen /\ ~IsFinishing /\ state \in {"NOT_FULL", "FILLED"}
    /\ pc \in {"poll", "polling"} => (IsFinishing <=> sunk = InputLen)

\* total is the size of all that was written.
Written(total) == 8 * total = Len(out) /\ total <= InputLen

\* A poll within the room left, and the ways it can end: at once when there is
\* no room, with the room used up, or with nothing left to write.
PollResult ==
    \/ cap > 0 /\ cap = InputLen - polled /\ Written(polled + count)
    \/ cap = 0 /\ ret = "MISUSE" /\ polled = InputLen /\ Written(polled)
    \/ cap = 0 /\ ret = "MORE" /\ polled + count = InputLen /\ Written(polled + count)
    \/ /\ cap = 0 /\ ret = "EMPTY" /\ Written(polled + count)
       /\ state \in {"NOT_FULL", "DONE"} \/ (state = "FLUSH_BITS" /\ polled + count = InputLen)

\* All of the message, compressed.
Finished == state = "DONE" /\ sunk = InputLen /\ Written(polled)

SizeInvariant ==
    /\ polled \in Nat /\ count <= InputLen /\ Len(out) <= 8 * InputLen
    /\ pc = "alloc" => polled = 0
    /\ pc # "polling" => cap = 0
    /\ pc \in {"alloc", "sink", "finish", "poll"} => Written(polled)
    /\ pc = "polling" => polled <= InputLen /\ PollResult
    /\ pc = "finish_again" => Finished
    /\ pc \in {"returned", "stored"} =>
           polled <= 2 * InputLen /\ (polled > 0 => polled >= InputLen \/ Finished)

SlotInvariant ==
    pc = "stored" => \/ slot = [kind |-> "compressed", size |-> polled] /\ polled > 0
                     \/ slot = [kind |-> "raw", size |-> InputLen]

WrapperInvariant ==
    pc \in Pcs /\ SunkInvariant /\ FinishInvariant /\ SizeInvariant /\ SlotInvariant

CompressionInvariant == ClientInvariant /\ WrapperInvariant

LEMMA Numbers ==
    ASSUME CompressionInvariant
    PROVE  /\ InputLen \in Nat /\ Len(out) \in Nat /\ cap \in Nat /\ count \in Nat
           /\ sunk \in Nat /\ polled \in Nat /\ Len(accepted) = sunk
           /\ input \in Seq(Byte) /\ accepted \in Seq(Byte)
<1>1. /\ InputLen \in Nat /\ input \in Seq(Byte) /\ sunk \in Nat /\ polled \in Nat
      /\ accepted = Prefix(input, sunk) /\ sunk <= Len(input)
  BY LenProperties DEF CompressionInvariant, ClientInvariant, WrapperInvariant, SunkInvariant,
                       SizeInvariant, InputLen
<1>2. Len(accepted) = sunk /\ accepted \in Seq(Byte)
  BY <1>1, PrefixElements
<1> QED
  BY <1>1, <1>2, Ranges DEF CompressionInvariant, ClientInvariant

-----------------------------------------------------------------------------
(* The steps.                                                              *)

\* The steps of the wrapper alone leave the encoder as it is.
LEMMA WrapperStill ==
    ASSUME CompressionInvariant, UNCHANGED vars PROVE ClientInvariant'
<1>1. EncoderInvariant /\ StreamInvariant /\ input \in Seq(Byte)
  BY DEF CompressionInvariant, ClientInvariant
<1>2. EncoderInvariant'
  BY <1>1, StepStill DEF vars, encoder, EncoderInvariant, TypeOK
<1>3. StreamInvariant'
  BY <1>1, StreamStill DEF vars, encoder
<1> QED
  BY <1>1, <1>2, <1>3 DEF vars, encoder, ClientInvariant

\* A piece of the message that follows what was sunk.
LEMMA NextPiece ==
    ASSUME NEW s \in Seq(Byte), NEW k \in Nat, k <= Len(s), NEW n \in Nat, n <= Len(s) - k
    PROVE  /\ SubSeq(s, k + 1, Len(s)) \in Seq(Byte) /\ Len(SubSeq(s, k + 1, Len(s))) = Len(s) - k
           /\ Prefix(s, k) \o SubSeq(SubSeq(s, k + 1, Len(s)), 1, n) = Prefix(s, k + n)
<1> DEFINE S == Byte
           len == Len(s)
           rest == SubSeq(s, k + 1, len)
           piece == SubSeq(rest, 1, n)
           p == Prefix(s, k)
           q == Prefix(s, k + n)
<1>0. len \in Nat /\ s \in Seq(S)
  BY LenProperties
<1>1. rest \in Seq(S) /\ Len(rest) = len - k /\ \A i \in 1..(len - k) : rest[i] = s[k + i]
  <2> HIDE DEF S
  <2>1. k + 1 \in Nat /\ k + 1 >= 1 /\ k + 1 <= len + 1
    BY <1>0
  <2> QED
    BY <1>0, <2>1, SubSeqProperties
<1> HIDE DEF rest, S
<1>2. piece \in Seq(S) /\ Len(piece) = n /\ \A i \in 1..n : piece[i] = rest[i]
  BY <1>0, <1>1, SubSeqProperties
<1> HIDE DEF piece
<1>3. /\ p \in Seq(S) /\ Len(p) = k /\ \A i \in 1..k : p[i] = s[i]
      /\ q \in Seq(S) /\ Len(q) = k + n /\ \A i \in 1..(k + n) : q[i] = s[i]
  <2>1. k + n \in Nat /\ k + n <= Len(s) /\ k <= Len(s)
    BY <1>0
  <2> QED
    BY <2>1, PrefixElements DEF S
<1> HIDE DEF p, q, len
<1>4. /\ p \o piece \in Seq(S) /\ Len(p \o piece) = k + n
      /\ \A i \in 1..(k + n) : (p \o piece)[i] = IF i <= k THEN p[i] ELSE piece[i - k]
  <2>1. p \in Seq(S) /\ piece \in Seq(S)
    BY <1>2, <1>3
  <2>2. /\ p \o piece \in Seq(S) /\ Len(p \o piece) = Len(p) + Len(piece)
        /\ \A i \in 1..(Len(p) + Len(piece)) :
               (p \o piece)[i] = IF i <= Len(p) THEN p[i] ELSE piece[i - Len(p)]
    BY <2>1, ConcatProperties
  <2> QED
    BY <1>2, <1>3, <2>2, Zenon
<1> DEFINE c == p \o piece
<1> HIDE DEF c
<1>5. \A i \in 1..(k + n) : c[i] = q[i]
  <2> SUFFICES ASSUME NEW i \in 1..(k + n) PROVE c[i] = q[i]
    OBVIOUS
  <2>1. CASE i <= k
    <3>1. c[i] = p[i] /\ i \in 1..k
      BY <1>4, <2>1 DEF c
    <3> QED
      BY <1>3, <3>1
  <2>2. CASE i > k
    <3>1. c[i] = piece[i - k] /\ i - k \in 1..n /\ i - k \in 1..(len - k) /\ k + (i - k) = i
      BY <1>0, <1>4, <2>2 DEF c, len
    <3>2. piece[i - k] = rest[i - k] /\ rest[i - k] = s[k + (i - k)]
      BY <1>1, <1>2, <3>1
    <3> QED
      BY <1>3, <3>1, <3>2
  <2> QED
    BY <2>1, <2>2
<1>6. c = q
  <2>1. c \in Seq(S) /\ Len(c) = Len(q)
    BY <1>3, <1>4 DEF c
  <2>2. \A i \in 1..Len(c) : c[i] = q[i]
    BY <1>3, <1>5, <2>1
  <2> QED
    BY <1>3, <2>1, <2>2, SeqEqual
<1> QED
  BY <1>1, <1>6 DEF c, p, q, piece, rest, S, len

LEMMA StepAlloc == CompressionInvariant /\ Alloc => CompressionInvariant'
<1> SUFFICES ASSUME CompressionInvariant, Alloc PROVE CompressionInvariant'
  OBVIOUS
<1>1. /\ pc = "alloc" /\ pc' \in {"sink", "returned"} /\ sunk' = sunk /\ polled' = polled /\ slot' = slot
      /\ UNCHANGED vars
  BY DEF Alloc
<1>2. /\ input' = input /\ accepted' = accepted /\ flags' = flags /\ state' = state /\ count' = count
      /\ cap' = cap /\ out' = out
  BY <1>1 DEF vars, encoder
<1>3. ClientInvariant'
  BY <1>1, WrapperStill
<1>4. SunkInvariant' /\ FinishInvariant' /\ SlotInvariant'
  BY <1>1, <1>2 DEF CompressionInvariant, WrapperInvariant, SunkInvariant, FinishInvariant,
                    SlotInvariant, InputLen, IsFinishing
<1>5. SizeInvariant'
  BY <1>1, <1>2, Numbers DEF CompressionInvariant, WrapperInvariant, SizeInvariant, Written, InputLen
<1> QED
  BY <1>1, <1>3, <1>4, <1>5 DEF CompressionInvariant, WrapperInvariant, Pcs

LEMMA StepSinkRest == CompressionInvariant /\ SinkRest => CompressionInvariant'
<1> SUFFICES ASSUME CompressionInvariant, SinkRest PROVE CompressionInvariant'
  OBVIOUS
<1> DEFINE rest == SubSeq(input, sunk + 1, InputLen)
           n == Min({Window - input_size, Len(rest)})
<1>0. /\ InputLen \in Nat /\ Len(out) \in Nat /\ sunk \in Nat /\ polled \in Nat
      /\ sunk <= InputLen /\ input \in Seq(Byte) /\ accepted = Prefix(input, sunk)
      /\ EncoderInvariant /\ StreamInvariant /\ ~IsFinishing /\ state = "NOT_FULL" /\ pc = "sink"
      /\ cap = 0 /\ Written(polled)
  BY Numbers DEF CompressionInvariant, ClientInvariant, WrapperInvariant, SunkInvariant,
                 FinishInvariant, SizeInvariant, SinkRest
<1>1. rest \in Seq(Byte) /\ Len(rest) = InputLen - sunk
  <2>1. sunk <= Len(input) /\ 0 <= Len(input) - sunk /\ 0 \in Nat
    BY <1>0 DEF InputLen
  <2> QED
    BY <1>0, <2>1, NextPiece DEF InputLen
<1>2. n \in Nat /\ n <= InputLen - sunk
  <2>1. Window - input_size \in Nat
    BY <1>0, Sizes DEF EncoderInvariant, TypeOK
  <2> QED
    BY <1>0, <1>1, <2>1, MinOfTwo
<1>3. /\ Sink(rest) /\ sunk' = sunk + count' /\ input' = input /\ polled' = polled /\ slot' = slot
      /\ pc' = IF sunk' = InputLen THEN "finish" ELSE "poll"
  BY DEF SinkRest
<1>4. /\ count' = n /\ state' \in {"NOT_FULL", "FILLED"} /\ flags' = flags /\ cap' = cap /\ out' = out
      /\ accepted' = accepted \o SubSeq(rest, 1, n)
  BY <1>0, <1>3 DEF Sink
<1>5. accepted' = Prefix(input, sunk + n)
  <2>1. sunk <= Len(input) /\ n <= Len(input) - sunk
    BY <1>0, <1>2 DEF InputLen
  <2> HIDE DEF n
  <2> QED
    BY <1>0, <1>2, <1>4, <2>1, NextPiece DEF InputLen
<1> HIDE DEF n, rest
<1>6. ClientInvariant'
  BY <1>0, <1>1, <1>3, StepSink, StreamSink DEF ClientInvariant
<1>7. InputLen' = InputLen /\ IsFinishing' = IsFinishing
  BY <1>3, <1>4 DEF InputLen, IsFinishing
<1>8. SunkInvariant'
  <2>1. sunk' = sunk + n
    BY <1>3, <1>4
  <2>2. accepted' = Prefix(input', sunk')
    BY <1>3, <1>5, <2>1
  <2> QED
    BY <1>0, <1>2, <1>7, <2>1, <2>2 DEF SunkInvariant
<1>9. FinishInvariant'
  BY <1>0, <1>3, <1>4, <1>7 DEF FinishInvariant
<1>10. SizeInvariant'
  BY <1>0, <1>2, <1>3, <1>4, <1>7 DEF SizeInvariant, Written
<1> QED
  BY <1>3, <1>6, <1>8, <1>9, <1>10 DEF CompressionInvariant, WrapperInvariant, SlotInvariant, Pcs

\* finish, before and after the end of the input.
LEMMA StepFinishes == CompressionInvariant /\ (FinishInput \/ FinishAgain) => CompressionInvariant'
<1> SUFFICES ASSUME CompressionInvariant, FinishInput \/ FinishAgain PROVE CompressionInvariant'
  OBVIOUS
<1>0. /\ InputLen \in Nat /\ Len(out) \in Nat /\ sunk \in Nat /\ polled \in Nat
      /\ EncoderInvariant /\ StreamInvariant /\ input \in Seq(Byte)
      /\ SunkInvariant /\ FinishInvariant /\ SizeInvariant
  BY Numbers DEF CompressionInvariant, ClientInvariant, WrapperInvariant
<1>1. /\ Finish /\ UNCHANGED <<input, sunk, polled, slot>>
      /\ \/ pc = "finish" /\ pc' = "poll"
         \/ pc = "finish_again" /\ pc' = "returned"
  BY DEF FinishInput, FinishAgain
<1>2. /\ flags' = 1 /\ state' = (IF state = "NOT_FULL" THEN "FILLED" ELSE state)
      /\ UNCHANGED <<cap, count, out, accepted>> /\ cap = 0
  BY <1>1 DEF Finish
<1>3. ClientInvariant'
  <2>1. EncoderInvariant'
    BY <1>0, <1>1, StepFinish
  <2>2. StreamInvariant'
    BY <1>0, <1>1, StreamStill DEF Finish
  <2> QED
    BY <1>0, <1>1, <2>1, <2>2 DEF ClientInvariant
<1>4. InputLen' = InputLen /\ IsFinishing'
  BY <1>1, <1>2 DEF InputLen, IsFinishing
<1>5. SunkInvariant'
  BY <1>0, <1>1, <1>2, <1>4 DEF SunkInvariant
<1>6. CASE pc = "finish"
  <2>1. FinishInvariant'
    BY <1>0, <1>1, <1>2, <1>4, <1>6 DEF FinishInvariant
  <2>2. SizeInvariant'
    BY <1>0, <1>1, <1>2, <1>4, <1>6 DEF SizeInvariant, Written
  <2> QED
    BY <1>1, <1>3, <1>5, <1>6, <2>1, <2>2 DEF CompressionInvariant, WrapperInvariant, SlotInvariant, Pcs
<1>7. CASE pc = "finish_again"
  <2>1. Finished /\ state = "DONE"
    BY <1>0, <1>7 DEF SizeInvariant, Finished
  <2>2. FinishInvariant'
    BY <1>0, <1>1, <1>2, <1>4, <1>7, <2>1 DEF FinishInvariant
  <2>3. SizeInvariant'
    BY <1>0, <1>1, <1>2, <1>4, <1>7, <2>1 DEF SizeInvariant, Finished, Written
  <2> QED
    BY <1>1, <1>3, <1>5, <1>7, <2>2, <2>3 DEF CompressionInvariant, WrapperInvariant, SlotInvariant, Pcs
<1> QED
  BY <1>1, <1>6, <1>7

LEMMA StepPollRest == CompressionInvariant /\ PollRest => CompressionInvariant'
<1> SUFFICES ASSUME CompressionInvariant, PollRest PROVE CompressionInvariant'
  OBVIOUS
<1> DEFINE room == InputLen - polled
<1>0. /\ InputLen \in Nat /\ Len(out) \in Nat /\ sunk \in Nat /\ polled \in Nat /\ count \in Nat
      /\ EncoderInvariant /\ StreamInvariant /\ input \in Seq(Byte)
      /\ SunkInvariant /\ FinishInvariant /\ SizeInvariant
      /\ pc = "poll" /\ pc' = "polling" /\ Written(polled) /\ polled <= InputLen
  BY Numbers DEF CompressionInvariant, ClientInvariant, WrapperInvariant, PollRest, SizeInvariant, Written
<1>1. PollBegin(room) /\ UNCHANGED <<input, sunk, polled, slot>>
  BY DEF PollRest
<1>2. room \in Nat
  BY <1>0
<1>3. /\ UNCHANGED <<flags, state, out, accepted>> /\ cap = 0
      /\ \/ room = 0 /\ ret' = "MISUSE" /\ cap' = 0 /\ count' = count
         \/ room # 0 /\ cap' = room /\ count' = 0
  BY <1>1 DEF PollBegin
<1>4. ClientInvariant'
  <2>1. EncoderInvariant'
    <3> HIDE DEF room
    <3> QED
      BY <1>0, <1>1, <1>2, StepPollBegin
  <2>2. StreamInvariant'
    BY <1>0, <1>1, StreamStill DEF PollBegin
  <2> QED
    BY <1>0, <1>1, <2>1, <2>2 DEF ClientInvariant
<1>5. InputLen' = InputLen /\ IsFinishing' = IsFinishing
  BY <1>1, <1>3 DEF InputLen, IsFinishing
<1>6. SunkInvariant'
  BY <1>0, <1>1, <1>3, <1>5 DEF SunkInvariant
<1>7. FinishInvariant'
  BY <1>0, <1>1, <1>3, <1>5 DEF FinishInvariant
<1>8. SizeInvariant'
  <2>1. PollResult'
    BY <1>0, <1>1, <1>3, <1>5 DEF PollResult, Written
  <2> QED
    BY <1>0, <1>1, <1>2, <1>3, <1>5, <2>1 DEF SizeInvariant
<1> QED
  BY <1>0, <1>1, <1>4, <1>6, <1>7, <1>8 DEF CompressionInvariant, WrapperInvariant, SlotInvariant, Pcs

LEMMA StepPolling == CompressionInvariant /\ Polling => CompressionInvariant'
<1> SUFFICES ASSUME CompressionInvariant, Polling PROVE CompressionInvariant'
  OBVIOUS
<1> DEFINE l == Len(out)
           m == Len(out')
<1>0. /\ InputLen \in Nat /\ l \in Nat /\ sunk \in Nat /\ polled \in Nat /\ count \in Nat /\ cap \in Nat
      /\ EncoderInvariant /\ StreamInvariant /\ input \in Seq(Byte)
      /\ SunkInvariant /\ FinishInvariant /\ SizeInvariant
      /\ pc = "polling" /\ polled <= InputLen /\ PollResult
  BY Numbers DEF CompressionInvariant, ClientInvariant, WrapperInvariant, Polling, SizeInvariant
<1>1. PollTurn /\ input' = input /\ pc' = pc /\ sunk' = sunk /\ polled' = polled /\ slot' = slot
  BY DEF Polling, wrapper
<1>2. Moves
  BY <1>0, <1>1, TurnMoves
<1>3. ClientInvariant'
  BY <1>0, <1>1, StepTurn, StreamTurn DEF ClientInvariant
<1>4. m \in Nat
  BY <1>3, LenProperties DEF ClientInvariant, EncoderInvariant, DataInvariant
<1>5. /\ cap > 0 /\ count' \in Nat /\ count' <= cap /\ m - l = 8 * (count' - count)
      /\ flags' = flags /\ accepted' = accepted /\ Ends /\ Order
  BY <1>2 DEF Moves
<1>6. cap = InputLen - polled /\ 8 * (polled + count) = l
  BY <1>0, <1>5 DEF PollResult, Written
<1> HIDE DEF l, m
<1>7. 8 * (polled + count') = m /\ polled + count' <= InputLen /\ m <= 8 * InputLen /\ count' <= InputLen
  <2> DEFINE c == count
             d == count'
             p == polled
             room == InputLen
  <2>1. /\ l \in Nat /\ m \in Nat /\ c \in Nat /\ d \in Nat /\ p \in Nat /\ room \in Nat
        /\ m - l = 8 * (d - c) /\ 8 * (p + c) = l /\ d <= cap /\ cap = room - p
    BY <1>0, <1>4, <1>5, <1>6
  <2> HIDE DEF c, d, p, room
  <2>2. 8 * (p + d) = m /\ p + d <= room /\ m <= 8 * room /\ d <= room
    BY <2>1
  <2> QED
    BY <2>2 DEF c, d, p, room
<1>8. InputLen' = InputLen /\ IsFinishing' = IsFinishing
  BY <1>1, <1>5 DEF InputLen, IsFinishing
<1>9. SunkInvariant'
  BY <1>0, <1>1, <1>5, <1>8 DEF SunkInvariant
<1>10. FinishInvariant'
  BY <1>0, <1>1, <1>5, <1>8 DEF FinishInvariant, Order
<1>11. Written(polled + count)'
  BY <1>1, <1>7, <1>8 DEF Written, m
<1>12. PollResult'
  <2>1. CASE cap' = cap
    BY <1>1, <1>5, <1>6, <1>8, <1>11, <2>1 DEF PollResult
  <2>2. CASE cap' = 0 /\ ret' = "MORE" /\ count' = cap
    <3>1. polled' + count' = InputLen'
      BY <1>0, <1>1, <1>6, <1>8, <2>2
    <3> QED
      BY <1>11, <2>2, <3>1 DEF PollResult
  <2>3. CASE /\ cap' = 0 /\ ret' = "EMPTY"
             /\ state' \in {"NOT_FULL", "DONE"} \/ (state' = "FLUSH_BITS" /\ count' = cap)
    <3>1. count' = cap => polled' + count' = InputLen'
      BY <1>0, <1>1, <1>6, <1>8
    <3> QED
      BY <1>11, <2>3, <3>1 DEF PollResult
  <2> QED
    BY <1>5, <2>1, <2>2, <2>3 DEF Ends
<1>13. SizeInvariant'
  BY <1>0, <1>1, <1>7, <1>8, <1>12 DEF SizeInvariant, m
<1> QED
  BY <1>0, <1>1, <1>3, <1>9, <1>10, <1>13 DEF CompressionInvariant, WrapperInvariant, SlotInvariant, Pcs

\* After a poll.
LEMMA StepPolled == CompressionInvariant /\ Polled => CompressionInvariant'
<1> SUFFICES ASSUME CompressionInvariant, Polled PROVE CompressionInvariant'
  OBVIOUS
<1> DEFINE total == polled + count
<1>0. /\ InputLen \in Nat /\ polled \in Nat /\ count \in Nat /\ cap \in Nat /\ count <= InputLen
      /\ SunkInvariant /\ FinishInvariant /\ SizeInvariant
      /\ pc = "polling" /\ cap = 0 /\ polled <= InputLen /\ PollResult
  BY Numbers DEF CompressionInvariant, WrapperInvariant, Polled, SizeInvariant
<1>1. /\ polled' = total /\ UNCHANGED vars /\ sunk' = sunk /\ slot' = slot
      /\ \/ pc' = "poll" /\ ret = "MORE"
         \/ pc' = "returned" /\ ret # "MORE" /\ total >= InputLen
         \/ pc' = "finish_again" /\ ret # "MORE" /\ total < InputLen /\ sunk = InputLen
         \/ pc' = "sink" /\ ret # "MORE" /\ total < InputLen /\ sunk # InputLen
  BY <1>0 DEF Polled, AfterPoll
<1>2. /\ input' = input /\ accepted' = accepted /\ flags' = flags /\ state' = state /\ count' = count
      /\ cap' = cap /\ out' = out /\ InputLen' = InputLen /\ IsFinishing' = IsFinishing
  BY <1>1 DEF vars, encoder, InputLen, IsFinishing
<1>3. ClientInvariant'
  BY <1>1, WrapperStill
<1>4. SunkInvariant'
  BY <1>0, <1>1, <1>2 DEF SunkInvariant
<1>5. /\ total \in Nat /\ total <= 2 * InputLen
      /\ ret = "MORE" => Written(total)
      /\ ret # "MORE" /\ total < InputLen => Written(total) /\ state \in {"NOT_FULL", "DONE"}
  BY <1>0 DEF PollResult
<1>6. /\ pc' = "finish_again" => state = "DONE"
      /\ pc' = "sink" => state = "NOT_FULL" /\ ~IsFinishing
  BY <1>0, <1>1, <1>5 DEF FinishInvariant
<1>7. FinishInvariant'
  BY <1>0, <1>1, <1>2, <1>6 DEF FinishInvariant
<1> HIDE DEF total
<1>8. SizeInvariant'
  <2>1. pc' = "finish_again" => Finished'
    BY <1>0, <1>1, <1>2, <1>5, <1>6 DEF Finished, Written
  <2>2. pc' \in {"sink", "poll"} => Written(polled)'
    BY <1>1, <1>2, <1>5 DEF Written
  <2> QED
    BY <1>0, <1>1, <1>2, <1>5, <2>1, <2>2 DEF SizeInvariant
<1> QED
  BY <1>1, <1>3, <1>4, <1>7, <1>8 DEF CompressionInvariant, WrapperInvariant, SlotInvariant, Pcs

LEMMA StepStore == CompressionInvariant /\ Store => CompressionInvariant'
<1> SUFFICES ASSUME CompressionInvariant, Store PROVE CompressionInvariant'
  OBVIOUS
<1>0. /\ InputLen \in Nat /\ polled \in Nat
      /\ SunkInvariant /\ FinishInvariant /\ SizeInvariant
  BY Numbers DEF CompressionInvariant, WrapperInvariant
<1>1. /\ pc = "returned" /\ pc' = "stored" /\ UNCHANGED <<sunk, polled>> /\ UNCHANGED vars
      /\ slot' = IF polled > 0 THEN [kind |-> "compressed", size |-> polled]
                               ELSE [kind |-> "raw", size |-> InputLen]
  BY DEF Store
<1>2. /\ input' = input /\ accepted' = accepted /\ flags' = flags /\ state' = state /\ count' = count
      /\ cap' = cap /\ out' = out /\ InputLen' = InputLen /\ IsFinishing' = IsFinishing
  BY <1>1 DEF vars, encoder, InputLen, IsFinishing
<1>3. ClientInvariant'
  BY <1>1, WrapperStill
<1>4. SunkInvariant' /\ FinishInvariant'
  BY <1>0, <1>1, <1>2 DEF SunkInvariant, FinishInvariant
<1>5. SizeInvariant'
  BY <1>0, <1>1, <1>2 DEF SizeInvariant, Finished, Written
<1>6. SlotInvariant'
  BY <1>1, <1>2 DEF SlotInvariant
<1> QED
  BY <1>1, <1>3, <1>4, <1>5, <1>6 DEF CompressionInvariant, WrapperInvariant, Pcs

LEMMA StepNone == CompressionInvariant /\ UNCHANGED allVars => CompressionInvariant'
<1> SUFFICES ASSUME CompressionInvariant, UNCHANGED allVars PROVE CompressionInvariant'
  OBVIOUS
<1>1. UNCHANGED vars /\ UNCHANGED <<pc, sunk, polled, slot>>
  BY DEF allVars, wrapper
<1>2. UNCHANGED <<input, flags, state, cap, count, ret, out, accepted>>
  BY <1>1 DEF vars, encoder
<1>3. ClientInvariant'
  BY <1>1, WrapperStill
<1>4. SunkInvariant' /\ FinishInvariant' /\ SlotInvariant'
  BY <1>1, <1>2 DEF CompressionInvariant, WrapperInvariant, SunkInvariant, FinishInvariant,
                    SlotInvariant, InputLen, IsFinishing
<1>5. SizeInvariant'
  BY <1>1, <1>2 DEF CompressionInvariant, WrapperInvariant, SizeInvariant, PollResult, Finished,
                    Written, InputLen
<1> QED
  BY <1>1, <1>3, <1>4, <1>5 DEF CompressionInvariant, WrapperInvariant

LEMMA InitCompression == CompressionInit => CompressionInvariant
<1> SUFFICES ASSUME CompressionInit PROVE CompressionInvariant
  OBVIOUS
<1>1. ClientInvariant
  BY InitEncoder, InitStream, InputType DEF CompressionInit, Init, ClientInvariant
<1>2. /\ pc = "alloc" /\ sunk = 0 /\ polled = 0 /\ cap = 0 /\ count = 0 /\ flags = 0
      /\ out = <<>> /\ accepted = <<>> /\ state = "NOT_FULL"
  BY DEF CompressionInit, Init, EncoderInit
<1>3. InputLen \in Nat /\ Len(out) = 0
  BY <1>1, <1>2, LenProperties DEF ClientInvariant, InputLen
<1>4. SunkInvariant
  <2>1. Prefix(input, 0) \in Seq(Byte) /\ Len(Prefix(input, 0)) = 0
    BY <1>1, <1>3, PrefixElements DEF ClientInvariant, InputLen
  <2>2. Prefix(input, 0) = <<>>
    BY <2>1, EmptySeq
  <2> QED
    BY <1>2, <1>3, <2>2 DEF SunkInvariant
<1>5. FinishInvariant /\ SizeInvariant /\ SlotInvariant
  BY <1>2, <1>3 DEF FinishInvariant, SizeInvariant, SlotInvariant, Written, IsFinishing
<1> QED
  BY <1>1, <1>2, <1>4, <1>5 DEF CompressionInvariant, WrapperInvariant, Pcs

LEMMA NextCompression == CompressionInvariant /\ [CompressionNext]_allVars => CompressionInvariant'
BY StepAlloc, StepSinkRest, StepFinishes, StepPollRest, StepPolling, StepPolled, StepStore, StepNone
   DEF CompressionNext

(* However the call goes, its sizes are those of the bytes moved: polled   *)
(* is what was written until the poll that found no room, the encoder is   *)
(* told to finish after all of the message and only then, and what returns *)
(* shorter than the message is all the encoder wrote.                      *)
THEOREM CallInvariance == CompressionSpec => []CompressionInvariant
BY InitCompression, NextCompression, PTL DEF CompressionSpec

(* For every message, the pointer that sink and poll share never mixes     *)
(* their results, and sink is only called when the encoder takes input.    *)
THEOREM Counts == CompressionSpec => []CountsInStep
<1>1. CompressionInvariant => CountsInStep
  <2> SUFFICES ASSUME CompressionInvariant PROVE CountsInStep
    OBVIOUS
  <2>1. sunk = Len(accepted) /\ pc \in Pcs /\ FinishInvariant /\ SizeInvariant
    BY Numbers DEF CompressionInvariant, WrapperInvariant
  <2> QED
    BY <2>1 DEF CountsInStep, Pcs, FinishInvariant, SizeInvariant, Written
<1> QED
  BY <1>1, CallInvariance, PTL

(* For every message: a result shorter than the message decodes to all of  *)
(* it; one that is not is at most twice as long, and the encoder wrote no  *)
(* more bytes than the message has, the room it was given.                 *)
THEOREM Shorter == CompressionSpec => []ShorterIsComplete
<1>1. CompressionInvariant => ShorterIsComplete
  <2> SUFFICES ASSUME CompressionInvariant, pc = "stored"
               PROVE  /\ slot.kind = "compressed" /\ slot.size < InputLen => Complete(slot.size)
                      /\ slot.size <= 2 * InputLen
                      /\ Len(out) <= 8 * InputLen
    BY DEF ShorterIsComplete
  <2>0. /\ InputLen \in Nat /\ Len(out) \in Nat /\ polled \in Nat
        /\ input \in Seq(Byte) /\ accepted \in Seq(Byte)
        /\ SunkInvariant /\ SizeInvariant /\ SlotInvariant /\ StreamInvariant /\ EncoderInvariant
    BY Numbers DEF CompressionInvariant, WrapperInvariant, ClientInvariant
  <2>1. /\ Len(out) <= 8 * InputLen /\ polled <= 2 * InputLen
        /\ polled > 0 => polled >= InputLen \/ Finished
    BY <2>0 DEF SizeInvariant
  <2>2. CASE slot = [kind |-> "raw", size |-> InputLen]
    BY <2>0, <2>1, <2>2
  <2>3. CASE slot = [kind |-> "compressed", size |-> polled] /\ polled > 0
    <3>1. slot.size = polled
      BY <2>3
    <3>2. ASSUME polled < InputLen PROVE Complete(polled)
      <4>1. state = "DONE" /\ sunk = InputLen /\ 8 * polled = Len(out)
        BY <2>0, <2>1, <2>3, <3>2 DEF Finished, Written
      <4>2. Decode(out) = accepted
        BY <2>0, <4>1, DoneDecodes
      <4>3. accepted = input
        <5>1. IsPrefix(input, input)
          BY <2>0, WholePrefix
        <5> QED
          BY <2>0, <4>1, <5>1 DEF SunkInvariant, IsPrefix, Prefix, InputLen
      <4>4. SubSeq(out, 1, 8 * polled) = out
        <5> DEFINE n == Len(out)
        <5>1. out \in Seq(Bit)
          BY <2>0 DEF EncoderInvariant, DataInvariant
        <5>2. SubSeq(out, 1, n) = out
          BY <5>1, WholeBits
        <5> QED
          BY <4>1, <5>2
      <4> DEFINE n == 8 * polled
      <4>5. n <= Len(out) /\ SubSeq(out, 1, n) = out
        BY <2>0, <4>1, <4>4
      <4> HIDE DEF n
      <4>6. Decode(SubSeq(out, 1, n)) = input
        BY <4>2, <4>3, <4>5
      <4> QED
        BY <4>5, <4>6 DEF Complete, n
    <3> QED
      BY <2>1, <3>1, <3>2
  <2> QED
    BY <2>0, <2>2, <2>3 DEF SlotInvariant
<1> QED
  BY <1>1, CallInvariance, PTL
=============================================================================
