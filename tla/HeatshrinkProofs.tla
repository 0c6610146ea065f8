--------------------------- MODULE HeatshrinkProofs ---------------------------
(***************************************************************************)
(* Theorems about Heatshrink, for every window and lookahead that          *)
(* heatshrink_encoder_alloc accepts, every input and every way in which a  *)
(* client cuts it and the output into pieces.                              *)
(***************************************************************************)
EXTENDS HeatshrinkLemmas

-----------------------------------------------------------------------------
(* Output.                                                                 *)

\* What push_bits adds to the stream, which are the bytes written and the bits
\* that wait.
Emitted(bits) ==
    /\ current' \in Seq(Bit) /\ Len(current') <= 7
    /\ out' \in Seq(Bit) /\ Len(out') % 8 = 0
    /\ count' \in Nat /\ count' <= count + 1
    /\ Len(out') - Len(out) = 8 * (count' - count)
    /\ out' \o current' = (out \o current) \o bits

LEMMA Pushed ==
    ASSUME current \in Seq(Bit), Len(current) <= 7, out \in Seq(Bit), Len(out) % 8 = 0,
           count \in Nat, NEW bits \in Seq(Bit), Len(bits) <= 8, PushBits(bits)
    PROVE  Emitted(bits)
<1> DEFINE all == current \o bits
           full == 8 * (Len(all) \div 8)
<1>1. all \in Seq(Bit) /\ Len(all) = Len(current) + Len(bits) /\ Len(all) \in Nat /\ Len(all) <= 15
  OBVIOUS
<1>2. /\ out' = out \o SubSeq(all, 1, full)
      /\ current' = SubSeq(all, full + 1, Len(all))
      /\ count' = count + full \div 8
  BY DEF PushBits
<1> HIDE DEF all
<1>3. /\ full \in Nat /\ full <= Len(all) /\ Len(all) - full <= 7
      /\ full \div 8 \in Nat /\ full \div 8 <= 1 /\ full = 8 * (full \div 8)
  <2>1. CASE Len(all) < 8
    BY <1>1, <2>1
  <2>2. CASE Len(all) >= 8
    BY <1>1, <2>2
  <2> QED
    BY <1>1, <2>1, <2>2
<1> HIDE DEF full
<1>4. /\ SubSeq(all, 1, full) \in Seq(Bit) /\ Len(SubSeq(all, 1, full)) = full
      /\ current' \in Seq(Bit) /\ Len(current') = Len(all) - full
      /\ SubSeq(all, 1, full) \o current' = all
  BY <1>1, <1>2, <1>3, CutInTwo
<1>5. out' \in Seq(Bit) /\ Len(out') = Len(out) + full /\ Len(out) \in Nat
  <2> DEFINE head == SubSeq(all, 1, full)
  <2>1. head \in Seq(Bit) /\ Len(head) = full /\ out' = out \o head
    BY <1>2, <1>4
  <2> HIDE DEF head
  <2> QED
    BY <2>1, Concat
<1>6. Len(out') % 8 = 0
  <2> DEFINE b == full \div 8
             a == Len(out)
  <2>1. a \in Nat /\ a % 8 = 0 /\ b \in {0, 1} /\ Len(out') = a + 8 * b
    BY <1>3, <1>5
  <2> HIDE DEF a, b
  <2>2. (a + 8) % 8 = 0 /\ (a + 0) % 8 = 0
    BY <2>1
  <2> QED
    BY <2>1, <2>2
<1>7. out' \o current' = (out \o current) \o bits
  <2>1. out' \o current' = out \o (SubSeq(all, 1, full) \o current')
    BY <1>2, <1>4, Associative
  <2>2. out \o (current \o bits) = (out \o current) \o bits
    BY Associative
  <2> QED
    BY <1>4, <2>1, <2>2 DEF all
<1>8. count' \in Nat /\ count' <= count + 1 /\ full = 8 * (count' - count)
  <2> DEFINE c == full \div 8
  <2>1. c \in Nat /\ c <= 1 /\ count' = count + c /\ full = 8 * c
    BY <1>2, <1>3
  <2> HIDE DEF c
  <2> QED
    BY <2>1
<1> QED
  <2>1. Len(out') - Len(out) = full /\ Len(current') <= 7
    BY <1>3, <1>4, <1>5
  <2> QED
    BY <1>4, <1>5, <1>6, <1>7, <1>8, <2>1 DEF Emitted

-----------------------------------------------------------------------------
(* The index and the search.                                               *)

\* The first n positions are chained: an entry is the last earlier position with
\* the same byte, or none.
Chained(n) ==
    \A i \in 0..(n - 1) :
        /\ index[i] \in Int /\ -1 <= index[i] /\ index[i] < i
        /\ index[i] >= 0 => buffer[index[i]] = buffer[i]
        /\ \A j \in 0..(i - 1) : buffer[j] = buffer[i] => j <= index[i]

\* l bytes from position p on are those from position q on.
Agree(p, q, l) == \A k \in Nat : k < l => buffer[p + k] = buffer[q + k]

LEMMA CommonLengthAgrees ==
    ASSUME NEW pos \in Int, NEW end \in Int, NEW maxlen \in Nat, maxlen >= 1,
           buffer[pos] = buffer[end]
    PROVE  /\ CommonLength(pos, end, maxlen) \in Nat
           /\ 1 <= CommonLength(pos, end, maxlen) /\ CommonLength(pos, end, maxlen) <= maxlen
           /\ Agree(pos, end, CommonLength(pos, end, maxlen))
           /\ \/ CommonLength(pos, end, maxlen) = maxlen
              \/ ~Agree(pos, end, CommonLength(pos, end, maxlen) + 1)
<1> DEFINE S == {k \in 1..maxlen : k = maxlen \/ buffer[pos + k] # buffer[end + k]}
           len == CommonLength(pos, end, maxlen)
<1>1. S \in SUBSET Nat /\ S # {}
  <2>1. maxlen \in S
    OBVIOUS
  <2> QED
    BY <2>1
<1>2. len = Min(S)
  BY DEF CommonLength
<1>3. len \in S /\ \A k \in S : len <= k
  BY <1>1, <1>2, MinExists
<1> HIDE DEF len
<1>4. len \in Nat /\ 1 <= len /\ len <= maxlen
  BY <1>3
<1>5. Agree(pos, end, len)
  <2> SUFFICES ASSUME NEW k \in Nat, k < len PROVE buffer[pos + k] = buffer[end + k]
    BY DEF Agree
  <2>1. CASE k = 0
    BY <2>1
  <2>2. CASE k > 0
    <3>1. k \in 1..maxlen /\ k # maxlen /\ k \notin S
      BY <1>3, <1>4, <2>2
    <3> QED
      BY <3>1
  <2> QED
    BY <2>1, <2>2
<1>6. len = maxlen \/ ~Agree(pos, end, len + 1)
  BY <1>3, <1>4 DEF Agree
<1> QED
  BY <1>4, <1>5, <1>6 DEF len

LEMMA AgreeLess ==
    ASSUME NEW p, NEW q, NEW l \in Nat, NEW k \in Nat, k <= l, Agree(p, q, l) PROVE Agree(p, q, k)
BY DEF Agree

\* No position later than pos agrees with end in length bytes.
NoneAfter(pos, start, end, length) == \A q \in start..(end - 1) : pos < q => ~Agree(q, end, length)

\* What the search knows at each position of the chain.
Found(c, start, end, maxlen) ==
    /\ c.pos < end /\ c.length <= maxlen
    /\ c.pos >= 0 => buffer[c.pos] = buffer[end]
    /\ c.length > 0 => /\ start <= c.at /\ c.at < end /\ Agree(c.at, end, c.length)
                       /\ NoneAfter(c.at, start, end, c.length)
    /\ IF c.length = maxlen THEN c.pos < start ELSE NoneAfter(c.pos, start, end, c.length + 1)

LEMMA FollowFinds ==
    ASSUME NEW start \in Nat, NEW end \in Nat, NEW n \in Nat, end < n, Chained(n),
           NEW maxlen \in Nat, maxlen >= 1,
           NEW c \in Chains, Found(c, start, end, maxlen)
    PROVE  /\ Follow(start, end, maxlen)[c] \in Chains
           /\ Found(Follow(start, end, maxlen)[c], start, end, maxlen)
<1> DEFINE d == Follow(start, end, maxlen)[c]
           len == CommonLength(c.pos, end, maxlen)
           next == index[c.pos]
<1> SUFFICES d \in Chains /\ Found(d, start, end, maxlen)
  OBVIOUS
<1>1. c.pos \in Int /\ c.length \in Nat /\ c.at \in Int
  BY DEF Chains
<1>2. d = IF c.pos < start THEN c
          ELSE IF buffer[c.pos + c.length] # buffer[end + c.length] \/ len <= c.length
          THEN [c EXCEPT !.pos = next]
          ELSE [pos |-> IF len = maxlen THEN NotFound ELSE next,
                length |-> len, at |-> c.pos]
  BY DEF Follow
<1>3. CASE c.pos < start
  BY <1>2, <1>3
<1>4. CASE c.pos >= start
  <2>0. /\ c.length \in Nat /\ c.length < maxlen /\ c.pos < end /\ buffer[c.pos] = buffer[end]
        /\ c.pos \in start..(end - 1) /\ NoneAfter(c.pos, start, end, c.length + 1)
    BY <1>1, <1>4 DEF Found
  <2>1. /\ len \in Nat /\ 1 <= len /\ len <= maxlen /\ Agree(c.pos, end, len)
        /\ len = maxlen \/ ~Agree(c.pos, end, len + 1)
    <3> DEFINE p == c.pos
    <3>1. p \in Int /\ end \in Int /\ buffer[p] = buffer[end]
      BY <1>1, <2>0
    <3> HIDE DEF p
    <3>2. /\ CommonLength(p, end, maxlen) \in Nat
          /\ 1 <= CommonLength(p, end, maxlen) /\ CommonLength(p, end, maxlen) <= maxlen
          /\ Agree(p, end, CommonLength(p, end, maxlen))
          /\ \/ CommonLength(p, end, maxlen) = maxlen
             \/ ~Agree(p, end, CommonLength(p, end, maxlen) + 1)
      BY <3>1, CommonLengthAgrees
    <3> QED
      BY <3>2 DEF p
  <2>2. /\ next \in Int /\ next < c.pos /\ next < end /\ (next >= 0 => buffer[next] = buffer[end])
        /\ \A q \in start..(end - 1) : next < q /\ q < c.pos => buffer[q] # buffer[end]
    <3>1. c.pos \in 0..(n - 1)
      BY <1>1, <1>4, <2>0
    <3>2. /\ next \in Int /\ next < c.pos /\ (next >= 0 => buffer[next] = buffer[c.pos])
          /\ \A j \in 0..(c.pos - 1) : buffer[j] = buffer[c.pos] => j <= next
      BY <3>1 DEF Chained
    <3>3. \A q \in start..(end - 1) : next < q /\ q < c.pos => q \in 0..(c.pos - 1) /\ ~(q <= next)
      BY <1>1, <3>2
    <3>4. \A q \in start..(end - 1) : next < q /\ q < c.pos => buffer[q] # buffer[end]
      BY <2>0, <3>2, <3>3
    <3> QED
      BY <1>1, <2>0, <3>2, <3>4
  <2> HIDE DEF len, next
  <2>3. ASSUME NEW l \in Nat, l >= 1, ~Agree(c.pos, end, l), NoneAfter(c.pos, start, end, l)
        PROVE  NoneAfter(next, start, end, l)
    <3> SUFFICES ASSUME NEW q \in start..(end - 1), next < q PROVE ~Agree(q, end, l)
      BY DEF NoneAfter
    <3>1. CASE q < c.pos
      <4>1. buffer[q] # buffer[end]
        BY <2>2, <3>1
      <4>2. Agree(q, end, l) => buffer[q + 0] = buffer[end + 0]
        BY <2>3 DEF Agree
      <4> QED
        BY <4>1, <4>2
    <3>2. CASE q = c.pos
      BY <2>3, <3>2
    <3>3. CASE q > c.pos
      BY <2>3, <3>3 DEF NoneAfter
    <3> QED
      BY <1>1, <3>1, <3>2, <3>3
  <2>4. CASE buffer[c.pos + c.length] # buffer[end + c.length] \/ len <= c.length
    <3>1. d = [c EXCEPT !.pos = next]
      BY <1>1, <1>2, <1>4, <2>4
    <3>2. d \in Chains /\ d.pos = next /\ d.length = c.length /\ d.at = c.at
      BY <1>1, <2>2, <3>1 DEF Chains
    <3> HIDE DEF d
    <3>3. c.length > 0 => /\ start <= c.at /\ c.at < end /\ Agree(c.at, end, c.length)
                          /\ NoneAfter(c.at, start, end, c.length)
      BY DEF Found
    <3>4. ~Agree(c.pos, end, c.length + 1)
      <4> DEFINE l == c.length
      <4>1. l \in Nat /\ l < maxlen /\ (buffer[c.pos + l] # buffer[end + l] \/ len <= l)
        BY <2>0, <2>4
      <4> HIDE DEF l
      <4>2. ASSUME buffer[c.pos + l] # buffer[end + l] PROVE ~Agree(c.pos, end, l + 1)
        BY <4>1, <4>2 DEF Agree
      <4>3. ASSUME len <= l PROVE ~Agree(c.pos, end, l + 1)
        <5>1. len + 1 \in Nat /\ l + 1 \in Nat /\ len + 1 <= l + 1 /\ ~Agree(c.pos, end, len + 1)
          BY <2>1, <4>1, <4>3
        <5> QED
          BY <5>1, AgreeLess
      <4>4. ~Agree(c.pos, end, l + 1)
        BY <4>1, <4>2, <4>3
      <4> QED
        BY <4>4 DEF l
    <3>5. NoneAfter(next, start, end, c.length + 1)
      BY <2>0, <2>3, <3>4
    <3>6. c.length # maxlen /\ c.length <= maxlen
      BY <2>0
    <3> QED
      BY <2>2, <3>2, <3>3, <3>5, <3>6 DEF Found
  <2>5. CASE ~(buffer[c.pos + c.length] # buffer[end + c.length] \/ len <= c.length)
    <3>1. d = [pos |-> IF len = maxlen THEN NotFound ELSE next, length |-> len, at |-> c.pos]
      BY <1>1, <1>2, <1>4, <2>5
    <3>2. /\ d \in Chains /\ d.length = len /\ d.at = c.pos
          /\ d.pos = IF len = maxlen THEN -1 ELSE next
      BY <1>1, <2>1, <2>2, <3>1 DEF Chains, NotFound
    <3> HIDE DEF d
    <3>3. d.pos < end /\ (d.pos >= 0 => buffer[d.pos] = buffer[end])
      BY <2>2, <3>2
    <3>4. start <= d.at /\ d.at < end /\ Agree(d.at, end, d.length) /\ d.length <= maxlen
      BY <1>1, <1>4, <2>0, <2>1, <3>2
    <3>5. NoneAfter(c.pos, start, end, len)
      <4> SUFFICES ASSUME NEW q \in start..(end - 1), c.pos < q, Agree(q, end, len) PROVE FALSE
        BY DEF NoneAfter
      <4> DEFINE l == c.length + 1
      <4>1. l \in Nat /\ l <= len /\ NoneAfter(c.pos, start, end, l)
        BY <2>0, <2>1, <2>5
      <4> HIDE DEF l
      <4>2. ~Agree(q, end, l)
        BY <4>1 DEF NoneAfter
      <4> QED
        BY <2>1, <4>1, <4>2, AgreeLess
    <3>6. len # maxlen => NoneAfter(next, start, end, len + 1)
      <4> SUFFICES ASSUME len # maxlen PROVE NoneAfter(next, start, end, len + 1)
        OBVIOUS
      <4> DEFINE l == len + 1
      <4>1. l \in Nat /\ l >= 1 /\ len <= l /\ ~Agree(c.pos, end, l)
        BY <2>1
      <4> HIDE DEF l
      <4>2. NoneAfter(c.pos, start, end, l)
        BY <2>1, <3>5, <4>1, AgreeLess DEF NoneAfter
      <4>3. NoneAfter(next, start, end, l)
        BY <2>3, <4>1, <4>2
      <4> QED
        BY <4>3 DEF l
    <3> QED
      BY <3>2, <3>3, <3>4, <3>5, <3>6 DEF Found
  <2> QED
    BY <2>4, <2>5
<1> QED
  BY <1>1, <1>3, <1>4

\* A step leads down the chain until it is left.
LEMMA FollowOn ==
    ASSUME NEW start \in Nat, NEW end \in Nat, NEW n \in Nat, end < n, Chained(n),
           NEW maxlen \in Nat, NEW c \in Chains, Found(c, start, end, maxlen)
    PROVE  /\ c.pos \in Int
           /\ c.pos < start => Follow(start, end, maxlen)[c].pos = c.pos
           /\ c.pos >= start => Follow(start, end, maxlen)[c].pos < c.pos
<1> DEFINE d == Follow(start, end, maxlen)[c]
           len == CommonLength(c.pos, end, maxlen)
           next == index[c.pos]
<1>1. c.pos \in Int /\ c.length \in Nat /\ c.at \in Int
  BY DEF Chains
<1>2. d = IF c.pos < start THEN c
          ELSE IF buffer[c.pos + c.length] # buffer[end + c.length] \/ len <= c.length
          THEN [c EXCEPT !.pos = next]
          ELSE [pos |-> IF len = maxlen THEN NotFound ELSE next,
                length |-> len, at |-> c.pos]
  BY DEF Follow
<1>3. c.pos >= start => next \in Int /\ next < c.pos
  BY <1>1 DEF Found, Chained
<1> HIDE DEF len, next
<1>4. d.pos = IF c.pos < start THEN c.pos
              ELSE IF buffer[c.pos + c.length] # buffer[end + c.length] \/ len <= c.length THEN next
              ELSE IF len = maxlen THEN NotFound ELSE next
  BY <1>1, <1>2 DEF Chains
<1> HIDE DEF d
<1>5. /\ c.pos < start => d.pos = c.pos
      /\ c.pos >= start => d.pos < c.pos
  BY <1>1, <1>3, <1>4 DEF NotFound
<1> QED
  BY <1>1, <1>5 DEF d

LEMMA FollowChainFinds ==
    ASSUME NEW start \in Nat, NEW end \in Nat, start <= end,
           NEW n \in Nat, end < n, Chained(n),
           NEW maxlen \in Nat, maxlen >= 1
    PROVE  LET match == FollowChain(start, end, maxlen)
           IN  /\ match.length \in Nat /\ match.length <= maxlen
               /\ match.length > 0 =>
                      /\ match.distance \in Nat /\ 1 <= match.distance /\ match.distance <= end - start
                      /\ Agree(end - match.distance, end, match.length)
                      /\ NoneAfter(end - match.distance, start, end, match.length)
               /\ match.length # maxlen => NoneAfter(start - 1, start, end, match.length + 1)
<1> DEFINE S == {c \in Chains : Found(c, start, end, maxlen)}
           follow == Follow(start, end, maxlen)
           G == [c \in S |-> follow[c]]
           first == [pos |-> index[end], length |-> 0, at |-> NotFound]
           m == end - start
           Is(f) == f = [k \in 0..m |-> IF k = 0 THEN first ELSE follow[f[k - 1]]]
           best == CHOOSE f : Is(f)
<1>1. first \in S
  <2>1. /\ index[end] \in Int /\ index[end] < end
        /\ index[end] >= 0 => buffer[index[end]] = buffer[end]
        /\ \A j \in 0..(end - 1) : buffer[j] = buffer[end] => j <= index[end]
    BY DEF Chained
  <2>2. first \in Chains /\ first.pos = index[end] /\ first.length = 0
    BY <2>1 DEF Chains, NotFound
  <2> HIDE DEF first
  <2>3. NoneAfter(index[end], start, end, 1)
    <3> SUFFICES ASSUME NEW q \in start..(end - 1), index[end] < q, Agree(q, end, 1) PROVE FALSE
      BY DEF NoneAfter
    <3>1. buffer[q + 0] = buffer[end + 0]
      BY DEF Agree
    <3>2. q \in 0..(end - 1) /\ buffer[q] = buffer[end]
      BY <3>1
    <3> QED
      BY <2>1, <3>2
  <2>4. first.length + 1 = 1 /\ first.length # maxlen
    BY <2>2
  <2> QED
    BY <2>1, <2>2, <2>3, <2>4 DEF Found
<1>2. \A c \in S : follow[c] \in S
  BY FollowFinds
<1>3. G \in [S -> S] /\ m \in Nat
  BY <1>2
<1> HIDE DEF S, follow, first
<1>4. \E f : Is(f)
  <2>1. PICK f : Iterates(f, S, first, G, m)
    <3> HIDE DEF G, m
    <3> QED
      BY <1>1, <1>3, IterationExists
  <2>2. f \in [0..m -> S] /\ f[0] = first /\ \A k \in 1..m : f[k] = G[f[k - 1]]
    BY <2>1 DEF Iterates
  <2>3. \A k \in 1..m : k - 1 \in 0..m /\ G[f[k - 1]] = follow[f[k - 1]]
    BY <1>3, <2>2
  <2>4. f = [k \in 0..m |-> IF k = 0 THEN first ELSE follow[f[k - 1]]]
    <3> HIDE DEF G, m
    <3> QED
      BY <1>3, <2>2, <2>3
  <2> QED
    BY <2>4
<1>5. Is(best)
  <2> HIDE DEF Is
  <2> QED
    BY <1>4
<1>6. best[m] \in S /\ best[m].pos < start
  <2>1. best[0] = first /\ \A k \in 0..(m - 1) : best[k + 1] = follow[best[k]]
    <3> HIDE DEF best, m
    <3> QED
      BY <1>3, <1>5
  <2>2. /\ first.pos < end
        /\ \A c \in S : c.pos \in Int
        /\ \A c \in S : c.pos < start => follow[c].pos = c.pos
        /\ \A c \in S : c.pos >= start => follow[c].pos < c.pos
    <3>1. first.pos < end
      BY <1>1 DEF S, Found
    <3>2. ASSUME NEW c \in Chains, Found(c, start, end, maxlen)
          PROVE  /\ c.pos \in Int
                 /\ c.pos < start => Follow(start, end, maxlen)[c].pos = c.pos
                 /\ c.pos >= start => Follow(start, end, maxlen)[c].pos < c.pos
      BY <3>2, FollowOn
    <3> QED
      BY <3>1, <3>2 DEF S, follow
  <2> HIDE DEF best
  <2> DEFINE T == {k \in Nat : best[k] \in S /\ (best[k].pos < start \/ best[k].pos < end - k)}
  <2>3. 0 \in T
    BY <1>1, <2>1, <2>2
  <2>4. ASSUME NEW k \in 0..(m - 1), k \in T PROVE k + 1 \in T
    <3> DEFINE b == best[k]
               e == best[k + 1]
    <3>1. b \in S /\ b.pos \in Int /\ (b.pos < start \/ b.pos < end - k) /\ e = follow[b] /\ e \in S
      BY <1>2, <2>1, <2>2, <2>4
    <3>2. e.pos \in Int /\ (e.pos < start \/ e.pos < end - (k + 1))
      <4> HIDE DEF b, e
      <4>1. e.pos \in Int
        BY <2>2, <3>1
      <4>2. CASE b.pos < start
        BY <2>2, <3>1, <4>2
      <4>3. CASE b.pos >= start
        <5>1. e.pos < b.pos /\ b.pos < end - k
          BY <2>2, <3>1, <4>3
        <5> QED
          BY <3>1, <4>1, <5>1
      <4> QED
        BY <3>1, <4>2, <4>3
    <3> QED
      BY <3>1, <3>2
  <2>5. 0..m \subseteq T
    <3> HIDE DEF T, m
    <3> QED
      BY <1>3, <2>3, <2>4, InductionTo
  <2>6. m \in T /\ end - m = start
    BY <1>3, <2>5
  <2> QED
    BY <2>2, <2>6
<1>7. FollowChain(start, end, maxlen) = [length |-> best[m].length, distance |-> end - best[m].at]
  BY DEF FollowChain, follow, first
<1>8. best[m] \in Chains /\ Found(best[m], start, end, maxlen) /\ best[m].pos < start
  BY <1>6 DEF S
<1> DEFINE b == best[m]
<1> HIDE DEF b
<1>9. /\ b.length \in Nat /\ b.at \in Int /\ b.pos \in Int /\ b.length <= maxlen /\ b.pos < start
      /\ b.length > 0 => /\ start <= b.at /\ b.at < end /\ Agree(b.at, end, b.length)
                         /\ NoneAfter(b.at, start, end, b.length)
      /\ b.length # maxlen => NoneAfter(b.pos, start, end, b.length + 1)
  BY <1>8 DEF Chains, Found, b
<1>10. end - (end - b.at) = b.at
  BY <1>9
<1>11. FollowChain(start, end, maxlen) = [length |-> b.length, distance |-> end - b.at]
  BY <1>7 DEF b
<1>12. b.length # maxlen => NoneAfter(start - 1, start, end, b.length + 1)
  BY <1>9 DEF NoneAfter
<1> QED
  BY <1>9, <1>10, <1>11, <1>12

LEMMA IndexedIsChained ==
    ASSUME DOMAIN index = 0..(2 * Window - 1),
           NEW n \in Nat, n <= 2 * Window, index' = Indexed(n), buffer' = buffer
    PROVE  DOMAIN index' = DOMAIN index /\ Chained(n)'
<1>1. DOMAIN index' = DOMAIN index
  BY DEF Indexed
<1>2. Chained(n)'
  <2> SUFFICES ASSUME NEW i \in 0..(n - 1)
               PROVE  /\ index'[i] \in Int /\ -1 <= index'[i] /\ index'[i] < i
                      /\ index'[i] >= 0 => buffer[index'[i]] = buffer[i]
                      /\ \A j \in 0..(i - 1) : buffer[j] = buffer[i] => j <= index'[i]
    BY DEF Chained
  <2> DEFINE S == {NotFound} \cup {j \in 0..(i - 1) : buffer[j] = buffer[i]}
  <2>1. index'[i] = Max(S)
    <3>1. i \in DOMAIN index /\ i < n
      BY Sizes
    <3> QED
      BY <3>1 DEF Indexed
  <2>2. S \in SUBSET Int /\ S # {} /\ \A x \in S : x <= i - 1
    BY DEF NotFound
  <2>3. Max(S) \in S /\ \A j \in S : Max(S) >= j
    <3> HIDE DEF S
    <3>1. i - 1 \in Int
      OBVIOUS
    <3> QED
      BY <2>2, <3>1, MaxExists
  <2> QED
    BY <2>1, <2>3 DEF NotFound
<1> QED
  BY <1>1, <1>2

-----------------------------------------------------------------------------
(* The inductive invariant.                                                *)

Searching == state \in {"SEARCH", "YIELD_TAG_BIT", "YIELD_LITERAL", "YIELD_BR_INDEX", "YIELD_BR_LENGTH"}

DataInvariant ==
    /\ current \in Seq(Bit) /\ outgoing \in Seq(Bit) /\ out \in Seq(Bit)
    /\ buffer \in [0..(2 * Window - 1) -> Byte]

\* A match lies within the input, what is sent of it belongs to a reference; the
\* index is that of the buffer while it is searched.
SearchInvariant ==
    /\ match_length > 0 =>
           /\ state \in {"YIELD_TAG_BIT", "YIELD_BR_INDEX", "YIELD_BR_LENGTH"}
           /\ match_pos >= 1 /\ match_scan_index + match_length <= input_size
    /\ state \in {"YIELD_BR_INDEX", "YIELD_BR_LENGTH"} => match_length > 0
    /\ state \in {"YIELD_TAG_BIT", "YIELD_LITERAL"} /\ match_length = 0 => match_scan_index > 0
    /\ outgoing # <<>> => state \in {"YIELD_BR_INDEX", "YIELD_BR_LENGTH"}
    /\ Searching => Chained(Window + input_size)

EncoderInvariant == TypeOK /\ DataInvariant /\ SearchInvariant

LEMMA InitEncoder == Init => EncoderInvariant
<1> SUFFICES ASSUME Init PROVE EncoderInvariant
  OBVIOUS
<1>1. DataInvariant
  <2>1. buffer \in [0..(2 * Window - 1) -> Byte]
    BY DEF Init, EncoderInit, Byte
  <2> QED
    BY <2>1 DEF Init, EncoderInit, DataInvariant
<1>2. TypeOK
  BY Sizes DEF Init, EncoderInit, TypeOK, States
<1>3. SearchInvariant
  BY DEF Init, EncoderInit, SearchInvariant, Searching
<1> QED
  BY <1>1, <1>2, <1>3 DEF EncoderInvariant

\* What ends a turn.
LEMMA TurnEnds ==
    ASSUME NEW next, Turn(next)
    PROVE  /\ state' = next /\ (cap' = 0 \/ cap' = cap)
           /\ ret' = ret \/ ret' = "MORE"
BY DEF Turn

\* The calls and turns that leave the buffer, the scan and the stream alone.
LEMMA StepStill ==
    ASSUME EncoderInvariant,
           UNCHANGED <<input, buffer, input_size, match_scan_index, match_length, match_pos,
                       index, outgoing, current, out>>,
           flags' \in {0, 1},
           \/ state' = state
           \/ state = "NOT_FULL" /\ state' = "FILLED",
           count' \in Nat, cap' \in Nat, cap' > 0 => count' <= cap',
           ret' \in {"none", "OK", "EMPTY", "MORE", "DONE", "MISUSE"}
    PROVE  EncoderInvariant'
<1>1. TypeOK'
  BY DEF EncoderInvariant, TypeOK, States
<1>2. DataInvariant'
  BY DEF EncoderInvariant, DataInvariant
<1>3. SearchInvariant'
  BY DEF EncoderInvariant, SearchInvariant, Searching, Chained
<1> QED
  BY <1>1, <1>2, <1>3 DEF EncoderInvariant

LEMMA StepFinish == EncoderInvariant /\ Finish /\ input' = input => EncoderInvariant'
BY StepStill DEF Finish, EncoderInvariant, TypeOK

LEMMA StepPollBegin ==
    ASSUME EncoderInvariant, NEW n \in Nat, PollBegin(n), input' = input PROVE EncoderInvariant'
BY StepStill DEF PollBegin, EncoderInvariant, TypeOK

LEMMA StepIdle ==
    EncoderInvariant /\ (PollEmpty \/ OutputFull) /\ input' = input => EncoderInvariant'
<1> SUFFICES ASSUME EncoderInvariant, PollEmpty \/ OutputFull, input' = input
             PROVE  EncoderInvariant'
  OBVIOUS
<1>1. /\ state' = state /\ flags' = flags /\ count' = count /\ (cap' = 0 \/ cap' = cap)
      /\ ret' = ret \/ ret' \in {"MORE", "EMPTY"}
      /\ UNCHANGED <<input, buffer, input_size, match_scan_index, match_length, match_pos,
                     index, outgoing, current, out>>
  BY TurnEnds DEF PollEmpty, OutputFull, Return
<1> QED
  BY <1>1, StepStill DEF EncoderInvariant, TypeOK

LEMMA StepFilled == EncoderInvariant /\ PollFilled /\ input' = input => EncoderInvariant'
<1> SUFFICES ASSUME EncoderInvariant, PollFilled, input' = input PROVE EncoderInvariant'
  OBVIOUS
<1>1. /\ state = "FILLED" /\ state' = "SEARCH" /\ index' = Indexed(Window + input_size)
      /\ UNCHANGED <<input, buffer, input_size, match_scan_index, match_length, match_pos,
                     outgoing, current, flags, count, out>>
      /\ (cap' = 0 \/ cap' = cap) /\ (ret' = ret \/ ret' = "MORE")
  BY TurnEnds DEF PollFilled
<1>2. DOMAIN index' = DOMAIN index /\ Chained(Window + input_size)'
  <2> DEFINE n == Window + input_size
  <2>1. n \in Nat /\ n <= 2 * Window /\ DOMAIN index = 0..(2 * Window - 1)
    BY Sizes DEF EncoderInvariant, TypeOK
  <2>2. DOMAIN index' = DOMAIN index /\ \A m \in Nat : m = n => Chained(m)'
    BY <1>1, <2>1, IndexedIsChained
  <2> QED
    BY <1>1, <2>1, <2>2 DEF Chained
<1>3. TypeOK'
  BY <1>1, <1>2 DEF EncoderInvariant, TypeOK, States
<1>4. DataInvariant'
  BY <1>1 DEF EncoderInvariant, DataInvariant
<1>5. SearchInvariant'
  BY <1>1, <1>2 DEF EncoderInvariant, SearchInvariant
<1> QED
  BY <1>3, <1>4, <1>5 DEF EncoderInvariant

LEMMA StepSink ==
    ASSUME EncoderInvariant, NEW bytes \in Seq(Byte), Sink(bytes), input' = input
    PROVE  EncoderInvariant'
<1> DEFINE n == Min({Window - input_size, Len(bytes)})
           at == Window + input_size
<1>1. CASE IsFinishing \/ state # "NOT_FULL"
  <2>1. UNCHANGED <<buffer, input_size, match_scan_index, match_length, match_pos, index,
                    outgoing, current, flags, state, count, cap, out>> /\ ret' = "MISUSE"
    BY <1>1 DEF Sink
  <2> QED
    BY <2>1, StepStill DEF EncoderInvariant, TypeOK
<1>2. CASE ~IsFinishing /\ state = "NOT_FULL"
  <2>1. /\ buffer' = [i \in DOMAIN buffer |->
                        IF i \in at..(at + n - 1) THEN bytes[i - at + 1] ELSE buffer[i]]
        /\ input_size' = input_size + n /\ count' = n /\ cap = 0 /\ ret' = "OK"
        /\ state' = IF n = Window - input_size THEN "FILLED" ELSE state
        /\ UNCHANGED <<match_scan_index, match_length, match_pos, index, outgoing, current,
                       flags, cap, out>>
    BY <1>2 DEF Sink
  <2>2. n \in Nat /\ n <= Window - input_size /\ n <= Len(bytes)
    BY Sizes, MinOfTwo, LenProperties DEF EncoderInvariant, TypeOK
  <2> HIDE DEF n
  <2>3. buffer' \in [0..(2 * Window - 1) -> Byte]
    <3>1. \A i \in at..(at + n - 1) : bytes[i - at + 1] \in Byte
      <4> TAKE i \in at..(at + n - 1)
      <4>1. i - at + 1 \in 1..Len(bytes)
        BY <2>2, Sizes, LenProperties DEF EncoderInvariant, TypeOK
      <4> QED
        BY <4>1, ElementOfSeq
    <3>2. buffer \in [0..(2 * Window - 1) -> Byte]
      BY DEF EncoderInvariant, DataInvariant
    <3> QED
      BY <2>1, <3>1, <3>2
  <2>4. DOMAIN buffer' = DOMAIN buffer
    BY <2>1
  <2>5. TypeOK'
    BY <1>2, <2>1, <2>2, <2>4, Sizes DEF EncoderInvariant, TypeOK, States
  <2>6. DataInvariant'
    BY <2>1, <2>3 DEF EncoderInvariant, DataInvariant
  <2>7. SearchInvariant'
    BY <1>2, <2>1 DEF EncoderInvariant, SearchInvariant, Searching
  <2> QED
    BY <2>5, <2>6, <2>7 DEF EncoderInvariant
<1> QED
  BY <1>1, <1>2

\* What the search comes to: no input left to scan, a match, or a literal.
NoneLeft ==
    /\ state' \in {"FLUSH_BITS", "SAVE_BACKLOG"}
    /\ UNCHANGED <<match_scan_index, match_length, match_pos>>
    /\ state' = "FLUSH_BITS" => match_scan_index = input_size

MatchFound ==
    /\ state' = "YIELD_TAG_BIT" /\ match_scan_index' = match_scan_index
    /\ match_length' \in Nat /\ 1 <= match_length' /\ match_length' <= Lookahead
    /\ match_scan_index + match_length' <= input_size
    /\ match_pos' \in Nat /\ 1 <= match_pos' /\ match_pos' <= Window
    /\ Agree(Window + match_scan_index - match_pos', Window + match_scan_index, match_length')

LiteralChosen ==
    /\ state' = "YIELD_TAG_BIT" /\ match_scan_index < input_size
    /\ match_scan_index' = match_scan_index + 1 /\ match_length' = 0 /\ match_pos' = match_pos

\* The longest match of the search and the nearest of that length.
BestMatch(length, distance) ==
    LET end == Window + match_scan_index
        possible == Min({Lookahead, input_size - match_scan_index})
    IN  /\ length \in Nat /\ length <= possible
        /\ length > 0 => /\ distance \in 1..Window
                         /\ Agree(end - distance, end, length)
                         /\ NoneAfter(end - distance, match_scan_index, end, length)
        /\ length # possible => NoneAfter(match_scan_index - 1, match_scan_index, end, length + 1)

\* What the search does with it.
Chosen(length, distance) ==
    /\ Turn("YIELD_TAG_BIT")
    /\ IF Worthwhile(length)
       THEN match_pos' = distance /\ match_length' = length /\ match_scan_index' = match_scan_index
       ELSE match_scan_index' = match_scan_index + 1 /\ match_length' = 0 /\ match_pos' = match_pos

LEMMA SearchMatches ==
    ASSUME EncoderInvariant, PollSearch, ~(match_scan_index > input_size - Reserve)
    PROVE  /\ match_scan_index + Reserve <= input_size /\ match_scan_index < input_size
           /\ \E length, distance : BestMatch(length, distance) /\ Chosen(length, distance)
<1> DEFINE msi == match_scan_index
           end == Window + msi
           possible == Min({Lookahead, input_size - msi})
           match == FollowChain(end - Window, end, possible)
<1>0. /\ msi \in Nat /\ input_size \in Nat /\ msi <= input_size /\ input_size <= Window
      /\ Chained(Window + input_size) /\ Reserve \in Nat /\ Reserve >= 1
  BY Sizes DEF PollSearch, EncoderInvariant, TypeOK, SearchInvariant, Searching, Reserve
<1>1. msi < input_size /\ msi + Reserve <= input_size
  BY <1>0
<1>2. possible \in Nat /\ 1 <= possible
  BY <1>0, <1>1, Sizes, MinOfTwo
<1>3. Chosen(match.length, match.distance)
  BY DEF PollSearch, Chosen
<1> HIDE DEF possible
<1>4. /\ match.length \in Nat /\ match.length <= possible
      /\ match.length > 0 =>
             /\ match.distance \in 1..Window /\ Agree(end - match.distance, end, match.length)
             /\ NoneAfter(end - match.distance, msi, end, match.length)
      /\ match.length # possible => NoneAfter(msi - 1, msi, end, match.length + 1)
  <2> DEFINE start == end - Window
             n == Window + input_size
  <2>1. start \in Nat /\ end \in Nat /\ start <= end /\ n \in Nat /\ end < n /\ Chained(n)
        /\ end - start = Window /\ start = msi
    BY <1>0, <1>1, Sizes
  <2> HIDE DEF start, n, end
  <2>2. LET m == FollowChain(start, end, possible)
        IN  /\ m.length \in Nat /\ m.length <= possible
            /\ m.length > 0 =>
                   /\ m.distance \in Nat /\ 1 <= m.distance /\ m.distance <= end - start
                   /\ Agree(end - m.distance, end, m.length)
                   /\ NoneAfter(end - m.distance, start, end, m.length)
            /\ m.length # possible => NoneAfter(start - 1, start, end, m.length + 1)
    BY <1>2, <2>1, FollowChainFinds
  <2> QED
    BY <2>1, <2>2, Sizes DEF start
<1> HIDE DEF match
<1>5. BestMatch(match.length, match.distance)
  BY <1>4 DEF BestMatch, possible
<1> QED
  BY <1>1, <1>3, <1>5

LEMMA SearchFinds ==
    ASSUME EncoderInvariant, PollSearch
    PROVE  /\ NoneLeft \/ MatchFound \/ LiteralChosen
           /\ (cap' = 0 \/ cap' = cap) /\ (ret' = ret \/ ret' = "MORE")
<1> DEFINE msi == match_scan_index
           possible == Min({Lookahead, input_size - msi})
<1>0. /\ msi \in Nat /\ input_size \in Nat /\ msi <= input_size /\ input_size <= Window
      /\ IsFinishing \in BOOLEAN
  BY Sizes DEF EncoderInvariant, TypeOK, IsFinishing
<1>1. CASE msi > input_size - Reserve
  <2>1. Turn(IF IsFinishing THEN "FLUSH_BITS" ELSE "SAVE_BACKLOG")
        /\ UNCHANGED <<match_scan_index, match_length, match_pos>>
    BY <1>1 DEF PollSearch
  <2>2. IsFinishing => msi = input_size
    BY <1>0, <1>1 DEF Reserve
  <2> QED
    BY <1>0, <2>1, <2>2, TurnEnds DEF NoneLeft
<1>2. CASE ~(msi > input_size - Reserve)
  <2>1. PICK length, distance : BestMatch(length, distance) /\ Chosen(length, distance)
    BY <1>2, SearchMatches
  <2>2. msi < input_size
    BY <1>2, SearchMatches
  <2>3. possible <= Lookahead /\ possible <= input_size - msi /\ possible \in Nat
    BY <1>0, Sizes, MinOfTwo
  <2>4. /\ length \in Nat /\ length <= possible
        /\ length > 0 => distance \in 1..Window /\ Agree((Window + msi) - distance, Window + msi, length)
    BY <2>1 DEF BestMatch
  <2> HIDE DEF possible
  <2>5. state' = "YIELD_TAG_BIT" /\ (cap' = 0 \/ cap' = cap) /\ (ret' = ret \/ ret' = "MORE")
    BY <2>1, TurnEnds DEF Chosen
  <2>6. CASE Worthwhile(length)
    <3>1. length > 0
      BY <2>4, <2>6, Sizes DEF Worthwhile
    <3>2. match_pos' = distance /\ match_length' = length /\ msi' = msi
      BY <2>1, <2>6 DEF Chosen
    <3>3. MatchFound
      BY <1>0, <2>3, <2>4, <2>5, <3>1, <3>2, Sizes DEF MatchFound
    <3> QED
      BY <2>5, <3>3
  <2>7. CASE ~Worthwhile(length)
    <3>1. msi' = msi + 1 /\ match_length' = 0 /\ match_pos' = match_pos
      BY <2>1, <2>7 DEF Chosen
    <3> QED
      BY <2>2, <2>5, <3>1 DEF LiteralChosen
  <2> QED
    BY <2>6, <2>7
<1> QED
  BY <1>1, <1>2

LEMMA StepSearch == EncoderInvariant /\ PollSearch /\ input' = input => EncoderInvariant'
<1> SUFFICES ASSUME EncoderInvariant, PollSearch, input' = input PROVE EncoderInvariant'
  OBVIOUS
<1>1. /\ UNCHANGED <<input, buffer, input_size, index, outgoing, current, flags, count, out>>
      /\ match_length = 0 /\ outgoing = <<>> /\ Chained(Window + input_size)
  BY DEF PollSearch, EncoderInvariant, SearchInvariant, Searching, TypeOK
<1>2. /\ match_scan_index \in Nat /\ input_size \in Nat /\ match_scan_index <= input_size
      /\ input_size <= Window
  BY Sizes DEF EncoderInvariant, TypeOK
<1>3. /\ NoneLeft \/ MatchFound \/ LiteralChosen
      /\ (cap' = 0 \/ cap' = cap) /\ (ret' = ret \/ ret' = "MORE")
  BY SearchFinds
<1>4. DataInvariant'
  BY <1>1 DEF EncoderInvariant, DataInvariant
<1>5. TypeOK'
  <2>1. /\ match_scan_index' \in Nat /\ match_scan_index' <= input_size
        /\ match_length' \in Nat /\ match_length' <= Lookahead
        /\ match_pos' \in Nat /\ match_pos' <= Window
        /\ state' \in {"FLUSH_BITS", "SAVE_BACKLOG", "YIELD_TAG_BIT"}
    <3>1. match_pos \in Nat /\ match_pos <= Window
      BY Sizes DEF EncoderInvariant, TypeOK
    <3>2. CASE NoneLeft
      BY <1>1, <1>2, <3>1, <3>2, Sizes DEF NoneLeft
    <3>3. CASE MatchFound
      BY <1>1, <1>2, <3>3, Sizes DEF MatchFound
    <3>4. CASE LiteralChosen
      BY <1>1, <1>2, <3>1, <3>4, Sizes DEF LiteralChosen
    <3> QED
      BY <1>3, <3>2, <3>3, <3>4
  <2> QED
    BY <1>1, <1>2, <1>3, <2>1, Sizes DEF EncoderInvariant, TypeOK, States
<1>6. SearchInvariant'
  <2>1. Chained(Window + input_size)'
    BY <1>1 DEF Chained
  <2> QED
    BY <1>1, <1>2, <1>3, <2>1 DEF SearchInvariant, Searching, NoneLeft, MatchFound, LiteralChosen
<1> QED
  BY <1>4, <1>5, <1>6 DEF EncoderInvariant

\* An emission, into space for a byte.
Emits(bits) == Emitted(bits) /\ count' <= cap

LEMMA Emission ==
    ASSUME EncoderInvariant, CanTakeByte, NEW bits \in Seq(Bit), Len(bits) <= 8, PushBits(bits)
    PROVE  Emits(bits)
<1>1. /\ current \in Seq(Bit) /\ Len(current) <= 7 /\ out \in Seq(Bit) /\ Len(out) % 8 = 0
      /\ count \in Nat /\ cap \in Nat /\ count < cap
  BY DEF EncoderInvariant, TypeOK, DataInvariant, CanTakeByte
<1>2. Emitted(bits)
  BY <1>1, Pushed
<1> QED
  BY <1>1, <1>2 DEF Emitted, Emits

LEMMA TagBitEmits ==
    ASSUME EncoderInvariant, PollTagBit
    PROVE  IF match_length = 0 THEN Emits(<<1>>) ELSE Emits(<<0>>)
<1> DEFINE one == <<1>>
           zero == <<0>>
<1>1. one \in Seq(Bit) /\ Len(one) <= 8 /\ zero \in Seq(Bit) /\ Len(zero) <= 8
  BY DEF Bit
<1>2. CanTakeByte /\ IF match_length = 0 THEN PushBits(one) ELSE PushBits(zero)
  BY DEF PollTagBit
<1> HIDE DEF one, zero
<1>3. IF match_length = 0 THEN Emits(one) ELSE Emits(zero)
  BY <1>1, <1>2, Emission
<1> QED
  BY <1>3 DEF one, zero

LEMMA LiteralEmits ==
    ASSUME EncoderInvariant, PollLiteral, match_scan_index >= 1
    PROVE  /\ buffer[Window + match_scan_index - 1] \in Byte
           /\ Emits(Bits(buffer[Window + match_scan_index - 1], 8))
<1> DEFINE byte == buffer[Window + match_scan_index - 1]
           bits == Bits(byte, 8)
<1>1. byte \in Byte
  <2>1. Window + match_scan_index - 1 \in 0..(2 * Window - 1)
    BY Sizes DEF EncoderInvariant, TypeOK
  <2>2. buffer \in [0..(2 * Window - 1) -> Byte]
    BY DEF EncoderInvariant, DataInvariant
  <2> QED
    BY <2>1, <2>2
<1>2. bits \in Seq(Bit) /\ Len(bits) <= 8
  <2> HIDE DEF byte
  <2>1. byte \in Int
    BY <1>1 DEF Byte
  <2> QED
    BY <2>1, ByteBits
<1>3. CanTakeByte /\ PushBits(bits)
  BY DEF PollLiteral
<1> HIDE DEF bits
<1>4. Emits(bits)
  BY <1>2, <1>3, Emission
<1> QED
  BY <1>1, <1>4 DEF bits

\* What push_outgoing_bits takes of the outgoing bits, and what it leaves.
LEMMA OutgoingCut ==
    ASSUME outgoing \in Seq(Bit)
    PROVE  \E a, b \in Seq(Bit) :
               /\ PushOutgoing => PushBits(a) /\ outgoing' = b
               /\ Len(a) <= 8 /\ Len(b) <= Len(outgoing)
               /\ a \o b = outgoing
<1> DEFINE n == Min({8, Len(outgoing)})
           a == SubSeq(outgoing, 1, n)
           b == SubSeq(outgoing, n + 1, Len(outgoing))
<1>0. PushOutgoing => PushBits(a) /\ outgoing' = b
  BY DEF PushOutgoing
<1>1. Len(outgoing) \in Nat
  BY LenProperties
<1>2. n \in Nat /\ n <= 8 /\ n <= Len(outgoing)
  BY <1>1, MinOfTwo
<1> HIDE DEF n
<1>3. a \in Seq(Bit) /\ Len(a) = n /\ b \in Seq(Bit) /\ Len(b) = Len(outgoing) - n /\ a \o b = outgoing
  BY <1>2, CutInTwo
<1> HIDE DEF a, b
<1>4. Len(a) <= 8 /\ Len(b) <= Len(outgoing)
  BY <1>1, <1>2, <1>3
<1> QED
  BY <1>0, <1>3, <1>4

\* A piece of the outgoing bits.
LEMMA OutgoingEmits ==
    ASSUME EncoderInvariant, CanTakeByte, PushOutgoing
    PROVE  \E a, b \in Seq(Bit) : /\ Emits(a) /\ outgoing' = b /\ a \o b = outgoing
                                  /\ Len(b) <= WindowBits
<1>1. outgoing \in Seq(Bit) /\ Len(outgoing) <= WindowBits /\ Len(outgoing) \in Nat
  BY LenProperties DEF EncoderInvariant, TypeOK, DataInvariant
<1>2. PICK a, b \in Seq(Bit) : /\ PushOutgoing => PushBits(a) /\ outgoing' = b
                               /\ Len(a) <= 8 /\ Len(b) <= Len(outgoing)
                               /\ a \o b = outgoing
  BY <1>1, OutgoingCut
<1>3. Emits(a)
  BY <1>2, Emission
<1>4. Len(b) \in Nat
  BY LenProperties
<1>5. Len(b) <= WindowBits
  BY <1>1, <1>2, <1>4, Sizes
<1> QED
  BY <1>2, <1>3, <1>5

\* What an emission leaves in its ranges.
Fits ==
    /\ current' \in Seq(Bit) /\ Len(current') <= 7
    /\ out' \in Seq(Bit) /\ Len(out') % 8 = 0
    /\ count' \in Nat /\ count' <= cap
    /\ Len(out') - Len(out) = 8 * (count' - count)

LEMMA EmissionFits == ASSUME NEW bits, Emits(bits) PROVE Fits
BY DEF Emits, Emitted, Fits

\* The turns that emit leave the input and the index alone.
LEMMA StepEmit ==
    ASSUME EncoderInvariant, Searching,
           UNCHANGED <<input, buffer, input_size, match_pos, index, flags>>,
           current' \in Seq(Bit), Len(current') <= 7, out' \in Seq(Bit), Len(out') % 8 = 0,
           count' \in Nat, count' <= cap, cap' = 0 \/ cap' = cap, ret' = ret \/ ret' = "MORE",
           outgoing' \in Seq(Bit), Len(outgoing') <= WindowBits,
           state' \in {"SEARCH", "YIELD_TAG_BIT", "YIELD_LITERAL", "YIELD_BR_INDEX", "YIELD_BR_LENGTH"},
           match_scan_index' \in Nat, match_scan_index' <= input_size,
           match_length' = match_length \/ match_length' = 0,
           /\ match_length' > 0 =>
                  /\ state' \in {"YIELD_TAG_BIT", "YIELD_BR_INDEX", "YIELD_BR_LENGTH"}
                  /\ match_pos >= 1 /\ match_scan_index' + match_length' <= input_size
           /\ state' \in {"YIELD_BR_INDEX", "YIELD_BR_LENGTH"} => match_length' > 0
           /\ state' \in {"YIELD_TAG_BIT", "YIELD_LITERAL"} /\ match_length' = 0 => match_scan_index' > 0
           /\ outgoing' # <<>> => state' \in {"YIELD_BR_INDEX", "YIELD_BR_LENGTH"}
    PROVE  EncoderInvariant'
<1>1. TypeOK'
  <2>1. /\ input \in Inputs
        /\ DOMAIN buffer = 0..(2 * Window - 1) /\ DOMAIN index = DOMAIN buffer
        /\ input_size \in 0..Window /\ match_pos \in 0..Window /\ match_length \in 0..Lookahead
        /\ flags \in {0, 1} /\ cap \in Nat
        /\ ret \in {"none", "OK", "EMPTY", "MORE", "DONE", "MISUSE"}
    BY DEF EncoderInvariant, TypeOK
  <2>2. match_scan_index' \in 0..input_size' /\ match_length' \in 0..Lookahead
    BY <2>1, Sizes
  <2>3. state' \in States
    BY DEF States
  <2>4. cap' \in Nat /\ (cap' > 0 => count' <= cap')
    BY <2>1
  <2>5. ret' \in {"none", "OK", "EMPTY", "MORE", "DONE", "MISUSE"}
    BY <2>1
  <2> QED
    BY <2>1, <2>2, <2>3, <2>4, <2>5 DEF TypeOK
<1>2. DataInvariant'
  BY DEF EncoderInvariant, DataInvariant
<1>3. SearchInvariant'
  BY DEF EncoderInvariant, SearchInvariant, Searching, Chained
<1> QED
  BY <1>1, <1>2, <1>3 DEF EncoderInvariant

LEMMA StepTagBit == EncoderInvariant /\ PollTagBit /\ input' = input => EncoderInvariant'
<1> SUFFICES ASSUME EncoderInvariant, PollTagBit, input' = input PROVE EncoderInvariant'
  OBVIOUS
<1>1. /\ state = "YIELD_TAG_BIT" /\ CanTakeByte /\ Searching /\ outgoing = <<>>
      /\ UNCHANGED <<input, buffer, input_size, match_scan_index, match_length, match_pos, index, flags>>
      /\ match_length \in Nat /\ match_scan_index \in Nat /\ match_scan_index <= input_size
      /\ match_pos \in Nat
      /\ match_length > 0 => match_pos >= 1 /\ match_scan_index + match_length <= input_size
      /\ match_length = 0 => match_scan_index > 0
  BY DEF PollTagBit, Searching, EncoderInvariant, TypeOK, SearchInvariant
<1>2. <<0>> \in Seq(Bit) /\ <<1>> \in Seq(Bit) /\ Len(<<0>>) = 1 /\ Len(<<1>>) = 1 /\ <<>> \in Seq(Bit)
  BY DEF Bit
<1>3. CASE match_length = 0
  <2>1. PushBits(<<1>>) /\ outgoing' = outgoing /\ Turn("YIELD_LITERAL")
    BY <1>3 DEF PollTagBit
  <2>2. state' = "YIELD_LITERAL" /\ (cap' = 0 \/ cap' = cap) /\ (ret' = ret \/ ret' = "MORE")
    BY <2>1, TurnEnds
  <2>3. Fits
    BY <1>3, TagBitEmits, EmissionFits
  <2>4. outgoing' \in Seq(Bit) /\ Len(outgoing') <= WindowBits
    BY <1>1, <1>2, <2>1, Sizes
  <2> QED
    BY <1>1, <1>3, <2>1, <2>2, <2>3, <2>4, StepEmit DEF Fits
<1>4. CASE match_length # 0
  <2>1. PushBits(<<0>>) /\ outgoing' = Bits(match_pos - 1, WindowBits) /\ Turn("YIELD_BR_INDEX")
    BY <1>4 DEF PollTagBit
  <2>2. state' = "YIELD_BR_INDEX" /\ (cap' = 0 \/ cap' = cap) /\ (ret' = ret \/ ret' = "MORE")
    BY <2>1, TurnEnds
  <2>3. Fits
    BY <1>4, TagBitEmits, EmissionFits
  <2>4. outgoing' \in Seq(Bit) /\ Len(outgoing') <= WindowBits
    BY <1>1, <2>1, BitsType, Sizes
  <2> QED
    BY <1>1, <1>4, <2>2, <2>3, <2>4, StepEmit DEF Fits
<1> QED
  BY <1>3, <1>4

LEMMA StepLiteral == EncoderInvariant /\ PollLiteral /\ input' = input => EncoderInvariant'
<1> SUFFICES ASSUME EncoderInvariant, PollLiteral, input' = input PROVE EncoderInvariant'
  OBVIOUS
<1>1. /\ state = "YIELD_LITERAL" /\ CanTakeByte /\ Searching /\ outgoing = <<>> /\ match_length = 0
      /\ UNCHANGED <<input, buffer, input_size, match_scan_index, match_length, match_pos, index,
                     outgoing, flags>>
      /\ match_scan_index \in Nat /\ match_scan_index <= input_size /\ match_scan_index > 0
      /\ input_size \in Nat /\ input_size <= Window
  BY DEF PollLiteral, Searching, EncoderInvariant, TypeOK, SearchInvariant
<1>2. Turn("SEARCH")
  BY DEF PollLiteral
<1>5. Fits
  BY <1>1, LiteralEmits, EmissionFits
<1>6. state' = "SEARCH" /\ (cap' = 0 \/ cap' = cap) /\ (ret' = ret \/ ret' = "MORE")
  BY <1>2, TurnEnds
<1>7. outgoing' \in Seq(Bit) /\ Len(outgoing') <= WindowBits
  BY <1>1 DEF EncoderInvariant, TypeOK, DataInvariant
<1> QED
  BY <1>1, <1>5, <1>6, <1>7, StepEmit DEF Fits

LEMMA StepBackrefIndex == EncoderInvariant /\ PollBackrefIndex /\ input' = input => EncoderInvariant'
<1> SUFFICES ASSUME EncoderInvariant, PollBackrefIndex, input' = input PROVE EncoderInvariant'
  OBVIOUS
<1>1. /\ state = "YIELD_BR_INDEX" /\ CanTakeByte /\ Searching
      /\ UNCHANGED <<input, buffer, input_size, match_scan_index, match_length, match_pos, index, flags>>
      /\ match_length \in Nat /\ match_length > 0 /\ match_scan_index \in Nat
      /\ match_scan_index <= input_size /\ input_size \in Nat
      /\ match_pos >= 1 /\ match_scan_index + match_length <= input_size
      /\ count < cap /\ count \in Nat /\ cap \in Nat
  BY DEF PollBackrefIndex, CanTakeByte, Searching, EncoderInvariant, TypeOK, SearchInvariant
<1>2. CASE outgoing # <<>>
  <2>1. PushOutgoing /\ Turn("YIELD_BR_INDEX")
    BY <1>1, <1>2 DEF PollBackrefIndex
  <2>2. state' = "YIELD_BR_INDEX" /\ (cap' = 0 \/ cap' = cap) /\ (ret' = ret \/ ret' = "MORE")
    BY <2>1, TurnEnds
  <2>3. Fits /\ outgoing' \in Seq(Bit) /\ Len(outgoing') <= WindowBits
    BY <1>1, <2>1, OutgoingEmits, EmissionFits
  <2> QED
    BY <1>1, <2>2, <2>3, StepEmit DEF Fits
<1>3. CASE outgoing = <<>>
  <2>1. /\ outgoing' = Bits(match_length - 1, LookaheadBits) /\ Turn("YIELD_BR_LENGTH")
        /\ UNCHANGED <<current, count, out>>
    BY <1>3 DEF PollBackrefIndex
  <2>2. state' = "YIELD_BR_LENGTH" /\ (cap' = 0 \/ cap' = cap) /\ (ret' = ret \/ ret' = "MORE")
    BY <2>1, TurnEnds
  <2>3. Fits
    BY <1>1, <2>1 DEF Fits, EncoderInvariant, TypeOK, DataInvariant
  <2>4. outgoing' \in Seq(Bit) /\ Len(outgoing') <= WindowBits
    BY <1>1, <2>1, BitsType, Sizes
  <2> QED
    BY <1>1, <2>2, <2>3, <2>4, StepEmit DEF Fits
<1> QED
  BY <1>2, <1>3

LEMMA StepBackrefLength == EncoderInvariant /\ PollBackrefLength /\ input' = input => EncoderInvariant'
<1> SUFFICES ASSUME EncoderInvariant, PollBackrefLength, input' = input PROVE EncoderInvariant'
  OBVIOUS
<1>1. /\ state = "YIELD_BR_LENGTH" /\ CanTakeByte /\ Searching
      /\ UNCHANGED <<input, buffer, input_size, match_pos, index, flags>>
      /\ match_length \in Nat /\ match_length > 0 /\ match_scan_index \in Nat
      /\ match_scan_index <= input_size /\ input_size \in Nat
      /\ match_pos >= 1 /\ match_scan_index + match_length <= input_size
      /\ count < cap /\ count \in Nat /\ cap \in Nat
  BY DEF PollBackrefLength, CanTakeByte, Searching, EncoderInvariant, TypeOK, SearchInvariant
<1>2. CASE outgoing # <<>>
  <2>1. PushOutgoing /\ Turn("YIELD_BR_LENGTH") /\ UNCHANGED <<match_scan_index, match_length>>
    BY <1>1, <1>2 DEF PollBackrefLength
  <2>2. state' = "YIELD_BR_LENGTH" /\ (cap' = 0 \/ cap' = cap) /\ (ret' = ret \/ ret' = "MORE")
    BY <2>1, TurnEnds
  <2>3. Fits /\ outgoing' \in Seq(Bit) /\ Len(outgoing') <= WindowBits
    BY <1>1, <2>1, OutgoingEmits, EmissionFits
  <2> QED
    BY <1>1, <2>1, <2>2, <2>3, StepEmit DEF Fits
<1>3. CASE outgoing = <<>>
  <2>1. /\ match_scan_index' = match_scan_index + match_length /\ match_length' = 0
        /\ Turn("SEARCH") /\ UNCHANGED <<outgoing, current, count, out>>
    BY <1>3 DEF PollBackrefLength
  <2>2. state' = "SEARCH" /\ (cap' = 0 \/ cap' = cap) /\ (ret' = ret \/ ret' = "MORE")
    BY <2>1, TurnEnds
  <2>3. Fits /\ outgoing' \in Seq(Bit) /\ Len(outgoing') <= WindowBits
    BY <1>1, <2>1 DEF Fits, EncoderInvariant, TypeOK, DataInvariant
  <2>4. match_scan_index' \in Nat /\ match_scan_index' <= input_size
    BY <1>1, <2>1
  <2> QED
    BY <1>1, <1>3, <2>1, <2>2, <2>3, <2>4, StepEmit DEF Fits
<1> QED
  BY <1>2, <1>3

LEMMA StepSaveBacklog == EncoderInvariant /\ PollSaveBacklog /\ input' = input => EncoderInvariant'
<1> SUFFICES ASSUME EncoderInvariant, PollSaveBacklog, input' = input PROVE EncoderInvariant'
  OBVIOUS
<1>1. /\ state = "SAVE_BACKLOG" /\ match_scan_index' = 0 /\ input_size' = input_size - match_scan_index
      /\ buffer' = [i \in DOMAIN buffer |->
                       IF i + BacklogShift \in DOMAIN buffer THEN buffer[i + BacklogShift] ELSE buffer[i]]
      /\ UNCHANGED <<input, match_length, match_pos, index, outgoing, current, flags, count, out>>
      /\ Turn("NOT_FULL")
  BY DEF PollSaveBacklog
<1>2. state' = "NOT_FULL" /\ (cap' = 0 \/ cap' = cap) /\ (ret' = ret \/ ret' = "MORE")
  BY <1>1, TurnEnds
<1>3. buffer' \in [0..(2 * Window - 1) -> Byte] /\ DOMAIN buffer' = DOMAIN buffer
  <2>1. buffer \in [0..(2 * Window - 1) -> Byte]
    BY DEF EncoderInvariant, DataInvariant
  <2> QED
    BY <1>1, <2>1
<1>4. TypeOK'
  <2>1. input_size' \in 0..Window /\ match_scan_index' \in 0..input_size'
    BY <1>1, Sizes DEF EncoderInvariant, TypeOK
  <2> QED
    BY <1>1, <1>2, <1>3, <2>1 DEF EncoderInvariant, TypeOK, States
<1>5. DataInvariant'
  BY <1>1, <1>3 DEF EncoderInvariant, DataInvariant
<1>6. SearchInvariant'
  BY <1>1, <1>2 DEF EncoderInvariant, TypeOK, SearchInvariant, Searching
<1> QED
  BY <1>4, <1>5, <1>6 DEF EncoderInvariant

\* The flush fills the last byte up with zeros.
LEMMA Padded ==
    ASSUME out \in Seq(Bit), Len(out) % 8 = 0, current \in Seq(Bit), Len(current) <= 7
    PROVE  LET padded == out \o current \o [i \in 1..(8 - Len(current)) |-> 0]
           IN  padded \in Seq(Bit) /\ Len(padded) = Len(out) + 8 /\ Len(padded) % 8 = 0
<1> DEFINE m == 8 - Len(current)
           zeros == [i \in 1..m |-> 0]
<1>1. m \in Nat /\ Len(current) \in Nat /\ Len(out) \in Nat /\ Len(current) + m = 8
  BY LenProperties
<1>2. zeros \in Seq(Bit) /\ Len(zeros) = m
  <2> HIDE DEF m
  <2>1. zeros \in [1..m -> Bit]
    BY <1>1 DEF Bit
  <2> QED
    BY <1>1, <2>1
<1> SUFFICES (out \o current) \o zeros \in Seq(Bit) /\ Len((out \o current) \o zeros) = Len(out) + 8
             /\ Len((out \o current) \o zeros) % 8 = 0
  OBVIOUS
<1> HIDE DEF m, zeros
<1> DEFINE s == out \o current
<1>3. s \in Seq(Bit) /\ Len(s) = Len(out) + Len(current)
  BY Concat
<1> HIDE DEF s
<1>4. s \o zeros \in Seq(Bit) /\ Len(s \o zeros) = Len(s) + m
  BY <1>2, <1>3, Concat
<1>5. Len(s \o zeros) = Len(out) + 8
  BY <1>1, <1>3, <1>4
<1>6. (Len(out) + 8) % 8 = 0
  BY <1>1
<1> QED
  BY <1>4, <1>5, <1>6 DEF s

LEMMA StepFlush == EncoderInvariant /\ PollFlush /\ input' = input => EncoderInvariant'
<1> SUFFICES ASSUME EncoderInvariant, PollFlush, input' = input PROVE EncoderInvariant'
  OBVIOUS
<1> DEFINE padded == out \o current \o [i \in 1..(8 - Len(current)) |-> 0]
<1>1. /\ state = "FLUSH_BITS" /\ cap' = 0 /\ ret' = "EMPTY"
      /\ UNCHANGED <<input, buffer, input_size, match_scan_index, match_length, match_pos, index,
                     outgoing, current, flags>>
      /\ state' \in {"FLUSH_BITS", "DONE"}
      /\ \/ out' = out /\ count' = count
         \/ out' = padded /\ count' = count + 1
  BY DEF PollFlush, Return
<1>2. padded \in Seq(Bit) /\ Len(padded) % 8 = 0
  BY Padded DEF EncoderInvariant, TypeOK, DataInvariant
<1> HIDE DEF padded
<1>3. out' \in Seq(Bit) /\ Len(out') % 8 = 0 /\ count' \in Nat
  BY <1>1, <1>2 DEF EncoderInvariant, TypeOK, DataInvariant
<1>4. TypeOK'
  BY <1>1, <1>3 DEF EncoderInvariant, TypeOK, States
<1>5. DataInvariant'
  BY <1>1, <1>3 DEF EncoderInvariant, DataInvariant
<1>6. SearchInvariant'
  BY <1>1 DEF EncoderInvariant, SearchInvariant, Searching
<1> QED
  BY <1>4, <1>5, <1>6 DEF EncoderInvariant

\* The turns of poll's loop, for any client.
LEMMA StepTurn == EncoderInvariant /\ PollTurn /\ input' = input => EncoderInvariant'
BY StepIdle, StepFilled, StepSearch, StepTagBit, StepLiteral, StepBackrefIndex, StepBackrefLength,
   StepSaveBacklog, StepFlush DEF PollTurn

-----------------------------------------------------------------------------
(* The stream: what was emitted, and what the encoder is about to emit.    *)

stream == out \o current

\* The first m bytes of the input held, and all that came before it.
Scanned(m) == Prefix(accepted, Len(accepted) - input_size + m)

\* The buffer holds the last bytes accepted, and zeros before the first.
HistoryInvariant ==
    /\ accepted \in Seq(Byte) /\ input_size <= Len(accepted)
    /\ \A j \in 0..(Window + input_size - 1) :
           buffer[j] = At(accepted, Len(accepted) - input_size - Window + j + 1)

Reference(pos) == <<0>> \o Bits(pos - 1, WindowBits)
ReferenceTo(pos, length) ==
    <<0>> \o (Bits(pos - 1, WindowBits) \o Bits(length - 1, LookaheadBits))

\* The stream is whole tokens for the bytes scanned, and a part of one token.
TokenInvariant ==
    /\ state \in {"NOT_FULL", "FILLED", "SEARCH", "SAVE_BACKLOG", "FLUSH_BITS"} =>
           Encodes(stream, Scanned(match_scan_index))
    /\ state = "YIELD_TAG_BIT" =>
           Encodes(stream, Scanned(IF match_length = 0 THEN match_scan_index - 1 ELSE match_scan_index))
    /\ state = "YIELD_LITERAL" =>
           \E s : Encodes(s, Scanned(match_scan_index - 1)) /\ stream = s \o <<1>>
    /\ state = "YIELD_BR_INDEX" =>
           \E s : \E t \in Seq(Bit) :
               /\ Encodes(s, Scanned(match_scan_index)) /\ stream = s \o t
               /\ t \o outgoing = Reference(match_pos)
    /\ state = "YIELD_BR_LENGTH" =>
           \E s : \E t \in Seq(Bit) :
               /\ Encodes(s, Scanned(match_scan_index)) /\ stream = s \o t
               /\ t \o outgoing = ReferenceTo(match_pos, match_length)
    /\ state = "DONE" =>
           \E s : \E t \in Seq(Bit) : Encodes(s, accepted) /\ out = s \o t /\ Len(t) < 8

\* A match repeats what lies before it; the end comes after all of the input.
MatchInvariant ==
    /\ match_length > 0 =>
           Agree(Window + match_scan_index - match_pos, Window + match_scan_index, match_length)
    /\ state \in {"FLUSH_BITS", "DONE"} => match_scan_index = input_size

StreamInvariant == HistoryInvariant /\ TokenInvariant /\ MatchInvariant

LEMMA StreamStill ==
    ASSUME StreamInvariant,
           UNCHANGED <<accepted, input_size, buffer, out, current, outgoing,
                       match_scan_index, match_length, match_pos>>,
           \/ state' = state
           \/ state = "NOT_FULL" /\ state' = "FILLED"
           \/ state = "FILLED" /\ state' = "SEARCH"
    PROVE  StreamInvariant'
<1>1. HistoryInvariant'
  BY DEF StreamInvariant, HistoryInvariant
<1>2. TokenInvariant'
  BY DEF StreamInvariant, TokenInvariant, Scanned, stream
<1>3. MatchInvariant'
  BY DEF StreamInvariant, MatchInvariant, Agree
<1> QED
  BY <1>1, <1>2, <1>3 DEF StreamInvariant

LEMMA InitStream == Init => StreamInvariant
<1> SUFFICES ASSUME Init PROVE StreamInvariant
  OBVIOUS
<1>1. accepted = <<>> /\ input_size = 0 /\ match_scan_index = 0 /\ match_length = 0
      /\ state = "NOT_FULL" /\ out = <<>> /\ current = <<>>
      /\ buffer = [i \in 0..(2 * Window - 1) |-> 0]
  BY DEF Init, EncoderInit
<1>2. HistoryInvariant
  <2>1. accepted \in Seq(Byte) /\ Len(accepted) = 0
    BY <1>1
  <2>2. ASSUME NEW j \in 0..(Window + input_size - 1)
        PROVE  buffer[j] = At(accepted, Len(accepted) - input_size - Window + j + 1)
    <3>1. buffer[j] = 0
      BY <1>1, Sizes
    <3>2. Len(accepted) - input_size - Window + j + 1 < 1
      BY <1>1, <2>1, Sizes
    <3> QED
      BY <3>1, <3>2 DEF At
  <2>3. input_size <= Len(accepted)
    BY <1>1, <2>1
  <2> QED
    BY <2>1, <2>2, <2>3 DEF HistoryInvariant
<1>3. TokenInvariant
  <2>1. stream = <<>>
    BY <1>1 DEF stream
  <2>2. Scanned(match_scan_index) = <<>>
    BY <1>1 DEF Scanned, Prefix
  <2>3. Encodes(stream, Scanned(match_scan_index))
    BY <2>1, <2>2, EncodesNothing
  <2> QED
    BY <1>1, <2>3 DEF TokenInvariant
<1>4. MatchInvariant
  BY <1>1 DEF MatchInvariant
<1> QED
  BY <1>2, <1>3, <1>4 DEF StreamInvariant

\* A byte of the window or of the input in the buffer.
LEMMA BufferedByte ==
    ASSUME EncoderInvariant, HistoryInvariant, NEW j \in Nat, j < Window + input_size
    PROVE  buffer[j] = At(accepted, Len(accepted) - input_size - Window + j + 1)
<1>1. j \in 0..(Window + input_size - 1)
  BY Sizes DEF EncoderInvariant, TypeOK
<1> QED
  BY <1>1 DEF HistoryInvariant

LEMMA StreamSink ==
    ASSUME EncoderInvariant, StreamInvariant, NEW bytes \in Seq(Byte), Sink(bytes)
    PROVE  StreamInvariant'
<1> DEFINE n == Min({Window - input_size, Len(bytes)})
           at == Window + input_size
<1>1. CASE IsFinishing \/ state # "NOT_FULL"
  <2>1. UNCHANGED <<accepted, input_size, buffer, out, current, outgoing,
                    match_scan_index, match_length, match_pos, state>>
    BY <1>1 DEF Sink
  <2> QED
    BY <2>1, StreamStill
<1>2. CASE ~IsFinishing /\ state = "NOT_FULL"
  <2>1. /\ buffer' = [i \in DOMAIN buffer |->
                        IF i \in at..(at + n - 1) THEN bytes[i - at + 1] ELSE buffer[i]]
        /\ input_size' = input_size + n /\ accepted' = accepted \o SubSeq(bytes, 1, n)
        /\ state' \in {"NOT_FULL", "FILLED"}
        /\ UNCHANGED <<match_scan_index, match_length, match_pos, outgoing, current, out>>
    BY <1>2 DEF Sink
  <2> DEFINE sunk == SubSeq(bytes, 1, n)
             size == Len(accepted)
  <2>2. n \in Nat /\ n <= Window - input_size /\ n <= Len(bytes)
    BY Sizes, MinOfTwo, LenProperties DEF EncoderInvariant, TypeOK
  <2>3. /\ input_size \in Nat /\ input_size <= Window /\ match_scan_index \in Nat
        /\ match_scan_index <= input_size /\ size \in Nat /\ input_size <= size
        /\ accepted \in Seq(Byte) /\ DOMAIN buffer = 0..(2 * Window - 1)
    BY LenProperties DEF EncoderInvariant, TypeOK, StreamInvariant, HistoryInvariant
  <2> HIDE DEF n
  <2>4. /\ sunk \in Seq(Byte) /\ Len(sunk) = n /\ \A i \in 1..n : sunk[i] = bytes[i]
    <3>1. Prefix(bytes, n) \in Seq(Byte) /\ Len(Prefix(bytes, n)) = n
          /\ \A i \in 1..n : Prefix(bytes, n)[i] = bytes[i]
      BY <2>2, PrefixElements
    <3> QED
      BY <3>1 DEF Prefix
  <2> HIDE DEF sunk
  <2>5. /\ accepted' \in Seq(Byte) /\ Len(accepted') = size + n
        /\ \A i \in 1..size : accepted'[i] = accepted[i]
        /\ \A i \in 1..n : accepted'[size + i] = sunk[i]
    <3> DEFINE a == accepted \o sunk
    <3>1. Appended(accepted, sunk)
      BY <2>3, <2>4, AppendedBytes
    <3>2. accepted' = a
      BY <2>1 DEF sunk
    <3> QED
      BY <2>4, <3>1, <3>2 DEF Appended
  <2> HIDE DEF size
  <2>10. Len(accepted') - input_size' = size - input_size
    <3> DEFINE z == Len(accepted')
    <3>1. z = size + n /\ input_size' = input_size + n
      BY <2>1, <2>5
    <3> HIDE DEF z
    <3>2. z - input_size' = size - input_size
      BY <2>2, <2>3, <3>1
    <3> QED
      BY <3>2 DEF z
  <2>6. HistoryInvariant'
    <3>1. input_size' <= Len(accepted')
      BY <2>1, <2>2, <2>3, <2>5
    <3>2. ASSUME NEW j \in 0..(Window + input_size' - 1)
          PROVE  buffer'[j] = At(accepted', Len(accepted') - input_size' - Window + j + 1)
      <4> DEFINE i == size - input_size - Window + j + 1
      <4>1. i \in Int /\ Len(accepted') - input_size' - Window + j + 1 = i /\ j \in DOMAIN buffer
        <5> DEFINE z == Len(accepted') - input_size'
        <5>1. z = size - input_size
          BY <2>10
        <5>2. input_size' = input_size + n
          BY <2>1
        <5>3. j \in DOMAIN buffer /\ j \in Nat
          BY <2>2, <2>3, <5>2, Sizes
        <5> HIDE DEF z
        <5>4. z - Window + j + 1 = i /\ i \in Int
          BY <2>3, <5>1, <5>3, Sizes
        <5> QED
          BY <5>3, <5>4 DEF z
      <4>2. CASE j < Window + input_size
        <5>1. buffer'[j] = buffer[j]
          BY <2>1, <2>2, <2>3, <4>1, <4>2, Sizes
        <5>2. buffer[j] = At(accepted, i)
          BY <4>2, BufferedByte, <2>3, Sizes DEF StreamInvariant, size
        <5>3. i <= size
          BY <2>3, <4>2, Sizes
        <5> HIDE DEF i
        <5>4. At(accepted', i) = At(accepted, i)
          <6>1. CASE i < 1
            BY <6>1 DEF At
          <6>2. CASE i >= 1
            <7>1. i \in 1..size /\ ~(i < 1)
              BY <4>1, <5>3, <6>2
            <7> QED
              BY <2>5, <7>1 DEF At
          <6> QED
            BY <4>1, <6>1, <6>2
        <5> QED
          BY <4>1, <5>1, <5>2, <5>4
      <4>3. CASE j >= Window + input_size
        <5> DEFINE k == j - at + 1
        <5>0. /\ n \in Nat /\ size \in Nat /\ input_size \in Nat /\ Window \in Nat
              /\ j \in Nat /\ j >= Window + input_size /\ j < (Window + input_size) + n
          <6>1. j \in 0..((Window + input_size) + n - 1) /\ n \in Nat
            <7>1. Window + input_size' - 1 = (Window + input_size) + n - 1 /\ n \in Nat
              BY <2>1, <2>2, <2>3, Sizes
            <7> QED
              BY <7>1
          <6> QED
            BY <2>3, <4>3, <6>1, Sizes
        <5>1. k \in 1..n /\ i = size + k /\ j \in at..(at + n - 1)
          BY <5>0
        <5>2. buffer'[j] = bytes[k]
          BY <2>1, <4>1, <5>1
        <5> HIDE DEF k, i
        <5>3. ~(i < 1)
          BY <2>3, <5>1
        <5>4. At(accepted', i) = accepted'[size + k]
          BY <5>1, <5>3 DEF At
        <5> QED
          BY <2>4, <2>5, <4>1, <5>1, <5>2, <5>4
      <4> QED
        BY <2>1, <2>2, <2>3, <4>2, <4>3, Sizes
    <3> QED
      BY <2>5, <3>1, <3>2 DEF HistoryInvariant
  <2>7. Scanned(match_scan_index)' = Scanned(match_scan_index)
    <3> DEFINE m == size - input_size + match_scan_index
    <3>1. m \in Nat /\ m <= size /\ Len(accepted') - input_size' + match_scan_index' = m
      <4> DEFINE z == Len(accepted') - input_size'
      <4>1. z = size - input_size /\ match_scan_index' = match_scan_index
        BY <2>1, <2>10
      <4> HIDE DEF z
      <4>2. m \in Nat /\ m <= size /\ z + match_scan_index' = m
        BY <2>3, <4>1
      <4> QED
        BY <4>2 DEF z
    <3> HIDE DEF m
    <3>2. Prefix(accepted', m) = Prefix(accepted, m)
      <4>1. /\ Prefix(accepted, m) \in Seq(Byte) /\ Len(Prefix(accepted, m)) = m
            /\ \A i \in 1..m : Prefix(accepted, m)[i] = accepted[i]
        BY <2>3, <3>1, PrefixElements DEF size
      <4>2. /\ Prefix(accepted', m) \in Seq(Byte) /\ Len(Prefix(accepted', m)) = m
            /\ \A i \in 1..m : Prefix(accepted', m)[i] = accepted'[i]
        <5>1. m <= Len(accepted')
          BY <2>2, <2>3, <2>5, <3>1
        <5> QED
          BY <2>5, <3>1, <5>1, PrefixElements
      <4>3. \A i \in 1..m : accepted'[i] = accepted[i]
        BY <2>3, <2>5, <3>1
      <4> QED
        BY <4>1, <4>2, <4>3, SeqEqual
    <3> QED
      BY <2>1, <3>1, <3>2 DEF Scanned, m, size
  <2>8. TokenInvariant'
    <3>1. stream' = stream
      BY <2>1 DEF stream
    <3>2. Encodes(stream, Scanned(match_scan_index))'
      BY <1>2, <2>7, <3>1 DEF StreamInvariant, TokenInvariant
    <3> QED
      BY <2>1, <3>2 DEF TokenInvariant
  <2>9. MatchInvariant'
    BY <1>2, <2>1 DEF EncoderInvariant, SearchInvariant, TypeOK, MatchInvariant
  <2> QED
    BY <2>6, <2>8, <2>9 DEF StreamInvariant
<1> QED
  BY <1>1, <1>2

LEMMA HistoryStill ==
    ASSUME HistoryInvariant, UNCHANGED <<accepted, input_size, buffer>>
    PROVE  /\ HistoryInvariant'
           /\ \A m : Prefix(accepted', Len(accepted') - input_size' + m) = Scanned(m)
           /\ \A p, q, l : Agree(p, q, l) => Agree(p, q, l)'
BY DEF HistoryInvariant, Scanned, Agree

LEMMA StreamSearch == EncoderInvariant /\ StreamInvariant /\ PollSearch => StreamInvariant'
<1> SUFFICES ASSUME EncoderInvariant, StreamInvariant, PollSearch PROVE StreamInvariant'
  OBVIOUS
<1>1. /\ UNCHANGED <<buffer, input_size, outgoing, current, out, accepted>>
      /\ state = "SEARCH" /\ match_length = 0
      /\ match_scan_index \in Nat
  BY DEF PollSearch, EncoderInvariant, SearchInvariant, Searching, TypeOK
<1>2. NoneLeft \/ MatchFound \/ LiteralChosen
  BY SearchFinds
<1>3. HistoryInvariant' /\ \A p, q, l : Agree(p, q, l) => Agree(p, q, l)'
  BY <1>1, HistoryStill DEF StreamInvariant
<1>4. stream' = stream /\ Encodes(stream, Scanned(match_scan_index))
  BY <1>1 DEF stream, StreamInvariant, TokenInvariant
<1>5. CASE NoneLeft
  <2>1. /\ UNCHANGED <<match_scan_index, match_length, match_pos>>
        /\ state' \in {"FLUSH_BITS", "SAVE_BACKLOG"}
        /\ state' = "FLUSH_BITS" => match_scan_index = input_size
    BY <1>5 DEF NoneLeft
  <2>2. Scanned(match_scan_index)' = Scanned(match_scan_index)
    BY <1>1, <2>1 DEF Scanned
  <2>3. TokenInvariant'
    BY <1>4, <2>1, <2>2 DEF TokenInvariant
  <2>4. MatchInvariant'
    BY <1>1, <2>1 DEF MatchInvariant
  <2> QED
    BY <1>3, <2>3, <2>4 DEF StreamInvariant
<1>6. CASE MatchFound
  <2>1. /\ state' = "YIELD_TAG_BIT" /\ match_scan_index' = match_scan_index
        /\ match_length' # 0
        /\ Agree(Window + match_scan_index - match_pos', Window + match_scan_index, match_length')
    BY <1>6 DEF MatchFound
  <2>2. Scanned(match_scan_index)' = Scanned(match_scan_index)
    BY <1>1, <2>1 DEF Scanned
  <2>3. TokenInvariant'
    BY <1>4, <2>1, <2>2 DEF TokenInvariant
  <2>4. MatchInvariant'
    BY <1>1, <2>1 DEF MatchInvariant, Agree
  <2> QED
    BY <1>3, <2>3, <2>4 DEF StreamInvariant
<1>7. CASE LiteralChosen
  <2>1. /\ state' = "YIELD_TAG_BIT" /\ match_scan_index' = match_scan_index + 1
        /\ match_length' = 0
    BY <1>7 DEF LiteralChosen
  <2>2. match_scan_index' - 1 = match_scan_index
    BY <1>1, <2>1
  <2>3. Scanned(match_scan_index - 1)' = Scanned(match_scan_index)
    BY <1>1, <2>2 DEF Scanned
  <2>4. TokenInvariant'
    BY <1>4, <2>1, <2>3 DEF TokenInvariant
  <2>5. MatchInvariant'
    BY <1>1, <2>1 DEF MatchInvariant
  <2> QED
    BY <1>3, <2>4, <2>5 DEF StreamInvariant
<1> QED
  BY <1>2, <1>5, <1>6, <1>7

LEMMA StreamTagBit == EncoderInvariant /\ StreamInvariant /\ PollTagBit => StreamInvariant'
<1> SUFFICES ASSUME EncoderInvariant, StreamInvariant, PollTagBit PROVE StreamInvariant'
  OBVIOUS
<1>1. /\ UNCHANGED <<buffer, input_size, match_scan_index, match_length, match_pos, accepted>>
      /\ state = "YIELD_TAG_BIT" /\ match_length \in Nat /\ match_pos \in Int
      /\ outgoing = <<>> /\ out \in Seq(Bit) /\ current \in Seq(Bit)
  BY Sizes DEF PollTagBit, EncoderInvariant, TypeOK, DataInvariant, SearchInvariant
<1>2. HistoryInvariant'
  BY <1>1, HistoryStill DEF StreamInvariant
<1>3. Encodes(stream, Scanned(IF match_length = 0 THEN match_scan_index - 1 ELSE match_scan_index))
  BY <1>1 DEF StreamInvariant, TokenInvariant
<1>5. CASE match_length = 0
  <2>1. stream' = stream \o <<1>>
    BY <1>5, TagBitEmits DEF Emits, Emitted, stream
  <2>2. Turn("YIELD_LITERAL")
    BY <1>5 DEF PollTagBit
  <2>3. state' = "YIELD_LITERAL"
    BY <2>2, TurnEnds
  <2>4. Scanned(match_scan_index - 1)' = Scanned(match_scan_index - 1)
    BY <1>1 DEF Scanned
  <2>5. TokenInvariant'
    BY <1>3, <1>5, <2>1, <2>3, <2>4 DEF TokenInvariant
  <2>6. MatchInvariant'
    BY <1>1, <1>5, <2>3 DEF MatchInvariant
  <2> QED
    BY <1>2, <2>5, <2>6 DEF StreamInvariant
<1>6. CASE match_length # 0
  <2>1. stream' = stream \o <<0>>
    BY <1>6, TagBitEmits DEF Emits, Emitted, stream
  <2>2. Turn("YIELD_BR_INDEX") /\ outgoing' = Bits(match_pos - 1, WindowBits)
    BY <1>6 DEF PollTagBit
  <2>3. state' = "YIELD_BR_INDEX"
    BY <2>2, TurnEnds
  <2>4. Scanned(match_scan_index)' = Scanned(match_scan_index)
    BY <1>1 DEF Scanned
  <2>5. <<0>> \in Seq(Bit) /\ <<0>> \o outgoing' = Reference(match_pos')
    BY <1>1, <2>2 DEF Bit, Reference
  <2>6. TokenInvariant'
    <3> DEFINE t == <<0>>
    <3>1. t \in Seq(Bit) /\ stream' = stream \o t /\ t \o outgoing' = Reference(match_pos)'
      BY <2>1, <2>5 DEF Reference
    <3> HIDE DEF t
    <3>2. Encodes(stream, Scanned(match_scan_index)')
      BY <1>3, <1>6, <2>4
    <3> QED
      BY <2>3, <3>1, <3>2 DEF TokenInvariant
  <2>7. MatchInvariant'
    BY <1>1, <2>3 DEF MatchInvariant, StreamInvariant, Agree
  <2> QED
    BY <1>2, <2>6, <2>7 DEF StreamInvariant
<1> QED
  BY <1>5, <1>6

LEMMA StreamLiteral == EncoderInvariant /\ StreamInvariant /\ PollLiteral => StreamInvariant'
<1> SUFFICES ASSUME EncoderInvariant, StreamInvariant, PollLiteral PROVE StreamInvariant'
  OBVIOUS
<1> DEFINE byte == buffer[Window + match_scan_index - 1]
           size == Len(accepted)
           m == size - input_size + match_scan_index - 1
<1>1. /\ UNCHANGED <<buffer, input_size, match_scan_index, match_length, match_pos, accepted, outgoing>>
      /\ state = "YIELD_LITERAL" /\ match_length = 0
      /\ match_scan_index \in Nat /\ match_scan_index >= 1 /\ match_scan_index <= input_size
      /\ input_size \in Nat /\ Turn("SEARCH")
      /\ out \in Seq(Bit) /\ current \in Seq(Bit)
  BY DEF PollLiteral, EncoderInvariant, TypeOK, DataInvariant, SearchInvariant
<1>2. HistoryInvariant' /\ accepted \in Seq(Byte) /\ size \in Nat /\ input_size <= size
  BY <1>1, HistoryStill, LenProperties DEF StreamInvariant, HistoryInvariant
<1>3. state' = "SEARCH"
  BY <1>1, TurnEnds
<1>4. byte \in Byte /\ Emits(Bits(byte, 8))
  BY <1>1, LiteralEmits
<1>5. PICK s : Encodes(s, Scanned(match_scan_index - 1)) /\ stream = s \o <<1>>
  BY <1>1 DEF StreamInvariant, TokenInvariant
<1>6. m \in Nat /\ m < size /\ m + 1 = size - input_size + match_scan_index
      /\ size - input_size + (match_scan_index - 1) = m
  BY <1>1, <1>2
<1>7. byte = accepted[m + 1]
  <2> DEFINE j == Window + match_scan_index - 1
  <2>1. j \in Nat /\ j < Window + input_size /\ size - input_size - Window + j + 1 = m + 1
        /\ ~(m + 1 < 1)
    BY <1>1, <1>2, <1>6, Sizes
  <2>2. buffer[j] = At(accepted, size - input_size - Window + j + 1)
    <3> HIDE DEF j
    <3> QED
      BY <2>1, BufferedByte DEF StreamInvariant, size
  <2> HIDE DEF j, m, size
  <2>3. buffer[j] = accepted[m + 1]
    BY <2>1, <2>2 DEF At
  <2> QED
    BY <2>3 DEF j
<1>8. Append(Scanned(match_scan_index - 1), byte) = Scanned(match_scan_index)
  <2>1. Scanned(match_scan_index - 1) = Prefix(accepted, m)
    BY <1>6 DEF Scanned
  <2>2. Scanned(match_scan_index) = Prefix(accepted, m + 1)
    BY <1>6 DEF Scanned
  <2> HIDE DEF m, byte
  <2>3. Append(Prefix(accepted, m), accepted[m + 1]) = Prefix(accepted, m + 1)
    BY <1>2, <1>6, PrefixAppend DEF size
  <2> QED
    BY <1>7, <2>1, <2>2, <2>3
<1>9. Encodes(stream', Scanned(match_scan_index))
  <2> DEFINE tag == <<1>>
             bits == Bits(byte, 8)
  <2>1. stream' = stream \o bits
    BY <1>4 DEF Emits, Emitted, stream
  <2>2. tag \in Seq(Bit) /\ bits \in Seq(Bit) /\ s \in Seq(Bit)
    <3>1. byte \in Int
      BY <1>4 DEF Byte
    <3> HIDE DEF byte
    <3> QED
      BY <1>5, <3>1, ByteBits DEF Bit, Encodes
  <2>3. Encodes(s \o (tag \o bits), Append(Scanned(match_scan_index - 1), byte))
    <3> HIDE DEF byte
    <3> QED
      BY <1>4, <1>5, EncodesLiteral
  <2>4. stream = s \o tag
    BY <1>5
  <2> HIDE DEF tag, bits, byte
  <2>5. (s \o tag) \o bits = s \o (tag \o bits)
    BY <2>2, Associative
  <2> QED
    BY <1>8, <2>1, <2>3, <2>4, <2>5
<1>10. Scanned(match_scan_index)' = Scanned(match_scan_index)
  BY <1>1 DEF Scanned
<1>11. TokenInvariant'
  BY <1>3, <1>9, <1>10 DEF TokenInvariant
<1>12. MatchInvariant'
  BY <1>1, <1>3 DEF MatchInvariant
<1> QED
  BY <1>2, <1>11, <1>12 DEF StreamInvariant

\* A reference on its way: bits go out, the token stays.
LEMMA OutgoingStream ==
    ASSUME EncoderInvariant, CanTakeByte, PushOutgoing, NEW s \in Seq(Bit), NEW t \in Seq(Bit),
           stream = s \o t
    PROVE  \E u \in Seq(Bit) : stream' = s \o u /\ u \o outgoing' = t \o outgoing
<1>1. PICK a, b \in Seq(Bit) : /\ Emits(a) /\ outgoing' = b /\ a \o b = outgoing
                               /\ Len(b) <= WindowBits
  BY OutgoingEmits
<1>2. stream' = stream \o a
  BY <1>1 DEF Emits, Emitted, stream
<1>3. (s \o t) \o a = s \o (t \o a) /\ (t \o a) \o b = t \o (a \o b)
  <2>1. (s \o t) \o a = s \o (t \o a)
    BY Associative
  <2>2. (t \o a) \o b = t \o (a \o b)
    BY Associative
  <2> QED
    BY <2>1, <2>2
<1>4. t \o a \in Seq(Bit)
  BY Concat
<1> DEFINE u == t \o a
<1>5. u \in Seq(Bit) /\ stream' = s \o u /\ u \o outgoing' = t \o outgoing
  BY <1>1, <1>2, <1>3, <1>4
<1> HIDE DEF u
<1> QED
  BY <1>5

LEMMA StreamBackrefIndex == EncoderInvariant /\ StreamInvariant /\ PollBackrefIndex => StreamInvariant'
<1> SUFFICES ASSUME EncoderInvariant, StreamInvariant, PollBackrefIndex PROVE StreamInvariant'
  OBVIOUS
<1>1. /\ UNCHANGED <<buffer, input_size, match_scan_index, match_length, match_pos, accepted>>
      /\ state = "YIELD_BR_INDEX" /\ CanTakeByte /\ match_pos \in Int /\ match_length \in Int
      /\ outgoing \in Seq(Bit)
  BY Sizes DEF PollBackrefIndex, EncoderInvariant, TypeOK, DataInvariant
<1>2. HistoryInvariant'
  BY <1>1, HistoryStill DEF StreamInvariant
<1>3. Scanned(match_scan_index)' = Scanned(match_scan_index)
  BY <1>1 DEF Scanned
<1>4. PICK s : \E t \in Seq(Bit) :
          /\ Encodes(s, Scanned(match_scan_index)) /\ stream = s \o t
          /\ t \o outgoing = Reference(match_pos)
  BY <1>1 DEF StreamInvariant, TokenInvariant
<1>5. PICK t \in Seq(Bit) :
          /\ Encodes(s, Scanned(match_scan_index)) /\ stream = s \o t
          /\ t \o outgoing = Reference(match_pos)
  BY <1>4
<1>6. s \in Seq(Bit)
  BY <1>5 DEF Encodes
<1>7. state' \in {"YIELD_BR_INDEX", "YIELD_BR_LENGTH"} => MatchInvariant'
  BY <1>1 DEF MatchInvariant, StreamInvariant, Agree
<1>8. CASE outgoing # <<>>
  <2>1. PushOutgoing /\ Turn("YIELD_BR_INDEX")
    BY <1>1, <1>8 DEF PollBackrefIndex
  <2>2. state' = "YIELD_BR_INDEX"
    BY <2>1, TurnEnds
  <2>3. PICK u \in Seq(Bit) : stream' = s \o u /\ u \o outgoing' = t \o outgoing
    BY <1>1, <1>5, <1>6, <2>1, OutgoingStream
  <2>4. TokenInvariant'
    <3>1. Reference(match_pos)' = Reference(match_pos)
      BY <1>1 DEF Reference
    <3> QED
      BY <1>3, <1>5, <2>2, <2>3, <3>1 DEF TokenInvariant
  <2> QED
    BY <1>2, <1>7, <2>2, <2>4 DEF StreamInvariant
<1>9. CASE outgoing = <<>>
  <2>1. /\ outgoing' = Bits(match_length - 1, LookaheadBits) /\ Turn("YIELD_BR_LENGTH")
        /\ UNCHANGED <<current, out>>
    BY <1>9 DEF PollBackrefIndex
  <2>2. state' = "YIELD_BR_LENGTH" /\ stream' = stream
    BY <2>1, TurnEnds DEF stream
  <2>3. t \o outgoing' = ReferenceTo(match_pos, match_length)
    <3> DEFINE tag == <<0>>
               g == Bits(match_pos - 1, WindowBits)
               h == Bits(match_length - 1, LookaheadBits)
    <3>1. tag \in Seq(Bit) /\ g \in Seq(Bit) /\ h \in Seq(Bit)
      BY <1>1, BitsType, Sizes DEF Bit
    <3>2. t = tag \o g
      BY <1>5, <1>9, Concat DEF Reference
    <3> HIDE DEF tag, g, h
    <3>3. (tag \o g) \o h = tag \o (g \o h)
      BY <3>1, Associative
    <3>4. t \o h = tag \o (g \o h)
      BY <3>2, <3>3
    <3> QED
      BY <2>1, <3>4 DEF ReferenceTo, tag, g, h
  <2>4. TokenInvariant'
    <3>1. ReferenceTo(match_pos, match_length)' = ReferenceTo(match_pos, match_length)
      BY <1>1 DEF ReferenceTo
    <3> QED
      BY <1>3, <1>5, <2>2, <2>3, <3>1 DEF TokenInvariant
  <2> QED
    BY <1>2, <1>7, <2>2, <2>4 DEF StreamInvariant
<1> QED
  BY <1>8, <1>9

\* The decoder copies what the encoder matched.
LEMMA MatchCopied ==
    ASSUME EncoderInvariant, StreamInvariant, match_length > 0
    PROVE  Copied(Scanned(match_scan_index), match_pos, match_length)
               = Scanned(match_scan_index + match_length)
<1> DEFINE size == Len(accepted)
           base == size - input_size
           m == base + match_scan_index
<1>1. /\ match_scan_index \in Nat /\ match_length \in Nat /\ match_pos \in Nat /\ input_size \in Nat
      /\ match_pos >= 1 /\ match_pos <= Window
      /\ match_scan_index + match_length <= input_size
  BY Sizes DEF EncoderInvariant, TypeOK, SearchInvariant
<1>2. accepted \in Seq(Byte) /\ size \in Nat /\ input_size <= size
  BY LenProperties DEF StreamInvariant, HistoryInvariant
<1>3. m \in Nat /\ m + match_length <= size
  BY <1>1, <1>2
<1>4. \A i \in 1..match_length : accepted[m + i] = At(accepted, m + i - match_pos)
  <2> TAKE i \in 1..match_length
  <2> DEFINE p == Window + match_scan_index - match_pos
             q == Window + match_scan_index
             k == i - 1
  <2>1. /\ k \in Nat /\ k < match_length /\ p + k \in Nat /\ p + k < Window + input_size
        /\ q + k \in Nat /\ q + k < Window + input_size
        /\ base - Window + (p + k) + 1 = m + i - match_pos
        /\ base - Window + (q + k) + 1 = m + i
    BY <1>1, <1>2, Sizes
  <2>2. Agree(p, q, match_length)
    BY DEF StreamInvariant, MatchInvariant
  <2> HIDE DEF p, q, k
  <2>3. buffer[p + k] = buffer[q + k]
    BY <2>1, <2>2 DEF Agree
  <2> DEFINE x == p + k
             y == q + k
  <2>4. /\ x \in Nat /\ x < Window + input_size /\ y \in Nat /\ y < Window + input_size
        /\ base - Window + x + 1 = m + i - match_pos
        /\ base - Window + y + 1 = m + i /\ buffer[x] = buffer[y]
    BY <2>1, <2>3
  <2> HIDE DEF x, y
  <2>5. buffer[x] = At(accepted, base - Window + x + 1)
    BY <2>4, BufferedByte DEF StreamInvariant, base, size
  <2>6. buffer[y] = At(accepted, base - Window + y + 1)
    BY <2>4, BufferedByte DEF StreamInvariant, base, size
  <2> HIDE DEF m, base
  <2>7. At(accepted, m + i) = accepted[m + i]
    <3>1. ~(m + i < 1)
      BY <1>3
    <3> QED
      BY <3>1 DEF At
  <2> QED
    BY <2>4, <2>5, <2>6, <2>7
<1>5. Scanned(match_scan_index) = Prefix(accepted, m)
  BY DEF Scanned
<1>6. Scanned(match_scan_index + match_length) = Prefix(accepted, m + match_length)
  <2>1. base + (match_scan_index + match_length) = m + match_length
    BY <1>1, <1>2
  <2> QED
    BY <2>1 DEF Scanned
<1> HIDE DEF m
<1>7. Copied(Prefix(accepted, m), match_pos, match_length) = Prefix(accepted, m + match_length)
  <2> DEFINE d == match_pos
             n == match_length
             s == accepted
  <2>1. /\ s \in Seq(Byte) /\ d \in Nat /\ d >= 1 /\ n \in Nat /\ m + n <= Len(s)
        /\ \A i \in 1..n : s[m + i] = At(s, m + i - d)
    BY <1>1, <1>2, <1>3, <1>4
  <2> HIDE DEF d, n, s
  <2>2. Copied(Prefix(s, m), d, n) = Prefix(s, m + n)
    BY <1>3, <2>1, CopiedFrom
  <2> QED
    BY <2>2 DEF d, n, s
<1> QED
  BY <1>5, <1>6, <1>7

\* A reference that is out is a whole token.
LEMMA ReferenceOut ==
    ASSUME EncoderInvariant, StreamInvariant, state = "YIELD_BR_LENGTH", outgoing = <<>>
    PROVE  Encodes(stream, Scanned(match_scan_index + match_length))
<1>1. /\ match_length \in Nat /\ match_length > 0 /\ match_length <= Lookahead
      /\ match_pos \in Nat /\ match_pos >= 1 /\ match_pos <= Window
  BY Sizes DEF EncoderInvariant, TypeOK, SearchInvariant
<1>2. PICK s : \E t \in Seq(Bit) :
          /\ Encodes(s, Scanned(match_scan_index)) /\ stream = s \o t
          /\ t \o outgoing = ReferenceTo(match_pos, match_length)
  BY DEF StreamInvariant, TokenInvariant
<1>3. PICK t \in Seq(Bit) :
          /\ Encodes(s, Scanned(match_scan_index)) /\ stream = s \o t
          /\ t \o outgoing = ReferenceTo(match_pos, match_length)
  BY <1>2
<1>4. stream = s \o ReferenceTo(match_pos, match_length)
  BY <1>3, Concat
<1> DEFINE p == match_pos - 1
           q == match_length - 1
<1>5. p \in Nat /\ p < Window /\ q \in Nat /\ q < Lookahead /\ p + 1 = match_pos /\ q + 1 = match_length
  BY <1>1, Sizes
<1>6. ReferenceTo(match_pos, match_length) = <<0>> \o (Bits(p, WindowBits) \o Bits(q, LookaheadBits))
  BY DEF ReferenceTo
<1> HIDE DEF p, q
<1>7. Encodes(s \o (<<0>> \o (Bits(p, WindowBits) \o Bits(q, LookaheadBits))),
              Copied(Scanned(match_scan_index), p + 1, q + 1))
  BY <1>3, <1>5, EncodesReference
<1> QED
  BY <1>1, <1>4, <1>5, <1>6, <1>7, MatchCopied

LEMMA StreamBackrefLength == EncoderInvariant /\ StreamInvariant /\ PollBackrefLength => StreamInvariant'
<1> SUFFICES ASSUME EncoderInvariant, StreamInvariant, PollBackrefLength PROVE StreamInvariant'
  OBVIOUS
<1>1. /\ UNCHANGED <<buffer, input_size, match_pos, accepted>>
      /\ state = "YIELD_BR_LENGTH" /\ CanTakeByte
  BY DEF PollBackrefLength
<1>2. HistoryInvariant'
  BY <1>1, HistoryStill DEF StreamInvariant
<1>3. CASE outgoing # <<>>
  <2>1. PushOutgoing /\ Turn("YIELD_BR_LENGTH") /\ UNCHANGED <<match_scan_index, match_length>>
    BY <1>1, <1>3 DEF PollBackrefLength
  <2>2. state' = "YIELD_BR_LENGTH"
    BY <2>1, TurnEnds
  <2>3. PICK s : \E t \in Seq(Bit) :
            /\ Encodes(s, Scanned(match_scan_index)) /\ stream = s \o t
            /\ t \o outgoing = ReferenceTo(match_pos, match_length)
    BY <1>1 DEF StreamInvariant, TokenInvariant
  <2>4. PICK t \in Seq(Bit) :
            /\ Encodes(s, Scanned(match_scan_index)) /\ stream = s \o t
            /\ t \o outgoing = ReferenceTo(match_pos, match_length)
    BY <2>3
  <2>5. PICK u \in Seq(Bit) : stream' = s \o u /\ u \o outgoing' = t \o outgoing
    <3>1. s \in Seq(Bit)
      BY <2>4 DEF Encodes
    <3> QED
      BY <1>1, <2>1, <2>4, <3>1, OutgoingStream
  <2>6. /\ Scanned(match_scan_index)' = Scanned(match_scan_index)
        /\ ReferenceTo(match_pos, match_length)' = ReferenceTo(match_pos, match_length)
    BY <1>1, <2>1 DEF Scanned, ReferenceTo
  <2>7. TokenInvariant'
    BY <2>2, <2>4, <2>5, <2>6 DEF TokenInvariant
  <2>8. MatchInvariant'
    BY <1>1, <2>1, <2>2 DEF MatchInvariant, StreamInvariant, Agree
  <2> QED
    BY <1>2, <2>7, <2>8 DEF StreamInvariant
<1>4. CASE outgoing = <<>>
  <2>1. /\ match_scan_index' = match_scan_index + match_length /\ match_length' = 0
        /\ Turn("SEARCH") /\ UNCHANGED <<current, out>>
    BY <1>4 DEF PollBackrefLength
  <2>2. state' = "SEARCH" /\ stream' = stream
    BY <2>1, TurnEnds DEF stream
  <2>3. Encodes(stream, Scanned(match_scan_index + match_length))
    BY <1>1, <1>4, ReferenceOut
  <2>4. Scanned(match_scan_index)' = Scanned(match_scan_index + match_length)
    BY <1>1, <2>1 DEF Scanned
  <2>5. TokenInvariant'
    BY <2>2, <2>3, <2>4 DEF TokenInvariant
  <2>6. MatchInvariant'
    BY <2>1, <2>2 DEF MatchInvariant
  <2> QED
    BY <1>2, <2>5, <2>6 DEF StreamInvariant
<1> QED
  BY <1>3, <1>4

LEMMA StreamSaveBacklog == EncoderInvariant /\ StreamInvariant /\ PollSaveBacklog => StreamInvariant'
<1> SUFFICES ASSUME EncoderInvariant, StreamInvariant, PollSaveBacklog PROVE StreamInvariant'
  OBVIOUS
<1> DEFINE msi == match_scan_index
           size == Len(accepted)
<1>1. /\ state = "SAVE_BACKLOG" /\ match_scan_index' = 0 /\ input_size' = input_size - msi
      /\ buffer' = [i \in DOMAIN buffer |->
                       IF i + msi \in DOMAIN buffer THEN buffer[i + msi] ELSE buffer[i]]
      /\ UNCHANGED <<match_length, match_pos, outgoing, current, out, accepted>>
      /\ Turn("NOT_FULL")
  BY DEF PollSaveBacklog, BacklogShift
<1>2. /\ msi \in Nat /\ input_size \in Nat /\ msi <= input_size /\ input_size <= Window
      /\ match_length = 0 /\ DOMAIN buffer = 0..(2 * Window - 1)
  BY <1>1, Sizes DEF EncoderInvariant, TypeOK, SearchInvariant
<1>3. accepted \in Seq(Byte) /\ size \in Nat /\ input_size <= size
  BY LenProperties DEF StreamInvariant, HistoryInvariant
<1>4. state' = "NOT_FULL" /\ stream' = stream
  BY <1>1, TurnEnds DEF stream
<1>5. HistoryInvariant'
  <2>1. accepted' \in Seq(Byte) /\ input_size' <= Len(accepted')
    BY <1>1, <1>2, <1>3
  <2>2. ASSUME NEW j \in 0..(Window + input_size' - 1)
        PROVE  buffer'[j] = At(accepted', Len(accepted') - input_size' - Window + j + 1)
    <3> DEFINE i == j + msi
    <3>1. /\ i \in Nat /\ i < Window + input_size /\ i \in DOMAIN buffer /\ j \in DOMAIN buffer
          /\ size - input_size' - Window + j + 1 = size - input_size - Window + i + 1
      BY <1>1, <1>2, <1>3, Sizes
    <3>2. buffer'[j] = buffer[i]
      BY <1>1, <3>1
    <3> HIDE DEF i
    <3>3. buffer[i] = At(accepted, size - input_size - Window + i + 1)
      BY <3>1, BufferedByte DEF StreamInvariant
    <3> QED
      BY <1>1, <3>1, <3>2, <3>3
  <2> QED
    BY <2>1, <2>2 DEF HistoryInvariant
<1>6. Scanned(match_scan_index)' = Scanned(match_scan_index)
  <2>1. size - input_size' + match_scan_index' = size - input_size + match_scan_index
    BY <1>1, <1>2, <1>3
  <2> QED
    BY <1>1, <2>1 DEF Scanned
<1>7. TokenInvariant'
  BY <1>1, <1>4, <1>6 DEF TokenInvariant, StreamInvariant
<1>8. MatchInvariant'
  BY <1>1, <1>2, <1>4 DEF MatchInvariant
<1> QED
  BY <1>5, <1>7, <1>8 DEF StreamInvariant

LEMMA StreamFlush == EncoderInvariant /\ StreamInvariant /\ PollFlush => StreamInvariant'
<1> SUFFICES ASSUME EncoderInvariant, StreamInvariant, PollFlush PROVE StreamInvariant'
  OBVIOUS
<1>1. /\ state = "FLUSH_BITS"
      /\ UNCHANGED <<buffer, input_size, match_scan_index, match_length, match_pos,
                     outgoing, current, accepted>>
  BY DEF PollFlush
<1>2. /\ current \in Seq(Bit) /\ out \in Seq(Bit) /\ Len(current) <= 7
      /\ match_scan_index = input_size /\ input_size \in Nat
  BY <1>1, Sizes DEF EncoderInvariant, TypeOK, DataInvariant, StreamInvariant, MatchInvariant
<1>3. HistoryInvariant' /\ accepted \in Seq(Byte) /\ Len(accepted) \in Nat
  BY <1>1, HistoryStill, LenProperties DEF StreamInvariant, HistoryInvariant
<1>4. Encodes(stream, accepted)
  <2>1. Encodes(stream, Scanned(match_scan_index))
    BY <1>1 DEF StreamInvariant, TokenInvariant
  <2>2. Scanned(match_scan_index) = Prefix(accepted, Len(accepted))
    <3>1. Len(accepted) - input_size + match_scan_index = Len(accepted)
      BY <1>2, <1>3
    <3> QED
      BY <3>1 DEF Scanned
  <2>3. Prefix(accepted, Len(accepted)) = accepted
    BY <1>3, PrefixElements, SeqEqual
  <2> QED
    BY <2>1, <2>2, <2>3
<1>5. MatchInvariant'
  BY <1>1, <1>2 DEF MatchInvariant, StreamInvariant, Agree
<1>6. TokenInvariant'
  <2>1. CASE current = <<>>
    <3>1. state' = "DONE" /\ out' = out
      BY <2>1 DEF PollFlush
    <3>2. stream = out \o <<>> /\ <<>> \in Seq(Bit) /\ Len(<<>>) < 8
      BY <2>1 DEF stream
    <3>3. stream = out
      BY <1>2, <2>1, Concat DEF stream
    <3>4. \E s : \E t \in Seq(Bit) : Encodes(s, accepted) /\ out = s \o t /\ Len(t) < 8
      <4> DEFINE e == <<>>
      <4>1. e \in Seq(Bit) /\ Len(e) < 8 /\ out = out \o e
        BY <1>2, Concat
      <4> HIDE DEF e
      <4> QED
        BY <1>4, <3>3, <4>1
    <3> QED
      BY <1>1, <3>1, <3>4 DEF TokenInvariant
  <2>2. CASE current # <<>> /\ CanTakeByte
    <3> DEFINE n == 8 - Len(current)
               t == [i \in 1..n |-> 0]
    <3>1. state' = "DONE" /\ out' = stream \o t
      BY <2>2 DEF PollFlush, stream
    <3>2. n \in Nat /\ n < 8
      BY <1>2, <2>2, LenProperties
    <3>3. t \in Seq(Bit) /\ Len(t) < 8
      <4> HIDE DEF n
      <4>1. t \in [1..n -> Bit]
        BY <3>2 DEF Bit
      <4> QED
        BY <3>2, <4>1
    <3> HIDE DEF t
    <3>4. \E s : \E z \in Seq(Bit) : Encodes(s, accepted) /\ out' = s \o z /\ Len(z) < 8
      BY <1>4, <3>1, <3>3
    <3> QED
      BY <1>1, <3>1, <3>4 DEF TokenInvariant
  <2>3. CASE current # <<>> /\ ~CanTakeByte
    <3>1. state' = state /\ out' = out /\ stream' = stream
      BY <1>1, <2>3 DEF PollFlush, stream
    <3>2. Scanned(match_scan_index)' = Scanned(match_scan_index)
      BY <1>1 DEF Scanned
    <3>3. Encodes(stream, Scanned(match_scan_index))
      BY <1>1 DEF StreamInvariant, TokenInvariant
    <3> QED
      BY <1>1, <3>1, <3>2, <3>3 DEF TokenInvariant
  <2> QED
    BY <2>1, <2>2, <2>3
<1> QED
  BY <1>3, <1>5, <1>6 DEF StreamInvariant

LEMMA StreamTurn == EncoderInvariant /\ StreamInvariant /\ PollTurn => StreamInvariant'
<1> SUFFICES ASSUME EncoderInvariant, StreamInvariant, PollTurn PROVE StreamInvariant'
  OBVIOUS
<1>1. ASSUME PollEmpty \/ PollFilled \/ OutputFull PROVE StreamInvariant'
  <2>1. /\ UNCHANGED <<accepted, input_size, buffer, out, current, outgoing,
                       match_scan_index, match_length, match_pos>>
        /\ state' = state \/ (state = "FILLED" /\ state' = "SEARCH")
    BY <1>1, TurnEnds DEF PollEmpty, PollFilled, OutputFull
  <2> QED
    BY <2>1, StreamStill
<1> QED
  BY <1>1, StreamSearch, StreamTagBit, StreamLiteral, StreamBackrefIndex, StreamBackrefLength,
     StreamSaveBacklog, StreamFlush DEF PollTurn

\* What the invariant means for a decoder.
LEMMA DoneDecodes ==
    ASSUME StreamInvariant, state = "DONE"
    PROVE  Decode(out) = accepted
<1>1. PICK s : \E t \in Seq(Bit) : Encodes(s, accepted) /\ out = s \o t /\ Len(t) < 8
  BY DEF StreamInvariant, TokenInvariant
<1>2. PICK t \in Seq(Bit) : Encodes(s, accepted) /\ out = s \o t /\ Len(t) < 8
  BY <1>1
<1>3. ~Whole(s \o t, Len(s))
  BY <1>2, NotWhole DEF Encodes
<1> QED
  BY <1>2, <1>3, DecodeReads

\* Whole tokens for some of the bytes scanned, and a part of the next token.
Partial(m) ==
    \E s : \E t \in Seq(Bit) : Encodes(s, Scanned(m)) /\ stream = s \o t /\ ~Whole(s \o t, Len(s))

\* t is a back-reference's tag and bits, up to those that wait in outgoing.
Unfinished(t, rest) ==
    /\ t \o outgoing = <<0>> \o rest
    /\ rest \in Seq(Bit)
    /\ Len(outgoing) <= Len(rest)
    /\ Len(rest) <= WindowBits + LookaheadBits
    /\ outgoing # <<>> \/ Len(rest) < WindowBits + LookaheadBits

LEMMA PartialReference ==
    ASSUME NEW s \in Seq(Bit), NEW t \in Seq(Bit), outgoing \in Seq(Bit),
           NEW rest, Unfinished(t, rest)
    PROVE  ~Whole(s \o t, Len(s))
<1>0. /\ t \o outgoing = <<0>> \o rest /\ rest \in Seq(Bit)
      /\ Len(outgoing) <= Len(rest)
      /\ Len(rest) <= WindowBits + LookaheadBits
      /\ outgoing # <<>> \/ Len(rest) < WindowBits + LookaheadBits
  BY DEF Unfinished
<1> DEFINE tag == <<0>>
           all == t \o outgoing
<1>1. tag \in Seq(Bit) /\ Len(tag) = 1 /\ tag[1] = 0
  BY DEF Bit
<1>2. /\ all \in Seq(Bit) /\ Len(all) = Len(t) + Len(outgoing) /\ Len(t) \in Nat
      /\ Len(outgoing) \in Nat /\ Len(rest) \in Nat
      /\ \A i \in 1..(Len(t) + Len(outgoing)) : all[i] = IF i <= Len(t) THEN t[i] ELSE outgoing[i - Len(t)]
  BY <1>0, Concat, ConcatProperties
<1>3. all = tag \o rest
  BY <1>0
<1> HIDE DEF tag, all
<1>4. Len(all) = 1 + Len(rest) /\ all[1] = 0
  <2>1. /\ Len(tag \o rest) = Len(tag) + Len(rest)
        /\ \A i \in 1..(Len(tag) + Len(rest)) : (tag \o rest)[i] = IF i <= Len(tag) THEN tag[i] ELSE rest[i - Len(tag)]
    BY <1>0, <1>1, ConcatProperties
  <2>2. 1 \in 1..(Len(tag) + Len(rest)) /\ 1 <= Len(tag)
    BY <1>1, <1>2
  <2> QED
    BY <1>1, <1>2, <1>3, <2>1, <2>2
<1>5. Len(t) >= 1
  BY <1>0, <1>2, <1>4
<1>6. t[1] = 0
  <2>1. 1 \in 1..(Len(t) + Len(outgoing)) /\ 1 <= Len(t)
    BY <1>2, <1>5
  <2> QED
    BY <1>2, <1>4, <2>1
<1>7. Len(t) < 1 + WindowBits + LookaheadBits
  <2>1. outgoing # <<>> => Len(outgoing) >= 1
    BY <1>2
  <2> QED
    BY <1>0, <1>2, <1>4, <2>1, Sizes
<1> QED
  BY <1>5, <1>6, <1>7, NotWhole

LEMMA StreamPartial ==
    ASSUME EncoderInvariant, StreamInvariant, state # "DONE"
    PROVE  \E m \in 0..input_size : Partial(m)
<1> DEFINE msi == match_scan_index
           e == <<>>
<1>1. /\ msi \in Nat /\ input_size \in Nat /\ msi <= input_size /\ input_size <= Window
      /\ match_length \in Nat /\ match_pos \in Int /\ outgoing \in Seq(Bit) /\ state \in States
      /\ Len(outgoing) <= WindowBits
  BY Sizes DEF EncoderInvariant, TypeOK, DataInvariant
<1>0. msi \in 0..input_size
  BY <1>1
<1>2. e \in Seq(Bit)
  OBVIOUS
<1> HIDE DEF e
<1>3. ASSUME NEW m \in 0..input_size, Encodes(stream, Scanned(m)) PROVE Partial(m)
  <2>1. stream \in Seq(Bit)
    BY <1>3 DEF Encodes
  <2>2. stream \o e = stream
    BY <2>1, Concat DEF e
  <2>3. ~Whole(stream \o e, Len(stream))
    BY <2>1, NoneMore DEF e
  <2> QED
    BY <1>2, <1>3, <2>2, <2>3 DEF Partial
<1>4. CASE state \in {"NOT_FULL", "FILLED", "SEARCH", "SAVE_BACKLOG", "FLUSH_BITS"}
  <2>1. Encodes(stream, Scanned(msi)) /\ msi \in 0..input_size
    BY <1>1, <1>4 DEF StreamInvariant, TokenInvariant
  <2> QED
    BY <1>3, <2>1
<1>5. CASE state = "YIELD_TAG_BIT"
  <2> DEFINE m == IF match_length = 0 THEN msi - 1 ELSE msi
  <2>1. m \in 0..input_size
    BY <1>1, <1>5 DEF EncoderInvariant, SearchInvariant
  <2>2. Encodes(stream, Scanned(m))
    BY <1>5 DEF StreamInvariant, TokenInvariant
  <2> QED
    BY <1>3, <2>1, <2>2
<1>6. CASE state = "YIELD_LITERAL"
  <2> DEFINE m == msi - 1
             t == <<1>>
  <2>1. m \in 0..input_size
    BY <1>1, <1>6 DEF EncoderInvariant, SearchInvariant
  <2>2. PICK s : Encodes(s, Scanned(m)) /\ stream = s \o t
    BY <1>6 DEF StreamInvariant, TokenInvariant
  <2>3. t \in Seq(Bit) /\ Len(t) < 8
    BY DEF Bit
  <2> HIDE DEF t, m
  <2>4. ~Whole(s \o t, Len(s))
    BY <2>2, <2>3, NotWhole DEF Encodes
  <2>5. Partial(m)
    BY <2>2, <2>3, <2>4 DEF Partial
  <2> QED
    BY <2>1, <2>5
<1>7. CASE state = "YIELD_BR_INDEX"
  <2>1. PICK s : \E t \in Seq(Bit) : /\ Encodes(s, Scanned(msi)) /\ stream = s \o t
                                     /\ t \o outgoing = Reference(match_pos)
    BY <1>7 DEF StreamInvariant, TokenInvariant
  <2>2. PICK t \in Seq(Bit) : /\ Encodes(s, Scanned(msi)) /\ stream = s \o t
                              /\ t \o outgoing = Reference(match_pos)
    BY <2>1
  <2> DEFINE g == Bits(match_pos - 1, WindowBits)
  <2>3. g \in Seq(Bit) /\ Len(g) = WindowBits
    BY <1>1, BitsType, Sizes
  <2>4. t \o outgoing = <<0>> \o g
    BY <2>2 DEF Reference
  <2> HIDE DEF g
  <2>5. Unfinished(t, g)
    BY <1>1, <2>3, <2>4, Sizes DEF Unfinished
  <2>6. s \in Seq(Bit)
    BY <2>2 DEF Encodes
  <2>7. ~Whole(s \o t, Len(s))
    BY <1>1, <2>2, <2>5, <2>6, PartialReference
  <2>8. Partial(msi)
    BY <2>2, <2>7 DEF Partial
  <2> QED
    BY <1>0, <2>8
<1>8. CASE state = "YIELD_BR_LENGTH" /\ outgoing = <<>>
  <2>1. Encodes(stream, Scanned(msi + match_length))
    BY <1>8, ReferenceOut
  <2>2. msi + match_length \in 0..input_size
    BY <1>1, <1>8 DEF EncoderInvariant, SearchInvariant
  <2> QED
    BY <1>3, <2>1, <2>2
<1>9. CASE state = "YIELD_BR_LENGTH" /\ outgoing # <<>>
  <2>1. PICK s : \E t \in Seq(Bit) : /\ Encodes(s, Scanned(msi)) /\ stream = s \o t
                                     /\ t \o outgoing = ReferenceTo(match_pos, match_length)
    BY <1>9 DEF StreamInvariant, TokenInvariant
  <2>2. PICK t \in Seq(Bit) : /\ Encodes(s, Scanned(msi)) /\ stream = s \o t
                              /\ t \o outgoing = ReferenceTo(match_pos, match_length)
    BY <2>1
  <2> DEFINE g == Bits(match_pos - 1, WindowBits)
             h == Bits(match_length - 1, LookaheadBits)
             x == g \o h
  <2>3. g \in Seq(Bit) /\ Len(g) = WindowBits /\ h \in Seq(Bit) /\ Len(h) = LookaheadBits
    BY <1>1, BitsType, Sizes
  <2>4. t \o outgoing = <<0>> \o x
    BY <2>2 DEF ReferenceTo
  <2> HIDE DEF g, h
  <2>5. x \in Seq(Bit) /\ Len(x) = WindowBits + LookaheadBits
    BY <2>3, Concat
  <2> HIDE DEF x
  <2>6. Unfinished(t, x)
    BY <1>1, <1>9, <2>4, <2>5, Sizes DEF Unfinished
  <2>7. s \in Seq(Bit)
    BY <2>2 DEF Encodes
  <2>8. ~Whole(s \o t, Len(s))
    BY <1>1, <2>2, <2>6, <2>7, PartialReference
  <2>9. Partial(msi)
    BY <2>2, <2>8 DEF Partial
  <2> QED
    BY <1>0, <2>9
<1> QED
  BY <1>1, <1>4, <1>5, <1>6, <1>7, <1>8, <1>9 DEF States

LEMMA StreamDecodes == ASSUME EncoderInvariant, StreamInvariant PROVE OutputDecodes
<1>1. accepted \in Seq(Byte) /\ Len(accepted) \in Nat /\ input_size \in Nat /\ input_size <= Len(accepted)
  BY LenProperties, Sizes DEF StreamInvariant, HistoryInvariant, EncoderInvariant, TypeOK
<1>2. CASE state = "DONE"
  <2>1. Decode(out) = accepted
    BY <1>2, DoneDecodes
  <2>2. IsPrefix(accepted, accepted)
    BY <1>1, WholePrefix
  <2> QED
    BY <1>2, <2>1, <2>2 DEF OutputDecodes
<1>3. CASE state # "DONE"
  <2>1. PICK m \in 0..input_size : Partial(m)
    BY <1>3, StreamPartial
  <2>2. PICK s : \E t \in Seq(Bit) : Encodes(s, Scanned(m)) /\ stream = s \o t /\ ~Whole(s \o t, Len(s))
    BY <2>1 DEF Partial
  <2>3. PICK t \in Seq(Bit) : Encodes(s, Scanned(m)) /\ stream = s \o t /\ ~Whole(s \o t, Len(s))
    BY <2>2
  <2> DEFINE l == Len(accepted) - input_size + m
  <2>4. l \in Nat /\ l <= Len(accepted)
    BY <1>1
  <2>5. Encodes(s, Prefix(accepted, l))
    BY <2>3 DEF Scanned
  <2> HIDE DEF l
  <2>6. IsPrefix(Decode(s \o t), accepted)
    BY <1>1, <2>3, <2>4, <2>5, DecodesToPrefix
  <2> QED
    BY <1>3, <2>3, <2>6 DEF OutputDecodes, stream
<1> QED
  BY <1>2, <1>3

-----------------------------------------------------------------------------
(* The encoding is the greedy one.                                         *)

\* The position of the scan in all that was accepted.
ScanPosition == Len(accepted) - input_size + match_scan_index

\* What the buffer repeats is what the data repeats.
LEMMA AgreeRepeats ==
    ASSUME EncoderInvariant, HistoryInvariant, NEW d \in 1..Window, NEW k \in Nat,
           match_scan_index + k <= input_size
    PROVE  Agree((Window + match_scan_index) - d, Window + match_scan_index, k)
               <=> Repeats(accepted, ScanPosition, d, k)
<1> DEFINE msi == match_scan_index
           size == Len(accepted)
           end == Window + msi
           p == ScanPosition
<1>1. /\ msi \in Nat /\ input_size \in Nat /\ size \in Nat /\ input_size <= size
      /\ accepted \in Seq(Byte)
  BY LenProperties DEF EncoderInvariant, TypeOK, HistoryInvariant
<1>2. p = size - input_size + msi /\ p \in Nat
  BY <1>1 DEF ScanPosition
<1>3. ASSUME NEW i \in Nat, i < k
      PROVE  buffer[(end - d) + i] = At(accepted, p + (i + 1) - d)
             /\ buffer[end + i] = accepted[p + (i + 1)]
  <2> DEFINE a == (end - d) + i
             b == end + i
             q == p + (i + 1)
  <2>1. /\ a \in Nat /\ a < Window + input_size /\ size - input_size - Window + a + 1 = q - d
        /\ b \in Nat /\ b < Window + input_size /\ size - input_size - Window + b + 1 = q
        /\ p + (i + 1) - d = q - d /\ q \in Nat /\ ~(q < 1)
    BY <1>1, <1>2, <1>3, Sizes
  <2> HIDE DEF a, b, q, p
  <2>2. /\ buffer[a] = At(accepted, size - input_size - Window + a + 1)
        /\ buffer[b] = At(accepted, size - input_size - Window + b + 1)
    BY <2>1, BufferedByte
  <2>3. buffer[a] = At(accepted, q - d) /\ buffer[b] = accepted[q]
    BY <2>1, <2>2 DEF At
  <2> QED
    BY <2>1, <2>3 DEF a, b, q
<1> HIDE DEF p, end
<1>4. ASSUME Agree(end - d, end, k), NEW j \in 1..k
      PROVE  At(accepted, p + j - d) = accepted[p + j]
  <2> DEFINE i == j - 1
  <2>1. i \in Nat /\ i < k /\ i + 1 = j
    OBVIOUS
  <2> HIDE DEF i
  <2>2. buffer[(end - d) + i] = buffer[end + i]
    BY <1>4, <2>1 DEF Agree
  <2>3. buffer[(end - d) + i] = At(accepted, p + (i + 1) - d) /\ buffer[end + i] = accepted[p + (i + 1)]
    BY <1>3, <2>1
  <2> QED
    BY <2>1, <2>2, <2>3
<1>5. ASSUME Repeats(accepted, p, d, k), NEW i \in Nat, i < k
      PROVE  buffer[(end - d) + i] = buffer[end + i]
  <2> DEFINE j == i + 1
  <2>1. j \in 1..k
    BY <1>5
  <2>2. buffer[(end - d) + i] = At(accepted, p + j - d) /\ buffer[end + i] = accepted[p + j]
    BY <1>3, <1>5
  <2> HIDE DEF j
  <2>3. At(accepted, p + j - d) = accepted[p + j]
    BY <1>5, <2>1 DEF Repeats
  <2> QED
    BY <2>2, <2>3
<1> QED
  BY <1>4, <1>5 DEF Agree, Repeats, p, end

\* The best match of the search is that of the greedy encoding.
LEMMA BestIsGreedy ==
    ASSUME EncoderInvariant, HistoryInvariant, match_scan_index < input_size,
           NEW length, NEW distance, BestMatch(length, distance)
    PROVE  /\ Ahead(accepted, ScanPosition) \in Nat
           /\ GreedyMatch(accepted, ScanPosition, length, distance)
<1> DEFINE msi == match_scan_index
           size == Len(accepted)
           end == Window + msi
           p == ScanPosition
           possible == Min({Lookahead, input_size - msi})
<1>1. /\ msi \in Nat /\ input_size \in Nat /\ size \in Nat /\ input_size <= size
      /\ p = size - input_size + msi /\ size - p = input_size - msi
  BY LenProperties DEF EncoderInvariant, TypeOK, HistoryInvariant, ScanPosition
<1>2. Ahead(accepted, p) = possible
  BY <1>1 DEF Ahead
<1>3. possible \in Nat /\ possible <= input_size - msi
  BY <1>1, Sizes, MinOfTwo
<1>4. /\ length \in Nat /\ length <= possible
      /\ length > 0 => distance \in 1..Window /\ Agree(end - distance, end, length)
                       /\ NoneAfter(end - distance, msi, end, length)
      /\ length # possible => NoneAfter(msi - 1, msi, end, length + 1)
  BY DEF BestMatch
<1> HIDE DEF possible, end, p
<1>5. \A d \in 1..Window : \A k \in Nat : k <= possible => (Agree(end - d, end, k) <=> Repeats(accepted, p, d, k))
  <2> TAKE d \in 1..Window
  <2> SUFFICES ASSUME NEW k \in Nat, k <= possible
               PROVE  Agree(end - d, end, k) <=> Repeats(accepted, p, d, k)
    OBVIOUS
  <2>1. msi + k <= input_size
    BY <1>1, <1>3
  <2> QED
    BY <2>1, AgreeRepeats DEF end, p
<1>6. \A d \in 1..Window : end - d \in msi..(end - 1)
  BY <1>1, Sizes DEF end
<1>7. ASSUME length > 0
      PROVE  /\ distance \in 1..Window /\ Repeats(accepted, p, distance, length)
             /\ \A d \in 1..Window : d < distance => ~Repeats(accepted, p, d, length)
  <2>1. distance \in 1..Window /\ Repeats(accepted, p, distance, length)
    BY <1>4, <1>5, <1>7
  <2>2. ASSUME NEW d \in 1..Window, d < distance PROVE ~Repeats(accepted, p, d, length)
    <3> DEFINE q == end - d
    <3>1. q \in msi..(end - 1) /\ end - distance < q
      BY <1>1, <1>6, <2>1, <2>2, Sizes DEF end
    <3> HIDE DEF q
    <3>2. ~Agree(q, end, length)
      BY <1>4, <1>7, <3>1 DEF NoneAfter
    <3> QED
      BY <1>4, <1>5, <3>2 DEF q
  <2> QED
    BY <2>1, <2>2
<1>8. ASSUME length # possible, NEW d \in 1..Window PROVE ~Repeats(accepted, p, d, length + 1)
  <2> DEFINE q == end - d
             l == length + 1
  <2>1. q \in msi..(end - 1) /\ l \in Nat /\ l <= possible
    BY <1>3, <1>4, <1>6, <1>8
  <2>2. NoneAfter(msi - 1, msi, end, l)
    BY <1>4, <1>8
  <2>3. msi - 1 < q
    BY <1>1, <2>1
  <2> HIDE DEF q, l
  <2>4. ~Agree(q, end, l)
    BY <2>1, <2>2, <2>3 DEF NoneAfter
  <2>5. ~Repeats(accepted, p, d, l)
    BY <1>5, <2>1, <2>4 DEF q
  <2> QED
    BY <2>5 DEF l
<1>9. GreedyMatch(accepted, p, length, distance)
  BY <1>2, <1>4, <1>7, <1>8 DEF GreedyMatch
<1> QED
  BY <1>2, <1>3, <1>9 DEF p

\* The bits of the token chosen that are still to be emitted.
LiteralBits == Bits(buffer[Window + match_scan_index - 1], 8)
Pending ==
    IF state = "YIELD_TAG_BIT"
    THEN IF match_length = 0 THEN <<1>> \o LiteralBits ELSE ReferenceTo(match_pos, match_length)
    ELSE IF state = "YIELD_LITERAL" THEN LiteralBits
    ELSE IF state = "YIELD_BR_INDEX" THEN outgoing \o Bits(match_length - 1, LookaheadBits)
    ELSE IF state = "YIELD_BR_LENGTH" THEN outgoing
    ELSE <<>>

\* With them the stream is the greedy encoding up to the end of that token, which
\* no byte still to come can change.
GreedyInvariant ==
    /\ state # "DONE" =>
           GreedyTo(accepted, Reserve, stream \o Pending, ScanPosition + match_length)
    /\ state = "DONE" =>
           \E s : \E t \in Seq(Bit) :
               GreedyTo(accepted, Reserve, s, Len(accepted)) /\ out = s \o t /\ Len(t) < 8

LEMMA InitGreedy == Init => GreedyInvariant
<1> SUFFICES ASSUME Init PROVE GreedyInvariant
  OBVIOUS
<1>1. /\ accepted = <<>> /\ input_size = 0 /\ match_scan_index = 0 /\ match_length = 0
      /\ state = "NOT_FULL" /\ out = <<>> /\ current = <<>>
  BY DEF Init, EncoderInit
<1>2. stream \o Pending = <<>>
  BY <1>1 DEF stream, Pending
<1>3. ScanPosition + match_length = 0
  BY <1>1 DEF ScanPosition
<1> QED
  BY <1>1, <1>2, <1>3, GreedyNothing DEF GreedyInvariant

\* Most turns emit some of the bits that are pending.
LEMMA GreedyKept ==
    ASSUME GreedyInvariant, state # "DONE", state' # "DONE", UNCHANGED <<accepted, flags>>,
           ScanPosition' + match_length' = ScanPosition + match_length,
           stream' \o Pending' = stream \o Pending
    PROVE  GreedyInvariant'
<1>1. Reserve' = Reserve
  BY DEF Reserve, IsFinishing
<1>2. GreedyTo(accepted, Reserve, stream \o Pending, ScanPosition + match_length)
  BY DEF GreedyInvariant
<1> QED
  BY <1>1, <1>2 DEF GreedyInvariant

LEMMA GreedyStill ==
    ASSUME GreedyInvariant,
           UNCHANGED <<accepted, flags, input_size, buffer, out, current, outgoing,
                       match_scan_index, match_length, match_pos>>,
           \/ state' = state
           \/ state = "NOT_FULL" /\ state' = "FILLED"
           \/ state = "FILLED" /\ state' = "SEARCH"
    PROVE  GreedyInvariant'
<1>1. CASE state = "DONE"
  BY <1>1 DEF GreedyInvariant, Reserve, IsFinishing
<1>2. CASE state # "DONE"
  <2>1. Pending' = Pending
    BY DEF Pending, LiteralBits, ReferenceTo
  <2>2. stream' = stream /\ ScanPosition' = ScanPosition
    BY DEF stream, ScanPosition
  <2> QED
    BY <1>2, <2>1, <2>2, GreedyKept
<1> QED
  BY <1>1, <1>2

\* When no more will come, tokens may use less than the lookahead.
LEMMA GreedyFinish ==
    ASSUME HistoryInvariant, GreedyInvariant, Finish
    PROVE  GreedyInvariant'
<1>1. /\ UNCHANGED <<accepted, input_size, buffer, out, current, outgoing,
                     match_scan_index, match_length, match_pos>>
      /\ state' = state \/ (state = "NOT_FULL" /\ state' = "FILLED")
      /\ Reserve' = 1
  BY DEF Finish, Reserve, IsFinishing
<1>2. Len(accepted) \in Nat /\ Reserve \in Nat /\ 1 <= Reserve
  BY LenProperties, Sizes DEF HistoryInvariant, Reserve
<1>3. \A bits, p : GreedyTo(accepted, Reserve, bits, p) => GreedyTo(accepted, 1, bits, p)
  BY <1>2, GreedyRelax
<1>4. Pending' = Pending /\ stream' = stream /\ ScanPosition' = ScanPosition
  BY <1>1 DEF Pending, LiteralBits, ReferenceTo, stream, ScanPosition
<1> QED
  BY <1>1, <1>3, <1>4 DEF GreedyInvariant

\* What a sink adds.
LEMMA SunkGrows ==
    ASSUME EncoderInvariant, HistoryInvariant, NEW bytes \in Seq(Byte), Sink(bytes),
           ~IsFinishing, state = "NOT_FULL"
    PROVE  \E n \in Nat :
               /\ input_size' = input_size + n
               /\ accepted' \in Seq(Byte) /\ Len(accepted') = Len(accepted) + n
               /\ \A i \in 1..Len(accepted) : accepted'[i] = accepted[i]
<1> DEFINE n == Min({Window - input_size, Len(bytes)})
           sunk == Prefix(bytes, n)
<1>1. input_size' = input_size + n /\ accepted' = accepted \o sunk
  BY DEF Sink, Prefix
<1>2. n \in Nat /\ n <= Len(bytes)
  BY Sizes, MinOfTwo, LenProperties DEF EncoderInvariant, TypeOK
<1> HIDE DEF n
<1>3. sunk \in Seq(Byte) /\ Len(sunk) = n
  BY <1>2, PrefixElements
<1> HIDE DEF sunk
<1>4. Appended(accepted, sunk)
  BY <1>3, AppendedBytes DEF HistoryInvariant
<1> QED
  BY <1>1, <1>2, <1>3, <1>4 DEF Appended

LEMMA GreedySink ==
    ASSUME EncoderInvariant, HistoryInvariant, GreedyInvariant, NEW bytes \in Seq(Byte), Sink(bytes)
    PROVE  GreedyInvariant'
<1>1. CASE IsFinishing \/ state # "NOT_FULL"
  <2>1. UNCHANGED <<accepted, flags, input_size, buffer, out, current, outgoing,
                    match_scan_index, match_length, match_pos, state>>
    BY <1>1 DEF Sink
  <2> QED
    BY <2>1, GreedyStill
<1>2. CASE ~IsFinishing /\ state = "NOT_FULL"
  <2>1. /\ UNCHANGED <<match_scan_index, match_length, out, current, flags>>
        /\ state' \in {"NOT_FULL", "FILLED"}
    BY <1>2 DEF Sink
  <2>2. PICK n \in Nat :
            /\ input_size' = input_size + n
            /\ accepted' \in Seq(Byte) /\ Len(accepted') = Len(accepted) + n
            /\ \A i \in 1..Len(accepted) : accepted'[i] = accepted[i]
    BY <1>2, SunkGrows
  <2>3. /\ accepted \in Seq(Byte) /\ Len(accepted) \in Nat /\ input_size \in Nat
        /\ match_scan_index \in Nat
    BY LenProperties DEF HistoryInvariant, EncoderInvariant, TypeOK
  <2>4. ScanPosition' = ScanPosition
    BY <2>1, <2>2, <2>3 DEF ScanPosition
  <2>5. Reserve = Lookahead /\ Reserve' = Lookahead /\ stream' = stream
        /\ Pending = <<>> /\ Pending' = <<>>
    BY <1>2, <2>1 DEF Reserve, IsFinishing, Pending, stream
  <2>6. GreedyTo(accepted, Lookahead, stream \o <<>>, ScanPosition + match_length)
    BY <1>2, <2>5 DEF GreedyInvariant
  <2>7. GreedyTo(accepted', Lookahead, stream \o <<>>, ScanPosition + match_length)
    <3> DEFINE b == stream \o <<>>
               p == ScanPosition + match_length
               s == accepted
               t == accepted'
    <3>1. /\ s \in Seq(Byte) /\ t \in Seq(Byte) /\ Len(s) <= Len(t)
          /\ \A i \in 1..Len(s) : t[i] = s[i]
          /\ GreedyTo(s, Lookahead, b, p)
      BY <2>2, <2>3, <2>6
    <3> HIDE DEF b, p, s, t
    <3>2. GreedyTo(t, Lookahead, b, p)
      BY <3>1, GreedyExtends
    <3> QED
      BY <3>2 DEF b, p, t
  <2> QED
    BY <2>1, <2>4, <2>5, <2>7 DEF GreedyInvariant
<1> QED
  BY <1>1, <1>2

\* The token the search chooses is the next of the greedy encoding.
LEMMA GreedySearch ==
    ASSUME EncoderInvariant, HistoryInvariant, GreedyInvariant, PollSearch PROVE GreedyInvariant'
<1> DEFINE msi == match_scan_index
           p == ScanPosition
<1>1. /\ UNCHANGED <<buffer, input_size, outgoing, current, out, accepted, flags>>
      /\ state = "SEARCH" /\ match_length = 0
      /\ msi \in Nat /\ input_size \in Nat
  BY DEF PollSearch, EncoderInvariant, SearchInvariant, Searching, TypeOK
<1>2. Len(accepted) \in Nat /\ p \in Int /\ p = Len(accepted) - input_size + msi
  BY <1>1, LenProperties DEF HistoryInvariant, ScanPosition
<1>3. stream' = stream /\ stream \in Seq(Bit) /\ stream \o <<>> = stream /\ Reserve' = Reserve
  BY <1>1, Concat DEF stream, EncoderInvariant, DataInvariant, Reserve, IsFinishing
<1>4. GreedyTo(accepted, Reserve, stream, p)
  <2>1. Pending = <<>> /\ p + match_length = p
    BY <1>1, <1>2 DEF Pending
  <2> QED
    BY <1>1, <1>3, <2>1 DEF GreedyInvariant
<1>5. CASE msi > input_size - Reserve
  <2>1. /\ Turn(IF IsFinishing THEN "FLUSH_BITS" ELSE "SAVE_BACKLOG")
        /\ UNCHANGED <<match_scan_index, match_length>>
    BY <1>5 DEF PollSearch
  <2>2. state' \in {"FLUSH_BITS", "SAVE_BACKLOG"}
    BY <2>1, TurnEnds
  <2>3. Pending' = Pending /\ ScanPosition' = ScanPosition
    BY <1>1, <2>1, <2>2 DEF Pending, ScanPosition
  <2> QED
    BY <1>1, <1>3, <2>1, <2>2, <2>3, GreedyKept
<1>6. CASE ~(msi > input_size - Reserve)
  <2>1. PICK length, distance : BestMatch(length, distance) /\ Chosen(length, distance)
    BY <1>6, SearchMatches
  <2>2. msi < input_size /\ msi + Reserve <= input_size /\ Reserve \in Nat
    BY <1>6, SearchMatches, Sizes DEF Reserve
  <2>3. Ahead(accepted, p) \in Nat /\ GreedyMatch(accepted, p, length, distance)
    BY <2>1, <2>2, BestIsGreedy
  <2> HIDE DEF p
  <2>4. Longest(accepted, p) = length /\ (length > 0 => Nearest(accepted, p) = distance)
    BY <2>3, MatchIsGreedy
  <2>5. length \in Nat /\ (length > 0 => distance \in 1..Window) /\ p \in Nat
    BY <1>4, <2>3 DEF GreedyMatch, GreedyTo
  <2>6. state' = "YIELD_TAG_BIT"
    BY <2>1, TurnEnds DEF Chosen
  <2> DEFINE e == [pos |-> p, bits |-> stream]
             one == <<1>>
             zero == <<0>>
  <2>7. e.pos = p /\ e.bits = stream /\ p + Reserve <= Len(accepted)
        /\ one \in Seq(Bit) /\ zero \in Seq(Bit)
    BY <1>1, <1>2, <2>2 DEF Bit
  <2>8. CASE Worthwhile(length)
    <3>0. length > 0 /\ distance \in 1..Window
      BY <2>5, <2>8, Sizes DEF Worthwhile
    <3>1. match_pos' = distance /\ match_length' = length /\ msi' = msi
      BY <2>1, <2>8 DEF Chosen
    <3> DEFINE g == Bits(distance - 1, WindowBits)
               h == Bits(length - 1, LookaheadBits)
               q == p + length
               all == stream \o (zero \o (g \o h))
    <3>2. g \in Seq(Bit) /\ h \in Seq(Bit)
      BY <2>5, <3>0, BitsType, Sizes
    <3>3. GreedyNext(accepted, e) = [pos |-> q, bits |-> ((stream \o zero) \o g) \o h]
      BY <2>4, <2>7, <2>8, <3>0 DEF GreedyNext
    <3> HIDE DEF g, h, zero, e
    <3>4. ((stream \o zero) \o g) \o h = all /\ all \in Seq(Bit)
      <4> DEFINE r == stream
      <4>1. r \in Seq(Bit)
        BY <1>3
      <4> HIDE DEF r
      <4>2. /\ ((r \o zero) \o g) \o h = r \o (zero \o (g \o h))
            /\ r \o (zero \o (g \o h)) \in Seq(Bit)
        BY <2>7, <3>2, <4>1, AssociativeFour
      <4> QED
        BY <4>2 DEF r, all
    <3>5. q \in Nat /\ q > p
      BY <2>5, <3>0
    <3> HIDE DEF all, q
    <3>6. GreedyTo(accepted, Reserve, all, q)
      BY <1>4, <2>2, <2>7, <3>3, <3>4, <3>5, GreedyMore DEF e
    <3>7. stream' \o Pending' = all
      BY <1>3, <2>6, <3>0, <3>1 DEF Pending, ReferenceTo, all, zero, g, h
    <3>8. ScanPosition' + match_length' = q
      <4>1. ScanPosition' = ScanPosition
        BY <1>1, <3>1 DEF ScanPosition
      <4> QED
        BY <3>1, <4>1 DEF q, p
    <3> QED
      BY <1>1, <1>3, <2>6, <3>6, <3>7, <3>8 DEF GreedyInvariant
  <2>9. CASE ~Worthwhile(length)
    <3>1. match_length' = 0 /\ msi' = msi + 1
      BY <2>1, <2>9 DEF Chosen
    <3> DEFINE byte == accepted[p + 1]
               g == Bits(byte, 8)
               q == p + 1
               all == stream \o (one \o g)
    <3>2. byte \in Byte /\ buffer[Window + msi' - 1] = byte
      <4> DEFINE j == Window + msi
                 size == Len(accepted)
      <4>1. /\ j \in Nat /\ j < Window + input_size /\ Window + msi' - 1 = j
            /\ q \in 1..Len(accepted) /\ size - input_size - Window + j + 1 = q /\ ~(q < 1)
        BY <1>1, <1>2, <2>2, <2>5, <3>1, Sizes
      <4> HIDE DEF j, q, size
      <4>2. buffer[j] = At(accepted, size - input_size - Window + j + 1)
        BY <4>1, BufferedByte DEF size
      <4>3. buffer[j] = accepted[q] /\ accepted[q] \in Byte
        BY <4>1, <4>2, ElementOfSeq DEF At, HistoryInvariant
      <4> QED
        BY <4>1, <4>3 DEF q
    <3>3. g \in Seq(Bit)
      <4> HIDE DEF byte
      <4>1. byte \in Int
        BY <3>2 DEF Byte
      <4> QED
        BY <4>1, ByteBits
    <3>4. GreedyNext(accepted, e) = [pos |-> q, bits |-> (stream \o one) \o g]
      BY <2>4, <2>7, <2>9 DEF GreedyNext
    <3> HIDE DEF g, one, e, byte
    <3>5. (stream \o one) \o g = all /\ all \in Seq(Bit)
      <4>1. (stream \o one) \o g = stream \o (one \o g)
        BY <1>3, <2>7, <3>3, Associative
      <4>2. one \o g \in Seq(Bit)
        BY <2>7, <3>3, Concat
      <4>3. stream \o (one \o g) \in Seq(Bit)
        BY <1>3, <4>2, Concat
      <4> QED
        BY <4>1, <4>3
    <3>6. q \in Nat /\ q > p
      BY <2>5
    <3> HIDE DEF all, q
    <3>7. GreedyTo(accepted, Reserve, all, q)
      BY <1>4, <2>2, <2>7, <3>4, <3>5, <3>6, GreedyMore DEF e
    <3>8. stream' \o Pending' = all
      BY <1>1, <1>3, <2>6, <3>1, <3>2 DEF Pending, LiteralBits, all, one, g
    <3>9. ScanPosition' + match_length' = q
      BY <1>1, <1>2, <3>1 DEF ScanPosition, q, p
    <3> QED
      BY <1>1, <1>3, <2>6, <3>7, <3>8, <3>9 DEF GreedyInvariant
  <2> QED
    BY <2>8, <2>9
<1> QED
  BY <1>5, <1>6

\* The turns that emit.
LEMMA PendingLiteral ==
    ASSUME EncoderInvariant, match_scan_index >= 1
    PROVE  LiteralBits \in Seq(Bit)
<1> DEFINE byte == buffer[Window + match_scan_index - 1]
<1>1. byte \in Int
  <2>1. Window + match_scan_index - 1 \in 0..(2 * Window - 1)
    BY Sizes DEF EncoderInvariant, TypeOK
  <2>2. buffer \in [0..(2 * Window - 1) -> Byte]
    BY DEF EncoderInvariant, DataInvariant
  <2>3. byte \in Byte
    BY <2>1, <2>2
  <2> HIDE DEF byte
  <2> QED
    BY <2>3 DEF Byte
<1> HIDE DEF byte
<1>2. Bits(byte, 8) \in Seq(Bit)
  BY <1>1, ByteBits
<1> QED
  BY <1>2 DEF LiteralBits, byte

LEMMA GreedyTagBit ==
    ASSUME EncoderInvariant, GreedyInvariant, PollTagBit PROVE GreedyInvariant'
<1>1. /\ UNCHANGED <<buffer, input_size, match_scan_index, match_length, match_pos, accepted, flags>>
      /\ state = "YIELD_TAG_BIT" /\ match_length \in Nat /\ match_pos \in Int
      /\ match_scan_index \in Nat
      /\ match_length = 0 => match_scan_index >= 1
      /\ out \in Seq(Bit) /\ current \in Seq(Bit)
  BY Sizes DEF PollTagBit, EncoderInvariant, TypeOK, DataInvariant, SearchInvariant
<1>2. stream \in Seq(Bit)
  BY <1>1, Concat DEF stream
<1>3. ScanPosition' = ScanPosition
  BY <1>1 DEF ScanPosition
<1> DEFINE one == <<1>>
           zero == <<0>>
<1>4. one \in Seq(Bit) /\ zero \in Seq(Bit)
  BY DEF Bit
<1>5. CASE match_length = 0
  <2>1. stream' = stream \o one
    BY <1>5, TagBitEmits DEF Emits, Emitted, stream
  <2>2. state' = "YIELD_LITERAL"
    BY <1>5, TurnEnds DEF PollTagBit
  <2>3. Pending = one \o LiteralBits /\ Pending' = LiteralBits
    BY <1>1, <1>5, <2>2 DEF Pending, LiteralBits
  <2>4. LiteralBits \in Seq(Bit)
    BY <1>1, <1>5, PendingLiteral
  <2> HIDE DEF one
  <2>5. (stream \o one) \o LiteralBits = stream \o (one \o LiteralBits)
    BY <1>2, <1>4, <2>4, Associative
  <2> QED
    BY <1>1, <1>3, <2>1, <2>2, <2>3, <2>5, GreedyKept
<1>6. CASE match_length # 0
  <2>1. stream' = stream \o zero
    BY <1>6, TagBitEmits DEF Emits, Emitted, stream
  <2>2. Turn("YIELD_BR_INDEX") /\ outgoing' = Bits(match_pos - 1, WindowBits)
    BY <1>6 DEF PollTagBit
  <2>3. state' = "YIELD_BR_INDEX"
    BY <2>2, TurnEnds
  <2> DEFINE x == Bits(match_pos - 1, WindowBits) \o Bits(match_length - 1, LookaheadBits)
  <2>4. Pending = zero \o x /\ Pending' = x
    BY <1>1, <1>6, <2>2, <2>3 DEF Pending, ReferenceTo
  <2>5. x \in Seq(Bit)
    BY <1>1, BitsType, Sizes, Concat
  <2> HIDE DEF zero, x
  <2>6. (stream \o zero) \o x = stream \o (zero \o x)
    BY <1>2, <1>4, <2>5, Associative
  <2> QED
    BY <1>1, <1>3, <2>1, <2>3, <2>4, <2>6, GreedyKept
<1> QED
  BY <1>5, <1>6

LEMMA GreedyLiteral ==
    ASSUME EncoderInvariant, GreedyInvariant, PollLiteral PROVE GreedyInvariant'
<1>1. /\ UNCHANGED <<buffer, input_size, match_scan_index, match_length, match_pos, accepted, flags>>
      /\ state = "YIELD_LITERAL" /\ match_scan_index >= 1
      /\ out \in Seq(Bit) /\ current \in Seq(Bit)
  BY Sizes DEF PollLiteral, EncoderInvariant, TypeOK, DataInvariant, SearchInvariant
<1>2. stream' = stream \o LiteralBits
  BY <1>1, LiteralEmits DEF Emits, Emitted, stream, LiteralBits
<1>3. stream \in Seq(Bit) /\ LiteralBits \in Seq(Bit)
  BY <1>1, PendingLiteral, Concat DEF stream
<1>4. state' = "SEARCH"
  BY TurnEnds DEF PollLiteral
<1>5. Pending = LiteralBits /\ Pending' = <<>> /\ ScanPosition' = ScanPosition
  BY <1>1, <1>4 DEF Pending, ScanPosition
<1>6. stream' \o <<>> = stream'
  <2> DEFINE z == stream \o LiteralBits
  <2>1. z \in Seq(Bit)
    BY <1>3, Concat
  <2> HIDE DEF z
  <2>2. z \o <<>> = z
    BY <2>1, Concat
  <2> QED
    BY <1>2, <2>2 DEF z
<1> QED
  BY <1>1, <1>2, <1>4, <1>5, <1>6, GreedyKept

\* A piece of a reference.
LEMMA PieceEmitted ==
    ASSUME EncoderInvariant, CanTakeByte, PushOutgoing, NEW x \in Seq(Bit)
    PROVE  /\ stream' \o (outgoing' \o x) = stream \o (outgoing \o x)
           /\ stream' \o outgoing' = stream \o outgoing
<1>1. PICK a, b \in Seq(Bit) : /\ Emits(a) /\ outgoing' = b /\ a \o b = outgoing
                               /\ Len(b) <= WindowBits
  BY OutgoingEmits
<1>2. stream' = stream \o a
  BY <1>1 DEF Emits, Emitted, stream
<1>3. stream \in Seq(Bit)
  BY Concat DEF stream, EncoderInvariant, DataInvariant
<1>4. (stream \o a) \o b = stream \o (a \o b)
  BY <1>3, Associative
<1>5. (stream \o a) \o (b \o x) = stream \o ((a \o b) \o x)
  <2>1. b \o x \in Seq(Bit)
    BY Concat
  <2>2. (stream \o a) \o (b \o x) = stream \o (a \o (b \o x))
    BY <1>3, <2>1, Associative
  <2>3. (a \o b) \o x = a \o (b \o x)
    BY Associative
  <2> QED
    BY <2>2, <2>3
<1> QED
  BY <1>1, <1>2, <1>4, <1>5

LEMMA GreedyBackrefIndex ==
    ASSUME EncoderInvariant, GreedyInvariant, PollBackrefIndex PROVE GreedyInvariant'
<1> DEFINE x == Bits(match_length - 1, LookaheadBits)
<1>1. /\ UNCHANGED <<buffer, input_size, match_scan_index, match_length, match_pos, accepted, flags>>
      /\ state = "YIELD_BR_INDEX" /\ CanTakeByte /\ match_length \in Int
  BY Sizes DEF PollBackrefIndex, EncoderInvariant, TypeOK
<1>2. x \in Seq(Bit)
  BY <1>1, BitsType, Sizes
<1>3. Pending = outgoing \o x /\ ScanPosition' = ScanPosition
  BY <1>1 DEF Pending, ScanPosition
<1>4. CASE outgoing # <<>>
  <2>1. PushOutgoing /\ Turn("YIELD_BR_INDEX")
    BY <1>1, <1>4 DEF PollBackrefIndex
  <2>2. state' = "YIELD_BR_INDEX"
    BY <2>1, TurnEnds
  <2>3. Pending' = outgoing' \o x
    BY <1>1, <2>2 DEF Pending
  <2> HIDE DEF x
  <2>4. stream' \o (outgoing' \o x) = stream \o (outgoing \o x)
    BY <1>1, <1>2, <2>1, PieceEmitted
  <2> QED
    BY <1>1, <1>3, <2>2, <2>3, <2>4, GreedyKept
<1>5. CASE outgoing = <<>>
  <2>1. outgoing' = x /\ Turn("YIELD_BR_LENGTH") /\ UNCHANGED <<current, out>>
    BY <1>5 DEF PollBackrefIndex
  <2>2. state' = "YIELD_BR_LENGTH" /\ stream' = stream
    BY <2>1, TurnEnds DEF stream
  <2>3. Pending' = x
    BY <2>1, <2>2 DEF Pending
  <2> HIDE DEF x
  <2>4. <<>> \o x = x
    BY <1>2, Concat
  <2> QED
    BY <1>1, <1>3, <1>5, <2>2, <2>3, <2>4, GreedyKept
<1> QED
  BY <1>4, <1>5

LEMMA GreedyBackrefLength ==
    ASSUME EncoderInvariant, HistoryInvariant, GreedyInvariant, PollBackrefLength
    PROVE  GreedyInvariant'
<1>1. /\ UNCHANGED <<buffer, input_size, match_pos, accepted, flags>>
      /\ state = "YIELD_BR_LENGTH" /\ CanTakeByte
      /\ match_scan_index \in Nat /\ match_length \in Nat /\ input_size \in Nat
      /\ Len(accepted) \in Nat
  BY Sizes, LenProperties DEF PollBackrefLength, EncoderInvariant, TypeOK, HistoryInvariant
<1>2. Pending = outgoing
  BY <1>1 DEF Pending
<1>3. CASE outgoing # <<>>
  <2>1. PushOutgoing /\ Turn("YIELD_BR_LENGTH") /\ UNCHANGED <<match_scan_index, match_length>>
    BY <1>1, <1>3 DEF PollBackrefLength
  <2>2. state' = "YIELD_BR_LENGTH"
    BY <2>1, TurnEnds
  <2>3. Pending' = outgoing' /\ ScanPosition' = ScanPosition
    BY <1>1, <2>1, <2>2 DEF Pending, ScanPosition
  <2> DEFINE x == <<>>
  <2>4. x \in Seq(Bit)
    OBVIOUS
  <2> HIDE DEF x
  <2>5. stream' \o outgoing' = stream \o outgoing
    BY <1>1, <2>1, <2>4, PieceEmitted
  <2> QED
    BY <1>1, <1>2, <2>1, <2>2, <2>3, <2>5, GreedyKept
<1>4. CASE outgoing = <<>>
  <2>1. /\ match_scan_index' = match_scan_index + match_length /\ match_length' = 0
        /\ Turn("SEARCH") /\ UNCHANGED <<current, out>>
    BY <1>4 DEF PollBackrefLength
  <2>2. state' = "SEARCH" /\ stream' = stream
    BY <2>1, TurnEnds DEF stream
  <2>3. Pending' = <<>>
    BY <2>2 DEF Pending
  <2>4. ScanPosition' + match_length' = ScanPosition + match_length
    BY <1>1, <2>1 DEF ScanPosition
  <2> QED
    BY <1>1, <1>2, <1>4, <2>2, <2>3, <2>4, GreedyKept
<1> QED
  BY <1>3, <1>4

LEMMA GreedySaveBacklog ==
    ASSUME EncoderInvariant, HistoryInvariant, GreedyInvariant, PollSaveBacklog
    PROVE  GreedyInvariant'
<1>1. /\ state = "SAVE_BACKLOG" /\ match_scan_index' = 0
      /\ input_size' = input_size - match_scan_index
      /\ UNCHANGED <<match_length, current, out, accepted, flags>>
      /\ Turn("NOT_FULL")
      /\ match_scan_index \in Nat /\ input_size \in Nat /\ Len(accepted) \in Nat
  BY LenProperties DEF PollSaveBacklog, EncoderInvariant, TypeOK, HistoryInvariant
<1>2. state' = "NOT_FULL" /\ stream' = stream
  BY <1>1, TurnEnds DEF stream
<1>3. Pending = <<>> /\ Pending' = <<>>
  BY <1>1, <1>2 DEF Pending
<1>4. ScanPosition' = ScanPosition
  BY <1>1 DEF ScanPosition
<1> QED
  BY <1>1, <1>2, <1>3, <1>4, GreedyKept

LEMMA GreedyFlush ==
    ASSUME EncoderInvariant, StreamInvariant, GreedyInvariant, PollFlush PROVE GreedyInvariant'
<1>1. /\ state = "FLUSH_BITS" /\ match_length = 0 /\ match_scan_index = input_size
      /\ UNCHANGED <<buffer, input_size, match_scan_index, match_length, match_pos,
                     outgoing, current, accepted, flags>>
      /\ current \in Seq(Bit) /\ out \in Seq(Bit) /\ Len(current) <= 7 /\ input_size \in Nat
      /\ Len(accepted) \in Nat
  <2>1. /\ state = "FLUSH_BITS"
        /\ UNCHANGED <<buffer, input_size, match_scan_index, match_length, match_pos,
                       outgoing, current, accepted, flags>>
    BY DEF PollFlush
  <2>2. match_length = 0 /\ input_size \in Nat /\ Len(current) <= 7
    BY <2>1, Sizes DEF EncoderInvariant, TypeOK, SearchInvariant
  <2>3. current \in Seq(Bit) /\ out \in Seq(Bit)
    BY DEF EncoderInvariant, DataInvariant
  <2>4. match_scan_index = input_size /\ Len(accepted) \in Nat
    BY <2>1, LenProperties DEF StreamInvariant, HistoryInvariant, MatchInvariant
  <2> QED
    BY <2>1, <2>2, <2>3, <2>4
<1>2. Reserve' = Reserve
  BY <1>1 DEF Reserve, IsFinishing
<1>3. GreedyTo(accepted, Reserve, stream, Len(accepted))
  <2>1. Pending = <<>> /\ ScanPosition + match_length = Len(accepted)
    BY <1>1 DEF Pending, ScanPosition
  <2>2. stream \o <<>> = stream
    BY <1>1, Concat DEF stream
  <2> QED
    BY <1>1, <2>1, <2>2 DEF GreedyInvariant
<1>4. CASE current = <<>>
  <2>1. state' = "DONE" /\ out' = out
    BY <1>4 DEF PollFlush
  <2> DEFINE e == <<>>
  <2>2. e \in Seq(Bit) /\ Len(e) < 8 /\ out' = stream \o e
    BY <1>1, <1>4, <2>1, Concat DEF stream
  <2> HIDE DEF e
  <2> QED
    BY <1>1, <1>2, <1>3, <2>1, <2>2 DEF GreedyInvariant
<1>5. CASE current # <<>> /\ CanTakeByte
  <2> DEFINE n == 8 - Len(current)
             t == [i \in 1..n |-> 0]
  <2>1. state' = "DONE" /\ out' = stream \o t
    BY <1>5 DEF PollFlush, stream
  <2>2. n \in Nat /\ n < 8
    BY <1>1, <1>5, LenProperties
  <2>3. t \in Seq(Bit) /\ Len(t) < 8
    <3> HIDE DEF n
    <3>1. t \in [1..n -> Bit]
      BY <2>2 DEF Bit
    <3> QED
      BY <2>2, <3>1
  <2> HIDE DEF t
  <2> QED
    BY <1>1, <1>2, <1>3, <2>1, <2>3 DEF GreedyInvariant
<1>6. CASE current # <<>> /\ ~CanTakeByte
  <2>1. state' = state /\ out' = out
    BY <1>6 DEF PollFlush
  <2> QED
    BY <1>1, <2>1, GreedyStill
<1> QED
  BY <1>4, <1>5, <1>6

LEMMA GreedyTurn ==
    ASSUME EncoderInvariant, StreamInvariant, GreedyInvariant, PollTurn PROVE GreedyInvariant'
<1>1. HistoryInvariant
  BY DEF StreamInvariant
<1>2. ASSUME PollEmpty \/ PollFilled \/ OutputFull PROVE GreedyInvariant'
  <2>1. /\ UNCHANGED <<accepted, flags, input_size, buffer, out, current, outgoing,
                       match_scan_index, match_length, match_pos>>
        /\ state' = state \/ (state = "FILLED" /\ state' = "SEARCH")
    BY <1>2, TurnEnds DEF PollEmpty, PollFilled, OutputFull
  <2> QED
    BY <2>1, GreedyStill
<1> QED
  BY <1>1, <1>2, GreedySearch, GreedyTagBit, GreedyLiteral, GreedyBackrefIndex,
     GreedyBackrefLength, GreedySaveBacklog, GreedyFlush DEF PollTurn

\* What it means when the encoder is done.
LEMMA GreedyDone ==
    ASSUME StreamInvariant, GreedyInvariant PROVE DoneIsGreedy
<1> SUFFICES ASSUME state = "DONE"
             PROVE  /\ IsPrefix(Greedy(accepted), out)
                    /\ Len(out) - Len(Greedy(accepted)) < 8
                    /\ Decode(out) = accepted
  BY DEF DoneIsGreedy
<1>1. PICK s : \E t \in Seq(Bit) :
          GreedyTo(accepted, Reserve, s, Len(accepted)) /\ out = s \o t /\ Len(t) < 8
  BY DEF GreedyInvariant
<1>2. PICK t \in Seq(Bit) :
          GreedyTo(accepted, Reserve, s, Len(accepted)) /\ out = s \o t /\ Len(t) < 8
  BY <1>1
<1>3. Reserve \in Nat /\ Reserve >= 1 /\ Len(accepted) \in Nat
  BY Sizes, LenProperties DEF Reserve, StreamInvariant, HistoryInvariant
<1>4. Greedy(accepted) = s /\ s \in Seq(Bit)
  BY <1>2, <1>3, GreedyReads DEF GreedyTo
<1>5. Len(out) = Len(s) + Len(t) /\ Len(s) \in Nat /\ Len(t) \in Nat
  BY <1>2, <1>4, Concat
<1>6. s = SubSeq(s \o t, 1, Len(s))
  BY <1>4, HeadOfConcat
<1>7. IsPrefix(s, out)
  BY <1>2, <1>5, <1>6 DEF IsPrefix
<1> QED
  BY <1>2, <1>4, <1>5, <1>7, DoneDecodes

-----------------------------------------------------------------------------
(* The client of Heatshrink.                                               *)

\* What a client sinks is a piece of its input.
LEMMA SunkType ==
    ASSUME input \in Seq(Byte), accepted \in Seq(Byte), NEW n \in Nat
    PROVE  LET rest == SubSeq(input, Len(accepted) + 1, Len(input))
               sunk == SubSeq(rest, 1, Min({n, Len(rest)}))
           IN  rest \in Seq(Byte) /\ sunk \in Seq(Byte)
<1> DEFINE rest == SubSeq(input, Len(accepted) + 1, Len(input))
           m == Min({n, Len(rest)})
<1>0. Len(input) \in Nat /\ Len(accepted) \in Nat
  BY LenProperties
<1>1. rest \in Seq(Byte)
  <2>1. Len(accepted) + 1 \in Nat /\ Len(accepted) + 1 >= 1
    BY <1>0
  <2> DEFINE S == Byte
  <2>2. input \in Seq(S) /\ rest \in Seq(S)
    <3>1. input \in Seq(S)
      OBVIOUS
    <3> HIDE DEF S
    <3> QED
      BY <1>0, <2>1, <3>1, SubSeqProperties
  <2> QED
    BY <2>2
<1> HIDE DEF rest
<1>2. Len(rest) \in Nat
  BY <1>1, LenProperties
<1>3. m \in Nat /\ m <= Len(rest)
  BY <1>2, MinOfTwo
<1> HIDE DEF m
<1>4. SubSeq(rest, 1, m) \in Seq(Byte)
  <2> DEFINE S == Byte
  <2>1. rest \in Seq(S)
    BY <1>1
  <2> HIDE DEF S
  <2>2. SubSeq(rest, 1, m) \in Seq(S)
    BY <1>2, <1>3, <2>1, CutInTwo
  <2> QED
    BY <2>2 DEF S
<1> QED
  BY <1>1, <1>4 DEF rest, m
ClientInvariant == EncoderInvariant /\ StreamInvariant /\ input \in Seq(Byte)

LEMMA InputType == input \in Inputs => input \in Seq(Byte)
<1>1. Bytes \subseteq Byte /\ Inputs \subseteq Seq(Bytes)
  BY ParametersAssumption DEF Byte
<1> DEFINE S == Byte
<1>2. Bytes \subseteq S
  BY <1>1
<1> HIDE DEF S
<1>3. \A s \in Seq(Bytes) : s \in Seq(S)
  BY <1>2
<1> QED
  BY <1>1, <1>3 DEF S

LEMMA NextClient == ClientInvariant /\ [Next]_vars => ClientInvariant'
<1> SUFFICES ASSUME ClientInvariant, [Next]_vars PROVE ClientInvariant'
  OBVIOUS
<1>0. EncoderInvariant /\ StreamInvariant /\ input \in Seq(Byte) /\ accepted \in Seq(Byte)
  BY DEF ClientInvariant, StreamInvariant, HistoryInvariant
<1>1. ASSUME NEW n \in SinkSizes, ClientSink(n) PROVE ClientInvariant'
  <2> DEFINE rest == SubSeq(input, Len(accepted) + 1, Len(input))
             bytes == SubSeq(rest, 1, Min({n, Len(rest)}))
  <2>1. Sink(bytes) /\ input' = input
    BY <1>1 DEF ClientSink
  <2>2. bytes \in Seq(Byte)
    BY <1>0, SunkType, ParametersAssumption
  <2> HIDE DEF bytes
  <2>3. EncoderInvariant' /\ StreamInvariant'
    BY <1>0, <2>1, <2>2, StepSink, StreamSink
  <2> QED
    BY <1>0, <2>1, <2>3 DEF ClientInvariant
<1>2. ASSUME NEW n \in PollSizes, ClientPoll(n) PROVE ClientInvariant'
  <2>1. PollBegin(n) /\ input' = input /\ n \in Nat
    BY <1>2, ParametersAssumption DEF ClientPoll
  <2>2. EncoderInvariant'
    BY <1>0, <2>1, StepPollBegin
  <2>3. StreamInvariant'
    BY <1>0, <2>1, StreamStill DEF PollBegin
  <2> QED
    BY <1>0, <2>1, <2>2, <2>3 DEF ClientInvariant
<1>3. CASE ClientFinish
  <2>1. Finish /\ input' = input
    BY <1>3 DEF ClientFinish
  <2>2. EncoderInvariant'
    BY <1>0, <2>1, StepFinish
  <2>3. StreamInvariant'
    BY <1>0, <2>1, StreamStill DEF Finish
  <2> QED
    BY <1>0, <2>1, <2>2, <2>3 DEF ClientInvariant
<1>4. CASE EncoderTurn
  BY <1>0, <1>4, StepTurn, StreamTurn DEF EncoderTurn, ClientInvariant
<1>5. CASE UNCHANGED vars
  <2>1. EncoderInvariant'
    BY <1>0, <1>5, StepStill DEF vars, encoder, EncoderInvariant, TypeOK
  <2>2. StreamInvariant'
    BY <1>0, <1>5, StreamStill DEF vars, encoder
  <2> QED
    BY <1>0, <1>5, <2>1, <2>2 DEF vars, encoder, ClientInvariant
<1> QED
  BY <1>1, <1>2, <1>3, <1>4, <1>5 DEF Next

LEMMA NextGreedy == ClientInvariant /\ GreedyInvariant /\ [Next]_vars => GreedyInvariant'
<1> SUFFICES ASSUME ClientInvariant, GreedyInvariant, [Next]_vars PROVE GreedyInvariant'
  OBVIOUS
<1>0. /\ EncoderInvariant /\ StreamInvariant /\ HistoryInvariant
      /\ input \in Seq(Byte) /\ accepted \in Seq(Byte)
  BY DEF ClientInvariant, StreamInvariant, HistoryInvariant
<1>1. ASSUME NEW n \in SinkSizes, ClientSink(n) PROVE GreedyInvariant'
  <2> DEFINE rest == SubSeq(input, Len(accepted) + 1, Len(input))
             bytes == SubSeq(rest, 1, Min({n, Len(rest)}))
  <2>1. Sink(bytes)
    BY <1>1 DEF ClientSink
  <2>2. bytes \in Seq(Byte)
    BY <1>0, SunkType, ParametersAssumption
  <2> HIDE DEF bytes
  <2> QED
    BY <1>0, <2>1, <2>2, GreedySink
<1>2. ASSUME NEW n \in PollSizes, ClientPoll(n) PROVE GreedyInvariant'
  BY <1>2, GreedyStill DEF ClientPoll, PollBegin
<1>3. CASE ClientFinish
  BY <1>0, <1>3, GreedyFinish DEF ClientFinish
<1>4. CASE EncoderTurn
  BY <1>0, <1>4, GreedyTurn DEF EncoderTurn
<1>5. CASE UNCHANGED vars
  BY <1>5, GreedyStill DEF vars, encoder
<1> QED
  BY <1>1, <1>2, <1>3, <1>4, <1>5 DEF Next

(* However a client cuts its input and the output: the scan stays within   *)
(* the input, a back-reference lies in the window and in the input, what   *)
(* waits for output fits its byte, the index searched is that of the       *)
(* buffer, and the stream is a sequence of whole tokens for the bytes      *)
(* scanned with a part of the next one.                                    *)
THEOREM Invariance == Spec => []ClientInvariant
<1>1. Init => ClientInvariant
  <2> SUFFICES ASSUME Init PROVE ClientInvariant
    OBVIOUS
  <2>1. input \in Seq(Byte)
    BY InputType DEF Init
  <2> QED
    BY <2>1, InitEncoder, InitStream DEF ClientInvariant
<1> QED
  BY <1>1, NextClient, PTL DEF Spec

(* The encoder's state stays in its ranges, whatever window and lookahead  *)
(* it was allocated with; a poll never writes more than it was given.      *)
THEOREM TypeCorrect == Spec => []TypeOK
<1>1. ClientInvariant => TypeOK
  BY DEF ClientInvariant, EncoderInvariant
<1> QED
  BY <1>1, Invariance, PTL

(* What the encoder emitted at any time, up to the middle of a byte and of *)
(* a token, decodes to a prefix of what it was given: for every input, no  *)
(* byte is lost, repeated or changed at a move of the buffer, in a match   *)
(* that overlaps itself or reaches before the data, or at a full output.   *)
THEOREM Decodable == Spec => []OutputDecodes
<1>1. ClientInvariant => OutputDecodes
  BY StreamDecodes DEF ClientInvariant
<1> QED
  BY <1>1, Invariance, PTL

(* When the encoder says it is done, the output is the greedy encoding of  *)
(* all it accepted, padded to a byte, and decodes to it: for every input,  *)
(* and however it and the output were cut into pieces, the search through  *)
(* the index finds the longest and the nearest match of the window at each *)
(* position, although the buffer moves and part of the input may be still  *)
(* to come; nothing waits inside.                                          *)
THEOREM GreedyEncoding == Spec => []DoneIsGreedy
<1>1. Init => GreedyInvariant
  BY InitGreedy
<1>2. ClientInvariant /\ GreedyInvariant => DoneIsGreedy
  BY GreedyDone DEF ClientInvariant
<1> QED
  BY <1>1, <1>2, NextGreedy, Invariance, PTL DEF Spec
=============================================================================
