-------------------------- MODULE CoapUploadProofs --------------------------
(***************************************************************************)
(* Proofs about CoapUpload for every group size, number of groups, limit   *)
(* of tries, number of uploads and of copies in flight, and for a server   *)
(* that tells batches apart as well as for one that does not.              *)
(***************************************************************************)
EXTENDS CoapUpload, TLAPS

-----------------------------------------------------------------------------
(* Type correctness. *)

\* Adding a copy to the network, or taking one that is there, keeps it a network.
LEMMA BagTypes ==
    ASSUME NEW S, NEW bag \in [S -> 0 .. MaxCopies], NEW d \in S
    PROVE  /\ Plus(bag, d) \in [S -> 0 .. MaxCopies]
           /\ bag[d] > 0 => Minus(bag, d) \in [S -> 0 .. MaxCopies]
<1>1. bag[d] \in 0 .. MaxCopies  OBVIOUS
<1>2. bag[d] < MaxCopies => bag[d] + 1 \in 0 .. MaxCopies
  BY <1>1, ConstantsAssumption
<1>3. bag[d] > 0 => bag[d] - 1 \in 0 .. MaxCopies
  BY <1>1, ConstantsAssumption
<1>4. Plus(bag, d) \in [S -> 0 .. MaxCopies]
  BY <1>2 DEF Plus
<1>5. bag[d] > 0 => Minus(bag, d) \in [S -> 0 .. MaxCopies]
  BY <1>3 DEF Minus
<1> QED  BY <1>4, <1>5

\* What only one more copy adds, and what taking a copy leaves.
LEMMA BagCopies ==
    ASSUME NEW S, NEW bag \in [S -> 0 .. MaxCopies], NEW d \in S, NEW e \in S
    PROVE  /\ Plus(bag, d)[e] > 0 => e = d \/ bag[e] > 0
           /\ Minus(bag, d)[e] > 0 => bag[e] > 0
<1>1. bag[e] \in Int /\ bag[d] \in Int  BY ConstantsAssumption
<1> QED  BY <1>1 DEF Plus, Minus

LEMMA PositionFacts ==
    /\ 0 \in Positions /\ GroupSize - 1 \in Positions /\ 0 \in Groups
    /\ Positions \subseteq 0 .. GroupSize /\ GroupSize \in Nat /\ GroupSize \notin Positions
    /\ Full # ResendAll /\ Full # {}
<1>1. 0 \in Positions /\ GroupSize \notin Positions
  BY ConstantsAssumption DEF Positions
<1> QED  BY <1>1, ConstantsAssumption DEF Positions, Groups, Full, ResendAll

\* The initial state is well typed.
LEMMA InitTypeOK == Init => TypeOK
<1> SUFFICES ASSUME Init PROVE TypeOK  OBVIOUS
<1>1. con_token \in Token  BY PositionFacts DEF Init, Token
<1>2. /\ up \in [Request -> 0 .. MaxCopies] /\ down \in [Reply -> 0 .. MaxCopies]
      /\ upload \in 0 .. MaxUploads /\ tries \in 0 .. TryLimit
  BY ConstantsAssumption DEF Init
<1>3. /\ got \in [Groups -> SUBSET Held]
      /\ delivered \in [Groups -> [Positions -> SUBSET (1 .. MaxUploads)]]
  BY DEF Init
<1>4. i \in 0 .. GroupCount /\ x \in 0 .. GroupSize /\ i # GroupCount
  BY ConstantsAssumption DEF Init
<1>5. last \in Positions /\ recv \in SUBSET (0 .. GroupSize)  BY PositionFacts DEF Init
<1> QED  BY <1>1, <1>2, <1>3, <1>4, <1>5 DEF Init, TypeOK

\* What a request or a reply is made of.
LEMMA ReplyFields ==
    ASSUME NEW r \in Reply
    PROVE  /\ r # NoReply /\ r.token \in Token /\ r.token.group \in Groups
           /\ r.arrived \in SUBSET (0 .. GroupSize)
<1>1. /\ r.token \in Token /\ r.code \in {"created", "bad_request", "other"}
      /\ r.arrived \in {Full, ResendAll, {}} \cup SUBSET Positions
  BY DEF Reply
<1>2. r # NoReply
  BY <1>1 DEF NoReply
<1>3. r.arrived \in SUBSET (0 .. GroupSize)
  <2> DEFINE P == SUBSET (0 .. GroupSize)
  <2>1. Full \in P /\ ResendAll \in P /\ {} \in P
    BY PositionFacts DEF Full, ResendAll
  <2>2. SUBSET Positions \subseteq P
    BY PositionFacts
  <2> HIDE DEF P
  <2>3. r.arrived \in P
    BY <1>1, <2>1, <2>2
  <2> QED  BY <2>3 DEF P
<1> QED  BY <1>1, <1>2, <1>3 DEF Token

LEMMA RequestFields ==
    ASSUME NEW d \in Request
    PROVE  /\ d.token \in Token /\ d.token.group \in Groups
           /\ d.token.pos \in Positions /\ d.upload \in 1 .. MaxUploads
BY DEF Request, Token

\* The server keeps its types whatever it does with a request.
LEMMA ServerTypes ==
    ASSUME TypeOK, NEW d \in Request
    PROVE  /\ Stored(d) \in SUBSET Held /\ Holding(d) \in SUBSET Positions
           /\ [got EXCEPT ![d.token.group] = Stored(d)] \in [Groups -> SUBSET Held]
           /\ [got EXCEPT ![d.token.group] = {}] \in [Groups -> SUBSET Held]
           /\ Deliver(d) =>
                /\ up' \in [Request -> 0 .. MaxCopies]
                /\ delivered' \in [Groups -> [Positions -> SUBSET (1 .. MaxUploads)]]
<1>1. Stored(d) \in SUBSET Held
  <2>1. [pos |-> d.token.pos, upload |-> d.upload] \in Held
    BY RequestFields DEF Held
  <2>2. Kept(d) \in SUBSET Held
    BY RequestFields DEF Kept, TypeOK
  <2> QED
    BY <2>1, <2>2 DEF Stored
<1>2. Holding(d) \in SUBSET Positions
  BY <1>1 DEF Holding, Held
<1>3. ASSUME Deliver(d) PROVE up' \in [Request -> 0 .. MaxCopies]
  BY <1>3, BagTypes DEF Deliver, TypeOK
<1>4. ASSUME Deliver(d)
      PROVE  delivered' \in [Groups -> [Positions -> SUBSET (1 .. MaxUploads)]]
  BY <1>4, RequestFields DEF Deliver, TypeOK
<1> QED  BY <1>1, <1>2, <1>3, <1>4, RequestFields DEF TypeOK

\* The replies the server sends are replies.
LEMMA AnswerTypes ==
    ASSUME TypeOK, NEW d \in Request
    PROVE  /\ [token |-> d.token, code |-> "created", arrived |-> Full] \in Reply
           /\ [token |-> d.token, code |-> "other", arrived |-> {}] \in Reply
           /\ \A a \in {Holding(d), ResendAll} :
                [token |-> d.token, code |-> "bad_request", arrived |-> a] \in Reply
<1>1. Holding(d) \in (SUBSET Positions) \cup {ResendAll}
  BY ServerTypes
<1> QED  BY <1>1, RequestFields DEF Reply

\* Every step keeps the types.
LEMMA StepTypeOK == TypeOK /\ [Next]_vars => TypeOK'
<1> SUFFICES ASSUME TypeOK, [Next]_vars PROVE TypeOK'  OBVIOUS
<1> USE ConstantsAssumption
<1>h. ASSUME pc # "idle", x <= last PROVE Here \in Token
  BY <1>h DEF TypeOK, Here, Token, Groups, Positions
<1>x. ASSUME x <= last PROVE x + 1 \in 0 .. GroupSize
  BY <1>x DEF TypeOK, Positions
<1>1. CASE StartUpload
  BY <1>1, PositionFacts DEF StartUpload, TypeOK, network, server
<1>2. CASE SkipArrived
  BY <1>2, <1>x DEF SkipArrived, TypeOK, network, server
<1>3. CASE Post
  <2>1. Here \in Token /\ upload \in 1 .. MaxUploads
    BY <1>3, <1>h DEF Post, TypeOK
  <2>2. [upload |-> upload, token |-> Here, con |-> Confirmable] \in Request
    BY <2>1 DEF Request, Confirmable
  <2>3. up' \in [Request -> 0 .. MaxCopies]
    BY <1>3, <2>2, BagTypes DEF Post, TypeOK
  <2> QED  BY <1>3, <2>1, <2>3 DEF Post, TypeOK, locals, server
<1>4. CASE PostFails
  BY <1>4, <1>h DEF PostFails, TriesLeft, TypeOK, network, server
<1>5. CASE WaitWritable
  <2>1. x + 1 \in 0 .. GroupSize
    BY <1>5 DEF WaitWritable, Confirmable, TypeOK, Positions
  <2> QED  BY <1>5, <2>1 DEF WaitWritable, TypeOK, network, server
<1>6. CASE WaitReadable
  <2>1. rxd' \in Reply \cup {NoReply} /\ down' \in [Reply -> 0 .. MaxCopies]
    BY <1>6, BagTypes DEF WaitReadable, TypeOK
  <2>2. x + 1 \in 0 .. GroupSize
    BY <1>6, <1>x DEF WaitReadable, TypeOK
  <2> QED  BY <1>6, <2>1, <2>2 DEF WaitReadable, TypeOK, server
<1>7. CASE WaitFails
  BY <1>7 DEF WaitFails, TriesLeft, TypeOK, network, server
<1>8. CASE SystemReset
  <2>1. con_token' \in Token /\ last' \in Positions
    BY <1>8, PositionFacts DEF SystemReset, Token
  <2>2. up' \in [Request -> 0 .. MaxCopies] /\ down' \in [Reply -> 0 .. MaxCopies]
    BY <1>8 DEF SystemReset
  <2>3. upload' = upload /\ pc' = "idle" /\ i' = 0 /\ x' = 0 /\ tries' = 0 /\ recv' = {}
        /\ rxd' = NoReply /\ UNCHANGED server
    BY <1>8 DEF SystemReset
  <2> QED  BY <2>1, <2>2, <2>3 DEF TypeOK, server
<1>9. CASE EnterRecv
  BY <1>9 DEF EnterRecv, TypeOK, locals, network, server
<1>10. CASE RecvError
  BY <1>10 DEF RecvError, TypeOK, locals, network, server
<1>11. CASE ReplyRejected
  BY <1>11 DEF ReplyRejected, TakeReply, TypeOK, network, server
<1>12. CASE ReplyFull
  <2>1. i + 1 \in 0 .. GroupCount
    BY <1>12 DEF ReplyFull, TakeReply, TypeOK
  <2> QED
    BY <1>12, <2>1, PositionFacts DEF ReplyFull, TakeReply, TypeOK, network, server
<1>13. CASE ReplyPartial
  <2>1. rxd \in Reply  BY <1>13 DEF ReplyPartial, TakeReply, TypeOK
  <2>2. recv' \in SUBSET (0 .. GroupSize)
    BY <1>13, <2>1, ReplyFields DEF ReplyPartial
  <2>3. last' \in Positions
    BY <1>13 DEF ReplyPartial, HighestMissing, TypeOK
  <2> QED  BY <1>13, <2>2, <2>3 DEF ReplyPartial, TakeReply, TypeOK, network, server
<1>14. CASE \E d \in Request : LoseRequest(d)
  <2> PICK d \in Request : LoseRequest(d)  BY <1>14
  <2>1. up' \in [Request -> 0 .. MaxCopies]  BY BagTypes DEF LoseRequest, TypeOK
  <2> QED  BY <2>1 DEF LoseRequest, TypeOK, client, locals, server
<1>15. CASE \E r \in Reply : LoseReply(r)
  <2> PICK r \in Reply : LoseReply(r)  BY <1>15
  <2>1. down' \in [Reply -> 0 .. MaxCopies]  BY BagTypes DEF LoseReply, TypeOK
  <2> QED  BY <2>1 DEF LoseReply, TypeOK, client, locals, server
<1>16. ASSUME NEW d \in Request,
              \/ ServerStores(d) \/ ServerConfirms(d)
              \/ ServerComplains(d) \/ ServerRefuses(d)
       PROVE  TypeOK'
  <2>1. Deliver(d) /\ UNCHANGED client
    BY <1>16 DEF ServerStores, ServerConfirms, ServerComplains, ServerRefuses
  <2>2. got' \in [Groups -> SUBSET Held]
    BY <1>16, ServerTypes
    DEF ServerStores, ServerConfirms, ServerComplains, ServerRefuses
  <2>3. down' = down \/ \E r \in Reply : down' = Plus(down, r)
    BY <1>16, AnswerTypes
    DEF ServerStores, ServerConfirms, ServerComplains, ServerRefuses
  <2>4. down' \in [Reply -> 0 .. MaxCopies]  BY <2>3, BagTypes DEF TypeOK
  <2>5. /\ up' \in [Request -> 0 .. MaxCopies]
        /\ delivered' \in [Groups -> [Positions -> SUBSET (1 .. MaxUploads)]]
    BY <2>1, ServerTypes
  <2> QED  BY <2>1, <2>2, <2>4, <2>5 DEF TypeOK, client, locals
<1>17. CASE UNCHANGED vars
  BY <1>17 DEF vars, TypeOK, client, locals, network, server
<1> QED
  BY <1>1, <1>2, <1>3, <1>4, <1>5, <1>6, <1>7, <1>8, <1>9, <1>10, <1>11, <1>12,
     <1>13, <1>14, <1>15, <1>16, <1>17
  DEF Next, Client, Environment

\* Type correctness: coap_send_fn never counts more failures than it tries again (the
\* branch for tries == 4 is dead), never runs past the last group, and LAST_MSG is
\* always a position of the group, whatever bitmap the server sends.
THEOREM TypeCorrect == Spec => []TypeOK
<1> QED  BY InitTypeOK, StepTypeOK, PTL DEF Spec

-----------------------------------------------------------------------------
(* A round ends with a confirmable request and its answer. *)

\* When the inner loop is past the confirmable request, that request was the last
\* missing payload of this group, and a reply was seen.
RoundInvariant ==
    /\ LastIsMissing
    /\ pc = "wait" /\ x = last => con_token = Here
    /\ pc = "recv" \/ (pc = "post" /\ x > last) =>
         /\ rxd # NoReply
         /\ con_token.group = i

LEMMA StepRound == TypeOK /\ RoundInvariant /\ [Next]_vars => RoundInvariant'
<1> SUFFICES ASSUME TypeOK, RoundInvariant, [Next]_vars PROVE RoundInvariant'
  OBVIOUS
<1>t. x \in Int /\ last \in Int /\ last >= 0 /\ GroupSize - 1 >= 0 /\ GroupSize \in Int
  BY ConstantsAssumption DEF TypeOK, Positions
<1> USE DEF RoundInvariant, LastIsMissing
<1>1. CASE StartUpload
  BY <1>1, <1>t DEF StartUpload
<1>2. CASE SkipArrived
  <2>1. x # last  BY <1>2 DEF SkipArrived
  <2> QED  BY <1>2, <2>1, <1>t DEF SkipArrived
<1>3. CASE Post
  <2>1. Here' = Here  BY <1>3 DEF Post, Here, locals
  <2> QED  BY <1>3, <2>1, <1>t DEF Post, Confirmable, locals
<1>4. CASE PostFails
  BY <1>4, <1>t DEF PostFails
<1>5. CASE WaitWritable
  BY <1>5, <1>t DEF WaitWritable, Confirmable
<1>6. CASE WaitReadable
  <2>1. x = last  BY <1>6, <1>t DEF WaitReadable, Confirmable, TypeOK
  <2>2. con_token.group = i  BY <1>6, <2>1 DEF WaitReadable, Here
  <2>3. rxd' # NoReply  BY <1>6, ReplyFields DEF WaitReadable
  <2> QED  BY <1>6, <2>2, <2>3, <1>t DEF WaitReadable
<1>7. CASE WaitFails
  BY <1>7, <1>t DEF WaitFails, TriesLeft, TypeOK
<1>8. CASE SystemReset \/ RecvError
  BY <1>8 DEF SystemReset, RecvError
<1>9. CASE EnterRecv
  BY <1>9 DEF EnterRecv, locals
<1>10. CASE ReplyRejected
  <2>1. pc = "recv" /\ (pc' = "idle" \/ (pc' = "post" /\ x' = 0))
                     /\ UNCHANGED <<last, recv>>
    BY <1>10 DEF ReplyRejected, TakeReply
  <2> QED  BY <2>1, <1>t
<1>11. CASE ReplyFull
  BY <1>11, <1>t DEF ReplyFull, TakeReply
<1>12. CASE ReplyPartial
  <2>1. pc' = "idle" \/ (pc' = "post" /\ x' = 0 /\ last' \notin recv' /\ last' \in Positions)
    BY <1>12 DEF ReplyPartial, TakeReply, HighestMissing
  <2>2. last' \in Positions => last' \in Nat  BY ConstantsAssumption DEF Positions
  <2> QED  BY <2>1, <2>2
<1>13. CASE UNCHANGED client
  BY <1>13 DEF client, locals, Here
<1> QED
  BY <1>1, <1>2, <1>3, <1>4, <1>5, <1>6, <1>7, <1>8, <1>9, <1>10, <1>11, <1>12, <1>13
  DEF Next, Client, Environment, vars, LoseRequest, LoseReply, ServerStores,
      ServerConfirms, ServerComplains, ServerRefuses

LEMMA RoundCorrect == Spec => []RoundInvariant
<1>1. Init => RoundInvariant
  BY ConstantsAssumption DEF Init, RoundInvariant, LastIsMissing
<1> QED  BY <1>1, StepRound, TypeCorrect, PTL DEF Spec

\* recv(), which has no timeout, is called only with a reply in the socket: a round
\* never skips its confirmable request and never leaves wait() without its answer.
THEOREM NeverBlocks == Spec => []RecvNeverBlocks
<1>1. RoundInvariant => RecvNeverBlocks  BY DEF RoundInvariant, RecvNeverBlocks
<1> QED  BY <1>1, RoundCorrect, PTL

\* The position a round confirms is never one the server is said to have.
THEOREM LastMissing == Spec => []LastIsMissing
<1>1. RoundInvariant => LastIsMissing  BY DEF RoundInvariant
<1> QED  BY <1>1, RoundCorrect, PTL

-----------------------------------------------------------------------------
(* A confirmed group has arrived. *)

\* All payloads of g have arrived, those of one upload if the server does not mix them.
Backed(g) ==
    /\ \A p \in Positions : delivered[g][p] # {}
    /\ BatchAware => \E u \in 1 .. MaxUploads : \A p \in Positions : u \in delivered[g][p]

\* What the server holds has arrived, and a reply that says a group is complete is sent only when it is.
BackedInvariant ==
    /\ \A g \in Groups : g < i => Backed(g)
    /\ \A g \in Groups : \A e \in got[g] : e.upload \in delivered[g][e.pos]
    /\ \A r \in Reply :
         (down[r] > 0 \/ rxd = r) /\ r.code # "other" /\ r.arrived = Full
            => Backed(r.token.group)

\* Deliveries never go away.
LEMMA DeliverGrows ==
    ASSUME TypeOK, NEW d \in Request, Deliver(d)
    PROVE  /\ \A g \in Groups, p \in Positions : delivered[g][p] \subseteq delivered'[g][p]
           /\ d.upload \in delivered'[d.token.group][d.token.pos]
           /\ \A g \in Groups : Backed(g) => Backed(g)'
<1>1. \A g \in Groups, p \in Positions :
        delivered'[g][p] = IF g = d.token.group /\ p = d.token.pos
                           THEN delivered[g][p] \cup {d.upload} ELSE delivered[g][p]
  BY RequestFields DEF Deliver, TypeOK
<1>2. \A g \in Groups, p \in Positions : delivered[g][p] \subseteq delivered'[g][p]
  BY <1>1
<1>3. d.upload \in delivered'[d.token.group][d.token.pos]
  BY <1>1, RequestFields
<1>4. ASSUME NEW g \in Groups, Backed(g) PROVE Backed(g)'
  <2>1. \A p \in Positions : delivered'[g][p] # {}
    BY <1>2, <1>4 DEF Backed
  <2>2. ASSUME BatchAware
        PROVE  \E u \in 1 .. MaxUploads : \A p \in Positions : u \in delivered'[g][p]
    BY <1>2, <1>4, <2>2 DEF Backed
  <2> QED
    BY <2>1, <2>2 DEF Backed
<1> QED
  BY <1>2, <1>3, <1>4

\* The server's steps.
LEMMA ServerBacked ==
    ASSUME TypeOK, BackedInvariant, NEW d \in Request,
           \/ ServerStores(d) \/ ServerConfirms(d)
           \/ ServerComplains(d) \/ ServerRefuses(d)
    PROVE  BackedInvariant'
<1> DEFINE g == d.token.group
           created == [token |-> d.token, code |-> "created", arrived |-> Full]
<1>1. Deliver(d) /\ UNCHANGED <<i, rxd>>
  BY DEF ServerStores, ServerConfirms, ServerComplains, ServerRefuses, client, locals
<1>2. \A h \in Groups : h < i' => Backed(h)'
  BY <1>1, DeliverGrows DEF BackedInvariant
<1>3. \A e \in Stored(d) : e.upload \in delivered'[g][e.pos] /\ (BatchAware => e.upload = d.upload)
  <2> TAKE e \in Stored(d)
  <2>1. CASE e = [pos |-> d.token.pos, upload |-> d.upload]
    BY <1>1, <2>1, DeliverGrows
  <2>2. CASE e \in Kept(d)
    <3>1. e \in got[g] /\ (BatchAware => e.upload = d.upload)
      BY <2>2 DEF Kept
    <3>2. e.pos \in Positions /\ g \in Groups
      BY <3>1, RequestFields DEF TypeOK, Held
    <3>3. e.upload \in delivered[g][e.pos]
      BY <3>1, <3>2 DEF BackedInvariant
    <3> QED
      BY <1>1, <3>1, <3>2, <3>3, DeliverGrows
  <2> QED
    BY <2>1, <2>2 DEF Stored
<1>4. \A h \in Groups : \A e \in got'[h] : e.upload \in delivered'[h][e.pos]
  <2> TAKE h \in Groups
  <2> TAKE e \in got'[h]
  <2>1. got' = [got EXCEPT ![g] = Stored(d)] \/ got' = [got EXCEPT ![g] = {}]
    BY DEF ServerStores, ServerConfirms, ServerComplains, ServerRefuses
  <2>2. CASE h = g
    <3>1. e \in Stored(d)  BY <2>1, <2>2, RequestFields DEF TypeOK
    <3> QED  BY <1>3, <2>2, <3>1
  <2>3. CASE h # g
    <3>1. e \in got[h]  BY <2>1, <2>3 DEF TypeOK
    <3>2. e.pos \in Positions  BY <3>1 DEF TypeOK, Held
    <3>3. e.upload \in delivered[h][e.pos]  BY <3>1 DEF BackedInvariant
    <3> QED  BY <1>1, <3>2, <3>3, DeliverGrows
  <2> QED  BY <2>2, <2>3
<1>5. ASSUME NEW r \in Reply, down'[r] > 0 \/ rxd' = r,
             r.code # "other", r.arrived = Full
      PROVE  Backed(r.token.group)'
  <2>1. CASE down[r] > 0 \/ rxd = r
    BY <1>1, <1>5, <2>1, DeliverGrows, ReplyFields DEF BackedInvariant, Backed
  <2>2. CASE ~ (down[r] > 0 \/ rxd = r)
    <3>1. down'[r] > 0 /\ ~ (down[r] > 0)  BY <1>1, <1>5, <2>2
    <3>2. ASSUME NEW s \in Reply, down' = Plus(down, s) PROVE r = s
      BY <3>1, <3>2, BagCopies DEF TypeOK
    <3>3. ~ ServerStores(d)  BY <3>1 DEF ServerStores
    <3>4. ~ ServerRefuses(d)
      <4> DEFINE s == [token |-> d.token, code |-> "other", arrived |-> {}]
      <4>1. s \in Reply /\ s.code = "other"  BY AnswerTypes
      <4>2. ServerRefuses(d) => down' = Plus(down, s)  BY DEF ServerRefuses
      <4> HIDE DEF s
      <4> QED  BY <1>5, <3>2, <4>1, <4>2
    <3>5. ~ ServerComplains(d)
      <4> SUFFICES ASSUME ServerComplains(d) PROVE FALSE  OBVIOUS
      <4>1. PICK a \in {Holding(d), ResendAll} :
              down' = Plus(down, [token |-> d.token, code |-> "bad_request",
                                  arrived |-> a])
        BY DEF ServerComplains
      <4>2. r.arrived = a
        <5> DEFINE s == [token |-> d.token, code |-> "bad_request", arrived |-> a]
        <5>1. s \in Reply /\ s.arrived = a  BY <4>1, AnswerTypes
        <5>2. down' = Plus(down, s)  BY <4>1
        <5> HIDE DEF s
        <5> QED  BY <3>2, <5>1, <5>2
      <4>3. a # Full  BY <4>1, PositionFacts DEF ServerComplains, Full
      <4> QED  BY <1>5, <4>2, <4>3
    <3>6. ServerConfirms(d)  BY <3>3, <3>4, <3>5
    <3>7. r = created  BY <3>2, <3>6, AnswerTypes DEF ServerConfirms
    <3>8. Holding(d) = Positions  BY <3>6 DEF ServerConfirms
    <3>9. ASSUME NEW p \in Positions
          PROVE  \E e \in Stored(d) : e.pos = p
      BY <3>8 DEF Holding
    <3>10. \A p \in Positions : delivered'[g][p] # {}
      BY <1>3, <3>9
    <3>11. BatchAware => \A p \in Positions : d.upload \in delivered'[g][p]
      BY <1>3, <3>9
    <3> QED  BY <3>7, <3>10, <3>11, RequestFields DEF Backed
  <2> QED  BY <2>1, <2>2
<1> QED  BY <1>2, <1>4, <1>5 DEF BackedInvariant

LEMMA StepBacked ==
    TypeOK /\ RoundInvariant /\ BackedInvariant /\ [Next]_vars => BackedInvariant'
<1> SUFFICES ASSUME TypeOK, RoundInvariant, BackedInvariant, [Next]_vars
             PROVE  BackedInvariant'
  OBVIOUS
<1>1. ASSUME NEW d \in Request,
             \/ ServerStores(d) \/ ServerConfirms(d)
             \/ ServerComplains(d) \/ ServerRefuses(d)
      PROVE  BackedInvariant'
  BY <1>1, ServerBacked
<1>2. CASE ReplyFull
  <2>1. /\ rxd \in Reply /\ rxd.arrived = Full /\ rxd.code # "other"
        /\ rxd.token.group = i
    BY <1>2 DEF ReplyFull, TakeReply, Accepted, TypeOK, RoundInvariant
  <2>2. Backed(i)  BY <2>1 DEF BackedInvariant
  <2>3. /\ i' = i + 1 /\ rxd' = NoReply /\ UNCHANGED <<down, got, delivered>>
    BY <1>2 DEF ReplyFull, TakeReply, network, server
  <2>4. \A g \in Groups : g < i' => Backed(g)
    <3> TAKE g \in Groups
    <3>1. g < i + 1 => g < i \/ g = i  BY DEF TypeOK, Groups
    <3> QED  BY <2>2, <2>3, <3>1 DEF BackedInvariant
  <2> QED  BY <2>3, <2>4, ReplyFields DEF BackedInvariant, Backed
<1>3. CASE WaitReadable
  <2>1. UNCHANGED <<i, got, delivered>>  BY <1>3 DEF WaitReadable, server
  <2>2. \A r \in Reply : down'[r] > 0 \/ rxd' = r => down[r] > 0 \/ rxd = r
    BY <1>3, BagCopies DEF WaitReadable, TypeOK
  <2> QED  BY <2>1, <2>2 DEF BackedInvariant, Backed
<1>4. CASE \E s \in Reply : LoseReply(s)
  <2>1. UNCHANGED <<i, rxd, got, delivered>>
    BY <1>4 DEF LoseReply, client, locals, server
  <2>2. \A r \in Reply : down'[r] > 0 => down[r] > 0
    BY <1>4, BagCopies DEF LoseReply, TypeOK
  <2> QED  BY <2>1, <2>2 DEF BackedInvariant, Backed
<1>5. CASE StartUpload
  <2>1. i' = 0 /\ UNCHANGED <<rxd, down, got, delivered>>
    BY <1>5 DEF StartUpload, network, server
  <2>2. \A g \in Groups : ~ (g < i')  BY <2>1 DEF Groups
  <2> QED  BY <2>1, <2>2 DEF BackedInvariant, Backed
<1>6. CASE SystemReset
  <2>1. i' = 0 /\ rxd' = NoReply /\ down' = [r \in Reply |-> 0]
        /\ UNCHANGED <<got, delivered>>
    BY <1>6 DEF SystemReset, server
  <2>2. \A g \in Groups : ~ (g < i')  BY <2>1 DEF Groups
  <2> QED  BY <2>1, <2>2, ReplyFields DEF BackedInvariant, Backed
<1>7. CASE rxd' \in {rxd, NoReply} /\ UNCHANGED <<i, down, got, delivered>>
  BY <1>7, ReplyFields DEF BackedInvariant, Backed
<1>8. ReplyRejected \/ ReplyPartial \/ RecvError
        => rxd' \in {rxd, NoReply} /\ UNCHANGED <<i, down, got, delivered>>
  BY DEF ReplyRejected, ReplyPartial, RecvError, TakeReply, locals, network, server
<1>9. ASSUME \/ SkipArrived \/ Post \/ PostFails \/ WaitWritable \/ WaitFails
             \/ EnterRecv \/ (\E d \in Request : LoseRequest(d)) \/ UNCHANGED vars
      PROVE  BackedInvariant'
  <2>1. UNCHANGED <<i, rxd, down, got, delivered>>
    BY <1>9 DEF SkipArrived, Post, PostFails, WaitWritable, WaitFails, EnterRecv,
                LoseRequest, vars, client, locals, network, server
  <2> QED  BY <1>7, <2>1
<1>10. CASE Client
  BY <1>2, <1>3, <1>5, <1>6, <1>7, <1>8, <1>9, <1>10 DEF Client
<1>11. CASE Environment
  <2>1. Environment =>
          \/ \E d \in Request : LoseRequest(d)
          \/ \E s \in Reply : LoseReply(s)
          \/ \E d \in Request : \/ ServerStores(d) \/ ServerConfirms(d)
                                \/ ServerComplains(d) \/ ServerRefuses(d)
    BY DEF Environment
  <2> QED  BY <1>1, <1>4, <1>7, <1>9, <1>11, <2>1
<1> QED  BY <1>7, <1>9, <1>10, <1>11 DEF Next

LEMMA BackedCorrect == Spec => []BackedInvariant
<1>1. Init => BackedInvariant
  <2> SUFFICES ASSUME Init PROVE BackedInvariant  OBVIOUS
  <2>1. \A g \in Groups : ~ (g < i)  BY DEF Init, Groups
  <2> QED  BY <2>1, ReplyFields DEF Init, BackedInvariant
<1> QED  BY <1>1, StepBacked, TypeCorrect, RoundCorrect, PTL DEF Spec

\* Nothing is on its way or has arrived of an upload that has not begun.
BegunInvariant ==
    /\ \A d \in Request : up[d] > 0 => d.upload <= upload
    /\ \A g \in Groups, p \in Positions : delivered[g][p] \subseteq 1 .. upload

LEMMA StepBegun == TypeOK /\ BegunInvariant /\ [Next]_vars => BegunInvariant'
<1> SUFFICES ASSUME TypeOK, BegunInvariant, [Next]_vars PROVE BegunInvariant'
  OBVIOUS
<1>t. upload \in Nat /\ \A d \in Request : d.upload \in Nat /\ d.upload >= 1
  BY RequestFields, ConstantsAssumption DEF TypeOK
<1>1. CASE StartUpload
  <2>1. upload' = upload + 1 /\ UNCHANGED <<up, delivered>>
    BY <1>1 DEF StartUpload, network, server
  <2>2. \A n \in Nat : n <= upload => n <= upload + 1
    BY <1>t
  <2>3. 1 .. upload \subseteq 1 .. (upload + 1)
    BY <1>t
  <2> QED  BY <1>t, <2>1, <2>2, <2>3 DEF BegunInvariant
<1>2. CASE Post
  <2> DEFINE e == [upload |-> upload, token |-> Here, con |-> Confirmable]
  <2>1. Here \in Token /\ upload \in 1 .. MaxUploads
    BY <1>2, ConstantsAssumption DEF Post, TypeOK, Here, Token, Groups, Positions
  <2>2. e \in Request /\ e.upload = upload
    BY <2>1 DEF Request, Confirmable
  <2>3. up' = Plus(up, e) /\ UNCHANGED <<upload, delivered>>
    BY <1>2 DEF Post, server
  <2> HIDE DEF e
  <2>4. \A d \in Request : up'[d] > 0 => d = e \/ up[d] > 0
    BY <2>2, <2>3, BagCopies DEF TypeOK
  <2> QED  BY <1>t, <2>2, <2>3, <2>4 DEF BegunInvariant
<1>3. CASE SystemReset
  <2>1. up' = [d \in Request |-> 0] /\ UNCHANGED <<upload, delivered>>
    BY <1>3 DEF SystemReset, server
  <2> QED  BY <2>1 DEF BegunInvariant
<1>4. CASE \E d \in Request : LoseRequest(d)
  <2>1. UNCHANGED <<upload, delivered>> /\ \A d \in Request : up'[d] > 0 => up[d] > 0
    BY <1>4, BagCopies DEF LoseRequest, client, server, TypeOK
  <2> QED  BY <2>1 DEF BegunInvariant
<1>5. ASSUME NEW d \in Request, Deliver(d), UNCHANGED client
      PROVE  BegunInvariant'
  <2>1. upload' = upload /\ up[d] > 0 /\ up' = Minus(up, d)
    BY <1>5 DEF Deliver, client
  <2>2. \A e \in Request : up'[e] > 0 => up[e] > 0
    BY <2>1, BagCopies DEF TypeOK
  <2>3. d.upload \in 1 .. upload
    BY <1>t, <2>1 DEF BegunInvariant
  <2>4. \A g \in Groups, p \in Positions : delivered'[g][p] \subseteq delivered[g][p] \cup {d.upload}
    BY <1>5, RequestFields DEF Deliver, TypeOK
  <2> QED  BY <2>1, <2>2, <2>3, <2>4 DEF BegunInvariant
<1>6. CASE UNCHANGED <<upload, up, delivered>>
  BY <1>6 DEF BegunInvariant
<1>7. CASE Client
  BY <1>1, <1>2, <1>3, <1>6, <1>7
  DEF Client, SkipArrived, PostFails, WaitWritable, WaitReadable, WaitFails, EnterRecv,
      RecvError, ReplyRejected, ReplyFull, ReplyPartial, TakeReply, network, server
<1>8. CASE Environment
  BY <1>4, <1>5, <1>6, <1>8
  DEF Environment, LoseReply, ServerStores, ServerConfirms, ServerComplains, ServerRefuses,
      client, server
<1>9. CASE UNCHANGED vars
  BY <1>6, <1>9 DEF vars, client, network, server
<1> QED  BY <1>7, <1>8, <1>9 DEF Next

LEMMA BegunCorrect == Spec => []BegunInvariant
<1>1. Init => BegunInvariant
  BY DEF Init, BegunInvariant
<1> QED  BY <1>1, StepBegun, TypeCorrect, PTL DEF Spec

\* coap_send_fn passes to the next group only if every payload of the group has arrived
\* at the server at some time, and all of them in one upload if the server tells
\* batches apart: no reply, late or doubled, of another group or of another request is
\* taken for the confirmation of a group that never arrived.
THEOREM GroupsAreBacked == Spec => []GroupsBacked
<1>1. TypeOK /\ BegunInvariant /\ BackedInvariant => GroupsBacked
  <2> SUFFICES ASSUME BegunInvariant, BackedInvariant, NEW g \in Groups, g < i,
                      BatchAware
               PROVE  \E u \in 1 .. upload : \A p \in Positions : u \in delivered[g][p]
    BY DEF GroupsBacked, BackedInvariant, Backed
  <2>1. PICK u \in 1 .. MaxUploads : \A p \in Positions : u \in delivered[g][p]
    BY DEF BackedInvariant, Backed
  <2>2. u \in 1 .. upload
    BY <2>1, PositionFacts DEF BegunInvariant
  <2> QED  BY <2>1, <2>2
<1> QED  BY <1>1, TypeCorrect, BegunCorrect, BackedCorrect, PTL

\* In the first upload after a boot, what has arrived is what was sent.
THEOREM FirstUploadArrives ==
    ASSUME MaxUploads = 1
    PROVE  Spec => []GroupsArrived
<1> DEFINE Started == upload > 0 \/ i = 0
<1>1. Init => Started  BY DEF Init
<1>2. TypeOK /\ Started /\ [Next]_vars => Started'
  <2> SUFFICES ASSUME TypeOK, Started, [Next]_vars PROVE Started'  OBVIOUS
  <2>1. CASE ReplyFull
    BY <2>1 DEF ReplyFull, TakeReply, TypeOK
  <2>2. CASE StartUpload
    BY <2>2 DEF StartUpload, TypeOK
  <2>3. CASE upload' = upload /\ i' \in {0, i}
    BY <2>3
  <2> QED
    BY <2>1, <2>2, <2>3
    DEF Next, Client, Environment, vars, client, locals, SkipArrived, Post, PostFails,
        WaitWritable, WaitReadable, WaitFails, SystemReset, EnterRecv, RecvError,
        ReplyRejected, ReplyPartial, TakeReply, LoseRequest, LoseReply,
        ServerStores, ServerConfirms, ServerComplains, ServerRefuses
<1>3. TypeOK /\ Started /\ GroupsBacked => GroupsArrived
  <2> SUFFICES ASSUME TypeOK, Started, GroupsBacked,
                      NEW g \in Groups, g < i, NEW p \in Positions
               PROVE  upload \in delivered[g][p]
    BY DEF GroupsArrived
  <2>1. upload = 1  BY DEF TypeOK, Groups
  <2>2. delivered[g][p] \subseteq {1} /\ delivered[g][p] # {}
    BY DEF TypeOK, GroupsBacked
  <2> QED  BY <2>1, <2>2
<1> QED  BY <1>1, <1>2, <1>3, TypeCorrect, GroupsAreBacked, PTL DEF Spec
=============================================================================
