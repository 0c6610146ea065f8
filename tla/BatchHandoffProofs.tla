------------------------- MODULE BatchHandoffProofs -------------------------
(***************************************************************************)
(* Proofs about BatchHandoff for every batch size, group size and bound.   *)
(*                                                                         *)
(* TypeOK and BufferContents are inductive.  DatagramIntact follows from   *)
(* what the upload still finds in its buffer (UploadBuffer),               *)
(* AtMostThreeUploads from a budget of the uploads that may still come     *)
(* (UploadBudget).                                                         *)
(***************************************************************************)
EXTENDS BatchHandoff, TLAPS

-----------------------------------------------------------------------------
(* Arithmetic of groups and slots. *)

\* Multiplying by a positive group size keeps the order.
LEMMA MultiplicationMonotonic ==
    ASSUME NEW g \in Nat, NEW m \in Nat, NEW n \in Nat, m <= n
    PROVE  g * m <= g * n
<1>1. PICK d \in Nat : n = m + d
  <2>1. n - m \in Nat  OBVIOUS
  <2>2. n = m + (n - m)  OBVIOUS
  <2> QED  BY <2>1, <2>2
<1>2. g * n = g * m + g * d  BY <1>1
<1>3. g * d \in Nat  OBVIOUS
<1> QED  BY <1>2, <1>3

\* A payload of an existing group lies inside the buffer: i*10+x in coap_send_fn.
LEMMA SlotOfGroup ==
    ASSUME NEW g \in Groups, NEW x \in 0 .. GROUP_SIZE - 1
    PROVE  GROUP_SIZE * g + x \in Slots
<1> DEFINE q == PAYLOAD_COUNT \div GROUP_SIZE
<1>1. q \in Nat /\ GROUP_SIZE * q <= PAYLOAD_COUNT  BY SizesAssumption
<1>2. g \in Nat /\ g + 1 <= q  BY <1>1 DEF Groups
<1>3. GROUP_SIZE * (g + 1) <= GROUP_SIZE * q
  BY <1>1, <1>2, MultiplicationMonotonic, SizesAssumption
<1>4. GROUP_SIZE * (g + 1) = GROUP_SIZE * g + GROUP_SIZE  BY <1>2, SizesAssumption
<1>5. GROUP_SIZE * g \in Nat /\ GROUP_SIZE * q \in Nat  BY <1>1, <1>2, SizesAssumption
<1>6. GROUP_SIZE * g + x < PAYLOAD_COUNT
  <2> HIDE DEF q
  <2> QED  BY <1>1, <1>3, <1>4, <1>5, SizesAssumption
<1> QED  BY <1>5, <1>6, SizesAssumption DEF Slots

\* Every buffer has a first slot and every batch a first group.
LEMMA FirstSlot == 0 \in Slots /\ 0 \in Groups
<1>1. PAYLOAD_COUNT \div GROUP_SIZE >= 1  BY SizesAssumption
<1> QED  BY <1>1, SizesAssumption DEF Slots, Groups

\* Where another buffer is concerned, there is one.
LEMMA OtherBuffer ==
    ASSUME NEW b \in Buffers
    PROVE  Other(b) \in Buffers /\ Other(b) # b /\ Other(Other(b)) = b
BY DEF Buffers, Other

-----------------------------------------------------------------------------
(* Type correctness. *)

\* The initial state is well typed.
LEMMA InitTypeOK == Init => TypeOK
<1> SUFFICES ASSUME Init PROVE TypeOK  OBVIOUS
<1>1. 0 \in BatchNumbers /\ 0 \in 0 .. MaxFlushes /\ 0 \in Buffers
  BY SizesAssumption DEF BatchNumbers, Buffers
<1>2. message \in [Buffers -> [Slots -> BatchNumbers]]  BY <1>1 DEF Init
<1>3. datagram \in [batch : BatchNumbers, slot : Slots, size : BatchNumbers,
                   payload : BatchNumbers]
  BY <1>1, FirstSlot DEF Init, NoDatagram
<1> QED  BY <1>1, <1>2, <1>3, FirstSlot DEF Init, TypeOK

\* Every step keeps the types.
LEMMA StepTypeOK == TypeOK /\ [Next]_vars => TypeOK'
<1> SUFFICES ASSUME TypeOK, [Next]_vars PROVE TypeOK'  OBVIOUS
<1> USE SizesAssumption
<1>1. CASE TriggerHandler
  BY <1>1 DEF TriggerHandler, TypeOK, acqvars, netvars, ghosts
<1>2. CASE StartEmptyFifo
  <2>1. flushes' \in 0 .. MaxFlushes  BY <1>2 DEF StartEmptyFifo
  <2> QED  BY <1>2, <2>1 DEF StartEmptyFifo, TypeOK, netvars, ghosts
<1>3. CASE FetchFails
  BY <1>3 DEF FetchFails, TypeOK, netvars, ghosts
<1>4. CASE FetchDone
  BY <1>4 DEF FetchDone, TypeOK, netvars, ghosts
<1>5. CASE StorePayload
  <2>1. completed + 1 \in BatchNumbers /\ flushes' \in 0 .. MaxFlushes
    BY <1>5 DEF StorePayload, BatchComplete, CompleteBatch, TypeOK, BatchNumbers
  <2>2. message' \in [Buffers -> [Slots -> BatchNumbers]]
    BY <1>5, <2>1 DEF StorePayload, BatchComplete, CompleteBatch, TypeOK
  <2>3. /\ msg_index' \in Buffers /\ collected_accel' \in Slots
        /\ send_flag' \in BOOLEAN /\ completed' \in BatchNumbers
    <3>1. CASE collected_accel + 1 = PAYLOAD_COUNT
      BY <1>5, <2>1, <3>1, FirstSlot, OtherBuffer
      DEF StorePayload, BatchComplete, CompleteBatch, TypeOK
    <3>2. CASE collected_accel + 1 # PAYLOAD_COUNT
      BY <1>5, <3>2 DEF StorePayload, BatchComplete, CompleteBatch, TypeOK, Slots
    <3> QED  BY <3>1, <3>2
  <2> QED
    BY <1>5, <2>1, <2>2, <2>3 DEF StorePayload, BatchComplete, CompleteBatch, TypeOK, netvars
<1>6. CASE FinishEmptyFifo
  BY <1>6 DEF FinishEmptyFifo, Submitted, TypeOK, netvars, ghosts
<1>7. CASE NetStart
  BY <1>7, FirstSlot DEF NetStart, TypeOK, acqvars, ghosts
<1>8. CASE ClearSendFlag
  BY <1>8 DEF ClearSendFlag, TypeOK, acqvars, ghosts
<1>9. CASE PickBuffer
  <2>1. t' \in Buffers  BY <1>9, OtherBuffer DEF PickBuffer, CompleteBuffer, TypeOK
  <2>2. picked' \in BatchNumbers
    BY <1>9, <2>1, FirstSlot DEF PickBuffer, CompleteBuffer, TypeOK
  <2>3. uploads' \in Nat  BY <1>9 DEF PickBuffer, CompleteBuffer, TypeOK
  <2> QED  BY <1>9, <2>1, <2>2, <2>3 DEF PickBuffer, CompleteBuffer, TypeOK, acqvars
<1>10. CASE LoadSize
  <2>1. slot' \in Slots  BY <1>10, SlotOfGroup DEF LoadSize, TypeOK
  <2>2. size' \in BatchNumbers  BY <1>10, <2>1 DEF LoadSize, TypeOK
  <2> QED  BY <1>10, <2>1, <2>2 DEF LoadSize, TypeOK, acqvars, ghosts
<1>11. CASE SendDatagram
  BY <1>11 DEF SendDatagram, TypeOK, acqvars, ghosts
<1>12. CASE SendFails
  BY <1>12 DEF SendFails, TypeOK, acqvars, ghosts
<1>13. CASE GroupConfirmed
  BY <1>13, FirstSlot DEF GroupConfirmed, TypeOK, acqvars, ghosts
<1>14. CASE AbandonUpload
  BY <1>14, FirstSlot DEF AbandonUpload, TypeOK, acqvars, ghosts
<1>15. CASE SystemReset
  <2>1. Init'  BY <1>15 DEF SystemReset, Init
  <2> QED  BY <2>1, InitTypeOK, PTL
<1>16. CASE UNCHANGED vars
  BY <1>16 DEF vars, TypeOK, acqvars, netvars, ghosts
<1> QED
  BY <1>1, <1>2, <1>3, <1>4, <1>5, <1>6, <1>7, <1>8, <1>9, <1>10, <1>11, <1>12,
     <1>13, <1>14, <1>15, <1>16
  DEF Next, Acquisition, Upload

\* Type correctness; in particular the slot coap_send_fn computes (i*10+x) and the one
\* empty_fifo_fn fills (collected_accel) never leave message[b].
THEOREM TypeCorrect == Spec => []TypeOK
<1> QED  BY InitTypeOK, StepTypeOK, PTL DEF Spec

-----------------------------------------------------------------------------
(* What the two buffers hold. *)

\* Storing a payload keeps BufferContents: the only step but a reset to disturb it.
LEMMA StoreKeepsContents ==
    ASSUME TypeOK, BufferContents, StorePayload
    PROVE  BufferContents'
<1> DEFINE w == msg_index
<1>1. /\ w \in Buffers /\ Other(w) \in Buffers /\ Other(w) # w
      /\ collected_accel \in Slots /\ completed \in Nat
  BY OtherBuffer DEF TypeOK, BatchNumbers
<1>2. \A s \in Slots :
        /\ message'[Other(w)][s] = completed
        /\ message'[w][s] = IF s < collected_accel + 1 THEN completed + 1
                                                       ELSE Before(completed)
  <2> TAKE s \in Slots
  <2>1. message'[Other(w)] = message[Other(w)]
    BY <1>1 DEF StorePayload, BatchComplete, CompleteBatch, TypeOK
  <2>2. message'[w][s] = IF s = collected_accel THEN completed + 1 ELSE message[w][s]
    BY <1>1 DEF StorePayload, BatchComplete, CompleteBatch, TypeOK
  <2> QED  BY <1>1, <2>1, <2>2 DEF BufferContents, Slots
<1>3. CASE collected_accel + 1 = PAYLOAD_COUNT
  <2>1. /\ msg_index' = Other(w) /\ Other(msg_index') = w
        /\ collected_accel' = 0 /\ completed' = completed + 1
    BY <1>3, OtherBuffer, <1>1 DEF StorePayload, BatchComplete, CompleteBatch
  <2>2. \A s \in Slots : s < collected_accel + 1 /\ ~ (s < 0)
    BY <1>1, <1>3, SizesAssumption DEF Slots
  <2>3. Before(completed') = completed  BY <2>1, <1>1 DEF Before
  <2> HIDE DEF w
  <2>4. SUFFICES ASSUME NEW s \in Slots
                 PROVE  /\ message'[w][s] = completed'
                        /\ message'[Other(w)][s] = completed
    BY <2>1, <2>2, <2>3 DEF BufferContents
  <2> QED  BY <1>2, <2>1, <2>2
<1>4. CASE collected_accel + 1 # PAYLOAD_COUNT
  <2>1. /\ msg_index' = w /\ collected_accel' = collected_accel + 1
        /\ completed' = completed
    BY <1>4 DEF StorePayload, BatchComplete, CompleteBatch
  <2> HIDE DEF w
  <2> QED  BY <1>2, <2>1 DEF BufferContents
<1> QED  BY <1>3, <1>4

LEMMA StepContents == TypeOK /\ BufferContents /\ [Next]_vars => BufferContents'
<1> SUFFICES ASSUME TypeOK, BufferContents, [Next]_vars PROVE BufferContents'
  OBVIOUS
<1>1. CASE StorePayload  BY <1>1, StoreKeepsContents
<1>2. CASE SystemReset
  <2>1. /\ message' = [b \in Buffers |-> [s \in Slots |-> 0]]
        /\ msg_index' \in Buffers /\ collected_accel' = 0 /\ completed' = 0
    BY <1>2 DEF SystemReset, Buffers
  <2> QED  BY <2>1, OtherBuffer DEF BufferContents, Before, Slots
<1>3. CASE UNCHANGED <<message, msg_index, collected_accel, completed>>
  BY <1>3 DEF BufferContents
<1>4. \/ StorePayload \/ SystemReset
      \/ UNCHANGED <<message, msg_index, collected_accel, completed>>
  BY DEF Next, Acquisition, Upload, vars, acqvars, netvars, ghosts,
         TriggerHandler, StartEmptyFifo, FetchFails, FetchDone, FinishEmptyFifo,
         NetStart, ClearSendFlag, PickBuffer, LoadSize, SendDatagram, SendFails,
         GroupConfirmed, AbandonUpload
<1> QED  BY <1>1, <1>2, <1>3, <1>4

\* One buffer always holds the whole latest batch, the other the next one so far: the
\* index arithmetic of empty_fifo_fn never mixes batches.
THEOREM ContentsCorrect == Spec => []BufferContents
<1>1. Init => BufferContents
  <2> SUFFICES ASSUME Init PROVE BufferContents  OBVIOUS
  <2>1. msg_index \in Buffers  BY DEF Init, Buffers
  <2> QED  BY <2>1, OtherBuffer DEF Init, BufferContents, Before, Slots
<1> QED  BY <1>1, StepContents, TypeCorrect, PTL DEF Spec

-----------------------------------------------------------------------------
(* What the upload finds. *)

\* While an upload runs, its buffer holds the batch it took, but for the slots the
\* acquisition has overwritten since.
UploadBuffer ==
    /\ picked <= completed
    /\ net # "idle" /\ "pick" \notin todo =>
         /\ picked = completed => t = Other(msg_index)
         /\ \A s \in Slots : message[t][s] = picked \/ Lapped(picked, s)
    /\ net = "send" =>
         /\ "pick" \notin todo
         /\ size = picked \/ Lapped(picked, slot)

\* Storing a payload only adds to the slots a batch has lost.
LEMMA LappedGrows ==
    ASSUME TypeOK, StorePayload, NEW b \in Nat, NEW s \in Slots, Lapped(b, s)
    PROVE  Lapped(b, s)'
<1>1. completed \in Nat /\ collected_accel \in Nat /\ s \in 0 .. PAYLOAD_COUNT - 1
  BY SizesAssumption DEF TypeOK, BatchNumbers, Slots
<1>2. CASE collected_accel + 1 = PAYLOAD_COUNT
  <2>1. completed' = completed + 1 /\ collected_accel' = 0
    BY <1>2 DEF StorePayload, BatchComplete, CompleteBatch
  <2> QED  BY <1>1, <2>1 DEF Lapped
<1>3. CASE collected_accel + 1 # PAYLOAD_COUNT
  <2>1. completed' = completed /\ collected_accel' = collected_accel + 1
    BY <1>3 DEF StorePayload, BatchComplete, CompleteBatch
  <2> QED  BY <1>1, <2>1 DEF Lapped
<1> QED  BY <1>2, <1>3

LEMMA StoreKeepsUpload ==
    ASSUME TypeOK, BufferContents, UploadBuffer, StorePayload
    PROVE  UploadBuffer'
<1>1. /\ completed \in Nat /\ picked \in Nat /\ collected_accel \in Slots
      /\ slot \in Slots /\ t \in Buffers /\ msg_index \in Buffers
      /\ Other(msg_index) \in Buffers /\ Other(msg_index) # msg_index
  BY OtherBuffer DEF TypeOK, BatchNumbers
<1>2. UNCHANGED <<net, todo, t, slot, size, picked>>
  BY DEF StorePayload, BatchComplete, CompleteBatch, netvars
<1>3. picked <= completed /\ picked <= completed'
  BY <1>1 DEF StorePayload, BatchComplete, CompleteBatch, UploadBuffer
<1>4. ASSUME net # "idle", "pick" \notin todo, picked = completed'
      PROVE  t = Other(msg_index')
  <2>1. completed' = completed /\ msg_index' = msg_index
    BY <1>1, <1>3, <1>4 DEF StorePayload, BatchComplete, CompleteBatch
  <2> QED  BY <2>1, <1>4 DEF UploadBuffer
<1>5. ASSUME net # "idle", "pick" \notin todo, NEW s \in Slots
      PROVE  message'[t][s] = picked \/ Lapped(picked, s)'
  <2>1. CASE t # msg_index
    <3>1. message'[t][s] = message[t][s]
      BY <1>1, <2>1 DEF StorePayload, BatchComplete, CompleteBatch, TypeOK
    <3> QED  BY <1>1, <1>2, <1>5, <3>1, LappedGrows DEF UploadBuffer
  <2>2. CASE t = msg_index /\ s # collected_accel
    <3>1. message'[t][s] = message[t][s]
      BY <1>1, <2>2 DEF StorePayload, BatchComplete, CompleteBatch, TypeOK
    <3> QED  BY <1>1, <1>2, <1>5, <3>1, LappedGrows DEF UploadBuffer
  <2>3. CASE t = msg_index /\ s = collected_accel
    <3>1. picked < completed  BY <1>1, <1>3, <1>5, <2>3 DEF UploadBuffer
    <3>2. \/ completed' = completed + 1
          \/ completed' = completed /\ collected_accel' = collected_accel + 1
      BY DEF StorePayload, BatchComplete, CompleteBatch
    <3>3. collected_accel \in Nat  BY <1>1, SizesAssumption DEF Slots
    <3> QED  BY <1>1, <1>2, <2>3, <3>1, <3>2, <3>3 DEF Lapped
  <2> QED  BY <2>1, <2>2, <2>3
<1>6. ASSUME net = "send" PROVE size = picked \/ Lapped(picked, slot)'
  BY <1>1, <1>2, <1>6, LappedGrows DEF UploadBuffer
<1> QED  BY <1>2, <1>3, <1>4, <1>5, <1>6 DEF UploadBuffer

LEMMA StepUpload ==
    TypeOK /\ BufferContents /\ UploadBuffer /\ [Next]_vars => UploadBuffer'
<1> SUFFICES ASSUME TypeOK, BufferContents, UploadBuffer, [Next]_vars
             PROVE  UploadBuffer'
  OBVIOUS
<1> DEFINE Data == <<message, msg_index, collected_accel, completed>>
<1>1. CASE StorePayload  BY <1>1, StoreKeepsUpload
<1>2. CASE NetStart
  BY <1>2 DEF NetStart, UploadBuffer, Lapped, acqvars, ghosts
<1>3. CASE ClearSendFlag
  BY <1>3 DEF ClearSendFlag, UploadBuffer, Lapped, acqvars, ghosts
<1>4. CASE PickBuffer
  <2>1. /\ t' = Other(msg_index) /\ UNCHANGED <<Data, net, size, slot>>
        /\ todo' = todo \ {"pick"} /\ "pick" \in todo
    BY <1>4 DEF PickBuffer, CompleteBuffer, acqvars
  <2>2. /\ picked' = completed
        /\ \A s \in Slots : message[t'][s] = completed
    BY <1>4, <2>1, FirstSlot DEF PickBuffer, CompleteBuffer, BufferContents
  <2>3. net # "send"  BY <2>1 DEF UploadBuffer
  <2>4. completed \in Nat  BY DEF TypeOK, BatchNumbers
  <2> QED  BY <2>1, <2>2, <2>3, <2>4 DEF UploadBuffer
<1>5. CASE LoadSize
  <2>1. slot' \in Slots  BY <1>5, SlotOfGroup DEF LoadSize, TypeOK
  <2>2. message[t][slot'] = picked \/ Lapped(picked, slot')
    BY <1>5, <2>1 DEF LoadSize, UploadBuffer
  <2> QED  BY <1>5, <2>2 DEF LoadSize, UploadBuffer, Lapped, acqvars, ghosts
<1>6. CASE SendDatagram \/ SendFails
  BY <1>6 DEF SendDatagram, SendFails, UploadBuffer, Lapped, acqvars, ghosts
<1>7. CASE GroupConfirmed \/ AbandonUpload
  BY <1>7 DEF GroupConfirmed, AbandonUpload, UploadBuffer, Lapped, acqvars, ghosts
<1>8. CASE SystemReset
  BY <1>8 DEF SystemReset, UploadBuffer
<1>9. CASE UNCHANGED <<Data, netvars, picked>>
  BY <1>9 DEF UploadBuffer, Lapped, netvars
<1>10. \/ StorePayload \/ NetStart \/ ClearSendFlag \/ PickBuffer \/ LoadSize
       \/ SendDatagram \/ SendFails \/ GroupConfirmed \/ AbandonUpload \/ SystemReset
       \/ UNCHANGED <<Data, netvars, picked>>
  BY DEF Next, Acquisition, Upload, vars, acqvars, ghosts,
         TriggerHandler, StartEmptyFifo, FetchFails, FetchDone, FinishEmptyFifo
<1> QED  BY <1>1, <1>2, <1>3, <1>4, <1>5, <1>6, <1>7, <1>8, <1>9, <1>10

LEMMA UploadBufferInvariant == Spec => []UploadBuffer
<1>1. Init => UploadBuffer  BY DEF Init, UploadBuffer
<1> QED  BY <1>1, StepUpload, TypeCorrect, ContentsCorrect, PTL DEF Spec

LEMMA StepDatagram ==
    TypeOK /\ UploadBuffer /\ DatagramIntact /\ [Next]_vars => DatagramIntact'
<1> SUFFICES ASSUME TypeOK, UploadBuffer, DatagramIntact, [Next]_vars
             PROVE  DatagramIntact'
  OBVIOUS
<1>1. CASE StorePayload
  <2>1. datagram' = datagram
    BY <1>1 DEF StorePayload, BatchComplete, CompleteBatch, netvars
  <2>2. datagram.batch \in Nat /\ datagram.slot \in Slots
    BY DEF TypeOK, BatchNumbers
  <2>3. Lapped(datagram.batch, datagram.slot) =>
          Lapped(datagram.batch, datagram.slot)'
    <3>1. \/ completed' = completed + 1
          \/ completed' = completed /\ collected_accel' = collected_accel + 1
      BY <1>1 DEF StorePayload, BatchComplete, CompleteBatch
    <3>2. completed' = completed + 1 => collected_accel + 1 = PAYLOAD_COUNT
      BY <1>1 DEF StorePayload, BatchComplete, CompleteBatch, TypeOK, BatchNumbers
    <3>3. /\ datagram.batch \in Nat /\ datagram.slot \in 0 .. PAYLOAD_COUNT - 1
          /\ completed \in Nat /\ collected_accel \in Nat
      BY <2>2, SizesAssumption DEF TypeOK, Slots, BatchNumbers
    <3> QED  BY <2>1, <3>1, <3>2, <3>3 DEF Lapped
  <2> QED  BY <2>1, <2>3 DEF DatagramIntact
<1>2. CASE SendDatagram
  <2>1. /\ datagram' = [batch |-> picked, slot |-> slot, size |-> size,
                        payload |-> message[t][slot]]
        /\ UNCHANGED <<completed, collected_accel>> /\ net = "send"
    BY <1>2 DEF SendDatagram, acqvars, ghosts
  <2>2. /\ size = picked \/ Lapped(picked, slot)
        /\ message[t][slot] = picked \/ Lapped(picked, slot)
    BY <2>1 DEF UploadBuffer, TypeOK
  <2> QED  BY <2>1, <2>2 DEF DatagramIntact, Lapped
<1>3. CASE SystemReset
  BY <1>3 DEF SystemReset, DatagramIntact, NoDatagram
<1>4. CASE UNCHANGED <<datagram, completed, collected_accel>>
  BY <1>4 DEF DatagramIntact, Lapped
<1>5. \/ StorePayload \/ SendDatagram \/ SystemReset
      \/ UNCHANGED <<datagram, completed, collected_accel>>
  BY DEF Next, Acquisition, Upload, vars, acqvars, netvars, ghosts,
         TriggerHandler, StartEmptyFifo, FetchFails, FetchDone, FinishEmptyFifo,
         NetStart, ClearSendFlag, PickBuffer, LoadSize, SendFails,
         GroupConfirmed, AbandonUpload
<1> QED  BY <1>1, <1>2, <1>3, <1>4, <1>5

\* A datagram that is not intact belongs to a batch the acquisition has lapped at that
\* very slot: coap_send_fn, which copies size and bytes without a lock, has a whole
\* batch of time before it can send mixed data.
THEOREM DatagramsIntact == Spec => []DatagramIntact
<1>1. Init => DatagramIntact  BY DEF Init, DatagramIntact, NoDatagram
<1> QED  BY <1>1, StepDatagram, TypeCorrect, UploadBufferInvariant, PTL DEF Spec

-----------------------------------------------------------------------------
(* No batch is lost on the way to an upload, and none is taken over and over. *)

LEMMA StepNoLostBatch ==
    TypeOK /\ BufferContents /\ NoLostBatch /\ [Next]_vars => NoLostBatch'
<1> SUFFICES ASSUME TypeOK, BufferContents, NoLostBatch, [Next]_vars
             PROVE  NoLostBatch'
  OBVIOUS
<1>1. CASE StorePayload
  <2>1. sensor' = "encode" /\ UNCHANGED <<coap_queued, todo, picked>>
    BY <1>1 DEF StorePayload, BatchComplete, CompleteBatch, netvars
  <2>2. send_flag' = TRUE \/ UNCHANGED <<send_flag, completed>>
    BY <1>1 DEF StorePayload, BatchComplete, CompleteBatch
  <2> QED  BY <1>1, <2>1, <2>2 DEF StorePayload, BatchComplete, CompleteBatch, NoLostBatch
<1>2. CASE FinishEmptyFifo
  BY <1>2 DEF FinishEmptyFifo, Submitted, NoLostBatch, netvars, ghosts
<1>3. CASE StartEmptyFifo \/ FetchFails \/ FetchDone
  BY <1>3 DEF StartEmptyFifo, FetchFails, FetchDone, NoLostBatch, netvars, ghosts
<1>4. CASE NetStart
  BY <1>4 DEF NetStart, NoLostBatch
<1>5. CASE ClearSendFlag
  BY <1>5 DEF ClearSendFlag, NetMayRun, NoLostBatch, acqvars, ghosts
<1>6. CASE PickBuffer
  <2>1. picked' = completed /\ completed' = completed
    BY <1>6, FirstSlot DEF PickBuffer, CompleteBuffer, BufferContents
  <2>2. ~ (completed > completed)  BY DEF TypeOK, BatchNumbers
  <2> QED  BY <2>1, <2>2 DEF NoLostBatch
<1>7. CASE SystemReset
  BY <1>7 DEF SystemReset, NoLostBatch
<1>8. CASE UNCHANGED <<completed, picked, coap_queued, todo, sensor, send_flag>>
  BY <1>8 DEF NoLostBatch
<1> QED
  BY <1>1, <1>2, <1>3, <1>4, <1>5, <1>6, <1>7, <1>8
  DEF Next, Acquisition, Upload, vars, acqvars, netvars, ghosts, TriggerHandler,
      LoadSize, SendDatagram, SendFails, GroupConfirmed, AbandonUpload

\* A complete batch no upload took yet always has an upload coming: the unlocked
\* send_flag and the work item never let one slip between the two work queues.
THEOREM BatchNeverLost == Spec => []NoLostBatch
<1>1. Init => NoLostBatch  BY DEF Init, NoLostBatch
<1> QED  BY <1>1, StepNoLostBatch, TypeCorrect, ContentsCorrect, PTL DEF Spec

\* The uploads that can still take the present batch: one that is about to pick, one
\* that is queued, and those a set send_flag can submit before it is cleared.
StillToCome ==
    (IF "pick" \in todo THEN 1 ELSE 0) +
    (IF send_flag THEN IF "clear" \in todo THEN 1 ELSE 2
                  ELSE IF coap_queued THEN 1 ELSE 0)

UploadBudget ==
    /\ uploads <= 3
    /\ picked = completed => uploads + StillToCome <= 3
    /\ net = "idle" => todo = {}

LEMMA StillToComeBounds == StillToCome \in 0 .. 3
BY DEF StillToCome

LEMMA StepUploadBudget ==
    TypeOK /\ BufferContents /\ UploadBuffer /\ UploadBudget /\ [Next]_vars
        => UploadBudget'
<1> SUFFICES ASSUME TypeOK, BufferContents, UploadBuffer, UploadBudget, [Next]_vars
             PROVE  UploadBudget'
  OBVIOUS
<1>t. uploads \in Nat /\ picked \in Nat /\ completed \in Nat
  BY DEF TypeOK, BatchNumbers
<1>1. CASE StorePayload
  <2>1. UNCHANGED <<net, todo, uploads, picked, coap_queued>>
    BY <1>1 DEF StorePayload, BatchComplete, CompleteBatch, netvars
  <2>2. \/ completed' = completed + 1
        \/ UNCHANGED <<completed, send_flag>>
    BY <1>1 DEF StorePayload, BatchComplete, CompleteBatch
  <2>3. picked <= completed  BY DEF UploadBuffer
  <2>4. ASSUME picked = completed' PROVE UNCHANGED <<completed, send_flag>>
    BY <2>2, <2>3, <2>4, <1>t
  <2> QED  BY <2>1, <2>4 DEF UploadBudget, StillToCome
<1>2. CASE FinishEmptyFifo
  <2>1. StillToCome' = StillToCome
    BY <1>2 DEF FinishEmptyFifo, Submitted, StillToCome, netvars
  <2> QED  BY <1>2, <2>1 DEF FinishEmptyFifo, UploadBudget, netvars, ghosts
<1>3. CASE NetStart
  <2>1. todo = {} /\ todo' = {"clear", "pick"} /\ coap_queued /\ ~ coap_queued'
        /\ net' = "upload" /\ UNCHANGED <<send_flag, ghosts>>
    BY <1>3 DEF NetStart, UploadBudget, TypeOK
  <2>2. StillToCome' = StillToCome
    BY <2>1 DEF StillToCome
  <2> QED  BY <2>1, <2>2 DEF UploadBudget, ghosts
<1>4. CASE ClearSendFlag
  <2>1. todo' = todo \ {"clear"} /\ "clear" \in todo /\ send_flag' = FALSE
        /\ UNCHANGED <<net, coap_queued, ghosts>>
    BY <1>4 DEF ClearSendFlag
  <2>2. StillToCome' <= StillToCome  BY <2>1 DEF StillToCome
  <2>3. net' # "idle"  BY <2>1 DEF UploadBudget
  <2> QED
    BY <2>1, <2>2, <2>3, <1>t, StillToComeBounds DEF UploadBudget, ghosts, StillToCome
<1>5. CASE PickBuffer
  <2>1. /\ todo' = todo \ {"pick"} /\ "pick" \in todo
        /\ picked' = completed /\ completed' = completed
        /\ uploads' = IF completed = picked THEN uploads + 1 ELSE 1
        /\ UNCHANGED <<net, coap_queued, send_flag>>
    BY <1>5, FirstSlot DEF PickBuffer, CompleteBuffer, BufferContents, acqvars
  <2>2. StillToCome' = StillToCome - 1 /\ StillToCome' \in 0 .. 2
    BY <2>1 DEF StillToCome
  <2>3. net' # "idle"  BY <2>1 DEF UploadBudget
  <2>4. StillToCome \in 0 .. 3  BY StillToComeBounds
  <2>5. uploads' + StillToCome' <= 3
    <3>1. PICK c \in 0 .. 3 : c = StillToCome  BY <2>4
    <3>2. StillToCome' = c - 1 /\ c - 1 \in 0 .. 2  BY <2>2, <3>1
    <3>3. picked = completed => uploads + c <= 3  BY <3>1 DEF UploadBudget
    <3>4. uploads' + (c - 1) <= 3  BY <2>1, <3>2, <3>3, <1>t
    <3> QED  BY <3>2, <3>4
  <2>6. uploads' <= 3
    <3>1. StillToCome \in 1 .. 3  BY <2>1 DEF StillToCome
    <3>2. PICK c \in 1 .. 3 : c = StillToCome  BY <3>1
    <3>3. picked = completed => uploads + c <= 3  BY <3>2 DEF UploadBudget
    <3>4. c \in 1 .. 3  BY <3>2
    <3> QED  BY <2>1, <3>3, <3>4, <1>t
  <2> QED  BY <2>3, <2>5, <2>6 DEF UploadBudget
<1>6. CASE SystemReset
  BY <1>6 DEF SystemReset, UploadBudget, StillToCome
<1>7. CASE GroupConfirmed \/ AbandonUpload
  <2>1. todo = {} /\ UNCHANGED <<todo, send_flag, coap_queued, ghosts>>
    BY <1>7 DEF GroupConfirmed, AbandonUpload
  <2> QED  BY <2>1 DEF UploadBudget, StillToCome, ghosts
<1>8. CASE LoadSize \/ SendDatagram \/ SendFails
  BY <1>8 DEF LoadSize, SendDatagram, SendFails, UploadBudget, StillToCome, ghosts
<1>9. CASE UNCHANGED <<net, todo, send_flag, coap_queued, ghosts>>
  BY <1>9 DEF UploadBudget, StillToCome, ghosts
<1> QED
  BY <1>1, <1>2, <1>3, <1>4, <1>5, <1>6, <1>7, <1>8, <1>9
  DEF Next, Acquisition, Upload, vars, acqvars, netvars, TriggerHandler,
      StartEmptyFifo, FetchFails, FetchDone

\* A batch is taken at most three times, whatever the order in which the upload clears
\* send_flag and picks its buffer, and whenever the acquisition runs in between.
THEOREM UploadsBounded == Spec => []AtMostThreeUploads
<1>1. Init => UploadBudget  BY DEF Init, UploadBudget, StillToCome
<1>2. UploadBudget => AtMostThreeUploads  BY DEF UploadBudget, AtMostThreeUploads
<1> QED
  BY <1>1, <1>2, StepUploadBudget, TypeCorrect, ContentsCorrect,
     UploadBufferInvariant, PTL DEF Spec

-----------------------------------------------------------------------------
(* The buffers implement the register of the latest batch. *)

LEMMA StepRefines ==
    TypeOK /\ BufferContents /\ BufferContents' /\ [Next]_vars
        => [Register!Next]_(Register!regvars)
<1> SUFFICES ASSUME TypeOK, BufferContents, BufferContents', [Next]_vars
             PROVE  [Register!Next]_(Register!regvars)
  OBVIOUS
<1> DEFINE pub == message[Other(msg_index)][0]
<1>1. pub = completed /\ pub' = completed'  BY FirstSlot DEF BufferContents
<1>2. CASE StorePayload
  <2>1. picked' = picked /\ (completed' = completed + 1 \/ completed' = completed)
    BY <1>2 DEF StorePayload, BatchComplete, CompleteBatch
  <2> QED
    BY <1>1, <2>1 DEF Register!Next, Register!Publish, Register!regvars
<1>3. CASE PickBuffer
  <2>1. picked' = pub /\ completed' = completed
    BY <1>3 DEF PickBuffer, CompleteBuffer
  <2> QED  BY <1>1, <2>1 DEF Register!Next, Register!Take, Register!regvars
<1>4. CASE SystemReset
  <2>1. picked' = 0 /\ completed' = 0  BY <1>4 DEF SystemReset
  <2> QED  BY <1>1, <2>1 DEF Register!Next, Register!Restart, Register!regvars
<1>5. CASE UNCHANGED <<picked, completed>>
  BY <1>1, <1>5 DEF Register!regvars
<1> QED
  BY <1>2, <1>3, <1>4, <1>5
  DEF Next, Acquisition, Upload, vars, ghosts, TriggerHandler, StartEmptyFifo,
      FetchFails, FetchDone, FinishEmptyFifo, NetStart, ClearSendFlag, LoadSize,
      SendDatagram, SendFails, GroupConfirmed, AbandonUpload

\* The two buffers, their index and the work items implement a register that holds the
\* latest complete batch: an upload always takes the latest one, and takes it whole.
THEOREM Refinement == Spec => PublishesLatest
<1>1. Init => Register!Init
  BY FirstSlot DEF Init, Register!Init, Buffers, Other
<1> QED
  BY <1>1, StepRefines, TypeCorrect, ContentsCorrect, PTL
  DEF Spec, PublishesLatest, Register!Safety
=============================================================================
