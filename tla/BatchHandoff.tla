----------------------------- MODULE BatchHandoff -----------------------------
(***************************************************************************)
(* The two payload buffers message[0] and message[1] between the           *)
(* acquisition (empty_fifo_fn in sensor.c, on the system work queue) and   *)
(* the upload (coap_send_fn in networking.c, on the network work queue).   *)
(*                                                                         *)
(* The system work queue is cooperative and the network work queue is      *)
(* preemptible (priority 4, main.c).  The acquisition takes the processor  *)
(* from the upload between any two instructions, and the upload runs only  *)
(* while the acquisition is idle or blocked in an SPI or I2C transfer.     *)
(*                                                                         *)
(* A payload is the number of the batch it belongs to, 0 the empty memory  *)
(* of a device that just booted.                                           *)
(*                                                                         *)
(* A definition marked "Variant" is a wrong form of the one that follows:  *)
(* no specification uses it, and with it in place of the right one a       *)
(* property fails.                                                         *)
(***************************************************************************)
EXTENDS Integers

CONSTANTS PAYLOAD_COUNT,    \* payloads in a batch (60)
          GROUP_SIZE,       \* payloads a confirmation covers (10)
          MaxFlushes,       \* payloads one FIFO of samples can complete (2)
          MaxBatches        \* bound on the batches the acquisition completes

ASSUME SizesAssumption ==
    /\ GROUP_SIZE \in Nat \ {0}
    /\ PAYLOAD_COUNT \in Nat
    /\ PAYLOAD_COUNT >= GROUP_SIZE
    /\ MaxFlushes \in Nat
    /\ MaxBatches \in Nat

Buffers == {0, 1}
Slots == 0 .. PAYLOAD_COUNT - 1
Groups == 0 .. (PAYLOAD_COUNT \div GROUP_SIZE) - 1
Other(b) == 1 - b

VARIABLES
    message,            \* message[b][s]: the batch whose payload the slot holds
    msg_index,          \* the buffer the acquisition fills
    collected_accel,    \* payloads stored in it
    send_flag,          \* a batch was completed and no upload has started since
    fifo_queued,        \* the work item empty_fifo waits in its queue
    sensor,             \* empty_fifo_fn: "idle", "fetch" (may block), "encode"
    flushes,            \* payloads stored by this call of empty_fifo_fn
    coap_queued,        \* the work item coap_send waits in its queue
    net,                \* coap_send_fn: "idle", "upload", "send" (in client_get_send)
    todo,               \* of its first two statements, those still to execute
    t,                  \* the buffer it uploads
    i,                  \* the group it uploads
    slot, size,         \* arguments of client_get_send: the slot, the batch of its size
    datagram,           \* ghost: the last datagram sent
    completed,          \* ghost: batches completed since boot
    picked,             \* ghost: the batch the last upload took
    uploads             \* ghost: how often that batch was taken

acqvars == <<message, msg_index, collected_accel, flushes, sensor>>
netvars == <<net, todo, t, i, slot, size, datagram>>
ghosts == <<completed, picked, uploads>>
vars == <<acqvars, send_flag, fifo_queued, coap_queued, netvars, ghosts>>

NoDatagram == [batch |-> 0, slot |-> 0, size |-> 0, payload |-> 0]

Init ==
    /\ message = [b \in Buffers |-> [s \in Slots |-> 0]]
    /\ msg_index = 0
    /\ collected_accel = 0
    /\ send_flag = FALSE
    /\ fifo_queued = FALSE
    /\ sensor = "idle"
    /\ flushes = 0
    /\ coap_queued = FALSE
    /\ net = "idle"
    /\ todo = {}
    /\ t = 0
    /\ i = 0
    /\ slot = 0
    /\ size = 0
    /\ datagram = NoDatagram
    /\ completed = 0
    /\ picked = 0
    /\ uploads = 0

-----------------------------------------------------------------------------
(* The acquisition, on the cooperative system work queue. *)

\* The FIFO watermark: trigger_handler submits empty_fifo, once if already queued.
TriggerHandler ==
    /\ fifo_queued' = TRUE
    /\ UNCHANGED <<acqvars, send_flag, coap_queued, netvars, ghosts>>

StartEmptyFifo ==
    /\ sensor = "idle"
    /\ fifo_queued
    /\ fifo_queued' = FALSE
    /\ sensor' = "fetch"
    /\ flushes' = 0
    /\ UNCHANGED <<message, msg_index, collected_accel, send_flag, coap_queued,
                   netvars, ghosts>>

\* A failing adxl362 fetch or FIFO read returns at once: nothing is stored or submitted.
FetchFails ==
    /\ sensor = "fetch"
    /\ sensor' = "idle"
    /\ UNCHANGED <<message, msg_index, collected_accel, flushes, send_flag,
                   fifo_queued, coap_queued, netvars, ghosts>>

\* The last blocking transfer (bme680) is over.
FetchDone ==
    /\ sensor = "fetch"
    /\ sensor' = "encode"
    /\ UNCHANGED <<message, msg_index, collected_accel, flushes, send_flag,
                   fifo_queued, coap_queued, netvars, ghosts>>

\* The payload about to be stored is the last of its batch.
\* Variant: one payload too late.
LateBatchComplete == collected_accel = PAYLOAD_COUNT
BatchComplete == collected_accel + 1 = PAYLOAD_COUNT

\* The batch is handed over, and the next one goes to the other buffer.
\* Variant: the same buffer is filled again.
CompleteBatchInPlace ==
    /\ send_flag' = TRUE
    /\ collected_accel' = 0
    /\ completed' = completed + 1
    /\ UNCHANGED msg_index

CompleteBatch ==
    /\ msg_index' = Other(msg_index)
    /\ send_flag' = TRUE
    /\ collected_accel' = 0
    /\ completed' = completed + 1

\* One payload is full: it is stored, and the last one completes its batch.
\* (A payload that cannot be encoded is dropped, which changes nothing here.)
StorePayload ==
    /\ sensor = "encode"
    /\ flushes < MaxFlushes
    /\ completed < MaxBatches
    /\ message' = [message EXCEPT ![msg_index][collected_accel] = completed + 1]
    /\ flushes' = flushes + 1
    /\ IF BatchComplete
       THEN CompleteBatch
       ELSE /\ collected_accel' = collected_accel + 1
            /\ UNCHANGED <<msg_index, send_flag, completed>>
    /\ UNCHANGED <<sensor, fifo_queued, coap_queued, netvars, picked, uploads>>

\* coap_send is submitted if send_flag is still set; once if it is queued already.
\* Variant: a running upload is not submitted again.
SubmittedWhenIdle == coap_queued \/ (send_flag /\ net = "idle")
Submitted == coap_queued \/ send_flag

\* All samples are consumed.
FinishEmptyFifo ==
    /\ sensor = "encode"
    /\ sensor' = "idle"
    /\ coap_queued' = Submitted
    /\ UNCHANGED <<message, msg_index, collected_accel, flushes, send_flag,
                   fifo_queued, netvars, ghosts>>

-----------------------------------------------------------------------------
(* The upload, on the preemptible network work queue. *)

\* Past its last transfer the cooperative acquisition does not give the processor up.
\* Variant: the acquisition can be preempted.
NetRunsAnytime == TRUE
NetMayRun == sensor # "encode"

NetStart ==
    /\ NetMayRun
    /\ net = "idle"
    /\ coap_queued
    /\ coap_queued' = FALSE
    /\ net' = "upload"
    /\ todo' = {"clear", "pick"}
    /\ i' = 0
    /\ UNCHANGED <<acqvars, send_flag, fifo_queued, t, slot, size, datagram, ghosts>>

\* Variant: the flag is left set.
ClearNothing ==
    /\ NetMayRun
    /\ "clear" \in todo
    /\ todo' = todo \ {"clear"}
    /\ UNCHANGED <<acqvars, send_flag, fifo_queued, coap_queued, net, t, i, slot, size,
                   datagram, ghosts>>

\* send_flag = false.  Both variables are plain, so the compiler may exchange this
\* statement and the next.
ClearSendFlag ==
    /\ NetMayRun
    /\ "clear" \in todo
    /\ todo' = todo \ {"clear"}
    /\ send_flag' = FALSE
    /\ UNCHANGED <<acqvars, fifo_queued, coap_queued, net, t, i, slot, size,
                   datagram, ghosts>>

\* t = (msg_index == 1) ? 0 : 1
\* Variant: the other buffer.
FillingBuffer == msg_index
CompleteBuffer == Other(msg_index)

PickBuffer ==
    /\ NetMayRun
    /\ "pick" \in todo
    /\ todo' = todo \ {"pick"}
    /\ t' = CompleteBuffer
    /\ picked' = message[t'][0]
    /\ uploads' = IF picked' = picked THEN uploads + 1 ELSE 1
    /\ UNCHANGED <<acqvars, send_flag, fifo_queued, coap_queued, net, i, slot, size,
                   datagram, completed>>

\* client_get_send is called for a payload of the group: its size is read here ...
LoadSize ==
    /\ NetMayRun
    /\ net = "upload"
    /\ todo = {}
    /\ \E x \in 0 .. GROUP_SIZE - 1 : slot' = GROUP_SIZE * i + x
    /\ size' = message[t][slot']
    /\ net' = "send"
    /\ UNCHANGED <<acqvars, send_flag, fifo_queued, coap_queued, todo, t, i,
                   datagram, ghosts>>

\* ... and its bytes are copied into coap_buf here.
SendDatagram ==
    /\ NetMayRun
    /\ net = "send"
    /\ datagram' = [batch |-> picked, slot |-> slot, size |-> size,
                    payload |-> message[t][slot]]
    /\ net' = "upload"
    /\ UNCHANGED <<acqvars, send_flag, fifo_queued, coap_queued, todo, t, i, slot,
                   size, ghosts>>

\* The packet cannot be built or sent: tried again, or the device restarts.
SendFails ==
    /\ NetMayRun
    /\ net = "send"
    /\ net' = "upload"
    /\ UNCHANGED <<acqvars, send_flag, fifo_queued, coap_queued, todo, t, i, slot,
                   size, datagram, ghosts>>

\* The server confirmed the group; the last one ends the upload.
GroupConfirmed ==
    /\ NetMayRun
    /\ net = "upload"
    /\ todo = {}
    /\ IF i + 1 \in Groups
       THEN i' = i + 1 /\ net' = "upload"
       ELSE i' = 0 /\ net' = "idle"
    /\ UNCHANGED <<acqvars, send_flag, fifo_queued, coap_queued, todo, t, slot, size,
                   datagram, ghosts>>

\* A receive error, or an answer that cannot be used once the tries are spent.
AbandonUpload ==
    /\ NetMayRun
    /\ net = "upload"
    /\ todo = {}
    /\ i' = 0
    /\ net' = "idle"
    /\ UNCHANGED <<acqvars, send_flag, fifo_queued, coap_queued, todo, t, slot, size,
                   datagram, ghosts>>

\* NVIC_SystemReset after failing sends or waits: all memory starts over.
SystemReset ==
    /\ NetMayRun
    /\ net = "upload"
    /\ todo = {}
    /\ message' = [b \in Buffers |-> [s \in Slots |-> 0]]
    /\ msg_index' = 0
    /\ collected_accel' = 0
    /\ send_flag' = FALSE
    /\ fifo_queued' = FALSE
    /\ sensor' = "idle"
    /\ flushes' = 0
    /\ coap_queued' = FALSE
    /\ net' = "idle"
    /\ todo' = {}
    /\ t' = 0
    /\ i' = 0
    /\ slot' = 0
    /\ size' = 0
    /\ datagram' = NoDatagram
    /\ completed' = 0
    /\ picked' = 0
    /\ uploads' = 0

-----------------------------------------------------------------------------
Acquisition == \/ TriggerHandler \/ StartEmptyFifo \/ FetchFails \/ FetchDone
               \/ StorePayload \/ FinishEmptyFifo

Upload == \/ NetStart \/ ClearSendFlag \/ PickBuffer \/ LoadSize \/ SendDatagram
          \/ SendFails \/ GroupConfirmed \/ AbandonUpload \/ SystemReset

Next == Acquisition \/ Upload

Spec == Init /\ [][Next]_vars

\* A started acquisition ends: its transfers return and its loop is bounded.  The
\* upload is preempted again and again, never for good, hence strong fairness.
\* That it ends (CoapUpload) rests on the network.
Fairness ==
    /\ WF_vars(FetchDone \/ FetchFails)
    /\ WF_vars(FinishEmptyFifo)
    /\ SF_vars(NetStart)
    /\ SF_vars(ClearSendFlag)
    /\ SF_vars(PickBuffer)
    /\ SF_vars(SendDatagram \/ SendFails)
    /\ SF_vars(GroupConfirmed \/ AbandonUpload)

FairSpec == Spec /\ Fairness

-----------------------------------------------------------------------------
(* Properties. *)

BatchNumbers == 0 .. MaxBatches

\* The variables keep their types; a slot index never leaves its buffer.
TypeOK ==
    /\ message \in [Buffers -> [Slots -> BatchNumbers]]
    /\ msg_index \in Buffers
    /\ collected_accel \in Slots
    /\ send_flag \in BOOLEAN
    /\ fifo_queued \in BOOLEAN
    /\ sensor \in {"idle", "fetch", "encode"}
    /\ flushes \in 0 .. MaxFlushes
    /\ coap_queued \in BOOLEAN
    /\ net \in {"idle", "upload", "send"}
    /\ todo \in SUBSET {"clear", "pick"}
    /\ t \in Buffers
    /\ i \in Groups
    /\ slot \in Slots
    /\ size \in BatchNumbers
    /\ datagram \in [batch : BatchNumbers, slot : Slots, size : BatchNumbers,
                     payload : BatchNumbers]
    /\ completed \in BatchNumbers
    /\ picked \in BatchNumbers
    /\ uploads \in Nat

\* What the slot held before the batch being written reaches it.
Before(n) == IF n = 0 THEN 0 ELSE n - 1

\* At any time one buffer holds the whole latest batch, and the other one the
\* beginning of the next batch followed by the rest of the one before the latest
\* (empty_fifo_fn, sensor.c: msg_index, collected_accel).
BufferContents ==
    \A s \in Slots :
        /\ message[Other(msg_index)][s] = completed
        /\ message[msg_index][s] = IF s < collected_accel THEN completed + 1
                                                          ELSE Before(completed)

\* The acquisition has stored a payload of a later batch over slot s of batch b.
Lapped(b, s) == \/ completed > b + 1
                \/ completed = b + 1 /\ s < collected_accel

\* A datagram carries the payload, with its own size, of the batch its upload took,
\* unless the acquisition, a whole batch ahead, has overwritten that very slot: the
\* upload has all the time in which a batch is collected (coap_send_fn's t).
DatagramIntact ==
    \/ datagram.size = datagram.batch /\ datagram.payload = datagram.batch
    \/ Lapped(datagram.batch, datagram.slot)

\* A complete batch that no upload took is always on its way: coap_send is queued, or
\* has started and not chosen its buffer, or will be submitted by the running call.
NoLostBatch ==
    completed > picked =>
        \/ coap_queued
        \/ "pick" \in todo
        \/ sensor = "encode" /\ send_flag

\* The races between send_flag and the submission repeat an upload, but a batch is
\* taken at most three times.
AtMostThreeUploads == uploads <= 3

\* The buffers implement a register of the latest batch; the first with its safety
\* only, the second with the promise that the latest batch is taken in the end.
Register == INSTANCE LatestRegister
                WITH published <- message[Other(msg_index)][0], taken <- picked

PublishesLatest == Register!Safety
DeliversLatest == Register!Spec
=============================================================================
