# A TLA+ model of the Thingy:91 acceleration logger

The firmware samples acceleration with an ADXL362, packs the samples with temperature,
pressure and humidity into CBOR messages, compresses them, collects 60 of them in a batch
and posts each batch to a server with CoAP over DTLS on LTE-M. This directory holds TLA+
modules of its core logic, TLC configurations that check them, and proofs for TLAPS.

    tlc -workers 2 -config MCBatchHandoff.cfg MCBatchHandoff      # a run
    tlapm BatchHandoffProofs.tla                                  # the proofs of a module

## The system

| Component | State it keeps | Operations | Module |
|---|---|---|---|
| Acquisition (`sensor.c`, `shared.c`) | `message[2][60]`, `msg_index`, `collected_accel`, `send_flag`, `encode_msg_buf` | `trigger_handler`, `empty_fifo_fn`, `heatshrink_compression`, `initialize_sensors` | `BatchHandoff`, `MsgEncoder`, `Compression`, `Boot` |
| Upload (`networking.c`) | locals of `coap_send_fn`, `con_token`, `coap_buf`, the socket | `coap_send_fn`, `client_get_send`, `wait`, `client_handle_get_response`; at boot `connect_to_server` | `CoapUpload`, `BatchHandoff`, `Boot` |
| Boot (`main.c`) | work queue, work items | `main` | `Boot` |
| Modem (`modem.c`) | a semaphore, settings of the modem | `initialize_modem`, `lte_handler` | `Boot` |
| ADXL362 driver (`ncsFiles/adxl362`) | registers of the chip, driver data, the interrupt's work item | init, attributes, fetch, FIFO read, trigger | `Adxl362` |
| Heatshrink encoder (`heatshrink_encoder.c`) | window buffer, index, state machine, bit buffer | sink, poll, finish | `Heatshrink`, `Compression` |
| Message encoding (`msg_encode.c`, generated) | none | `cbor_encode_msg` | its length, in `MsgEncoder` |

How they interact:

- The FIFO watermark interrupt of the ADXL362 runs the driver's work item on the *system
  work queue*; `trigger_handler` submits `empty_fifo` to the same queue.
- `empty_fifo_fn` reads the FIFO and the BME680 (blocking transfers), then appends triples
  to `encode_msg_buf`. A full message is encoded, compressed and stored in
  `message[msg_index][collected_accel]`. The 60th exchanges the buffers and sets
  `send_flag`; at its end the call submits `coap_send` if the flag is still set.
- `coap_send_fn` runs on the *network work queue*, clears the flag, picks the buffer that
  is not being filled and posts its 60 payloads in 6 groups of 10: nine non-confirmable
  requests and a confirmable one, whose answer is either CREATED or a bitmap.
- The two share `message`, `msg_index` and `send_flag` without a lock. What protects them
  is scheduling: the system work queue is cooperative, the network work queue preemptible
  (priority 4), so the upload runs only while the acquisition is idle or blocked.
- After three failed sends or waits `NVIC_SystemReset` wipes all memory; the chip keeps
  its registers.
- At boot `main` arms the trigger, waits for LTE, connects the socket, and initialises the
  work items last; the accelerometer samples meanwhile.

Hard to test are: the races on the flag and the buffers; an upload slower than a batch;
lost, late and repeated datagrams and their answers, within an upload and from one to the
next; a restart in the middle; the size prediction, carried from call to call, on which
buffer sizes depend; a compressor that may be interrupted at any bit and moves its window
under its own references; an interrupt line that rises once; and a boot in which almost
any call may fail, unnoticed. `PROJECT.json` lists the hazards, each at its line, with the
properties that cover it.

What makes each component correct:

- acquisition: one buffer always holds one whole batch; indices stay in their buffers;
  the predicted size is exact; every message can be encoded and fits its slot;
- hand-over: no batch is forgotten, none is taken without bound, what is sent is what was
  stored;
- upload: never blocks for good; a group counts as sent only when it has arrived; ends;
- boot: nothing is submitted before it is initialised; failures are noticed (both hold
  only in part: see `Boot`);
- driver: registers as configured, the interrupt comes again after every FIFO read, and a
  read returns whole sets;
- compression: the decoder returns the input, or the raw message is sent (the latter does
  not hold: see `Compression`).

## The modules

### LatestRegister, BatchHandoff, BatchHandoffProofs

`BatchHandoff` is the double buffer with both work queues. A payload is reduced to the
number of its batch; sizes are kept apart from bytes (`size` and `message[t][slot]` are
read in two steps) because the C code reads them at different times.

| Action | Code |
|---|---|
| `TriggerHandler` | `trigger_handler`: submitting a queued item again has no effect |
| `StartEmptyFifo`, `FetchFails`, `FetchDone` | `empty_fifo_fn` up to its last blocking read, with its early returns |
| `StorePayload` | one message stored, with the exchange of the buffers (sensor.c:178-187) |
| `FinishEmptyFifo` | the end of the call: `if(send_flag)` and the submission |
| `NetStart`, `ClearSendFlag`, `PickBuffer` | the first statements of `coap_send_fn`; the last two in either order |
| `LoadSize`, `SendDatagram`, `SendFails` | `client_get_send` for a payload of the group |
| `GroupConfirmed`, `AbandonUpload`, `SystemReset` | the outcomes of a group, whose protocol is `CoapUpload` |

The loop over the samples is one step per stored message: between `FetchDone` and
`FinishEmptyFifo` the cooperative thread is not preempted, which `NetMayRun` expresses.
`completed`, `picked`, `uploads` and `datagram` are ghosts.

`LatestRegister` says what the buffers promise: a register of the latest complete batch,
published and taken as a whole. `BatchHandoff` implements it with `published` the batch
in the buffer that is not being filled and `taken` the last batch an upload picked.

Properties: `BufferContents` (what both buffers hold at any time), `DatagramIntact` (a
datagram is its batch's payload with its own size, *unless* the acquisition is a whole
batch ahead and has overwritten that slot: the code has no guard against an upload that
slow, and the property says exactly how slow it must be), `NoLostBatch`,
`AtMostThreeUploads` (the races do repeat uploads; three is reached, two is not enough),
`PublishesLatest` (safety of the refinement), `DeliversLatest` (with liveness).

### CoapUpload, CoapUploadProofs

`CoapUpload` is `coap_send_fn` in full, with the calls it makes, a network that loses,
delays and reorders, and the server the code expects (external, modelled from what
`client_handle_get_response` accepts). A token `i*10+x` is the pair of its parts, the
bitmap a set of positions, `0x3ff` the set `Full` and `0x400` the set `ResendAll`. The
server keeps of each payload the upload it came with; one that is `BatchAware` never puts
a group together from two uploads. Whether the real one can is not visible in the code.

- Program points are `"post"` (the inner loop), `"wait"`, `"recv"`; the rest of an
  iteration happens in the action that takes the reply (`ReplyRejected`, `ReplyFull`,
  `ReplyPartial`). `poll` and `recv` share `rxd`, the reply at the head of the socket.
- The reconnecting branch (networking.c:100-111) asks for `tries == 4`; tries stops at 3.
  `TypeOK` (`tries <= TryLimit`) is the reason that the model leaves the branch out.
- A rejected reply does not count as a try, as in the code. Codes that are not supported,
  malformed replies and empty datagrams (`recv` returns 0) are rejected alike: one code,
  `"other"`, stands for all of them (`ServerRefuses`).
- A restart keeps the server's state, and empties the network: booting and attaching to
  LTE takes much longer than a datagram lives.

Properties: `RecvNeverBlocks`, `LastIsMissing`, `GroupsArrived`, `GroupsBacked`,
`UploadEnds`.

Two results deserve attention.

1. **A stale answer confirms a group that was not received** (run `stale_answer`, an
   expected violation). Tokens repeat in every upload. An upload is given up on a receive
   error; the answer to its request then arrives in the next upload, carries the same
   token and is accepted: CREATED advances to the next group although the server has
   nothing of this batch. In one upload (`FirstUploadArrives`, proved) and in the weaker
   form that each group was once received (`GroupsAreBacked`, proved) the claim holds; by
   a server that is `BatchAware`, once received in full from a single upload.
2. **Uploads need not end.** With two or more tries, an answer that comes after `wait`
   has timed out leaves answers one round behind. A CREATED then meets the wrong
   request, is rejected without counting as a try, and the server begins the group
   afresh; so it can go on for ever. `UploadEnds` is therefore claimed for connections on
   which no confirmable exchange fails (`ResponsiveSpec`), and for an upload that starts
   with an empty socket (`MaxUploads = 1`).

### MsgEncoder, MsgEncoderProofs

`MsgEncoder` is the size accounting of `empty_fifo_fn`. Of a value only the width of its
encoding matters (`cbor_bit_width`). `encode_msg_buf.size` is carried from call to call:
each call adds what its metadata takes, adds the triples, and takes the metadata off
again; a full message is encoded, and memset clears everything including the metadata.
The length of an encoding follows `msg_encode.c` with zcbor's canonical headers
(`CONFIG_ZCBOR_CANONICAL=y` in prj.conf).

Properties: `SizeExact` (no drift), `AlwaysEncodable` (so the branch that drops samples is
never taken), `PayloadFits` (metadata measured later may be up to 20 bytes wider than
predicted; 1100 bytes are enough), `AtMostTwoFlushes` (one FIFO completes at most two
messages, and only the second carries zeroes instead of measurements and timestamp: a
message *without* metadata is thus possible). `MaxFlushes = 2` of `BatchHandoff` rests on
this.

### Heatshrink, HeatshrinkLemmas, HeatshrinkProofs

`Heatshrink` is the encoder as built (dynamic allocation, `HEATSHRINK_USE_INDEX`), and a
client that sinks, polls and finishes in any order. A poll is a sequence of steps, one per
turn of its loop, so that the loop can return at every point at which the code can.

- `Indexed` and `FollowChain` are `do_indexing` and `find_longest_match`, with the index
  as a function on positions.
- `PollFilled` ... `PollFlush` are the cases of the loop, named for the states they start
  in; `Turn` is its end (MORE if the state waits and the output is full), `OutputFull` the
  branch of all four emitting states that waits.
- Bits that wait for a full byte are the sequence `current` (`current_byte`, `bit_index`),
  those of a back-reference the sequence `outgoing`, and `out` collects what polls wrote.
- `count` is what the pointer arguments of sink and poll point to. They share it, as in
  `heatshrink_compression`; a refused call leaves it alone.

`Decode` (a decoder, byte by byte) and `Greedy` (an encoder that has the whole input at
hand and searches all distances) are references written from the format, not from the
encoder's code. `OutputDecodes`: at any time, the bits emitted decode to a prefix of what
was sunk. `DoneIsGreedy`: the finished output is exactly the greedy encoding, however
input and output were cut. `PollReturns`: no poll loops for ever.

### Compression, CompressionProofs

`Compression` is `heatshrink_compression` statement by statement on top of `Heatshrink`,
and the choice `empty_fifo_fn` makes of its result (`Store`). It gives the output as many
bytes as the message has.

`CountsInStep` ties `sunk` and `polled` to the encoder, and says that sink is never
refused; `ShorterIsComplete` says that a result shorter than the message is the whole of
it, and bounds what a longer one may claim; `CompressionEnds` is the call's termination.

**A message that does not shrink is cut off** (run `compression_raw`, an expected
violation). The output is full, poll returns MORE, the next poll is refused for want of
space and leaves `count` alone, which is then added again; the loop ends with
`polled >= input_len` and the rest of the stream is never emitted. The comment in the
caller promises the message itself in this case, but that branch is taken only when
`malloc` has failed. The stored size may be up to twice the
message, although no more bytes than the message has were written. `ShorterIsComplete` is
the form that holds.

### Adxl362, Adxl362Proofs

`Adxl362` is the driver with its chip: registers, FIFO, watermark and interrupt line are
external, modelled from what the driver writes and expects. A register is the set of its
bits. `InitWrites` lists what the initialisation writes, each with the bits it replaces;
`InitWrite` does the next of them, `InitFails` stands for a failure of any access.

| Action | Code |
|---|---|
| `SoftwareReset`, `ReadPartId`, `InitWrite`, `ConfigurePin`, `InitFails` | `adxl362_init` with `adxl362_chip_init`, `adxl362_init_interrupt` |
| `AttrSetThreshold`, `AttrSetTimeout`, `AttrSetRange` | `adxl362_attr_set` |
| `TriggerSetHandler`, `TriggerSetMask` | `adxl362_trigger_set`; an edge may come between the two |
| `StoreSample` | the chip; `InterruptServed` in it is `adxl362_gpio_callback` |
| `RunWork`, `StartEmptyFifo` | `adxl362_work_cb` to `trigger_handler`, and the system work queue |
| `FetchDone`, `FetchFails` | `adxl362_sample_fetch` and `adxl362_fifo_cmd` |
| `Restart` | a reset of the processor; the chip keeps its registers and FIFO |

`ConfiguredWhenReady`: whatever the chip held, it ends as configured. `RangeInStep`: the
driver's range is the chip's. `EdgeNotLost`: at or above the watermark a fetch is under
way, or one has failed; `WatermarkServed` is the same over time. `ReadsWholeSets`: 510
samples in 170 sets from the first axis on, with signs extended. `HandlerBeforeWork`: the
handler that `adxl362_thread_cb_fifo` calls without a check is there. After one failed
fetch neither EdgeNotLost nor ReadsWholeSets is claimed, because neither holds: the line
may stay high with no edge to come, and acquisition stops until a restart; or the FIFO is
left within a set and every set after it is put together from two.

### Boot, BootProofs

`Boot` is `main` call by call. Each call may fail, and `failures` collects those that did.
`lte_handler` runs from the moment `lte_lc_connect_async` is called. The accelerometer,
once its trigger is armed, may submit `empty_fifo` at any time (also one that is not ready:
its initialisation may have failed as late as at the interrupt map); main runs only while the system work queue is empty, because that one has the higher priority.

`RunningIsConnected` and `GivesUpOnlyFor` say exactly what a boot that returned 0
guarantees and which failures it survives. It survives a missing sensor, a trigger that
could not be set, a modem library that does not initialise, a failing connect and a
refused PSM request, all unnoticed. `main` tests `initialize_sensors` for an error it
never returns, and gets from `initialize_modem` only the result of the eDRX request.
`NoFaultOnceRunning`: the FIFO fills in 13.6 s, and `empty_fifo` has no handler until the
last statement of `main`; a boot in which connecting takes longer faults and starts
again. The property says that this is over when `main` returns. `TypeOK` includes that no
upload is submitted to a queue that was not started, for which the order of main's last
three statements matters. `BootEnds`: the registration is not missed.

## Runs

| Run | Instance | Shows |
|---|---|---|
| `handoff` | 4 payloads in 2 groups, up to 2 per FIFO, 4 batches | all safety properties of `BatchHandoff` and `PublishesLatest` |
| `handoff_live` | 2 payloads, 2 batches | `DeliversLatest` under `FairSpec` |
| `upload` | 2 groups of 2, 2 tries, one upload | safety of one upload, `GroupsArrived` included |
| `upload_again` | 2 groups of 2, no tries, 3 uploads, a server that knows batches apart | `GroupsBacked` across uploads and restarts |
| `upload_live` | 1 group of 3, 3 tries | `UploadEnds` under `ResponsiveSpec` |
| `stale_answer` | 1 group of 2, 2 tries, 2 uploads, a server that knows batches apart | `GroupsArrived` violated, as described above |
| `msg_encoder` | sizes divided by eight, widths 3/9, 3/15, 1/9 | all properties of `MsgEncoder` |
| `heatshrink` | window 16, lookahead 8; 72 inputs of up to 41 bytes; pieces of 9 or all; outputs of 0, 1 or 50 bytes | all properties of `Heatshrink` |
| `compression` | the same encoder, 297 messages (with repetitions) of 9 to 48 bytes | all properties of `Compression` that hold |
| `compression_raw` | as above | `CompleteOrRaw` violated, as described above |
| `adxl362` | a FIFO of 11 samples read in 9, watermark 8; bad, limiting and good arguments | all properties of `Adxl362` |
| `boot` | as it is | all properties of `Boot` |

Bounds. `handoff`: a lapped upload needs the acquisition two batches ahead of the one
picked, and the three uploads of one batch need the flag set again meanwhile; four batches
allow both, with a batch before and after. A slot that differs from slot 0 and a second
group need a batch of at least 2 x 2. `upload`: groups of two have a non-confirmable and
a confirmable position, of three (in `upload_live`) also bitmaps with a gap. `MaxCopies`
bounds equal datagrams in flight; one more is lost, which the network may do anyway, so
the bound hides no kind of loss and only duplicates of the same datagram beyond it. The
safety theorems hold for every value of all of these. `msg_encoder`: the sizes are as
tight as the assumptions allow, with messages of up to 30 triples, so that the array
header grows to its second byte within a message. `heatshrink`: 16 and 8 are the smallest
sizes `heatshrink_encoder_alloc` takes. 41 bytes fill the window more than twice, so that
matches reach across a moved window and into the zeros before the data; the byte that
breaks the period is put around each limit (0, lookahead, window). Outputs of one byte
stop the encoder at every point at which it can stop. `adxl362`: 512, 510, 509 and 3
become 11, 9, 8 and 3 with the same remainders; `FifoAssumption` states what the scaling
keeps. Deadlock is checked except for the `upload` runs, where nothing is left to do
after `MaxUploads` uploads, the `compression` runs, where a single call is made, and
`boot`, where main may fail with no interrupt to come.

## Fairness

- `BatchHandoff`: a started acquisition finishes (its bus transfers return, its loop is
  bounded): weak fairness. The upload is preempted by the acquisition any number of times
  but gets the processor again, because a FIFO takes some 13 seconds to fill: strong
  fairness of its steps. `TriggerHandler` and `StorePayload` have none. That a group ends
  (`GroupConfirmed \/ AbandonUpload`) is an assumption about the network; see above.
- `CoapUpload`: weak fairness of the thread's own steps, strong fairness of the server
  handling a request that is posted again and again. In `ResponsiveSpec` no confirmable
  request or reply is lost and no wait times out.
- `Heatshrink`, `Compression`: the poll, or the whole call, runs in a cooperative thread:
  weak fairness of its steps, and none of the client's.
- `Adxl362`: the system work queue runs what is queued, and a transfer ends. The chip's
  samples have no fairness.
- `Boot`: weak fairness of main and of the work queue, and that a modem that is not
  registered registers in the end. Nothing is assumed of the FIFO and of restarts.

## Proofs

Proved for all values of the constants that satisfy the modules' assumptions.

- `BatchHandoffProofs`: type correctness needs that `GROUP_SIZE * i + x` is a slot
  (`SlotOfGroup`). `BufferContents` is inductive. `DatagramIntact` is not: its invariant
  says what the uploading thread knows of its buffer while it runs
  (`UploadBufferInvariant`). `NoLostBatch` relates the ghosts to flag, queue and program
  points. `AtMostThreeUploads` follows from a budget: uploads so far and those still to
  come (queued, about to pick, flag set) never exceed three. The refinement maps
  `StorePayload` to Publish when the batch is complete, `PickBuffer` to Take,
  `SystemReset` to Restart and everything else to a stutter.
- `CoapUploadProofs`: types first (a bag of datagrams is a function; `BagTypes`,
  `BagCopies`), then `RoundInvariant`, which ties the position, the bitmap and the reply
  at hand together at each program point: it gives `RecvNeverBlocks` and
  `LastIsMissing`. For `GroupsBacked` the invariant is about every reply in flight: a
  reply with all positions is only for a group that was received (`BackedInvariant`), and
  nothing arrives of an upload that has not begun (`BegunInvariant`). In the first upload
  after a boot that upload is the only one there is.
- `MsgEncoderProofs`: `EncoderInvariant` adds to the properties that the triples take 4
  to 10 bytes each and fit with the smallest metadata; `EncodingBounded` derives from it
  that an encoding is no longer than predicted. `FlushInvariant` counts the triples that
  full messages of this call have consumed.
- `BootProofs`: `BootInvariant` adds to the properties what main has initialised at each
  program point (`WorkInvariant`: a prefix of `WorkOrder`, all of it when main returns)
  and what it knows of the network (`ConnectionInvariant`: the semaphore counts only
  registrations). `NoFault`, an action property, follows from the former.
- `Adxl362Proofs`: the properties of the driver for every FIFO size, watermark, argument
  and sample. `ConfiguredWhenReady` needs what each of the 14 writes has left in the
  registers (`RegisterInvariant`), `EdgeNotLost` that exactly one read is under way while
  the line is high and none otherwise (`FetchInvariant`), which in turn needs that nothing
  is mapped before the initialisation ends (`StartInvariant`). Registers are sets of bits;
  what a masked write leaves of them, and which number they are, is proved bit by bit.
- `HeatshrinkLemmas`, `HeatshrinkProofs`: the encoder, for every window, lookahead, input,
  and order of calls. `EncoderInvariant` has the ranges, and the parts `DataInvariant` and
  `SearchInvariant`: a match lies in the input, and the entries of the index are earlier
  positions with the same byte while the buffer is searched. From it follows that a match
  found repeats what lies at its distance (`SearchFinds`). `StreamInvariant` is about what
  was emitted: the buffer holds the last bytes accepted and zeros before the first
  (`HistoryInvariant`, disturbed by the move of the buffer); the bits out are whole tokens
  that decode to the bytes scanned, and a part of one token, whose rest waits in
  `outgoing` (`TokenInvariant`); a pending match repeats what lies before it
  (`MatchInvariant`). `OutputDecodes` alone is not inductive: a prefix decoded says
  nothing of what the encoder will emit next. The lemmas are about the format: the bits of
  a number decode to it (`ValueOfBits`), a decoder reads on where it was after more bits
  came (`RunGrows`), a literal and a reference add what they stand for (`EncodesLiteral`,
  `EncodesReference`), and a part of a token adds nothing (`NotWhole`). `DoneIsGreedy` needs
  one invariant more, `GreedyInvariant`: the stream with the bits of the chosen token that
  are still to be emitted (`Pending`) is the greedy encoding up to the end of that token,
  made of tokens that each had the whole lookahead ahead of them (`Reserve`), so that no
  byte sunk later changes one (`GreedyExtends`). The chain of the index visits every
  position with the right first byte, and a position is skipped only if it cannot be
  better (`Found`, `FollowFinds`), so the match found is the longest and nearest in the
  buffer (`BestMatch`), and by `HistoryInvariant` in the data (`BestIsGreedy`).
- `CompressionProofs`: from the encoder only its invariant and `Moves` (what a turn of
  poll does to sizes and state). `WrapperInvariant` relates `sunk` and `polled` to the
  bytes moved at each statement. Its core is `PollResult`, the three ways in which a poll
  ends: refused for want of room, with the room used up, with nothing left to write. The
  last of them with a state other than DONE, all of the message sunk and room left is
  excluded, and that is what makes a result shorter than the message complete.

tlapm cannot apply the library's induction theorems, which take a predicate. The proofs
about the decoder and the search use induction on a set of numbers instead
(`Smallest` and `Induction` in `HeatshrinkLemmas`, from the least element of a nonempty set of
naturals), and their recursive functions are shown to exist by it (`IterationExists`).

Only model-checked: `DeliversLatest`, `UploadEnds`, `PollReturns`, `CompressionEnds`,
`WatermarkServed` and `BootEnds` (liveness is out of the prover's reach), and that
`GroupsArrived` fails for later uploads and `CompleteOrRaw` for some messages
(counterexamples). Every invariant that a passing run checks is proved.

## Not modelled

Logging, the BME680 (external), the contents of samples beyond their sign, CoAP header
formats and message IDs. Of the ADXL362 driver: output rates set at run time and the
handling of interrupts in a thread of its own (not compiled with `prj.conf`), the motion,
stationary and data-ready triggers with the status reads that belong to them (the program
sets only the FIFO trigger; set alone, any other would lead to the same work item, which
calls the FIFO's handler without a check), and the code that is commented out. Several callers of the
driver at once: its read-modify-writes take no lock, but the program has one caller.
A trigger set with a NULL handler, which the driver's interface allows and
which masks the interrupt, is left out: the program never passes one. (Work already queued
at that moment would call it.) `ncsFiles/sensor.h` is a vendored header. A server that answers with a bitmap the code
does not expect (bits 0 to 9 set and another bit besides) makes `getmsgCount` return 255
and the posting loop endless; the server modelled does not send it. A socket that hangs up
(`poll` reports POLLHUP, which `wait` does not look at) without `recv` failing is left out.

How long things take is left open everywhere. In `Boot` that admits an interrupt at any
point; whether boots keep faulting depends on the network's speed and is not claimed.

## Plan

`Firmware`: `BatchHandoff` composed with `CoapUpload`, so that the contents of the
slots arrive at the server; the composition implements `BatchHandoff`.
