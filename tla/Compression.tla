----------------------------- MODULE Compression -----------------------------
(***************************************************************************)
(* heatshrink_compression (sensor.c), the encoder's only client on the     *)
(* device, and what empty_fifo_fn makes of its result.  It gives the       *)
(* compressed message as much room as the message itself has.  The input   *)
(* is the encoded message in temporary.                                    *)
(*                                                                         *)
(* Sink and poll write their result through the same pointer, &count, and  *)
(* leave it alone when they refuse the call.                               *)
(*                                                                         *)
(* A definition marked "Variant" is a wrong form of the one that follows.  *)
(***************************************************************************)
EXTENDS Heatshrink

VARIABLES pc,          \* statement of heatshrink_compression or its caller
          sunk, polled,
          slot         \* what message[msg_index][collected_accel] holds in the end

wrapper == <<pc, sunk, polled, slot>>
allVars == <<vars, wrapper>>

InputLen == Len(input)

CompressionInit ==
    /\ Init
    /\ pc = "alloc" /\ sunk = 0 /\ polled = 0
    /\ slot = [kind |-> "empty", size |-> 0]

\* heatshrink_encoder_alloc(9,3), which fails when malloc does.
Alloc ==
    /\ pc = "alloc"
    /\ pc' \in {"sink", "returned"}
    /\ UNCHANGED <<vars, sunk, polled, slot>>

\* Variant: finishes after every piece.
SinkRestFinishing ==
    /\ pc = "sink"
    /\ Sink(SubSeq(input, sunk + 1, InputLen))
    /\ sunk' = sunk + count'
    /\ pc' = "finish"
    /\ UNCHANGED <<input, polled, slot>>

SinkRest ==
    /\ pc = "sink"
    /\ Sink(SubSeq(input, sunk + 1, InputLen))
    /\ sunk' = sunk + count'
    /\ pc' = IF sunk' = InputLen THEN "finish" ELSE "poll"
    /\ UNCHANGED <<input, polled, slot>>

FinishInput ==
    /\ pc = "finish"
    /\ Finish
    /\ pc' = "poll"
    /\ UNCHANGED <<input, sunk, polled, slot>>

PollRest ==
    /\ pc = "poll"
    /\ PollBegin(InputLen - polled)
    /\ pc' = "polling"
    /\ UNCHANGED <<input, sunk, polled, slot>>

Polling ==
    /\ pc = "polling"
    /\ PollTurn
    /\ UNCHANGED <<input, wrapper>>

\* Variant: the input is taken to be one piece.
AfterPollOnce(total) == IF ret = "MORE" THEN "poll" ELSE "returned"

\* Variant: polls until the room is used up.
AfterPollUntilFull(total) == IF ret = "MISUSE" \/ total >= InputLen THEN "returned" ELSE "poll"

\* After a poll: again while it returned MORE.
AfterPoll(total) ==
    CASE ret = "MORE" -> "poll"
      [] ret # "MORE" /\ total >= InputLen -> "returned"
      [] ret # "MORE" /\ total < InputLen -> IF sunk = InputLen THEN "finish_again" ELSE "sink"

Polled ==
    /\ pc = "polling" /\ cap = 0
    /\ polled' = polled + count
    /\ pc' = AfterPoll(polled')
    /\ UNCHANGED <<vars, sunk, slot>>

\* The second finish, and the end of the loop.
FinishAgain ==
    /\ pc = "finish_again"
    /\ Finish
    /\ pc' = "returned"
    /\ UNCHANGED <<input, sunk, polled, slot>>

\* empty_fifo_fn: the message itself is sent if the compression returned 0.
Store ==
    /\ pc = "returned"
    /\ slot' = IF polled > 0 THEN [kind |-> "compressed", size |-> polled]
                             ELSE [kind |-> "raw", size |-> InputLen]
    /\ pc' = "stored"
    /\ UNCHANGED <<vars, sunk, polled>>

CompressionNext == \/ Alloc \/ SinkRest \/ FinishInput \/ PollRest \/ Polling
                   \/ Polled \/ FinishAgain \/ Store

\* The call runs in a cooperative thread.
CompressionSpec == CompressionInit /\ [][CompressionNext]_allVars /\ WF_allVars(CompressionNext)

-----------------------------------------------------------------------------
(* Properties.                                                             *)

Complete(size) == 8 * size <= Len(out) /\ Decode(SubSeq(out, 1, 8 * size)) = input

(* The sizes stay those of the bytes moved, as long as polls are given     *)
(* room: the pointer shared by sink and poll never mixes their results,    *)
(* and sink is only called when the encoder takes input.                   *)
CountsInStep ==
    /\ pc \in {"alloc", "sink", "finish", "poll", "polling", "finish_again", "returned", "stored"}
    /\ sunk = Len(accepted)
    /\ pc = "sink" => ~IsFinishing /\ state = "NOT_FULL"
    /\ pc \in {"sink", "poll", "finish"} => 8 * polled = Len(out)
    /\ pc \in {"poll", "polling"} => polled <= InputLen

(* A result that is shorter than the message is the whole of it,           *)
(* compressed; and one that is longer is at most twice as long, although   *)
(* the room was that of the message: the size of the last poll counts      *)
(* twice when the output was full.                                         *)
ShorterIsComplete ==
    pc = "stored" =>
        /\ slot.kind = "compressed" /\ slot.size < InputLen => Complete(slot.size)
        /\ slot.size <= 2 * InputLen
        /\ Len(out) <= 8 * InputLen

(* The call returns and a message is stored.                               *)
CompressionEnds == <>(pc = "stored")

(* What the comments of empty_fifo_fn say (sensor.c:166, sensor.c:173):    *)
(* the message is compressed, and if that does not succeed the message     *)
(* itself is sent.                                                         *)
CompleteOrRaw == pc = "stored" => slot.kind = "raw" \/ Complete(slot.size)
=============================================================================
