------------------------------ MODULE CoapUpload ------------------------------
(***************************************************************************)
(* The upload of a batch: coap_send_fn of networking.c with the calls it   *)
(* makes (client_get_send, wait, recv, client_handle_get_response), over a *)
(* network that loses, delays and reorders datagrams, with the server the  *)
(* code expects.                                                           *)
(*                                                                         *)
(* A group of payloads is posted as non-confirmable requests, its last     *)
(* missing one as a confirmable request.  The server answers that one with *)
(* CREATED when it has the whole group, or BAD_REQUEST with a bitmap of    *)
(* the payloads that arrived; the missing ones are then posted again.      *)
(*                                                                         *)
(* A token or an index i*10+x is the pair of i and x, and a bitmap is the  *)
(* set of the bits that are 1.                                             *)
(*                                                                         *)
(* A definition marked "Variant" is a wrong form of the one that follows:  *)
(* no specification uses it, and with it in place of the right one a       *)
(* property fails.                                                         *)
(***************************************************************************)
EXTENDS Integers, FiniteSets

CONSTANTS GroupSize,    \* payloads in a group (10)
          GroupCount,   \* groups in a batch (PAYLOAD_COUNT / 10 = 6)
          TryLimit,     \* failures that are tried again (3)
          BatchAware,   \* whether the server tells the batches of two uploads apart
          MaxUploads,   \* bound on the uploads started
          MaxCopies     \* bound on equal datagrams in flight

ASSUME ConstantsAssumption ==
    /\ GroupSize \in Nat \ {0}
    /\ GroupCount \in Nat \ {0}
    /\ TryLimit \in Nat
    /\ BatchAware \in BOOLEAN
    /\ MaxUploads \in Nat
    /\ MaxCopies \in Nat \ {0}

Groups == 0 .. GroupCount - 1
Positions == 0 .. GroupSize - 1
Full == Positions           \* 0x3ff: the whole group arrived
ResendAll == {GroupSize}    \* 0x400: a BAD_REQUEST without payload

Token == [group : Groups, pos : Positions]
Request == [upload : 1 .. MaxUploads, token : Token, con : BOOLEAN]
Held == [pos : Positions, upload : 1 .. MaxUploads]
Reply ==
    [token : Token, code : {"created"}, arrived : {Full}]
      \cup [token : Token, code : {"bad_request"}, arrived : (SUBSET Positions) \cup {ResendAll}]
      \cup [token : Token, code : {"other"}, arrived : {{}}]
NoReply == [token |-> [group |-> 0, pos |-> 0], code |-> "none", arrived |-> {}]

VARIABLES
    pc,             \* "idle", "post" (inner loop), "wait" (in wait()), "recv"
    upload,         \* number of the upload that runs or ran last
    i,              \* the group
    x,              \* the position in the group
    last,           \* LAST_MSG: the position posted as confirmable
    tries,          \* failures so far
    recv,           \* recv_payload: what the server said has arrived
    con_token,      \* token of the last confirmable request
    rxd,            \* the reply that poll() reported and recv() will return
    up, down,       \* requests and replies in flight: how many of each
    got,            \* server: positions of each group it holds, and of which upload
    delivered       \* ghost: the uploads whose payload has reached the server, by slot

locals == <<i, x, last, tries, recv>>
client == <<pc, upload, locals, con_token, rxd>>
network == <<up, down>>
server == <<got, delivered>>
vars == <<client, network, server>>

Init ==
    /\ pc = "idle"
    /\ upload = 0
    /\ i = 0
    /\ x = 0
    /\ last = GroupSize - 1
    /\ tries = 0
    /\ recv = {}
    /\ con_token = [group |-> 0, pos |-> 0]
    /\ rxd = NoReply
    /\ up = [d \in Request |-> 0]
    /\ down = [r \in Reply |-> 0]
    /\ got = [g \in Groups |-> {}]
    /\ delivered = [g \in Groups |-> [p \in Positions |-> {}]]

\* One more copy of d in flight, unless there are MaxCopies of it (then it is lost).
Plus(bag, d) == IF bag[d] < MaxCopies THEN [bag EXCEPT ![d] = @ + 1] ELSE bag
Minus(bag, d) == [bag EXCEPT ![d] = @ - 1]

-----------------------------------------------------------------------------
(* coap_send_fn *)

\* A failure may be tried again.
\* Variant: off by one.
TriesLeftOffByOne == tries <= TryLimit
TriesLeft == tries < TryLimit

StartUpload ==
    /\ pc = "idle"
    /\ upload < MaxUploads
    /\ upload' = upload + 1
    /\ pc' = "post"
    /\ i' = 0
    /\ x' = 0
    /\ last' = GroupSize - 1
    /\ tries' = 0
    /\ recv' = {}
    /\ UNCHANGED <<con_token, rxd, network, server>>

\* Skip messages that have arrived at the server.
SkipArrived ==
    /\ pc = "post"
    /\ x <= last
    /\ x \in recv
    /\ x' = x + 1
    /\ UNCHANGED <<pc, upload, i, last, tries, recv, con_token, rxd, network, server>>

Here == [group |-> i, pos |-> x]
\* Variant: the last position is not confirmable.
ConfirmablePastLast == x > last
Confirmable == x >= last

\* client_get_send: the token is kept before anything can fail.
Post ==
    /\ pc = "post"
    /\ x <= last
    /\ x \notin recv
    /\ con_token' = IF Confirmable THEN Here ELSE con_token
    /\ up' = Plus(up, [upload |-> upload, token |-> Here, con |-> Confirmable])
    /\ pc' = "wait"
    /\ UNCHANGED <<upload, locals, rxd, down, server>>

PostFails ==
    /\ pc = "post"
    /\ x <= last
    /\ x \notin recv
    /\ TriesLeft
    /\ tries' = tries + 1
    /\ con_token' = IF Confirmable THEN Here ELSE con_token
    /\ UNCHANGED <<pc, upload, i, x, last, recv, rxd, network, server>>

\* wait() returns 0: the socket takes another request, or holds a reply.
WaitWritable ==
    /\ pc = "wait"
    /\ ~ Confirmable
    /\ x' = x + 1
    /\ pc' = "post"
    /\ UNCHANGED <<upload, i, last, tries, recv, con_token, rxd, network, server>>

\* The reply the socket holds may be left from before.
WaitReadable ==
    /\ pc = "wait"
    /\ Confirmable
    /\ x' = x + 1
    /\ pc' = "post"
    /\ \/ rxd # NoReply /\ UNCHANGED <<rxd, down>>
       \/ /\ rxd = NoReply
          /\ \E r \in Reply : down[r] > 0 /\ rxd' = r /\ down' = Minus(down, r)
    /\ UNCHANGED <<upload, i, last, tries, recv, con_token, up, server>>

\* Three seconds without an answer, or a poll error.
WaitFails ==
    /\ pc = "wait"
    /\ TriesLeft
    /\ tries' = tries + 1
    /\ pc' = "post"
    /\ UNCHANGED <<upload, i, x, last, recv, con_token, rxd, network, server>>

\* The tries are spent when a send or a wait fails.  (The reconnecting branch asks for
\* tries == 4, which tries never reaches.)  By the time the device is back, the requests
\* have arrived or are lost, and an answer finds the new socket in another session.
SystemReset ==
    /\ \/ pc = "wait"
       \/ pc = "post" /\ x <= last /\ x \notin recv
    /\ ~ TriesLeft
    /\ pc' = "idle"
    /\ i' = 0
    /\ x' = 0
    /\ last' = GroupSize - 1
    /\ tries' = 0
    /\ recv' = {}
    /\ con_token' = [group |-> 0, pos |-> 0]
    /\ rxd' = NoReply
    /\ up' = [d \in Request |-> 0]
    /\ down' = [r \in Reply |-> 0]
    /\ UNCHANGED <<upload, server>>

EnterRecv ==
    /\ pc = "post"
    /\ x > last
    /\ pc' = "recv"
    /\ UNCHANGED <<upload, locals, con_token, rxd, network, server>>

\* The upload is given up; the reply may stay in the socket.
RecvError ==
    /\ pc = "recv"
    /\ pc' = "idle"
    /\ rxd' \in {rxd, NoReply}
    /\ UNCHANGED <<upload, locals, con_token, network, server>>

\* client_handle_get_response accepts the answer to the last confirmable request only.
\* Variants: the token is not compared, or compared with the index of the loop.
AcceptedAnyToken(r) == r.code \in {"created", "bad_request"}
AcceptedHere(r) == r.token = Here /\ r.code \in {"created", "bad_request"}
Accepted(r) == r.token = con_token /\ r.code \in {"created", "bad_request"}

TakeReply ==
    /\ pc = "recv"
    /\ rxd # NoReply
    /\ rxd' = NoReply
    /\ UNCHANGED <<upload, tries, con_token, network, server>>

\* Sends the group once more (as known so far), or gives the batch up.
ReplyRejected ==
    /\ TakeReply
    /\ ~ Accepted(rxd)
    /\ IF TriesLeft THEN pc' = "post" /\ x' = 0
                           ELSE pc' = "idle" /\ x' = x
    /\ UNCHANGED <<i, last, recv>>

\* Everything arrived: the next group, or the end.
ReplyFull ==
    /\ TakeReply
    /\ Accepted(rxd)
    /\ rxd.arrived = Full
    /\ last' = GroupSize - 1
    /\ i' = i + 1
    /\ recv' = {}
    /\ IF i + 1 < GroupCount THEN pc' = "post" /\ x' = 0
                             ELSE pc' = "idle" /\ x' = x

\* getmsgCount: the highest position whose bit is clear.
\* Variant: the last position whether or not it arrived.
LastAlways(arrived) == {GroupSize - 1}
HighestMissing(arrived) ==
    {p \in Positions \ arrived : \A q \in Positions \ arrived : q <= p}

\* Something is missing: resend it, or give the batch up.
ReplyPartial ==
    /\ TakeReply
    /\ Accepted(rxd)
    /\ rxd.arrived # Full
    /\ recv' = rxd.arrived
    /\ IF TriesLeft
       THEN pc' = "post" /\ x' = 0 /\ last' \in HighestMissing(rxd.arrived)
       ELSE pc' = "idle" /\ x' = x /\ last' = last
    /\ UNCHANGED i

-----------------------------------------------------------------------------
(* The network and the server (external). *)

LoseRequest(d) ==
    /\ up[d] > 0
    /\ up' = Minus(up, d)
    /\ UNCHANGED <<client, down, server>>

LoseReply(r) ==
    /\ down[r] > 0
    /\ down' = Minus(down, r)
    /\ UNCHANGED <<client, up, server>>

\* What the server holds of d's group that belongs with d, and after d has arrived.
Kept(d) == {e \in got[d.token.group] : BatchAware => e.upload = d.upload}
Stored(d) == Kept(d) \cup {[pos |-> d.token.pos, upload |-> d.upload]}
Holding(d) == {e.pos : e \in Stored(d)}

Deliver(d) ==
    /\ up[d] > 0
    /\ up' = Minus(up, d)
    /\ delivered' = [delivered EXCEPT ![d.token.group][d.token.pos] = @ \cup {d.upload}]

ServerStores(d) ==
    /\ ~ d.con
    /\ Deliver(d)
    /\ got' = [got EXCEPT ![d.token.group] = Stored(d)]
    /\ UNCHANGED <<client, down>>

\* The group is complete: it is handed on, and the server starts it afresh.
ServerConfirms(d) ==
    /\ d.con
    /\ Holding(d) = Positions
    /\ Deliver(d)
    /\ got' = [got EXCEPT ![d.token.group] = {}]
    /\ down' = Plus(down, [token |-> d.token, code |-> "created", arrived |-> Full])
    /\ UNCHANGED client

\* Payloads are missing: the answer is a bitmap, or empty.
ServerComplains(d) ==
    /\ d.con
    /\ Holding(d) # Positions
    /\ Deliver(d)
    /\ got' = [got EXCEPT ![d.token.group] = Stored(d)]
    /\ \E a \in {Holding(d), ResendAll} :
          down' = Plus(down, [token |-> d.token, code |-> "bad_request", arrived |-> a])
    /\ UNCHANGED client

\* An answer client_handle_get_response does not accept, whatever its token: a code it
\* does not support, or a datagram that is malformed or empty (recv() returns 0).
ServerRefuses(d) ==
    /\ d.con
    /\ Deliver(d)
    /\ got' = [got EXCEPT ![d.token.group] = Stored(d)]
    /\ down' = Plus(down, [token |-> d.token, code |-> "other", arrived |-> {}])
    /\ UNCHANGED client

-----------------------------------------------------------------------------
Client == \/ StartUpload \/ SkipArrived \/ Post \/ PostFails \/ WaitWritable
          \/ WaitReadable \/ WaitFails \/ SystemReset \/ EnterRecv \/ RecvError
          \/ ReplyRejected \/ ReplyFull \/ ReplyPartial

Environment ==
    \/ \E d \in Request : \/ LoseRequest(d)
                          \/ ServerStores(d)
                          \/ ServerConfirms(d)
                          \/ ServerComplains(d)
                          \/ ServerRefuses(d)
    \/ \E r \in Reply : LoseReply(r)

Next == Client \/ Environment

Spec == Init /\ [][Next]_vars

\* A connection on which no confirmable exchange fails: the request and its answer
\* arrive within wait()'s three seconds.  Non-confirmable requests may still be lost.
NextResponsive ==
    \/ StartUpload \/ SkipArrived \/ Post \/ PostFails \/ WaitWritable \/ WaitReadable
    \/ SystemReset \/ EnterRecv \/ RecvError \/ ReplyRejected \/ ReplyFull \/ ReplyPartial
    \/ \E d \in Request : \/ ~ d.con /\ LoseRequest(d)
                          \/ ServerStores(d)
                          \/ ServerConfirms(d)
                          \/ ServerComplains(d)
                          \/ ServerRefuses(d)

\* The thread runs, the server answers, and a payload sent again and again arrives.
Fairness ==
    /\ WF_vars(SkipArrived \/ Post \/ PostFails \/ SystemReset \/ EnterRecv)
    /\ WF_vars(WaitWritable \/ WaitReadable)
    /\ WF_vars(ReplyRejected \/ ReplyFull \/ ReplyPartial)
    /\ \A d \in Request :
          SF_vars(ServerStores(d) \/ ServerConfirms(d) \/ ServerComplains(d))

ResponsiveSpec == Init /\ [][NextResponsive]_vars /\ Fairness

-----------------------------------------------------------------------------
(* Properties. *)

\* The variables keep their types: the failures never exceed the limit, so the branch
\* for tries == 4 is dead, and the group index stays within the batch.
TypeOK ==
    /\ pc \in {"idle", "post", "wait", "recv"}
    /\ upload \in 0 .. MaxUploads
    /\ i \in 0 .. GroupCount
    /\ pc # "idle" => upload > 0 /\ i < GroupCount
    /\ x \in 0 .. GroupSize
    /\ last \in Positions
    /\ pc = "wait" => x <= last
    /\ tries \in 0 .. TryLimit
    /\ recv \in SUBSET (0 .. GroupSize)
    /\ con_token \in Token
    /\ rxd \in Reply \cup {NoReply}
    /\ up \in [Request -> 0 .. MaxCopies]
    /\ down \in [Reply -> 0 .. MaxCopies]
    /\ got \in [Groups -> SUBSET Held]
    /\ delivered \in [Groups -> [Positions -> SUBSET (1 .. MaxUploads)]]

\* recv() has no timeout; it is called only when poll() has reported a reply that
\* nothing has taken since, so coap_send_fn never blocks for good (networking.c:119).
RecvNeverBlocks == pc = "recv" => rxd # NoReply

\* A round always posts a confirmable request: the position to be confirmed is never
\* among those the server is said to have (LAST_MSG against the bitmap).
LastIsMissing == pc # "idle" => last \notin recv

\* A group counts as sent only if all its payloads arrived, in this or a former upload;
\* and in one and the same upload, if the server does not mix the payloads of several.
GroupsBacked ==
    \A g \in Groups : g < i =>
        /\ \A p \in Positions : delivered[g][p] # {}
        /\ BatchAware => \E u \in 1 .. upload : \A p \in Positions : u \in delivered[g][p]

\* A group counts as sent only if all its payloads arrived in this upload ("Everything
\* arrived to server", networking.c:136).
GroupsArrived ==
    \A g \in Groups : g < i => \A p \in Positions : upload \in delivered[g][p]

\* On a connection on which no confirmable exchange fails, every upload ends, however
\* many of its other requests are lost on the way: asking again for what the bitmap
\* lacks converges (networking.c:137-151).
UploadEnds == pc # "idle" ~> pc = "idle"
=============================================================================
