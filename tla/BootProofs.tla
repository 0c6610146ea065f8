------------------------------ MODULE BootProofs ------------------------------
(***************************************************************************)
(* Theorems about Boot: what main guarantees when it returns.              *)
(***************************************************************************)
EXTENDS Boot, FiniteSetTheorems, TLAPS

AllWork == {"coap_send", "networking_work_q", "empty_fifo"}

\* main initialises its items and its queue in order, after everything else.
WorkInvariant ==
    /\ prepared \in {{}, {"coap_send"}, {"coap_send", "networking_work_q"}, AllWork}
    /\ pc \notin {"k_work_init", "running", "crashed"} => prepared = {}
    /\ pc = "k_work_init" => prepared # AllWork
    /\ pc = "running" => prepared = AllWork

\* Where main may be without having been registered, unless modem_configure failed.
BeforeConnected == {"initialize_sensors", "nrf_modem_lib_init", "lte_lc_connect_async",
                    "k_sem_take", "crashed"}
ModemFailed == failures \cap {"nrf_modem_lib_init", "lte_lc_connect_async"} # {}

\* The semaphore is only given by a registration.
ConnectionInvariant ==
    /\ lte_connected = 1 => registered = "once"
    /\ pc \notin BeforeConnected => registered = "once" \/ ModemFailed
    /\ pc \in {"k_work_init", "running"} => sock = "connected"

BootInvariant == TypeOK /\ WorkInvariant /\ ConnectionInvariant /\ GivesUpOnlyFor

-----------------------------------------------------------------------------
(* The two sequences.                                                      *)

LEMMA CallSequences ==
    /\ Len(WorkOrder) = 3
    /\ WorkOrder[1] = "coap_send" /\ WorkOrder[2] = "networking_work_q"
    /\ WorkOrder[3] = "empty_fifo"
    /\ {WorkOrder[k] : k \in 1..Len(WorkOrder)} = AllWork
    /\ Len(ClientCalls) = 6
    /\ ClientCalls[1] = "socket" /\ ClientCalls[2] = "TLS_PEER_VERIFY"
    /\ ClientCalls[3] = "TLS_DTLS_CID" /\ ClientCalls[4] = "TLS_HOSTNAME"
    /\ ClientCalls[5] = "TLS_SEC_TAG_LIST" /\ ClientCalls[6] = "connect"
<1>1. /\ Len(WorkOrder) = 3
      /\ WorkOrder[1] = "coap_send" /\ WorkOrder[2] = "networking_work_q"
      /\ WorkOrder[3] = "empty_fifo"
  BY DEF WorkOrder
<1>2. {WorkOrder[k] : k \in 1..3} = AllWork
  <2>1. 1..3 = {1, 2, 3}
    OBVIOUS
  <2> QED
    BY <1>1, <2>1 DEF AllWork
<1>3. /\ Len(ClientCalls) = 6
      /\ ClientCalls[1] = "socket" /\ ClientCalls[2] = "TLS_PEER_VERIFY"
      /\ ClientCalls[3] = "TLS_DTLS_CID" /\ ClientCalls[4] = "TLS_HOSTNAME"
      /\ ClientCalls[5] = "TLS_SEC_TAG_LIST" /\ ClientCalls[6] = "connect"
  BY DEF ClientCalls
<1> QED
  BY <1>1, <1>2, <1>3

\* The names of the calls.
LEMMA CallNames ==
    Calls = {"nrf_modem_lib_init", "lte_lc_connect_async", "lte_lc_psm_req", "lte_lc_edrx_req",
             "getaddrinfo", "socket", "TLS_PEER_VERIFY", "TLS_DTLS_CID", "TLS_HOSTNAME",
             "TLS_SEC_TAG_LIST", "connect"}
<1>1. 1..6 = {1, 2, 3, 4, 5, 6}
  OBVIOUS
<1>2. {ClientCalls[k] : k \in 1..Len(ClientCalls)} =
        {"socket", "TLS_PEER_VERIFY", "TLS_DTLS_CID", "TLS_HOSTNAME", "TLS_SEC_TAG_LIST", "connect"}
  BY <1>1, CallSequences
<1> QED
  BY <1>2 DEF Calls

\* What is initialised next, and when main ends.
LEMMA NextWork ==
    /\ WorkOrder[Cardinality({}) + 1] = "coap_send"
    /\ WorkOrder[Cardinality({"coap_send"}) + 1] = "networking_work_q"
    /\ WorkOrder[Cardinality({"coap_send", "networking_work_q"}) + 1] = "empty_fifo"
    /\ ~MainEnds(Cardinality({"coap_send"}))
    /\ ~MainEnds(Cardinality({"coap_send", "networking_work_q"}))
    /\ MainEnds(Cardinality(AllWork))
<1>1. Cardinality({}) = 0 /\ IsFiniteSet({})
  BY FS_EmptySet
<1>2. Cardinality({"coap_send"}) = 1 /\ IsFiniteSet({"coap_send"})
  BY FS_Singleton
<1>3. /\ Cardinality({"coap_send", "networking_work_q"}) = 2
      /\ IsFiniteSet({"coap_send", "networking_work_q"})
  <2>1. {"coap_send", "networking_work_q"} = {"coap_send"} \cup {"networking_work_q"}
    OBVIOUS
  <2> QED
    BY <1>2, <2>1, FS_AddElement
<1>4. Cardinality(AllWork) = 3
  <2>1. AllWork = {"coap_send", "networking_work_q"} \cup {"empty_fifo"}
    BY DEF AllWork
  <2> QED
    BY <1>3, <2>1, FS_AddElement
<1> QED
  BY <1>1, <1>2, <1>3, <1>4, CallSequences DEF MainEnds

-----------------------------------------------------------------------------
(* The invariant.                                                          *)

LEMMA InitInvariant == Init => BootInvariant
BY DEF Init, BootInvariant, TypeOK, WorkInvariant, ConnectionInvariant, GivesUpOnlyFor,
       BeforeConnected, Unnoticed, Statuses, AllWork

\* Main's calls up to the wait for the network.
LEMMA StepInitialize == BootInvariant /\ (InitializeSensors \/ ModemLibInit) => BootInvariant'
<1> SUFFICES ASSUME BootInvariant, InitializeSensors \/ ModemLibInit PROVE BootInvariant'
  OBVIOUS
<1> USE CallNames, CallSequences
    DEF BootInvariant, TypeOK, WorkInvariant, ConnectionInvariant, GivesUpOnlyFor,
        BeforeConnected, ModemFailed, Unnoticed, Devices, At, Failed
<1>1. CASE InitializeSensors
  BY <1>1 DEF InitializeSensors
<1>2. CASE ModemLibInit
  BY <1>2 DEF ModemLibInit
<1> QED
  BY <1>1, <1>2

LEMMA StepConnect ==
    BootInvariant /\ (ConnectAsync \/ ConnectAsyncReturns \/ SemTake) => BootInvariant'
<1> SUFFICES ASSUME BootInvariant, ConnectAsync \/ ConnectAsyncReturns \/ SemTake
             PROVE BootInvariant'
  OBVIOUS
<1> USE CallNames, CallSequences
    DEF BootInvariant, TypeOK, WorkInvariant, ConnectionInvariant, GivesUpOnlyFor,
        BeforeConnected, ModemFailed, Unnoticed, Statuses, At, Failed
<1>1. CASE ConnectAsync
  BY <1>1 DEF ConnectAsync
<1>2. CASE ConnectAsyncReturns
  BY <1>2 DEF ConnectAsyncReturns
<1>3. CASE SemTake
  BY <1>3 DEF SemTake
<1> QED
  BY <1>1, <1>2, <1>3

\* The requests for low power, and the name of the server.
LEMMA StepLowPower == BootInvariant /\ (PsmReq \/ EdrxReq \/ Resolve) => BootInvariant'
<1> SUFFICES ASSUME BootInvariant, PsmReq \/ EdrxReq \/ Resolve PROVE BootInvariant'
  OBVIOUS
<1> USE CallNames, CallSequences
    DEF BootInvariant, TypeOK, WorkInvariant, ConnectionInvariant, GivesUpOnlyFor,
        BeforeConnected, ModemFailed, Unnoticed, At, Failed
<1>1. CASE PsmReq
  BY <1>1 DEF PsmReq
<1>2. CASE EdrxReq
  BY <1>2 DEF EdrxReq, ModemErr
<1>3. CASE Resolve
  BY <1>3 DEF Resolve
<1> QED
  BY <1>1, <1>2, <1>3

\* client_init, call by call.
LEMMA StepClientInit ==
    ASSUME BootInvariant, NEW k \in 1..Len(ClientCalls), ClientInit(k) PROVE BootInvariant'
<1> USE CallNames, CallSequences
    DEF BootInvariant, TypeOK, WorkInvariant, ConnectionInvariant, GivesUpOnlyFor,
        BeforeConnected, ModemFailed, Unnoticed, At, Failed, ClientInit
<1>1. k \in {1, 2, 3, 4, 5, 6}
  OBVIOUS
<1>2. CASE k = 6
  BY <1>2
<1>3. CASE k \in {1, 2, 4, 5}
  BY <1>3
<1>4. CASE k = 3
  BY <1>4
<1> QED
  BY <1>1, <1>2, <1>3, <1>4

\* The items and the queue: main returns with the last of them.
LEMMA StepInitWork == BootInvariant /\ InitWork => BootInvariant'
<1> SUFFICES ASSUME BootInvariant, InitWork PROVE BootInvariant'
  OBVIOUS
<1>1. pc = "k_work_init" /\ prepared \in {{}, {"coap_send"}, {"coap_send", "networking_work_q"}}
  BY DEF BootInvariant, WorkInvariant, InitWork, At
<1>2. \/ prepared' = {"coap_send"} /\ pc' = "k_work_init"
      \/ prepared' = {"coap_send", "networking_work_q"} /\ pc' = "k_work_init"
      \/ prepared' = AllWork /\ pc' = "running"
  <2>1. CASE prepared = {}
    <3>1. prepared' = {"coap_send"}
      BY <2>1, NextWork DEF InitWork
    <3> QED
      BY <1>1, <3>1, NextWork DEF InitWork
  <2>2. CASE prepared = {"coap_send"}
    <3>1. prepared' = {"coap_send", "networking_work_q"}
      BY <2>2, NextWork DEF InitWork
    <3> QED
      BY <1>1, <3>1, NextWork DEF InitWork
  <2>3. CASE prepared = {"coap_send", "networking_work_q"}
    <3>1. prepared' = AllWork
      BY <2>3, NextWork DEF InitWork, AllWork
    <3> QED
      BY <1>1, <3>1, NextWork DEF InitWork
  <2> QED
    BY <1>1, <2>1, <2>2, <2>3
<1>3. UNCHANGED <<ready, trigger, net, lte_connected, registered, sock, sysq, upload, failures>>
  BY DEF InitWork
<1> QED
  BY <1>1, <1>2, <1>3, CallSequences
  DEF BootInvariant, TypeOK, WorkInvariant, ConnectionInvariant, GivesUpOnlyFor,
      BeforeConnected, ModemFailed, AllWork

\* What happens meanwhile.  empty_fifo submits an upload only when it is
\* initialised itself, and so after the queue.
LEMMA StepMeanwhile ==
    ASSUME BootInvariant,
           \/ \E s \in Statuses : LteHandler(s)
           \/ WatermarkReached \/ EmptyFifoFault \/ EmptyFifo \/ CoapSend \/ Restart
    PROVE  BootInvariant'
<1> USE CallSequences
    DEF BootInvariant, TypeOK, WorkInvariant, ConnectionInvariant, GivesUpOnlyFor,
        BeforeConnected, ModemFailed, Unnoticed, Statuses, AllWork
<1>1. CASE \E s \in Statuses : LteHandler(s)
  BY <1>1 DEF LteHandler, ConnectedStatus, Given
<1>2. CASE WatermarkReached
  BY <1>2 DEF WatermarkReached
<1>3. CASE EmptyFifoFault
  BY <1>3 DEF EmptyFifoFault
<1>4. CASE EmptyFifo
  BY <1>4 DEF EmptyFifo
<1>5. CASE CoapSend
  BY <1>5 DEF CoapSend
<1>6. CASE Restart
  BY <1>6 DEF Restart
<1> QED
  BY <1>1, <1>2, <1>3, <1>4, <1>5, <1>6

LEMMA StepInvariant == BootInvariant /\ [Next]_vars => BootInvariant'
<1> SUFFICES ASSUME BootInvariant, [Next]_vars PROVE BootInvariant'
  OBVIOUS
<1>1. CASE Main
  BY <1>1, StepInitialize, StepConnect, StepLowPower, StepClientInit, StepInitWork DEF Main
<1>2. CASE UNCHANGED vars
  BY <1>2 DEF vars, BootInvariant, TypeOK, WorkInvariant, ConnectionInvariant, GivesUpOnlyFor,
      ModemFailed
<1> QED
  BY <1>1, <1>2, StepMeanwhile DEF Next

(* The invariant holds in every state. *)
THEOREM InvariantHolds == Spec => []BootInvariant
BY InitInvariant, StepInvariant, PTL DEF Spec

(* The state has its type, and no upload is lost to a queue that was not   *)
(* started.                                                                *)
THEOREM TypeCorrect == Spec => []TypeOK
BY InvariantHolds, PTL DEF BootInvariant

(* A boot that returned 0 has a connected socket, and a modem that has     *)
(* been registered, unless its initialisation or the connect failed.       *)
THEOREM RunningConnected == Spec => []RunningIsConnected
<1>1. BootInvariant => RunningIsConnected
  BY DEF BootInvariant, ConnectionInvariant, BeforeConnected, ModemFailed, RunningIsConnected
<1> QED
  BY <1>1, InvariantHolds, PTL

(* The failures that end a boot, and those nobody notices. *)
THEOREM GivesUp == Spec => []GivesUpOnlyFor
BY InvariantHolds, PTL DEF BootInvariant

(* A boot that succeeded does not fault: every item is initialised. *)
THEOREM NoFault == Spec => NoFaultOnceRunning
<1>1. BootInvariant /\ [Next]_vars => [pc = "running" => pc' # "crashed"]_vars
  <2> SUFFICES ASSUME BootInvariant, Next, pc = "running" PROVE pc' # "crashed"
    OBVIOUS
  <2>1. prepared = AllWork
    BY DEF BootInvariant, WorkInvariant
  <2>2. ~Main
    <3>1. \A k \in {1, 2, 3, 4, 5, 6} : ClientCalls[k] # "running"
      BY CallSequences
    <3> QED
      BY <3>1, CallSequences DEF Main, At, InitializeSensors, ModemLibInit, ConnectAsync,
         ConnectAsyncReturns, SemTake, PsmReq, EdrxReq, Resolve, ClientInit, InitWork
  <2> QED
    BY <2>1, <2>2 DEF Next, AllWork, LteHandler, WatermarkReached, EmptyFifoFault,
       EmptyFifo, CoapSend, Restart
<1> QED
  BY <1>1, InvariantHolds, PTL DEF Spec, NoFaultOnceRunning
=============================================================================
