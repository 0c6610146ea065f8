--------------------------------- MODULE Boot ---------------------------------
(***************************************************************************)
(* The start of the program: main, with initialize_sensors,                *)
(* initialize_modem and connect_to_server, while the link controller       *)
(* reports the network's state (lte_handler) and the accelerometer, whose  *)
(* trigger is armed first, already submits empty_fifo.                     *)
(*                                                                         *)
(* Main has a lower priority than the system work queue and runs only when *)
(* that is empty; the networking queue's is lower still.  How long a call  *)
(* takes is left open: connecting takes from seconds to minutes, and the   *)
(* FIFO fills in 13.6 s.                                                   *)
(*                                                                         *)
(* A definition marked "Variant" is a wrong form of the one that follows:  *)
(* no specification uses it, and with it in place of the right one a       *)
(* property fails.                                                         *)
(***************************************************************************)
EXTENDS Naturals, Sequences, FiniteSets

VARIABLES
    pc,           \* where main is, and how it ended
    ready,        \* devices whose driver has initialised them
    trigger,      \* whether the FIFO's interrupt is mapped to its pin
    net,          \* the registration status reported last, "off" before connecting
    lte_connected,   \* the semaphore's count
    registered,   \* ghost: whether the modem has been registered
    sock,         \* the socket
    prepared,     \* work items and queues that are initialised
    sysq,         \* the system work queue: empty_fifo at most
    upload,       \* coap_send: "none", "queued" or "lost"
    failures      \* ghost: the calls of this boot that failed

vars == <<pc, ready, trigger, net, lte_connected, registered, sock, prepared,
          sysq, upload, failures>>

Devices == {"adxl362", "bme680"}

\* The calls of client_init, in order.
ClientCalls == <<"socket", "TLS_PEER_VERIFY", "TLS_DTLS_CID", "TLS_HOSTNAME",
                 "TLS_SEC_TAG_LIST", "connect">>

\* Variant: the work that fills the batches is ready before the queue that sends them.
WorkOrderFifoFirst == <<"coap_send", "empty_fifo", "networking_work_q">>

\* What main initialises last, in order.
WorkOrder == <<"coap_send", "networking_work_q", "empty_fifo">>

Init ==
    /\ pc = "initialize_sensors" /\ ready \in SUBSET Devices
    /\ trigger = "off"
    /\ net = "off" /\ lte_connected = 0 /\ registered = "never"
    /\ sock = "closed" /\ prepared = {} /\ sysq = "empty" /\ upload = "none"
    /\ failures = {}

\* Main is about to make the call p, and the system work queue lets it.
At(p) == pc = p /\ sysq = "empty"

Failed(call) == failures' = failures \cup {call}

-----------------------------------------------------------------------------
(* initialize_sensors and initialize_modem.                                *)

\* Returns 0 whatever happens.  The trigger is set unless both devices are
\* missing, also on an accelerometer that is not ready.
InitializeSensors ==
    /\ At("initialize_sensors")
    /\ pc' = "nrf_modem_lib_init"
    /\ \/ ready = {} /\ Failed("device_is_ready") /\ UNCHANGED trigger
       \/ ready # {} /\ trigger' = "armed" /\ UNCHANGED failures
       \/ ready # {} /\ trigger' = "off" /\ Failed("sensor_trigger_set")
    /\ UNCHANGED <<ready, net, lte_connected, registered, sock, prepared, sysq, upload>>

\* modem_configure: a failing call ends it, without waiting for the network,
\* and initialize_modem goes on.
ModemLibInit ==
    /\ At("nrf_modem_lib_init")
    /\ \/ pc' = "lte_lc_connect_async" /\ UNCHANGED failures
       \/ pc' = "lte_lc_psm_req" /\ Failed(pc)
    /\ UNCHANGED <<ready, trigger, net, lte_connected, registered, sock, prepared, sysq, upload>>

\* From within the call on, lte_handler may be called.
ConnectAsync ==
    /\ At("lte_lc_connect_async") /\ net = "off"
    /\ net' = "searching"
    /\ UNCHANGED <<pc, ready, trigger, lte_connected, registered, sock, prepared, sysq, upload, failures>>

ConnectAsyncReturns ==
    /\ At("lte_lc_connect_async") /\ net # "off"
    /\ \/ pc' = "k_sem_take" /\ UNCHANGED failures
       \/ pc' = "lte_lc_psm_req" /\ Failed(pc)
    /\ UNCHANGED <<ready, trigger, net, lte_connected, registered, sock, prepared, sysq, upload>>

\* K_FOREVER: there is no other way out.
SemTake ==
    /\ At("k_sem_take")
    /\ lte_connected = 1
    /\ lte_connected' = 0
    /\ pc' = "lte_lc_psm_req"
    /\ UNCHANGED <<ready, trigger, net, registered, sock, prepared, sysq, upload, failures>>

\* configure_low_power
PsmReq ==
    /\ At("lte_lc_psm_req")
    /\ pc' = "lte_lc_edrx_req"
    /\ UNCHANGED failures \/ Failed(pc)
    /\ UNCHANGED <<ready, trigger, net, lte_connected, registered, sock, prepared, sysq, upload>>

\* Variant: keeps the first error of the two requests.
ModemErrFirst(failing) == failing \cap {"lte_lc_psm_req", "lte_lc_edrx_req"}

\* The error initialize_modem returns: each call has overwritten the one before.
ModemErr(failing) == failing \cap {"lte_lc_edrx_req"}

EdrxReq ==
    /\ At("lte_lc_edrx_req")
    /\ UNCHANGED failures \/ Failed(pc)
    /\ pc' = IF ModemErr(failures') = {} THEN "getaddrinfo" ELSE "failed"
    /\ UNCHANGED <<ready, trigger, net, lte_connected, registered, sock, prepared, sysq, upload>>

\* Variant: the modem's search is taken for a connection.
ConnectedStatusSearching == {"searching", "home", "roaming"}
ConnectedStatus == {"home", "roaming"}

\* Variant: wakes main, if it waits already.
GivenWaiting == IF pc = "k_sem_take" THEN 1 ELSE lte_connected

\* k_sem_give, with a limit of 1: kept until it is taken.
Given == 1

\* lte_handler, for a new registration status.
LteHandler(status) ==
    /\ pc # "crashed"
    /\ net # "off" /\ status # net
    /\ net' = status
    /\ registered' = IF status \in {"home", "roaming"} THEN "once" ELSE registered
    /\ lte_connected' = IF status \in ConnectedStatus THEN Given ELSE lte_connected
    /\ UNCHANGED <<pc, ready, trigger, sock, prepared, sysq, upload, failures>>

-----------------------------------------------------------------------------
(* connect_to_server and the rest of main.                                 *)

\* server_resolve: both errors of it are negative.
Resolve ==
    /\ At("getaddrinfo")
    /\ \/ pc' = ClientCalls[1] /\ UNCHANGED failures
       \/ pc' = "failed" /\ Failed(pc)
    /\ UNCHANGED <<ready, trigger, net, lte_connected, registered, sock, prepared, sysq, upload>>

\* client_init: a failing call ends it, unless it is that for connection ids.
\* The socket is not closed.
ClientInit(k) ==
    LET onward == IF k = Len(ClientCalls) THEN "k_work_init" ELSE ClientCalls[k + 1] IN
    /\ At(ClientCalls[k])
    /\ \/ /\ pc' = onward
          /\ sock' = CASE pc = "socket" -> "open" [] pc = "connect" -> "connected" [] OTHER -> sock
          /\ UNCHANGED failures
       \/ /\ pc' = IF pc = "TLS_DTLS_CID" THEN onward ELSE "failed"
          /\ Failed(pc)
          /\ UNCHANGED sock
    /\ UNCHANGED <<ready, trigger, net, lte_connected, registered, prepared, sysq, upload>>

\* Variant: main ends one step early.
MainEndsEarly(n) == n >= Len(WorkOrder) - 1

\* Main returns 0 when everything is initialised.
MainEnds(n) == n = Len(WorkOrder)

InitWork ==
    /\ At("k_work_init")
    /\ prepared' = prepared \cup {WorkOrder[Cardinality(prepared) + 1]}
    /\ pc' = IF MainEnds(Cardinality(prepared')) THEN "running" ELSE pc
    /\ UNCHANGED <<ready, trigger, net, lte_connected, registered, sock, sysq, upload, failures>>

-----------------------------------------------------------------------------
(* Meanwhile.                                                              *)

\* The FIFO reaches its watermark: trigger_handler submits empty_fifo.  An accelerometer
\* that is not ready may have failed so late that it measures all the same.
WatermarkReached ==
    /\ pc # "crashed"
    /\ trigger = "armed"
    /\ sysq = "empty"
    /\ sysq' = "empty_fifo"
    /\ UNCHANGED <<pc, ready, trigger, net, lte_connected, registered, sock, prepared, upload, failures>>

\* The item's handler is NULL until main has initialised it.
EmptyFifoFault ==
    /\ sysq = "empty_fifo" /\ "empty_fifo" \notin prepared
    /\ pc # "crashed"
    /\ pc' = "crashed"
    /\ UNCHANGED <<ready, trigger, net, lte_connected, registered, sock, prepared, sysq, upload, failures>>

\* empty_fifo_fn submits coap_send when a batch is full; the networking queue
\* takes it only once it is started.
EmptyFifo ==
    /\ sysq = "empty_fifo" /\ "empty_fifo" \in prepared
    /\ sysq' = "empty"
    /\ \/ UNCHANGED upload
       \/ upload' = IF "networking_work_q" \in prepared THEN "queued" ELSE "lost"
    /\ UNCHANGED <<pc, ready, trigger, net, lte_connected, registered, sock, prepared, failures>>

\* coap_send_fn runs when main has returned.
CoapSend ==
    /\ pc = "running" /\ sysq = "empty"
    /\ upload = "queued"
    /\ upload' = "none"
    /\ UNCHANGED <<pc, ready, trigger, net, lte_connected, registered, sock, prepared, sysq, failures>>

\* The fault's handler, or coap_send_fn giving up, restarts the processor.
Restart ==
    /\ pc = "crashed" \/ (pc = "running" /\ upload = "queued")
    /\ pc' = "initialize_sensors" /\ ready' \in SUBSET Devices
    /\ trigger' = "off"
    /\ net' = "off" /\ lte_connected' = 0 /\ registered' = "never"
    /\ sock' = "closed" /\ prepared' = {} /\ sysq' = "empty" /\ upload' = "none"
    /\ failures' = {}

Main ==
    \/ InitializeSensors \/ ModemLibInit \/ ConnectAsync \/ ConnectAsyncReturns \/ SemTake \/ PsmReq \/ EdrxReq
    \/ Resolve
    \/ (\E k \in 1..Len(ClientCalls) : ClientInit(k)) \/ InitWork

Statuses == {"searching", "denied", "home", "roaming"}
Next ==
    \/ Main \/ (\E s \in Statuses : LteHandler(s))
    \/ WatermarkReached \/ EmptyFifoFault \/ EmptyFifo \/ CoapSend \/ Restart

\* Main and the work queue are scheduled, every call but the wait returns, and
\* a modem that is not registered registers in the end.
Registers == \E s \in {"home", "roaming"} : net \notin {"home", "roaming"} /\ LteHandler(s)
Fairness == WF_vars(Main) /\ WF_vars(EmptyFifo) /\ WF_vars(EmptyFifoFault) /\ WF_vars(Registers)
Spec == Init /\ [][Next]_vars /\ Fairness

-----------------------------------------------------------------------------
(* Properties.                                                             *)

Calls == {"nrf_modem_lib_init", "lte_lc_connect_async", "lte_lc_psm_req", "lte_lc_edrx_req",
          "getaddrinfo"} \cup {ClientCalls[k] : k \in 1..Len(ClientCalls)}

(* The type of the state; no upload is submitted to a queue that has not   *)
(* been started (main.c:47 comes after main.c:43).                         *)
TypeOK ==
    /\ pc \in Calls \cup {"initialize_sensors", "k_sem_take", "k_work_init", "running", "failed", "crashed"}
    /\ ready \subseteq Devices /\ trigger \in {"off", "armed"}
    /\ net \in Statuses \cup {"off"} /\ lte_connected \in 0..1 /\ registered \in {"never", "once"}
    /\ sock \in {"closed", "open", "connected"}
    /\ prepared \subseteq {WorkOrder[k] : k \in 1..Len(WorkOrder)}
    /\ sysq \in {"empty", "empty_fifo"} /\ upload \in {"none", "queued"}
    /\ failures \subseteq Calls \cup {"device_is_ready", "sensor_trigger_set"}

(* When main has returned 0 the socket is connected to the server, and the *)
(* modem has been registered, unless modem_configure failed, which nobody  *)
(* notices (modem.c:8).                                                    *)
RunningIsConnected ==
    pc = "running" =>
        /\ sock = "connected"
        /\ registered = "once" \/ failures \cap {"nrf_modem_lib_init", "lte_lc_connect_async"} # {}

(* Which failures end the boot: a missing sensor, a trigger that is not    *)
(* set, a modem that is not initialised or does not connect and a refused  *)
(* PSM request do not (sensor.c:29, modem.c:8); every later one does,      *)
(* except connection ids, which are optional.                              *)
Unnoticed == {"device_is_ready", "sensor_trigger_set", "nrf_modem_lib_init",
              "lte_lc_connect_async", "lte_lc_psm_req", "TLS_DTLS_CID"}
GivesUpOnlyFor ==
    /\ pc = "failed" => failures \ Unnoticed # {}
    /\ pc \notin {"failed", "crashed"} => failures \subseteq Unnoticed

(* The trigger is armed before empty_fifo is initialised, and the fault    *)
(* this leads to is over with main: a boot that has succeeded does not     *)
(* fault any more (main.c:47).                                             *)
NoFaultOnceRunning == [][pc = "running" => pc' # "crashed"]_vars

(* A boot ends, in success, failure or the fault above: the registration   *)
(* is not missed, whether it is reported before or after main waits for    *)
(* it.  That boots do not go on faulting is not claimed: one that connects *)
(* more slowly than the FIFO fills faults every time.                      *)
BootEnds == pc = "initialize_sensors" ~> pc \in {"running", "failed", "crashed"}
=============================================================================
