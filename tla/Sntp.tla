--------------------------------- MODULE Sntp ---------------------------------
(***************************************************************************)
(* The SNTP service of esp_netif (esp_netif_sntp.c) on the wrappers of     *)
(* lwIP's client (sntp.c).  An application task sets it up and takes it    *)
(* down, others wait for a synchronisation or call the wrappers, the event *)
(* task renews the servers, and the TCP/IP thread runs one function at a   *)
(* time for all of them (see TcpipCalls) and receives the time.            *)
(***************************************************************************)
EXTENDS Integers

CONSTANTS
  Storages,  \* sntp_storage_t objects, none of them used twice
  Waiters    \* tasks that call esp_netif_sntp_sync_wait

VARIABLES
  storage,   \* s_storage
  life,      \* new, live or freed, of each object
  sem,       \* its sync_sem
  notify,    \* whether time_sync_notification_cb is sync_time_cb
  running,   \* whether lwIP's client runs
  posted,    \* calls of sntp.c that the thread will run
  sntpApp,   \* the task that calls esp_netif_sntp_init and _deinit
  waits,     \* the tasks in esp_netif_sntp_sync_wait
  renew,     \* the event task in esp_netif_sntp_renew_servers
  thread     \* the TCP/IP thread

sntpVars == <<storage, life, sem, notify, running, posted, sntpApp, waits, renew, thread>>

None == "NULL"

ASSUME StoragesAssumption == None \notin Storages

Idle == [pc |-> "idle", s |-> None]
Functions == {"init", "stop", "restart"}

SntpInit ==
  /\ storage = None
  /\ life = [s \in Storages |-> "new"] /\ sem = [s \in Storages |-> 0]
  /\ notify = FALSE /\ running = FALSE /\ posted = {}
  /\ sntpApp = Idle /\ renew = "idle" /\ thread = Idle
  /\ waits = [t \in Waiters |-> Idle]

-----------------------------------------------------------------------------
(* esp_netif_sntp_init, when there is no service yet *)
InitAlloc(s) ==
  /\ sntpApp = Idle /\ storage = None /\ life[s] = "new"
  /\ life' = [life EXCEPT ![s] = "live"]
  /\ storage' = s
  /\ sntpApp' = [pc |-> "init", s |-> s]
  /\ UNCHANGED <<sem, notify, running, posted, waits, renew, thread>>

(* sntp_init_api in the thread; too many servers are refused, and a        *)
(* failure of this or an earlier step calls deinit.                        *)
ThreadInit(start) ==
  /\ sntpApp.pc = "init" /\ thread = Idle
  /\ notify' = TRUE
  /\ running' = (running \/ start)
  /\ sntpApp' = Idle
  /\ UNCHANGED <<storage, life, sem, posted, waits, renew, thread>>

InitFails ==
  /\ sntpApp.pc = "init"
  /\ sntpApp' = [sntpApp EXCEPT !.pc = "clear"]
  /\ UNCHANGED <<storage, life, sem, notify, running, posted, waits, renew, thread>>

(* esp_netif_sntp_deinit, when nobody waits for a synchronisation *)
Deinit ==
  /\ sntpApp = Idle /\ storage # None
  /\ \A t \in Waiters : waits[t] = Idle
  /\ sntpApp' = [pc |-> "clear", s |-> storage]
  /\ UNCHANGED <<storage, life, sem, notify, running, posted, waits, renew, thread>>

DeinitClear ==
  /\ sntpApp.pc = "clear"
  /\ storage' = None
  /\ sntpApp' = [sntpApp EXCEPT !.pc = "uncallback"]
  /\ UNCHANGED <<life, sem, notify, running, posted, waits, renew, thread>>

DeinitCallback ==
  /\ sntpApp.pc = "uncallback"
  /\ notify' = FALSE
  /\ sntpApp' = [sntpApp EXCEPT !.pc = "stop"]
  /\ UNCHANGED <<storage, life, sem, running, posted, waits, renew, thread>>

DeinitStop_Directly ==
  /\ sntpApp.pc = "stop"
  /\ running' = FALSE
  /\ sntpApp' = [sntpApp EXCEPT !.pc = "free"]
  /\ UNCHANGED <<storage, life, sem, notify, posted, waits, renew, thread>>

(* sntp_stop_api in the thread, after what it is doing now *)
DeinitStop ==
  /\ sntpApp.pc = "stop" /\ thread = Idle
  /\ running' = FALSE
  /\ sntpApp' = [sntpApp EXCEPT !.pc = "free"]
  /\ UNCHANGED <<storage, life, sem, notify, posted, waits, renew, thread>>

(* The servers, the semaphore and the storage are freed; the event handler *)
(* is unregistered, which does nothing to one that was not registered.     *)
DeinitFree ==
  /\ sntpApp.pc = "free"
  /\ life' = [life EXCEPT ![sntpApp.s] = "freed"]
  /\ sntpApp' = Idle
  /\ UNCHANGED <<storage, sem, notify, running, posted, waits, renew, thread>>

-----------------------------------------------------------------------------
(* esp_netif_sntp_sync_wait *)
SyncWait(t) ==
  /\ waits[t] = Idle /\ sntpApp = Idle /\ storage # None
  /\ waits' = [waits EXCEPT ![t] = [pc |-> "take", s |-> storage]]
  /\ UNCHANGED <<storage, life, sem, notify, running, posted, sntpApp, renew, thread>>

SyncTaken(t) ==
  /\ waits[t].pc = "take"
  /\ \/ sem[waits[t].s] = 1 /\ sem' = [sem EXCEPT ![waits[t].s] = 0]
     \/ UNCHANGED sem    \* ESP_ERR_TIMEOUT
  /\ waits' = [waits EXCEPT ![t] = Idle]
  /\ UNCHANGED <<storage, life, notify, running, posted, sntpApp, renew, thread>>

(* esp_sntp_init, esp_sntp_stop and sntp_restart: tcpip_callback does not  *)
(* wait; esp_netif_sntp_start stops and starts in the thread too.          *)
Post(fn) ==
  /\ fn \notin posted
  /\ fn = "restart" => running
  /\ posted' = posted \cup {fn}
  /\ UNCHANGED <<storage, life, sem, notify, running, sntpApp, waits, renew, thread>>

ThreadPosted(fn) ==
  /\ thread = Idle /\ fn \in posted
  /\ posted' = posted \ {fn}
  /\ running' = (fn # "stop")
  /\ UNCHANGED <<storage, life, sem, notify, sntpApp, waits, renew, thread>>

(* esp_netif_sntp_renew_servers, after IP_EVENT; it may still be called    *)
(* while deinit goes on.                                                   *)
RenewServers ==
  /\ renew = "idle" /\ \E s \in Storages : life[s] = "live"
  /\ renew' = "exec"
  /\ UNCHANGED <<storage, life, sem, notify, running, posted, sntpApp, waits, thread>>

(* renew_servers_api reads s_storage, then its servers. *)
ThreadRenew ==
  /\ renew = "exec" /\ thread = Idle
  /\ IF storage = None
     THEN renew' = "idle" /\ UNCHANGED thread
     ELSE thread' = [pc |-> "renew", s |-> storage] /\ UNCHANGED renew
  /\ UNCHANGED <<storage, life, sem, notify, running, posted, sntpApp, waits>>

ThreadRenewed ==
  /\ thread.pc = "renew"
  /\ thread' = Idle /\ renew' = "idle"
  /\ UNCHANGED <<storage, life, sem, notify, running, posted, sntpApp, waits>>

-----------------------------------------------------------------------------
(* An answer of a server: sntp_sync_time sets the clock and calls back. *)
SyncTime ==
  /\ thread = Idle /\ running
  /\ thread' = IF notify THEN [pc |-> "check", s |-> None] ELSE Idle
  /\ UNCHANGED <<storage, life, sem, notify, running, posted, sntpApp, waits, renew>>

(* sync_time_cb reads s_storage before the semaphore and again before the  *)
(* application's callback.  Between test and use deinit may clear it: the  *)
(* pointer read first is followed here, a second read may find NULL.       *)
CallbackCheck ==
  /\ thread.pc = "check"
  /\ thread' = [pc |-> IF storage = None THEN "recheck" ELSE "give", s |-> storage]
  /\ UNCHANGED <<storage, life, sem, notify, running, posted, sntpApp, waits, renew>>

CallbackGive ==
  /\ thread.pc = "give"
  /\ sem' = [sem EXCEPT ![thread.s] = 1]
  /\ thread' = [pc |-> "recheck", s |-> None]
  /\ UNCHANGED <<storage, life, notify, running, posted, sntpApp, waits, renew>>

CallbackRecheck ==
  /\ thread.pc = "recheck"
  /\ thread' = IF storage = None THEN Idle ELSE [pc |-> "call", s |-> storage]
  /\ UNCHANGED <<storage, life, sem, notify, running, posted, sntpApp, waits, renew>>

CallbackCall ==
  /\ thread.pc = "call"
  /\ thread' = Idle
  /\ UNCHANGED <<storage, life, sem, notify, running, posted, sntpApp, waits, renew>>

-----------------------------------------------------------------------------
SntpNext ==
  \/ \E s \in Storages : InitAlloc(s)
  \/ \E start \in BOOLEAN : ThreadInit(start)
  \/ InitFails \/ Deinit \/ DeinitClear \/ DeinitCallback \/ DeinitStop \/ DeinitFree
  \/ \E t \in Waiters : SyncWait(t) \/ SyncTaken(t)
  \/ \E fn \in Functions : Post(fn) \/ ThreadPosted(fn)
  \/ RenewServers \/ ThreadRenew \/ ThreadRenewed
  \/ SyncTime \/ CallbackCheck \/ CallbackGive \/ CallbackRecheck \/ CallbackCall

SntpSpec == SntpInit /\ [][SntpNext]_sntpVars

-----------------------------------------------------------------------------
(* Properties *)

(* Nobody uses a storage that was freed: not the time callback, which has  *)
(* no lock but finishes before the thread runs the stop of deinit, not the *)
(* renewal of servers, which the same stop waits for, and no later answer  *)
(* either, even when a wrapper has started the client again meanwhile.     *)
StorageOutlivesUse ==
  /\ thread.s # None => life[thread.s] = "live"
  /\ \A t \in Waiters : waits[t].s # None => life[waits[t].s] = "live"
=============================================================================
