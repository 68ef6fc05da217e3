--------------------------- MODULE SharedObjects ---------------------------
(***************************************************************************)
(* Objects that several tasks share, and that come and go while they are   *)
(* used: the default loop, the list of interfaces, the Wi-Fi interfaces,   *)
(* the SNTP service and the L2 TAP descriptors.  Each is a part by itself: *)
(* Init chooses one, the others stay in their initial states.              *)
(***************************************************************************)
EXTENDS Sntp, Sequences, FiniteSets

CONSTANTS
  Parts,
  Fds, Tapers, Calls, Drivers, EthTypes, MaxLlc, Frames, RX_QUEUE_MAX_SIZE, NoDriver,
  Ifs, Sta, Netifs, Order,
  Listers, Entries, Locks,
  Clients, Loops

VARIABLES
  part,
  socks, taps, cleaner, tapRx, allocated, shared,
  slot, wifiHandlers, set, rxnetif, rxcb, object, app, evt, wifiRx, overtaken,
  list, counter, listLock, listHolder, listers, gone, raced,
  dflt, loops, registered, initialized, legacyCb, clients, overlapped, deletedAlone

Tap == INSTANCE L2Tap WITH rx <- tapRx
Wifi == INSTANCE WifiGlue WITH rx <- wifiRx, handlers <- wifiHandlers
List == INSTANCE NetifList WITH holder <- listHolder
Default == INSTANCE DefaultLoop

(* Tasks are counted, so they are finitely many; no object is the null     *)
(* pointer; the holder of a mutex is a task, nobody ("free"), or the mutex *)
(* does not exist.  Handlers are registered in the order of                *)
(* _esp_wifi_set_default_*_handlers, of which there is at least one.       *)
(* Descriptors are numbers, 0 is one of them, and the queues have room.    *)
ASSUME ListersAssumption ==
  /\ IsFiniteSet(Listers)
  /\ {"NULL", "free"} \cap Listers = {} /\ "NULL" \notin Entries \cup Locks
ASSUME ClientsAssumption == IsFiniteSet(Clients) /\ "NULL" \notin Loops
ASSUME TapsAssumption ==
  /\ 0 \in Fds /\ Fds \subseteq Nat /\ RX_QUEUE_MAX_SIZE \in Nat \ {0}
  /\ "NULL" \notin Frames
ASSUME OrderAssumption ==
  /\ Sta \in Ifs /\ "NULL" \notin Netifs
  /\ Order \in Seq({"start", "connected", "stop"} \X Ifs) /\ Order # <<>>

tapVars == <<socks, taps, cleaner, tapRx, allocated, shared>>
wifiVars == <<slot, wifiHandlers, set, rxnetif, rxcb, object, app, evt, wifiRx, overtaken>>
listVars == <<list, counter, listLock, listHolder, listers, gone, raced>>
defaultVars == <<dflt, loops, registered, initialized, legacyCb, clients, overlapped, deletedAlone>>
partVars == <<part, sntpVars, tapVars, wifiVars, listVars, defaultVars>>

PartsInit ==
  /\ part \in Parts
  /\ SntpInit /\ Tap!Init /\ Wifi!Init /\ List!Init /\ Default!Init

SntpPart ==
  /\ part = "sntp" /\ SntpNext
  /\ UNCHANGED <<part, tapVars, wifiVars, listVars, defaultVars>>
TapPart ==
  /\ part = "tap" /\ Tap!Next
  /\ UNCHANGED <<part, sntpVars, wifiVars, listVars, defaultVars>>
WifiPart ==
  /\ part = "wifi" /\ Wifi!Next
  /\ UNCHANGED <<part, sntpVars, tapVars, listVars, defaultVars>>
ListPart ==
  /\ part = "list" /\ List!Next
  /\ UNCHANGED <<part, sntpVars, tapVars, wifiVars, defaultVars>>
DefaultPart ==
  /\ part = "default" /\ Default!Next
  /\ UNCHANGED <<part, sntpVars, tapVars, wifiVars, listVars>>

PartsNext == SntpPart \/ TapPart \/ WifiPart \/ ListPart \/ DefaultPart

PartsSpec == PartsInit /\ [][PartsNext]_partVars

-----------------------------------------------------------------------------
(* What the parts promise; each property is explained in its module.       *)

(* Nobody uses a queue of an L2 TAP descriptor that close has deleted. *)
QueueOutlivesUse == Tap!QueueOutlivesUse
(* Every received frame has one owner until it is freed. *)
FramesHaveOneOwner == Tap!FramesHaveOneOwner
(* A select is told of every frame in the queues that it waits for. *)
SelectIsTold == Tap!SelectIsTold
(* Nobody sleeps for ever in a descriptor that is being closed. *)
CloseWakesReaders == Tap!CloseWakesReaders
(* A default Wi-Fi handler that runs has a live interface, and sets callbacks for live drivers only. *)
HandlerHasInterface == Wifi!HandlerHasInterface
(* The tables of wifi_default.c, wifi_netif.c and the driver agree. *)
TablesAgree == Wifi!TablesAgree
(* The mutex of the list of interfaces protects it although it comes and goes. *)
ListIsProtected == List!ListIsProtected
(* Calls of the default and the legacy loop use the loop that exists. *)
CallsUseTheLoop == Default!CallsUseTheLoop
=============================================================================
