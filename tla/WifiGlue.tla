------------------------------- MODULE WifiGlue -------------------------------
(***************************************************************************)
(* Wi-Fi interfaces of esp_netif (wifi_default.c, wifi_netif.c): an        *)
(* application task creates and destroys them, the event task runs the     *)
(* default handlers, and the receive task of the Wi-Fi driver calls back.  *)
(* Each of the two files has a table of interfaces of its own.             *)
(***************************************************************************)
EXTENDS Integers, Sequences, FiniteSets

CONSTANTS
  Ifs,      \* wifi_interface_t, the station among them
  Sta,
  Netifs,   \* esp_netif_t objects, none of them used twice
  Order     \* the default handlers in the order of their registration, as <<event, interface>>

None == "NULL"

VARIABLES
  slot,      \* s_wifi_netifs of wifi_default.c
  handlers,  \* default handlers that are registered
  set,       \* wifi_default_handlers_set
  rxnetif,   \* s_wifi_netifs of wifi_netif.c
  rxcb,      \* interfaces whose callback the Wi-Fi driver has
  object,    \* of each object: its life, its interface, its driver and the driver's base.netif
  app, evt, rx,  \* where the three tasks are
  overtaken  \* interfaces one of whose handlers ran when the object was destroyed and another
             \* interface kept the handlers registered (history)

wifiVars == <<slot, handlers, set, rxnetif, rxcb, object, app, evt, rx, overtaken>>

Idle == [pc |-> "idle"]
Ready(w) == w = Idle
All == {Order[i] : i \in DOMAIN Order}
Fresh == [life |-> "new", if |-> Sta, io |-> FALSE, driver |-> "none", attached |-> FALSE]

Init ==
  /\ slot = [i \in Ifs |-> None] /\ rxnetif = [i \in Ifs |-> None]
  /\ handlers = {} /\ set = FALSE
  /\ rxcb = {}
  /\ object = [n \in Netifs |-> Fresh]
  /\ app = Idle /\ evt = Idle /\ rx = Idle
  /\ overtaken = {}

Live(n) == n # None /\ object[n].life = "live"

-----------------------------------------------------------------------------
(* esp_netif_create_default_wifi_sta and _ap.  A failed step of them stops *)
(* the program (ESP_ERROR_CHECK), a second interface of the same kind too. *)
Create(n, i) ==
  /\ Ready(app) /\ object[n].life = "new"
  /\ ~\E m \in Netifs : object[m].life = "live" /\ object[m].if = i
  /\ object' = [object EXCEPT ![n].life = "live", ![n].if = i]
  /\ app' = [pc |-> "attach", n |-> n]
  /\ UNCHANGED <<slot, handlers, set, rxnetif, rxcb, evt, rx, overtaken>>

(* esp_netif_attach_wifi: the pointer that handlers see is set first. *)
Attach ==
  /\ app.pc = "attach"
  /\ slot' = [slot EXCEPT ![object[app.n].if] = app.n]
  /\ app' = [app EXCEPT !.pc = "driver"]
  /\ UNCHANGED <<handlers, set, rxnetif, rxcb, object, evt, rx, overtaken>>

(* esp_wifi_create_if_driver, and esp_netif_attach sets driver_handle *)
AttachDriver ==
  /\ app.pc = "driver"
  /\ object' = [object EXCEPT ![app.n].driver = "live", ![app.n].io = TRUE]
  /\ app' = [app EXCEPT !.pc = "post"]
  /\ UNCHANGED <<slot, handlers, set, rxnetif, rxcb, evt, rx, overtaken>>

(* wifi_driver_start *)
PostAttach ==
  /\ app.pc = "post"
  /\ object' = [object EXCEPT ![app.n].attached = TRUE]
  /\ app' = [pc |-> "set", i |-> 1]
  /\ UNCHANGED <<slot, handlers, set, rxnetif, rxcb, evt, rx, overtaken>>

(* esp_wifi_set_default_wifi_sta_handlers, which may be called alone too.  *)
SetHandlers ==
  /\ Ready(app)
  /\ app' = [pc |-> "set", i |-> 1]
  /\ UNCHANGED <<slot, handlers, set, rxnetif, rxcb, object, evt, rx, overtaken>>

AlreadySet ==
  /\ app.pc = "set" /\ app.i = 1 /\ set
  /\ app' = Idle
  /\ UNCHANGED <<slot, handlers, set, rxnetif, rxcb, object, evt, rx, overtaken>>

(* Registration takes the mutex of the event loop, which is held while     *)
(* handlers run; it may fail, and everything is cleared then.              *)
RegisterNext ==
  /\ app.pc = "set" /\ ~(app.i = 1 /\ set) /\ Ready(evt)
  /\ \/ /\ handlers' = handlers \cup {Order[app.i]}
        /\ IF app.i = Len(Order) THEN set' = TRUE /\ app' = Idle
           ELSE UNCHANGED set /\ app' = [app EXCEPT !.i = @ + 1]
     \/ app' = [pc |-> "clear", i |-> 1, n |-> None] /\ UNCHANGED <<handlers, set>>
  /\ UNCHANGED <<slot, rxnetif, rxcb, object, evt, rx, overtaken>>

(* The handler that runs is not waited for. *)
Overtaken(n) == IF evt # Idle /\ evt.n = n THEN {evt.on[2]} ELSE {}

ClearSlot_First(n) ==
  /\ Ready(app) /\ Live(n)
  /\ slot' = [i \in Ifs |-> IF slot[i] = n THEN None ELSE slot[i]]
  /\ overtaken' = IF \A i \in Ifs : slot'[i] = None THEN overtaken ELSE overtaken \cup Overtaken(n)
  /\ app' = [pc |-> "unhook", n |-> n]
  /\ UNCHANGED <<handlers, set, rxnetif, rxcb, object, evt, rx>>

(* esp_netif_destroy_default_wifi: the handlers are cleared with the last  *)
(* interface.                                                              *)
ClearSlot(n) ==
  /\ Ready(app) /\ Live(n)
  /\ slot' = [i \in Ifs |-> IF slot[i] = n THEN None ELSE slot[i]]
  /\ IF \A i \in Ifs : slot'[i] = None
     THEN app' = [pc |-> "clear", i |-> 1, n |-> n] /\ UNCHANGED overtaken
     ELSE app' = [pc |-> "unhook", n |-> n] /\ overtaken' = overtaken \cup Overtaken(n)
  /\ UNCHANGED <<handlers, set, rxnetif, rxcb, object, evt, rx>>

ClearNext_Flag ==
  /\ app.pc = "clear" /\ Ready(evt)
  /\ handlers' = handlers \ {Order[app.i]}
  /\ UNCHANGED set
  /\ app' = IF app.i < Len(Order) THEN [app EXCEPT !.i = @ + 1]
            ELSE IF app.n = None THEN Idle ELSE [pc |-> "unhook", n |-> app.n]
  /\ UNCHANGED <<slot, rxnetif, rxcb, object, evt, rx, overtaken>>

(* clear_default_wifi_handlers *)
ClearNext ==
  /\ app.pc = "clear" /\ Ready(evt)
  /\ handlers' = handlers \ {Order[app.i]}
  /\ IF app.i < Len(Order)
     THEN app' = [app EXCEPT !.i = @ + 1] /\ UNCHANGED set
     ELSE /\ set' = FALSE
          /\ app' = IF app.n = None THEN Idle ELSE [pc |-> "unhook", n |-> app.n]
  /\ UNCHANGED <<slot, rxnetif, rxcb, object, evt, rx, overtaken>>

(* disconnect_and_destroy *)
Unhook ==
  /\ app.pc = "unhook"
  /\ object' = [object EXCEPT ![app.n].io = FALSE]
  /\ app' = [app EXCEPT !.pc = "rxcb"]
  /\ UNCHANGED <<slot, handlers, set, rxnetif, rxcb, evt, rx, overtaken>>

(* esp_wifi_destroy_if_driver *)
UnregisterRxcb ==
  /\ app.pc = "rxcb"
  /\ rxcb' = rxcb \ {object[app.n].if}
  /\ app' = [app EXCEPT !.pc = "freedriver"]
  /\ UNCHANGED <<slot, handlers, set, rxnetif, object, evt, rx, overtaken>>

FreeDriver ==
  /\ app.pc = "freedriver"
  /\ rxnetif' = [rxnetif EXCEPT ![object[app.n].if] = None]
  /\ object' = [object EXCEPT ![app.n].driver = "freed"]
  /\ app' = [app EXCEPT !.pc = "destroy"]
  /\ UNCHANGED <<slot, handlers, set, rxcb, evt, rx, overtaken>>

(* esp_netif_destroy *)
Destroy ==
  /\ app.pc = "destroy"
  /\ object' = [object EXCEPT ![app.n].life = "freed"]
  /\ app' = Idle
  /\ UNCHANGED <<slot, handlers, set, rxnetif, rxcb, evt, rx, overtaken>>

App ==
  \/ Attach \/ AttachDriver \/ PostAttach \/ AlreadySet \/ RegisterNext \/ ClearNext
  \/ Unhook \/ UnregisterRxcb \/ FreeDriver \/ Destroy

-----------------------------------------------------------------------------
(* The event task calls a default handler, which looks for its interface.  *)
(* It may be one that is still being attached: the handlers of all are     *)
(* registered with the first.                                              *)
Dispatch(h) ==
  /\ Ready(evt) /\ h \in handlers
  /\ slot[h[2]] # None
  /\ evt' = [pc |-> IF h[1] = "stop" THEN "action" ELSE "io", on |-> h, n |-> slot[h[2]],
             early |-> ~object[slot[h[2]]].attached]
  /\ UNCHANGED <<slot, handlers, set, rxnetif, rxcb, object, app, rx, overtaken>>

(* The handler of a connected station reads the table again before it acts. *)
Acts(e) == [e EXCEPT !.pc = "action", !.n = IF e.on[1] = "connected" THEN slot[e.on[2]] ELSE @]

(* esp_netif_get_io_driver, and esp_wifi_is_if_ready_when_started: the     *)
(* access point is ready when started, the station when connected.         *)
FetchDriver ==
  /\ evt.pc = "io" /\ object[evt.n].io
  /\ evt' = IF (evt.on[1] = "connected") = (evt.on[2] = Sta) THEN [evt EXCEPT !.pc = "rxnetif"] ELSE Acts(evt)
  /\ UNCHANGED <<slot, handlers, set, rxnetif, rxcb, object, app, rx, overtaken>>

(* Without a driver, none yet or none any more, the handler reads what is  *)
(* at address 0: the interface that it finds there has no address, or the  *)
(* callback of another object, and it returns; or it needs no callback.    *)
FetchNoDriver ==
  /\ evt.pc = "io" /\ ~object[evt.n].io
  /\ evt' \in {Idle, Acts(evt)}
  /\ UNCHANGED <<slot, handlers, set, rxnetif, rxcb, object, app, rx, overtaken>>

(* esp_wifi_register_if_rxcb: refused for the driver of another interface, *)
(* one that is not attached yet; a freed one may look like any.            *)
SetRxNetif ==
  /\ evt.pc = "rxnetif"
  /\ \/ /\ object[evt.n].attached
        /\ rxnetif' = [rxnetif EXCEPT ![evt.on[2]] = evt.n]
        /\ evt' = [evt EXCEPT !.pc = "rxcb"]
     \/ /\ ~object[evt.n].attached \/ object[evt.n].driver = "freed"
        /\ evt' = Idle
        /\ UNCHANGED rxnetif
  /\ UNCHANGED <<slot, handlers, set, rxcb, object, app, rx, overtaken>>

SetRxcb ==
  /\ evt.pc = "rxcb"
  /\ \/ rxcb' = rxcb \cup {evt.on[2]} /\ evt' = Acts(evt)
     \/ UNCHANGED rxcb /\ evt' = Idle
  /\ UNCHANGED <<slot, handlers, set, rxnetif, object, app, rx, overtaken>>

(* esp_netif_action_start, _connected, _stop: the interface is used.       *)
Action ==
  /\ evt.pc = "action"
  /\ evt' = Idle
  /\ UNCHANGED <<slot, handlers, set, rxnetif, rxcb, object, app, rx, overtaken>>

Event == FetchDriver \/ FetchNoDriver \/ SetRxNetif \/ SetRxcb \/ Action

-----------------------------------------------------------------------------
(* The receive task: wifi_sta_receive and wifi_ap_receive read the table,  *)
(* then the frame goes to esp_netif_receive.                               *)
RxCall(i) ==
  /\ Ready(rx) /\ i \in rxcb
  /\ rx' = [pc |-> "called", if |-> i]
  /\ UNCHANGED <<slot, handlers, set, rxnetif, rxcb, object, app, evt, overtaken>>

RxRead ==
  /\ rx.pc = "called"
  /\ rx' = [pc |-> "receive", if |-> rx.if, n |-> rxnetif[rx.if]]
  /\ UNCHANGED <<slot, handlers, set, rxnetif, rxcb, object, app, evt, overtaken>>

RxReceive ==
  /\ rx.pc = "receive"
  /\ rx' = Idle
  /\ UNCHANGED <<slot, handlers, set, rxnetif, rxcb, object, app, evt, overtaken>>

-----------------------------------------------------------------------------
Next ==
  \/ \E n \in Netifs : (\E i \in Ifs : Create(n, i)) \/ ClearSlot(n)
  \/ SetHandlers \/ App
  \/ \E h \in All : Dispatch(h)
  \/ Event
  \/ \E i \in Ifs : RxCall(i)
  \/ RxRead \/ RxReceive

Spec == Init /\ [][Next]_wifiVars

-----------------------------------------------------------------------------
(* Properties *)

(* A handler that runs has a live interface until it returns, and the      *)
(* driver that it registers is live, as is that of every interface which   *)
(* was attached when the handler was called: with the last interface the   *)
(* handlers are unregistered first, which waits for the one that runs.     *)
(* Only the handler of a connected station may meet NULL meanwhile, where  *)
(* it reads the table again.  There is no such wait for the handlers of an *)
(* interface that goes while another keeps them registered.                *)
HandlerHasInterface ==
  evt # Idle /\ evt.on[2] \notin overtaken =>
    \/ /\ Live(evt.n)
       /\ object[evt.n].driver = "live" \/ (evt.early /\ evt.pc \in {"io", "action"})
    \/ evt.n = None /\ evt.pc = "action" /\ evt.on[1] = "connected" /\ app.pc = "clear"

(* While nothing is created, destroyed or handled, the tables agree:       *)
(* either all default handlers are registered or none, as the flag says;   *)
(* and a callback of the Wi-Fi driver leads to the interface that is       *)
(* attached now, which is live and whose driver is.                        *)
TablesAgree ==
  Ready(app) /\ Ready(evt) =>
    /\ handlers = IF set THEN All ELSE {}
    /\ \A i \in rxcb \ overtaken : /\ rxnetif[i] = slot[i]
                                  /\ Live(slot[i]) /\ object[slot[i]].driver = "live"
=============================================================================
