-------------------------------- MODULE Netif ---------------------------------
(***************************************************************************)
(* The network interfaces of esp_netif over lwIP                           *)
(* (esp_netif/lwip/esp_netif_lwip.c, esp_netif_handlers.c): their life,    *)
(* the choice of the default interface, the state of their DHCP client or  *)
(* server, and the timer that reports a lost address.                      *)
(*                                                                         *)
(* Every esp_netif_*_api function runs in lwIP's thread without            *)
(* interruption and is one step.  What other tasks do around these calls   *)
(* is in steps of its own: esp_netif_destroy, which makes two of them, and *)
(* esp_netif_action_connected, which reads the DHCP status and the address *)
(* between two of them.                                                    *)
(*                                                                         *)
(* An address stands for an address with its mask and gateway.             *)
(***************************************************************************)
EXTENDS Naturals

CONSTANTS
  Netifs,      \* handles; a handle may be used again after its destruction
  Client,      \* those with the flag ESP_NETIF_DHCP_CLIENT
  Server,      \* those with the flag ESP_NETIF_DHCP_SERVER
  AutoUp,      \* those with the flag ESP_NETIF_FLAG_AUTOUP
  Prio,        \* route_prio
  Addresses,
  Static,      \* those the application gives an address with esp_netif_set_ip_info
  MaxStale,    \* bound: timeouts left of an interface when its handle is used again
  None         \* no interface, the address zero

ASSUME NetifAssumption ==
  /\ Client \subseteq Netifs /\ Server \subseteq Netifs /\ Client \cap Server = {}
  /\ Static \subseteq Netifs /\ AutoUp \subseteq Netifs \ Client
  /\ Prio \in [Netifs -> Nat]
  /\ None \notin Netifs /\ None \notin Addresses
  /\ MaxStale \in [Netifs -> Nat]

VARIABLES
  life,         \* of the object: listed, then destroyed in two steps
  added,        \* lwIP has the interface in its list
  up,           \* NETIF_FLAG_UP
  last,         \* s_last_default_esp_netif
  overridden,   \* s_is_last_default_esp_netif_overridden
  route,        \* lwIP's netif_default
  status,       \* dhcpc_status of a client, dhcps_status of a server
  engine,       \* what the DHCP client or server does in lwIP
  ip,           \* addresses and timer of each interface, see Fresh
  handler       \* esp_netif_action_connected, run by the event loop's task

choice == <<last, overridden, route>>
vars == <<life, added, up, choice, status, engine, ip, handler>>

Handling(pc, i, a) == [pc |-> pc, netif |-> i, ip |-> a]
Idle == Handling("idle", None, None)
Listed == {i \in Netifs : life[i] = "listed"}

\* No esp_netif_destroy is under way.
Settled == \A i \in Netifs : life[i] \in {"absent", "listed"}

-----------------------------------------------------------------------------
(* The choice of the default interface, from the values that life and up   *)
(* have after the rest of the call.  r is lwIP's default before the choice.*)

\* A manual choice stands while its interface is listed.
Stands == overridden /\ last \in Listed'

Ups == {i \in Listed' : up'[i]}

\* Mutant: the priorities are not compared.
UpdateStarted_LastWins(i, r) ==
  IF Stands
  THEN UNCHANGED <<last, overridden>> /\ route' = r
  ELSE /\ overridden' = FALSE
       /\ last' = IF i \in Ups THEN i ELSE IF last \in Listed' THEN last ELSE None
       /\ route' = IF i \in Ups THEN i ELSE r

UpdateStarted(i, r) ==
  LET prev == IF last \in Listed' THEN last ELSE None
      next == IF prev \in Ups /\ Prio[prev] > Prio[i] THEN prev
              ELSE IF i \in Ups THEN i ELSE None
  IN  IF Stands
      THEN UNCHANGED <<last, overridden>> /\ route' = r
      ELSE /\ overridden' = FALSE
           /\ last' = IF next = None THEN prev ELSE next
           /\ route' = IF next = None THEN r ELSE next

\* Mutant: the manual choice is not looked at.
UpdateStopped_Recomputes(r) ==
  /\ overridden' = FALSE
  /\ IF Ups = {}
     THEN last' = None /\ route' = r
     ELSE \E best \in {i \in Ups : \A j \in Ups : Prio[j] <= Prio[i]} :
            last' = best /\ route' = best

\* The first interface of highest priority in the list; the order of the list
\* is left open.
UpdateStopped(r) ==
  IF Stands
  THEN UNCHANGED <<last, overridden>> /\ route' = r
  ELSE /\ overridden' = FALSE
       /\ IF Ups = {}
          THEN last' = None /\ route' = r
          ELSE \E best \in {i \in Ups : \A j \in Ups : Prio[j] <= Prio[i]} :
                 last' = best /\ route' = best

\* netif_remove: an interface that lwIP drops is not its default any more;
\* dhcp_cleanup: nor has it a DHCP client.
Unrouted(i) == IF route = i THEN None ELSE route
Cleaned(i) == IF i \in Client THEN "off" ELSE engine[i]

SetDefault(i) ==
  /\ i \in Listed
  /\ last' = i /\ overridden' = TRUE /\ route' = i
  /\ UNCHANGED <<life, added, up, status, engine, ip, handler>>

-----------------------------------------------------------------------------
(* Addresses and the timer of lost addresses; ip_info_old, which only tells *)
(* whether an event reports a change, is left out                           *)

Record(addr, info, held, timer, pending) ==
  [addr    |-> addr,      \* address of lwIP's netif
   info    |-> info,      \* ip_info
   held    |-> held,      \* how the address came whose loss is not reported (history)
   timer   |-> timer,     \* timer_running
   pending |-> pending]   \* timeouts that lwIP holds for the handle

Fresh(info, stale) == Record(None, info, "nothing", FALSE, stale)

StartTimer(r) ==
  IF r.timer \/ r.info = None THEN r
  ELSE Record(r.addr, r.info, r.held, TRUE, r.pending + 1)

DhcpcCb(r) ==
  IF r.addr = None THEN StartTimer(r)
  ELSE IF r.addr # r.info 
       THEN Record(r.addr, r.addr, r.held, r.timer, r.pending)
  ELSE r

\* netif_set_addr: lwIP calls back when the address changes.
SetAddr(r, a, how) ==
  IF a = r.addr THEN r
  ELSE DhcpcCb(Record(a, r.info, IF a = None THEN r.held ELSE how,
                      r.timer, r.pending))

SetInfo(r, a) == Record(r.addr, a, r.held, r.timer, r.pending)
ResetInfo(r) == SetInfo(r, None)

\* dhcp_stop gives up a leased address, and only that.
DhcpStop(i, r) == IF engine[i] = "bound" THEN SetAddr(r, None, "nothing") ELSE r

\* esp_netif_ip_lost_timer, on an interface that is listed.
LostTimer(r) ==
  IF r.addr = None
  THEN Record(None, r.info, "nothing", FALSE, r.pending - 1)
  ELSE Record(r.addr, r.info, r.held, FALSE, r.pending - 1)

Expire(i) ==
  /\ ip[i].pending > 0
  /\ ip' = [ip EXCEPT ![i] =
       IF i \in Listed THEN LostTimer(@)
       ELSE Record(@.addr, @.info, @.held, @.timer, @.pending - 1)]
  /\ UNCHANGED <<life, added, up, choice, status, engine, handler>>

\* lwIP's DHCP client gets a lease, or loses it.
Lease(i, a) ==
  /\ i \in Listed /\ engine[i] = "asking"
  /\ engine' = [engine EXCEPT ![i] = "bound"]
  /\ ip' = [ip EXCEPT ![i] = SetAddr(@, a, "lease")]
  /\ UNCHANGED <<life, added, up, choice, status, handler>>

LoseLease(i) ==
  /\ i \in Listed /\ engine[i] = "bound"
  /\ engine' = [engine EXCEPT ![i] = "asking"]
  /\ ip' = [ip EXCEPT ![i] = SetAddr(@, None, "nothing")]
  /\ UNCHANGED <<life, added, up, choice, status, handler>>

SetIpInfo(i, a) ==
  /\ i \in Listed \cap Static
  /\ i \in Client \cup Server => status[i] = "stopped"
  /\ ip' = [ip EXCEPT ![i] =
       LET r == SetInfo(@, a) IN IF up[i] THEN SetAddr(r, a, "static") ELSE r]
  /\ UNCHANGED <<life, added, up, choice, status, engine, handler>>

-----------------------------------------------------------------------------
(* The DHCP client and the DHCP server of an interface *)

\* Mutant: the address information is reset before lwIP's client is stopped.
DhcpcStop_ResetsFirst(i) ==
  /\ i \in Listed \cap Client /\ status[i] # "stopped"
  /\ status' = [status EXCEPT ![i] = "stopped"]
  /\ IF status[i] = "started"
     THEN /\ engine' = [engine EXCEPT ![i] = "off"]
          /\ ip' = [ip EXCEPT ![i] = StartTimer(DhcpStop(i, ResetInfo(@)))]
     ELSE UNCHANGED <<engine, ip>>
  /\ UNCHANGED <<life, added, up, choice, handler>>

DhcpcStop(i) ==
  /\ i \in Listed \cap Client /\ status[i] # "stopped"
  /\ status' = [status EXCEPT ![i] = "stopped"]
  /\ IF status[i] = "started"
     THEN /\ engine' = [engine EXCEPT ![i] = "off"]
          /\ ip' = [ip EXCEPT ![i] = StartTimer(ResetInfo(DhcpStop(i, @)))]
     ELSE UNCHANGED <<engine, ip>>
  /\ UNCHANGED <<life, added, up, choice, handler>>

\* The addresses of lwIP's netif are zeroed without a call back.
Zeroed(r) == Record(None, None, r.held, r.timer, r.pending)

\* dhcp_start may fail.
StartClient(i) ==
  /\ status[i] # "started"
  /\ IF up[i]
     THEN /\ ip' = [ip EXCEPT ![i] = StartTimer(Zeroed(@))]
          /\ \/ /\ status' = [status EXCEPT ![i] = "started"]
                /\ engine' = [engine EXCEPT ![i] = "asking"]
             \/ UNCHANGED <<status, engine>>
     ELSE /\ ip' = [ip EXCEPT ![i] = ResetInfo(@)]
          /\ status' = [status EXCEPT ![i] = "init"]
          /\ UNCHANGED engine

DhcpcStart(i) ==
  /\ i \in Listed \cap Client
  /\ StartClient(i)
  /\ UNCHANGED <<life, added, up, choice, handler>>

\* dhcps_start may fail, without an address it does; either way it notes the
\* interface, which dhcps_stop asks for.
StartServer(i) ==
  \/ /\ ip[i].info # None
     /\ status' = [status EXCEPT ![i] = "started"]
     /\ engine' = [engine EXCEPT ![i] = "serving"]
  \/ /\ status' = [status EXCEPT ![i] = "init"]
     /\ engine' = [engine EXCEPT ![i] = "quiet"]

DhcpsStart(i) ==
  /\ i \in Listed \cap Server /\ status[i] # "started"
  /\ IF up[i] THEN StartServer(i)
     ELSE status' = [status EXCEPT ![i] = "init"] /\ UNCHANGED engine
  /\ UNCHANGED <<life, added, up, choice, ip, handler>>

DhcpsStop(i) ==
  /\ i \in Listed \cap Server /\ status[i] # "stopped"
  /\ status' = [status EXCEPT ![i] = "stopped"]
  /\ engine' = [engine EXCEPT ![i] = IF status[i] = "started" THEN "quiet" ELSE @]
  /\ UNCHANGED <<life, added, up, choice, ip, handler>>

-----------------------------------------------------------------------------
(* Creation and destruction *)

\* A server is given its address when it is created.  Interfaces are created
\* and destroyed by one task.
New(i, info) ==
  /\ Settled /\ life[i] = "absent"
  /\ (info = None) <=> (i \notin Server)
  /\ ip[i].pending <= MaxStale[i]
  /\ life' = [life EXCEPT ![i] = "listed"]
  /\ status' = [status EXCEPT ![i] = "init"]
  /\ engine' = [engine EXCEPT ![i] = "off"]
  /\ ip' = [ip EXCEPT ![i] = Fresh(info, @.pending)]
  /\ UNCHANGED <<added, up, choice, handler>>

\* The DHCP client is stopped and the handlers are unregistered, which waits
\* for the one that runs, before an interface is destroyed.
DestroyBegin(i) ==
  /\ Settled /\ i \in Listed
  /\ i \in Client => engine[i] = "off"
  /\ handler.netif # i
  /\ life' = [life EXCEPT ![i] = "unlisted"]
  /\ UNCHANGED <<added, up, choice, status, engine, ip, handler>>

DestroyRemove(i) ==
  /\ life[i] = "unlisted"
  /\ life' = [life EXCEPT ![i] = "removed"]
  /\ added' = [added EXCEPT ![i] = FALSE]
  /\ up' = [up EXCEPT ![i] = FALSE]
  /\ route' = Unrouted(i)
  /\ engine' = [engine EXCEPT ![i] = Cleaned(i)]
  /\ UNCHANGED <<last, overridden, status, ip, handler>>

DestroyEnd(i) ==
  /\ life[i] = "removed"
  /\ life' = [life EXCEPT ![i] = "absent"]
  /\ UNCHANGED up
  /\ UpdateStopped(route)
  /\ status' = [status EXCEPT ![i] = "init"]
  /\ engine' = [engine EXCEPT ![i] = "off"]
  /\ ip' = [ip EXCEPT ![i] = Fresh(None, @.pending)]
  /\ UNCHANGED <<added, handler>>

-----------------------------------------------------------------------------
(* What drivers' events do; the event loop runs one handler at a time *)

Driver(i) == i \in Listed /\ handler = Idle

Start(i) ==
  /\ Driver(i) /\ ~added[i]
  /\ UNCHANGED <<life, handler>>
  /\ added' = [added EXCEPT ![i] = TRUE]
  /\ up' = [up EXCEPT ![i] = i \in AutoUp]
  /\ ip' = [ip EXCEPT ![i] =
       Record(@.info, @.info, IF @.info = None THEN @.held ELSE "static",
              @.timer, @.pending)]
  /\ IF i \in Server
     THEN IF status[i] = "init" /\ i \in AutoUp
          THEN /\ StartServer(i)
               /\ IF status'[i] = "started" THEN UpdateStarted(i, route)
                  ELSE UNCHANGED choice
          ELSE UNCHANGED <<status, engine, choice>>
     ELSE UpdateStarted(i, route) /\ UNCHANGED <<status, engine>>

\* esp_netif_lwip_remove, and nothing else, for an interface that is down.
StopDown(i) ==
  /\ Driver(i) /\ ~up[i]
  /\ added' = [added EXCEPT ![i] = FALSE]
  /\ route' = Unrouted(i)
  /\ engine' = [engine EXCEPT ![i] = Cleaned(i)]
  /\ UNCHANGED <<life, up, last, overridden, status, ip, handler>>

\* A server stays stopped by hand only if dhcps_stop knows the interface.
Stop(i) ==
  /\ Driver(i) /\ up[i]
  /\ added' = [added EXCEPT ![i] = FALSE]
  /\ up' = [up EXCEPT ![i] = FALSE]
  /\ status' = [status EXCEPT ![i] =
       IF i \in Server /\ @ = "stopped" /\ engine[i] # "off" THEN @ ELSE "init"]
  /\ engine' = [engine EXCEPT ![i] =
       IF i \in Server /\ @ # "off" THEN "quiet" ELSE "off"]
  /\ ip' = [ip EXCEPT ![i] = IF i \in Client THEN ResetInfo(DhcpStop(i, @)) ELSE @]
  /\ UNCHANGED <<life, handler>>
  /\ UpdateStopped(Unrouted(i))

\* Mutant: the status of the client is left as it is.
Disconnected_KeepsStatus(i) ==
  /\ Driver(i)
  /\ up' = [up EXCEPT ![i] = FALSE]
  /\ LET r == IF i \in Client /\ status[i] = "started"
              THEN ResetInfo(DhcpStop(i, ip[i])) ELSE ip[i]
         s == SetAddr(r, None, "nothing")
     IN  ip' = [ip EXCEPT ![i] = IF i \in Client THEN StartTimer(s) ELSE s]
  /\ engine' = [engine EXCEPT ![i] = IF i \in Client THEN "off" ELSE @]
  /\ UNCHANGED <<life, added, status, handler>>
  /\ UpdateStopped(route)

Disconnected(i) ==
  /\ Driver(i)
  /\ up' = [up EXCEPT ![i] = FALSE]
  /\ LET r == IF i \in Client /\ status[i] = "started"
              THEN ResetInfo(DhcpStop(i, ip[i])) ELSE ip[i]
         s == SetAddr(r, None, "nothing")
     IN  ip' = [ip EXCEPT ![i] = IF i \in Client THEN StartTimer(s) ELSE s]
  /\ IF i \in Client /\ status[i] = "started"
     THEN /\ status' = [status EXCEPT ![i] = "init"]
          /\ engine' = [engine EXCEPT ![i] = "off"]
     ELSE UNCHANGED <<status, engine>>
  /\ UNCHANGED <<life, added, handler>>
  /\ UpdateStopped(route)

\* A driver reports a link that was not up.
Connected(i) ==
  /\ Driver(i) /\ added[i] /\ ~up[i]
  /\ up' = [up EXCEPT ![i] = TRUE]
  /\ ip' = [ip EXCEPT ![i] = SetAddr(@, @.info, "static")]
  /\ handler' = IF i \in Client THEN Handling("status", i, None) ELSE Idle
  /\ UNCHANGED <<life, added, status, engine>>
  /\ UpdateStarted(i, route)

ReadStatus ==
  /\ handler.pc = "status"
  /\ LET i == handler.netif
     IN  handler' = CASE status[i] = "init"    -> Handling("start", i, None)
                      [] status[i] = "stopped" -> Handling("read", i, None)
                      [] status[i] = "started" -> Idle
  /\ UNCHANGED <<life, added, up, choice, status, engine, ip>>

\* The client may have been stopped or started since its status was read.
HandlerStart ==
  /\ handler.pc = "start"
  /\ \/ StartClient(handler.netif)
     \/ status[handler.netif] = "started" /\ UNCHANGED <<status, engine, ip>>
  /\ handler' = Idle
  /\ UNCHANGED <<life, added, up, choice>>

\* esp_netif_get_ip_info
ReadIp ==
  /\ handler.pc = "read"
  /\ LET i == handler.netif
         a == IF up[i] THEN ip[i].addr ELSE ip[i].info
     IN  handler' = IF a = None THEN Idle ELSE Handling("post", i, a)
  /\ UNCHANGED <<life, added, up, choice, status, engine, ip>>

PostStatic ==
  /\ handler.pc = "post"
  /\ handler' = Idle
  /\ UNCHANGED <<life, added, up, choice, status, engine, ip>>

-----------------------------------------------------------------------------

Init ==
  /\ life = [i \in Netifs |-> "absent"]
  /\ added = [i \in Netifs |-> FALSE]
  /\ up = [i \in Netifs |-> FALSE]
  /\ last = None /\ overridden = FALSE /\ route = None
  /\ status = [i \in Netifs |-> "init"]
  /\ engine = [i \in Netifs |-> "off"]
  /\ ip = [i \in Netifs |-> Fresh(None, 0)]
  /\ handler = Idle

Next ==
  \/ \E i \in Netifs :
       \/ SetDefault(i) \/ Expire(i) \/ LoseLease(i)
       \/ DhcpcStop(i) \/ DhcpcStart(i) \/ DhcpsStart(i) \/ DhcpsStop(i)
       \/ DestroyBegin(i) \/ DestroyRemove(i) \/ DestroyEnd(i)
       \/ Start(i) \/ StopDown(i) \/ Stop(i) \/ Disconnected(i) \/ Connected(i)
       \/ \E a \in Addresses : Lease(i, a)
       \/ \E a \in Addresses \cup {None} : SetIpInfo(i, a) \/ New(i, a)
  \/ ReadStatus \/ HandlerStart \/ ReadIp \/ PostStatic

Spec == Init /\ [][Next]_vars

-----------------------------------------------------------------------------
(* Properties *)

Status == {"init", "started", "stopped"}
Engine == {"off", "asking", "bound", "serving", "quiet"}

\* The values of the variables; and the handler works on a listed client, and has
\* an address to report when it comes to that.
TypeOK ==
  /\ life \in [Netifs -> {"absent", "listed", "unlisted", "removed"}]
  /\ added \in [Netifs -> BOOLEAN] /\ up \in [Netifs -> BOOLEAN]
  /\ last \in Netifs \cup {None} /\ overridden \in BOOLEAN
  /\ route \in Netifs \cup {None}
  /\ status \in [Netifs -> Status] /\ engine \in [Netifs -> Engine]
  /\ ip \in [Netifs -> [addr : Addresses \cup {None}, info : Addresses \cup {None},
                        held : {"nothing", "lease", "static"},
                        timer : BOOLEAN, pending : Nat]]
  /\ handler \in [pc : {"idle", "status", "start", "read", "post"},
                  netif : Netifs \cup {None}, ip : Addresses \cup {None}]
  /\ handler.pc = "idle" \/ handler.netif \in Listed \cap Client
  /\ handler.pc = "post" => handler.ip # None

\* Neither esp_netif's default nor lwIP's outlives its interface, and, once no
\* destruction is under way, the default that was not chosen by hand is up, is
\* lwIP's too, and no interface that is up has a higher priority.  An interface
\* with a DHCP server may go unseen: esp_netif_start returns before the update
\* when its server was stopped by hand or does not start.
DefaultIsBest ==
  /\ last # None => life[last] # "absent"
  /\ route # None => life[route] \in {"listed", "unlisted"}
  /\ Settled /\ ~overridden =>
       /\ last # None => last \in Listed /\ up[last] /\ route = last
       /\ \A i \in Listed \ Server :
            up[i] => last # None /\ Prio[i] <= Prio[last]

\* A default that was chosen by hand stays until another is chosen or its
\* interface is being destroyed, whatever starts, stops or is destroyed else.
ManualDefaultHolds ==
  [][overridden /\ last \in Listed /\ ~(\E i \in Netifs : SetDefault(i))
     => overridden' /\ last' = last]_vars

\* dhcpc_status and dhcps_status say what lwIP's client and the server do, in
\* spite of interfaces that go down under them: a client runs only on an
\* interface that is up, and a server that runs is never started again.
StatusAgrees ==
  \A i \in Listed :
    /\ up[i] => added[i]
    /\ i \in Client => /\ status[i] = "started" <=> engine[i] \in {"asking", "bound"}
                       /\ status[i] = "started" => up[i]
    /\ i \in Server => (status[i] = "started" <=> engine[i] = "serving")

\* The loss of a leased address is always going to be reported: as long as the
\* interface is without it, the timer runs; and timer_running never stays set
\* without a timeout, which would keep every later loss from being reported.
LossIsCovered ==
  \A i \in Listed :
    /\ ip[i].held = "lease" /\ ip[i].addr = None => ip[i].timer
    /\ ip[i].timer => ip[i].pending > 0

===============================================================================
