------------------------------ MODULE DhcpServer ------------------------------
(***************************************************************************)
(* The DHCP server (lwip/apps/dhcpserver/dhcpserver.c) and the stations it *)
(* serves.  Everything runs in the tcpip thread: a datagram is handled,    *)
(* and the coarse timer runs, without interruption.  What is hard is the   *)
(* order in which they come, the replies that are lost on the way, and the *)
(* agreement between the list of leases and what the stations believe.     *)
(*                                                                         *)
(* An address is its last octet.  The code compares addresses in network   *)
(* order, which on a little-endian CPU orders the addresses of one /24 by  *)
(* their last octet.  The list is sorted by address, so a set stands for   *)
(* it.  Time is counted in ticks of the coarse timer (one second), and the *)
(* stations count with it.                                                 *)
(***************************************************************************)
EXTENDS Integers, FiniteSets

CONSTANTS
  Macs,           \* hardware addresses of the stations
  MaxLease,       \* DHCPS_MAX_LEASE: number of addresses handed out by default
  Half,           \* 0x80: from here on the default range lies below the server
  MaxStations,    \* MAX_STATION_NUM: leases the timer tolerates
  LeaseTime,      \* ticks that a lease lives
  Setups,         \* server address, hosts of the mask, configured range
  None            \* no address, no configured range

ASSUME ParamAssumption ==
  /\ MaxLease \in Nat \ {0} /\ Half \in Nat /\ MaxLease < Half /\ Half <= 128
  /\ MaxStations \in Nat \ {0} /\ LeaseTime \in Nat \ {0}
  /\ None \notin Int

\* A configured range in another /24 than the server's is refused by
\* dhcps_poll_set like one that holds the server; 255 is the broadcast address.
ASSUME SetupAssumption ==
  \A s \in Setups :
    /\ s.server \in 1..254 /\ s.hosts \in Nat \ {0}
    /\ s.range = None \/ (s.range.from \in 1..254 /\ s.range.to \in 1..254)

VARIABLES
  state,       \* of the dhcps_t
  timers,      \* timeouts of dhcps_tmr that lwIP holds for the dhcps_t
  range,       \* dhcps_poll, with the server_address
  pool,        \* plist: leases [mac, ip, lease_timer]
  plus,        \* client_address_plus: where the search for an address begins
  bound,       \* per station, the address that it uses
  left,        \* per station, the ticks that it may still use it
  forgotten    \* bound stations whose lease the server has dropped (history)

server == <<state, timers, range, pool, plus>>
stations == <<bound, left, forgotten>>
vars == <<server, stations>>

-----------------------------------------------------------------------------
(* The range of addresses *)

Accepted(s) ==
  /\ s.range # None
  /\ ~(s.range.from <= s.server /\ s.server <= s.range.to)
  /\ s.range.from <= s.range.to             \* the difference is unsigned
  /\ s.range.to - s.range.from <= MaxLease

Hosts(s) == IF s.hosts > MaxLease THEN MaxLease ELSE s.hosts

PollSet(s) ==
  IF Accepted(s)
  THEN [server |-> s.server, start |-> s.range.from, end |-> s.range.to]
  ELSE IF s.server >= Half
  THEN [server |-> s.server, start |-> s.server - MaxLease,
        end |-> s.server - MaxLease + Hosts(s) - 1]
  ELSE [server |-> s.server, start |-> s.server + 1,
        end |-> s.server + Hosts(s) - 1]

-----------------------------------------------------------------------------
(* The search for an address *)

Leased(leases) == {l.ip : l \in leases}
Below(ip) == {l \in pool : l.ip < ip}

\* One pass over the sorted list moves a candidate past the leased addresses.
Skip(taken, a) ==
  CHOOSE b \in a..256 : b \notin taken /\ \A x \in a..(b - 1) : x \in taken

Candidate_NoWrap ==
  IF pool = {} THEN range.start ELSE Skip(Leased(pool), plus)

Candidate_WrapUnchecked ==
  LET next == Skip(Leased(pool), plus)
  IN  IF pool = {} \/ next > range.end THEN range.start ELSE next

\* The address for a station without a lease: from client_address_plus on, or
\* from the start of the range if there is none left up to its end.
Candidate ==
  LET next == Skip(Leased(pool), plus)
  IN  IF pool = {} THEN range.start
      ELSE IF next > range.end THEN Skip(Leased(pool), range.start)
      ELSE next

-----------------------------------------------------------------------------
(* A datagram: handle_dhcp, parse_msg and parse_options *)

ByOption(option, ip) ==
  IF option = None THEN "IDLE" ELSE IF option = ip THEN "ACK" ELSE "NAK"

ParseOptions(type, option, ip, renew) ==
  CASE type = "DISCOVER" -> "OFFER"
    [] type = "REQUEST" -> IF option # None THEN ByOption(option, ip)
                           ELSE IF renew THEN "ACK" ELSE "NAK"
    [] type = "DECLINE" -> "IDLE"
    [] type = "RELEASE" -> "RELEASE"
    [] type = "INFORM" -> ByOption(option, ip)

Fresh(mac, ip) == [mac |-> mac, ip |-> ip, lease_timer |-> LeaseTime]

\* From POOL_CHECK on; leases holds the lease [mac, ip] that was found or made.
\* In all that follows answer is what becomes of the datagram.
Conclude(mac, ip, leases, type, option, renew, answer) ==
  /\ answer = ParseOptions(type, option, ip, renew)
  /\ pool' = IF answer \in {"RELEASE", "NAK"}
             THEN {l \in leases : l.mac # mac} ELSE leases

Own(mac) == {l \in pool : l.mac = mac}

Known_KeepsTimer(mac, type, ciaddr, option, answer) ==
  \E own \in Own(mac) :
    /\ plus' = Skip(Leased(Below(own.ip)), plus)
    /\ Conclude(mac, own.ip, pool, type, option, own.ip = ciaddr, answer)

\* A known station keeps its address.  Leases before its own in the list have
\* moved client_address_plus when the search stops.
Known(mac, type, ciaddr, option, answer) ==
  \E own \in Own(mac) :
    /\ plus' = Skip(Leased(Below(own.ip)), plus)
    /\ Conclude(mac, own.ip, (pool \ {own}) \cup {Fresh(mac, own.ip)},
                type, option, own.ip = ciaddr, answer)

Allocated(mac, type, option, answer) ==
  LET ip == Candidate
  IN  /\ Own(mac) = {} /\ ip <= range.end
      /\ plus' = IF ip = range.end THEN range.start ELSE ip + 1
      /\ Conclude(mac, ip, pool \cup {Fresh(mac, ip)},
                  type, option, FALSE, answer)

Full(mac, answer) ==
  /\ Own(mac) = {} /\ Candidate > range.end
  /\ answer = "NAK" /\ plus' = range.start /\ pool' = pool

\* The callback is registered until the server is stopped.
Handle(mac, type, ciaddr, option, answer) ==
  /\ state \in {"started", "delete_pending"}
  /\ \/ Known(mac, type, ciaddr, option, answer)
     \/ Allocated(mac, type, option, answer)
     \/ Full(mac, answer)
  /\ UNCHANGED <<state, timers, range>>

-----------------------------------------------------------------------------
(* The stations (external): they request only the address they use, and stop *)
(* using it when the lease ends.                                             *)

Bind(mac, ip) ==
  /\ bound' = [bound EXCEPT ![mac] = ip]
  /\ left' = [left EXCEPT ![mac] = LeaseTime]
  /\ forgotten' = forgotten \ {mac}

Unbind(mac) ==
  /\ bound' = [bound EXCEPT ![mac] = None]
  /\ left' = [left EXCEPT ![mac] = 0]
  /\ forgotten' = forgotten \ {mac}

\* What the station makes of the answer, which may also get lost.
Outcome(mac, ip, answer) ==
  \/ answer = "ACK" /\ Bind(mac, ip)
  \/ answer = "NAK" /\ Unbind(mac)
  \/ UNCHANGED stations

Discover(mac, answer) ==
  Handle(mac, "DISCOVER", None, None, answer) /\ Unbind(mac)

\* Selecting an offer, or verifying the address after a reboot (option 50); an
\* unbound station may ask for any address, or for none.
Request(mac, ip, answer) ==
  /\ bound[mac] \in {None, ip}
  /\ Handle(mac, "REQUEST", None, ip, answer)
  /\ Outcome(mac, ip, answer)

\* Renewing and rebinding name the address in ciaddr.
Renew(mac, answer) ==
  /\ bound[mac] # None
  /\ Handle(mac, "REQUEST", bound[mac], None, answer)
  /\ Outcome(mac, bound[mac], answer)

Release(mac, answer) ==
  /\ bound[mac] # None
  /\ Handle(mac, "RELEASE", bound[mac], None, answer)
  /\ Unbind(mac)

Decline(mac, answer) ==
  Handle(mac, "DECLINE", None, None, answer) /\ Unbind(mac)

Inform(mac, answer) ==
  Handle(mac, "INFORM", None, None, answer) /\ UNCHANGED stations

\* A station goes away silently, or its datagram is lost.
Leave(mac) == bound[mac] # None /\ Unbind(mac) /\ UNCHANGED server

-----------------------------------------------------------------------------
(* The coarse timer *)

\* Another tick for the stations; dropped are those without a lease from now on.
Age(dropped) ==
  LET alive(m) == left[m] > 1
  IN  /\ bound' = [m \in Macs |-> IF alive(m) THEN bound[m] ELSE None]
      /\ left' = [m \in Macs |-> IF alive(m) THEN left[m] - 1 ELSE 0]
      /\ forgotten' = {m \in Macs : m \in forgotten \cup dropped /\ alive(m)}

Older(l) == [mac |-> l.mac, ip |-> l.ip, lease_timer |-> l.lease_timer - 1]

Remaining == {Older(l) : l \in {l \in pool : l.lease_timer > 1}}

\* kill_oldest_dhcps_pool: the search begins at the second node of the list.
AllButFirst(leases) == {l \in leases : \E first \in leases : first.ip < l.ip}

Oldest(leases) ==
  CHOOSE l \in AllButFirst(leases) : \A m \in AllButFirst(leases) :
    \/ l.lease_timer < m.lease_timer
    \/ l.lease_timer = m.lease_timer /\ l.ip <= m.ip

Tick ==
  /\ state = "started" /\ timers > 0
  /\ IF Cardinality(Remaining) > MaxStations
     THEN /\ pool' = Remaining \ {Oldest(Remaining)}
          /\ Age({Oldest(Remaining).mac})
     ELSE pool' = Remaining /\ Age({})
  /\ UNCHANGED <<state, timers, range, plus>>    \* re-armed

\* A timer that finds any other state would return; OneTimer: there is none.
TickFrees ==
  /\ state = "delete_pending" /\ timers > 0
  /\ state' = "freed" /\ timers' = timers - 1
  /\ pool' = {} /\ Age(Macs)
  /\ UNCHANGED <<range, plus>>

\* Time also passes without a server.
TimePasses == timers = 0 /\ Age({}) /\ UNCHANGED server

-----------------------------------------------------------------------------
(* Start, stop and deletion, as esp_netif calls them: it starts a server only *)
(* if it is not started.                                                      *)

Start(s) ==
  /\ state \in {"created", "stopped"}
  /\ range' = PollSet(s) /\ plus' = PollSet(s).start
  /\ state' = "started" /\ timers' = timers + 1
  /\ UNCHANGED <<pool, stations>>

Stop_KeepsTimer ==
  /\ state \in {"created", "started", "stopped"}
  /\ state' = "stopped" /\ pool' = {}
  /\ forgotten' = {m \in Macs : bound[m] # None}
  /\ UNCHANGED <<timers, range, plus, bound, left>>

\* dhcps_stop may also meet a server whose only start failed for want of a pcb;
\* a start that fails, and a stop before any start, change nothing here.
Stop ==
  /\ state \in {"created", "started", "stopped"}
  /\ state' = "stopped" /\ pool' = {}
  /\ timers' = IF timers > 0 THEN timers - 1 ELSE 0      \* sys_untimeout
  /\ forgotten' = {m \in Macs : bound[m] # None}
  /\ UNCHANGED <<range, plus, bound, left>>

Delete ==
  /\ state \in {"created", "started", "stopped"}
  /\ state' = IF state = "started" THEN "delete_pending" ELSE "freed"
  /\ UNCHANGED <<timers, range, pool, plus, stations>>

-----------------------------------------------------------------------------
Init ==
  /\ state = "created" /\ timers = 0 /\ pool = {}
  /\ range = [server |-> 0, start |-> 0, end |-> 0] /\ plus = 0
  /\ bound = [m \in Macs |-> None] /\ left = [m \in Macs |-> 0]
  /\ forgotten = {}

Addresses == range.start..range.end
Answers == {"OFFER", "ACK", "NAK", "RELEASE", "IDLE"}

Next ==
  \/ \E m \in Macs, answer \in Answers :
       \/ Discover(m, answer) \/ Renew(m, answer) \/ Release(m, answer)
       \/ Decline(m, answer) \/ Inform(m, answer)
       \/ \E ip \in Addresses \cup {None} : Request(m, ip, answer)
  \/ \E m \in Macs : Leave(m)
  \/ Tick \/ TickFrees \/ TimePasses
  \/ \E s \in Setups : Start(s)
  \/ Stop \/ Delete

Spec == Init /\ [][Next]_vars

-----------------------------------------------------------------------------
(* Properties *)

Lease == [mac : Macs, ip : 1..254, lease_timer : 1..LeaseTime]

\* The types of the variables: an address is an octet, a lease in the list has
\* time left, and a station is bound exactly while its own clock runs.
TypeOK ==
  /\ state \in {"created", "started", "stopped", "delete_pending", "freed"}
  /\ timers \in Nat
  /\ range \in [server : 0..254, start : 0..255, end : 0..254]
  /\ pool \in SUBSET Lease
  /\ plus \in 0..255
  /\ bound \in [Macs -> (1..254) \cup {None}]
  /\ left \in [Macs -> 0..LeaseTime]
  /\ forgotten \in SUBSET Macs
  /\ \A m \in Macs : bound[m] # None <=> left[m] > 0
  /\ \A m \in forgotten : bound[m] # None

\* The list never holds two leases of one address or of one station, and all its
\* addresses lie in the range, which never holds the server's own.
LeaseTable ==
  /\ \A k, l \in pool : k.ip = l.ip \/ k.mac = l.mac => k = l
  /\ Leased(pool) \subseteq Addresses
  /\ state \in {"started", "delete_pending"} => range.server \notin Addresses

\* While a station uses an address the server holds its lease, for as many ticks
\* at least, whatever answers got lost; unless the server was stopped, or the
\* timer killed the lease because there were too many.
Promise ==
  \A m \in Macs : bound[m] # None /\ m \notin forgotten =>
    \E l \in pool : /\ l.mac = m /\ l.ip = bound[m]
                    /\ l.lease_timer >= left[m]

\* Two stations use the same address only if the lease of one was dropped.
NoSharedAddress ==
  \A m, n \in Macs : m # n /\ bound[m] # None /\ bound[m] = bound[n] =>
    m \in forgotten \/ n \in forgotten

\* The one timeout of a server runs while it is started and is gone when it is
\* freed: stopping and starting again does not make leases age twice as fast,
\* and dhcps_tmr never sees a freed object.
OneTimer ==
  timers = (IF state \in {"started", "delete_pending"} THEN 1 ELSE 0)

\* A station that discovers is refused only when every address of the range is
\* leased, wherever client_address_plus stood.
RefusedOnlyWhenFull ==
  [][\A m \in Macs : Discover(m, "NAK")
       => Addresses \subseteq Leased(pool)]_vars

\* A station whose lease the server has not dropped is acknowledged when it renews
\* or verifies its address.
RenewalIsAcknowledged ==
  [][\A m \in Macs \ forgotten, answer \in Answers :
       bound[m] # None /\ (Renew(m, answer) \/ Request(m, bound[m], answer))
         => answer = "ACK"]_vars

===============================================================================
