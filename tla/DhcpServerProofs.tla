--------------------------- MODULE DhcpServerProofs ---------------------------
(***************************************************************************)
(* DhcpServer keeps its lease table and its promise to the stations, for   *)
(* any stations, lease time, limit and setups.  Inv joins what the runs    *)
(* check; Cursor is what makes it inductive: there are leases only while   *)
(* the server is started, and the search begins within the range.          *)
(***************************************************************************)
EXTENDS DhcpServer, TLAPS, WellFoundedInduction

USE ParamAssumption

Up == state \in {"started", "delete_pending"}

Cursor ==
  /\ Up => 1 <= range.start /\ range.start <= plus
  /\ ~Up => pool = {}

Inv == TypeOK /\ LeaseTable /\ Promise /\ OneTimer /\ Cursor

-----------------------------------------------------------------------------
(* The operators *)

\* A set of numbers that is not empty has a least element.
LEMMA LeastElement ==
  ASSUME NEW S \in SUBSET Nat, S # {}
  PROVE  \E x \in S : \A y \in S : x <= y
<1>1. PICK x \in S : \A y \in S : ~(<<y, x>> \in OpToRel(<, Nat))
  BY NatLessThanWellFounded, WFMin, Zenon
<1>2. \A y \in S : ~(y < x)
  BY <1>1 DEF OpToRel
<1> QED  BY <1>2

\* Skip returns the least address from a on that is not taken.
LEMMA SkipIsLeast ==
  ASSUME NEW taken \in SUBSET (1..254), NEW a \in 0..255
  PROVE  /\ Skip(taken, a) \in a..255
         /\ Skip(taken, a) \notin taken
         /\ \A x \in a..(Skip(taken, a) - 1) : x \in taken
<1> DEFINE free == {b \in a..255 : b \notin taken}
<1>1. free \in SUBSET Nat /\ 255 \in free
  OBVIOUS
<1>2. \E b \in free : \A y \in free : b <= y
  <2> HIDE DEF free
  <2> QED  BY <1>1, LeastElement
<1>3. PICK b \in a..255 :
        b \notin taken /\ \A y \in a..255 : y \notin taken => b <= y
  BY <1>2
<1>5. b \in a..256 /\ b \notin taken /\ \A x \in a..(b - 1) : x \in taken
  BY <1>3
<1>4. /\ Skip(taken, a) \in a..256 /\ Skip(taken, a) \notin taken
      /\ \A x \in a..(Skip(taken, a) - 1) : x \in taken
  BY <1>5 DEF Skip
<1>6. Skip(taken, a) # 256
  BY <1>4
<1> QED  BY <1>4, <1>6

\* Skip is well defined for the leases of the list: they are octets below 255.
LEMMA SkipLeases ==
  ASSUME NEW leases \in SUBSET Lease, NEW a \in 0..255
  PROVE  /\ Skip(Leased(leases), a) \in a..255
         /\ Skip(Leased(leases), a) \notin Leased(leases)
         /\ \A x \in a..(Skip(Leased(leases), a) - 1) : x \in Leased(leases)
<1>1. Leased(leases) \in SUBSET (1..254)
  BY DEF Leased, Lease
<1> QED  BY ONLY <1>1, a \in 0..255, SkipIsLeast

\* The default range and an accepted one leave out the server's address and stay
\* within the octets a host may have.
LEMMA RangeExcludesServer ==
  ASSUME NEW s \in Setups
  PROVE  /\ PollSet(s) \in [server : 0..254, start : 1..255, end : 0..254]
         /\ PollSet(s).server \notin PollSet(s).start..PollSet(s).end
<1>1. /\ s.server \in 1..254 /\ s.hosts \in Nat \ {0}
      /\ s.range = None \/ (s.range.from \in 1..254 /\ s.range.to \in 1..254)
  BY SetupAssumption
<1>2. Hosts(s) \in 1..MaxLease
  BY <1>1 DEF Hosts
<1> DEFINE v == s.server  h == Hosts(s)
<1>3. /\ PollSet(s).server = s.server
      /\ PollSet(s).start \in 1..255 /\ PollSet(s).end \in 0..254
      /\ ~(PollSet(s).start <= s.server /\ s.server <= PollSet(s).end)
  <2>1. CASE Accepted(s)
    BY <1>1, <2>1 DEF Accepted, PollSet
  <2>2. CASE ~Accepted(s) /\ s.server >= Half
    <3>1. PollSet(s) = [server |-> s.server, start |-> s.server - MaxLease,
                        end |-> s.server - MaxLease + Hosts(s) - 1]
      BY <2>2 DEF PollSet
    <3>2. /\ v - MaxLease \in 1..255 /\ v - MaxLease + h - 1 \in 0..254
          /\ v - MaxLease + h - 1 < v
      <4>1. v \in 1..254 /\ v >= Half /\ h \in 1..MaxLease
        BY <1>1, <1>2, <2>2
      <4> HIDE DEF v, h
      <4> QED  BY <4>1
    <3>3. /\ PollSet(s).server = v /\ PollSet(s).start = v - MaxLease
          /\ PollSet(s).end = v - MaxLease + h - 1
      BY <3>1
    <3> QED  BY <1>1, <1>2, <3>2, <3>3
  <2>3. CASE ~Accepted(s) /\ ~(s.server >= Half)
    <3>1. PollSet(s) = [server |-> s.server, start |-> s.server + 1,
                        end |-> s.server + Hosts(s) - 1]
      BY <2>3 DEF PollSet
    <3>2. v + 1 \in 1..255 /\ v + h - 1 \in 0..254
      <4>1. v \in 1..254 /\ ~(v >= Half) /\ h \in 1..MaxLease
        BY <1>1, <1>2, <2>3
      <4> HIDE DEF v, h
      <4> QED  BY <4>1
    <3> QED  BY <1>1, <3>1, <3>2
  <2> QED  BY <2>1, <2>2, <2>3
<1>4. PollSet(s) = [server |-> PollSet(s).server, start |-> PollSet(s).start,
                    end |-> PollSet(s).end]
  BY DEF PollSet
<1> QED  BY <1>1, <1>3, <1>4

\* What a datagram does to the server: the leases of other stations stay, and the
\* station has a fresh lease of an address that nobody else holds, its own if it
\* had one, or none if it was refused, nacked or released.
Others(mac) == {l \in pool : l.mac # mac}

(* dhcps_recv and what it calls, for one datagram *)
LEMMA HandleServes ==
  ASSUME TypeOK, LeaseTable, Cursor, NEW mac \in Macs, NEW type, NEW ciaddr,
         NEW option, NEW answer, Handle(mac, type, ciaddr, option, answer)
  PROVE  /\ Up /\ plus' \in range.start..255
         /\ \/ /\ Own(mac) = {} /\ answer = "NAK" /\ pool' = Others(mac)
               /\ Addresses \subseteq Leased(pool)
            \/ \E ip \in Addresses \cap (1..254), renew \in BOOLEAN :
                 /\ \A l \in Others(mac) : l.ip # ip
                 /\ \A own \in Own(mac) : own.ip = ip /\ renew = (ip = ciaddr)
                 /\ renew => ip = ciaddr
                 /\ answer = ParseOptions(type, option, ip, renew)
                 /\ pool' = IF answer \in {"RELEASE", "NAK"} THEN Others(mac)
                            ELSE Others(mac) \cup {Fresh(mac, ip)}
<1> USE DEF Cursor
<1>0. /\ Up /\ pool \in SUBSET Lease /\ plus \in range.start..255
      /\ range.start \in 1..255 /\ range.end \in 0..254
      /\ Leased(pool) \in SUBSET (1..254)
  BY DEF Handle, Up, TypeOK, Lease, Leased
<1>1. ASSUME Known(mac, type, ciaddr, option, answer)
      PROVE  /\ plus' \in range.start..255
             /\ \E ip \in Addresses \cap (1..254), renew \in BOOLEAN :
                 /\ \A l \in Others(mac) : l.ip # ip
                 /\ \A own \in Own(mac) : own.ip = ip /\ renew = (ip = ciaddr)
                 /\ renew => ip = ciaddr
                 /\ answer = ParseOptions(type, option, ip, renew)
                 /\ pool' = IF answer \in {"RELEASE", "NAK"} THEN Others(mac)
                            ELSE Others(mac) \cup {Fresh(mac, ip)}
  <2>1. PICK own \in Own(mac) :
          /\ plus' = Skip(Leased(Below(own.ip)), plus)
          /\ Conclude(mac, own.ip,
                (pool \ {own}) \cup {Fresh(mac, own.ip)},
                type, option, own.ip = ciaddr, answer)
    BY <1>1 DEF Known
  <2>2. own \in pool /\ own.mac = mac /\ own \in Lease
    BY <1>0 DEF Own
  <2>3. pool \ {own} = Others(mac)
    BY <2>2 DEF LeaseTable, Others
  <2>5. own.ip \in Addresses /\ own.ip \in 1..254
    BY <2>2 DEF LeaseTable, Leased, Lease
  <2>6. \A l \in Others(mac) : l.ip # own.ip
    BY <2>2 DEF LeaseTable, Others
  <2>7. \A o \in Own(mac) : o = own
    BY <2>2 DEF LeaseTable, Own
  <2>8. Below(own.ip) \in SUBSET Lease
    BY <1>0 DEF Below
  <2>9. plus' \in range.start..255
    <3>1. plus \in 0..255
      BY <1>0
    <3>2. Skip(Leased(Below(own.ip)), plus) \in plus..255
      BY <2>8, <3>1, SkipLeases
    <3> QED  BY <1>0, <2>1, <3>2
  <2>10. /\ answer = ParseOptions(type, option, own.ip, own.ip = ciaddr)
         /\ pool' = IF answer \in {"RELEASE", "NAK"}
                    THEN {l \in Others(mac) \cup {Fresh(mac, own.ip)} : l.mac # mac}
                    ELSE Others(mac) \cup {Fresh(mac, own.ip)}
    BY <2>1, <2>3 DEF Conclude
  <2>11. {l \in Others(mac) \cup {Fresh(mac, own.ip)} : l.mac # mac} = Others(mac)
    BY DEF Others, Fresh
  <2>12. PICK renew \in BOOLEAN : renew = (own.ip = ciaddr)
    OBVIOUS
  <2>13. pool' = IF answer \in {"RELEASE", "NAK"} THEN Others(mac)
                 ELSE Others(mac) \cup {Fresh(mac, own.ip)}
    BY <2>10, <2>11
  <2>14. \A o \in Own(mac) : o.ip = own.ip /\ renew = (own.ip = ciaddr)
    BY <2>7, <2>12
  <2>15. answer = ParseOptions(type, option, own.ip, renew) /\ (renew => own.ip = ciaddr)
    BY <2>10, <2>12
  <2> QED  BY <2>5, <2>6, <2>9, <2>13, <2>14, <2>15
<1>2. ASSUME Own(mac) = {}
      PROVE  /\ Others(mac) = pool
             /\ Candidate \in range.start..255 /\ Candidate \notin Leased(pool)
             /\ Candidate > range.end => Addresses \subseteq Leased(pool)
  <2>1. Others(mac) = pool
    BY <1>2 DEF Own, Others
  <2>0. ASSUME NEW a \in 0..255
        PROVE  /\ Skip(Leased(pool), a) \in a..255
               /\ Skip(Leased(pool), a) \notin Leased(pool)
               /\ \A x \in a..(Skip(Leased(pool), a) - 1) : x \in Leased(pool)
    BY <1>0, SkipLeases
  <2> DEFINE next == Skip(Leased(pool), plus)
             first == Skip(Leased(pool), range.start)
  <2>2. next \in plus..255 /\ next \notin Leased(pool)
    <3>1. plus \in 0..255
      BY <1>0
    <3> QED  BY <2>0, <3>1
  <2>3. /\ first \in range.start..255 /\ first \notin Leased(pool)
        /\ \A x \in range.start..(first - 1) : x \in Leased(pool)
    <3>1. range.start \in 0..255
      BY <1>0
    <3> QED  BY <2>0, <3>1
  <2> HIDE DEF next, first
  <2>4. CASE pool = {}
    <3>1. Candidate = range.start
      BY <2>4 DEF Candidate
    <3>2. Leased(pool) = {}
      BY <2>4 DEF Leased
    <3> QED  BY <1>0, <2>1, <3>1, <3>2 DEF Addresses
  <2>5. CASE pool # {} /\ next > range.end
    <3>1. Candidate = first
      BY <2>5 DEF Candidate, next, first
    <3> QED  BY <1>0, <2>1, <2>3, <3>1 DEF Addresses
  <2>6. CASE pool # {} /\ ~(next > range.end)
    <3>1. Candidate = next
      BY <2>6 DEF Candidate, next
    <3> QED  BY <1>0, <2>1, <2>2, <2>6, <3>1
  <2> QED  BY <2>4, <2>5, <2>6
<1>3. ASSUME Allocated(mac, type, option, answer)
      PROVE  /\ plus' \in range.start..255
             /\ \E ip \in Addresses \cap (1..254), renew \in BOOLEAN :
                 /\ \A l \in Others(mac) : l.ip # ip
                 /\ \A own \in Own(mac) : own.ip = ip /\ renew = (ip = ciaddr)
                 /\ renew => ip = ciaddr
                 /\ answer = ParseOptions(type, option, ip, renew)
                 /\ pool' = IF answer \in {"RELEASE", "NAK"} THEN Others(mac)
                            ELSE Others(mac) \cup {Fresh(mac, ip)}
  <2> DEFINE ip == Candidate
  <2>1. /\ Own(mac) = {} /\ ip <= range.end
        /\ plus' = IF ip = range.end THEN range.start ELSE ip + 1
        /\ Conclude(mac, ip, pool \cup {Fresh(mac, ip)}, type, option, FALSE, answer)
    BY <1>3 DEF Allocated
  <2>2. Others(mac) = pool /\ ip \in range.start..255 /\ ip \notin Leased(pool)
    BY <1>2, <2>1
  <2> HIDE DEF ip
  <2>3. plus' \in range.start..255
    BY <1>0, <2>1, <2>2
  <2>4. ip \in Addresses \cap (1..254)
    BY <1>0, <2>1, <2>2 DEF Addresses
  <2>5. \A l \in Others(mac) : l.ip # ip
    BY <2>2 DEF Leased
  <2>6. /\ answer = ParseOptions(type, option, ip, FALSE)
        /\ pool' = IF answer \in {"RELEASE", "NAK"}
                   THEN {l \in Others(mac) \cup {Fresh(mac, ip)} : l.mac # mac}
                   ELSE Others(mac) \cup {Fresh(mac, ip)}
    BY <2>1, <2>2 DEF Conclude
  <2>7. {l \in Others(mac) \cup {Fresh(mac, ip)} : l.mac # mac} = Others(mac)
    BY DEF Others, Fresh
  <2> QED  BY <2>1, <2>3, <2>4, <2>5, <2>6, <2>7
<1>4. ASSUME Full(mac, answer)
      PROVE  /\ plus' \in range.start..255
             /\ Own(mac) = {} /\ answer = "NAK" /\ pool' = Others(mac)
             /\ Addresses \subseteq Leased(pool)
  BY <1>0, <1>2, <1>4 DEF Full
<1> QED  BY <1>0, <1>1, <1>3, <1>4 DEF Handle

-----------------------------------------------------------------------------
(* Inv is inductive: what a datagram does *)

ServerType ==
  /\ state \in {"created", "started", "stopped", "delete_pending", "freed"}
  /\ timers \in Nat
  /\ range \in [server : 0..254, start : 0..255, end : 0..254]
  /\ pool \in SUBSET Lease
  /\ plus \in 0..255

StationType ==
  /\ bound \in [Macs -> (1..254) \cup {None}]
  /\ left \in [Macs -> 0..LeaseTime]
  /\ forgotten \in SUBSET Macs
  /\ \A m \in Macs : bound[m] # None <=> left[m] > 0
  /\ \A m \in forgotten : bound[m] # None

Held(m) ==
  \E l \in pool : l.mac = m /\ l.ip = bound[m] /\ l.lease_timer >= left[m]

\* Inv as its parts about the server, the stations, and both.
LEMMA InvParts ==
  Inv <=> /\ ServerType /\ StationType /\ LeaseTable /\ OneTimer /\ Cursor
          /\ \A m \in Macs : bound[m] # None /\ m \notin forgotten => Held(m)
  BY DEF Inv, TypeOK, ServerType, StationType, Promise, Held

\* The same of the next state.
LEMMA InvPartsPrime ==
  Inv' <=> /\ ServerType' /\ StationType' /\ LeaseTable' /\ OneTimer' /\ Cursor'
           /\ \A m \in Macs : bound'[m] # None /\ m \notin forgotten' => Held(m)'
  BY DEF Inv, TypeOK, ServerType, StationType, Promise, Held

\* A datagram leaves a lease table, and the leases of all other stations.
LEMMA HandleKeeps ==
  ASSUME Inv, NEW mac \in Macs, NEW type, NEW ciaddr, NEW option, NEW answer,
         Handle(mac, type, ciaddr, option, answer)
  PROVE  /\ ServerType' /\ LeaseTable' /\ OneTimer' /\ Cursor'
         /\ \A l \in pool : l.mac # mac => l \in pool'
<1>1. ServerType /\ LeaseTable /\ OneTimer /\ Cursor /\ TypeOK
  BY InvParts DEF Inv
<1>2. UNCHANGED <<state, timers, range>>
  BY DEF Handle
<1>3. Up /\ plus' \in range.start..255
  BY <1>1, HandleServes
<1>4. \/ pool' = Others(mac)
      \/ \E ip \in Addresses \cap (1..254) :
           (\A l \in Others(mac) : l.ip # ip) /\ pool' = Others(mac) \cup {Fresh(mac, ip)}
  BY <1>1, HandleServes
<1>5. \A l \in pool : l.mac # mac => l \in pool'
  BY <1>4 DEF Others
<1>6. Up' /\ Addresses' = Addresses
  BY <1>2, <1>3 DEF Up, Addresses
<1>7. plus' \in 0..255 /\ range.start <= plus' /\ 1 <= range.start
  BY <1>1, <1>3 DEF ServerType, Cursor
<1>8. pool' \in SUBSET Lease
  BY <1>1, <1>4 DEF ServerType, Others, Fresh, Lease
<1>9. Leased(pool)' \subseteq Addresses
  BY <1>1, <1>4 DEF LeaseTable, Leased, Others, Fresh
<1>10. \A k, l \in pool' : k.ip = l.ip \/ k.mac = l.mac => k = l
  <2>1. \A k, l \in Others(mac) : k.ip = l.ip \/ k.mac = l.mac => k = l
    BY <1>1 DEF LeaseTable, Others
  <2>2. CASE pool' = Others(mac)
    BY <2>1, <2>2
  <2>3. ASSUME NEW ip \in Addresses \cap (1..254),
               \A l \in Others(mac) : l.ip # ip,
               pool' = Others(mac) \cup {Fresh(mac, ip)}
        PROVE  \A k, l \in pool' : k.ip = l.ip \/ k.mac = l.mac => k = l
    BY <2>1, <2>3 DEF Others, Fresh
  <2> QED  BY <1>4, <2>2, <2>3
<1>11. range.server \notin Addresses
  BY <1>1, <1>3 DEF LeaseTable, Up
<1>12. ServerType'
  BY <1>1, <1>2, <1>7, <1>8 DEF ServerType
<1>13. LeaseTable'
  BY <1>2, <1>6, <1>9, <1>10, <1>11 DEF LeaseTable
<1>14. OneTimer' /\ Cursor'
  BY <1>1, <1>2, <1>6, <1>7 DEF OneTimer, Cursor
<1> QED  BY <1>5, <1>12, <1>13, <1>14

\* A station whose lease the server has not dropped keeps it, afresh, when it
\* renews, verifies or informs, and its request is acknowledged.
LEMMA LiveLeaseIsServed ==
  ASSUME Inv, NEW mac \in Macs, bound[mac] # None, mac \notin forgotten,
         NEW type, NEW ciaddr, NEW option, NEW answer,
         Handle(mac, type, ciaddr, option, answer),
         \/ type = "INFORM" /\ option = None
         \/ type = "REQUEST" /\ option = bound[mac]
         \/ type = "REQUEST" /\ option = None /\ ciaddr = bound[mac]
  PROVE  /\ Fresh(mac, bound[mac]) \in pool'
         /\ type = "REQUEST" => answer = "ACK"
<1>1. PICK l \in pool : l.mac = mac /\ l.ip = bound[mac]
  BY InvParts DEF Held
<1>2. l \in Own(mac)
  BY <1>1 DEF Own
<1>3. TypeOK /\ LeaseTable /\ Cursor
  BY DEF Inv
<1>4. PICK ip \in Addresses \cap (1..254), renew \in BOOLEAN :
        /\ \A own \in Own(mac) : own.ip = ip /\ renew = (ip = ciaddr)
        /\ answer = ParseOptions(type, option, ip, renew)
        /\ pool' = IF answer \in {"RELEASE", "NAK"} THEN Others(mac)
                   ELSE Others(mac) \cup {Fresh(mac, ip)}
  BY <1>2, <1>3, HandleServes
<1>5. ip = bound[mac] /\ renew = (ip = ciaddr)
  BY <1>1, <1>2, <1>4
<1>6. answer = ParseOptions(type, option, ip, renew)
  BY <1>4
<1>7. CASE type = "INFORM" /\ option = None
  BY <1>4, <1>5, <1>6, <1>7 DEF ParseOptions, ByOption
<1>8. CASE type = "REQUEST" /\ option = bound[mac]
  BY <1>4, <1>5, <1>6, <1>8 DEF ParseOptions, ByOption
<1>9. CASE type = "REQUEST" /\ option = None /\ ciaddr = bound[mac]
  BY <1>4, <1>5, <1>6, <1>9 DEF ParseOptions, ByOption
<1> QED  BY <1>7, <1>8, <1>9

\* An acknowledged station has a fresh lease of the address that it named.
LEMMA AckIsLease ==
  ASSUME Inv, NEW mac \in Macs, NEW ciaddr, NEW option,
         Handle(mac, "REQUEST", ciaddr, option, "ACK")
  PROVE  \E ip \in 1..254 : /\ Fresh(mac, ip) \in pool'
                            /\ ip = IF option = None THEN ciaddr ELSE option
<1>1. TypeOK /\ LeaseTable /\ Cursor
  BY DEF Inv
<1>2. PICK ip \in Addresses \cap (1..254), renew \in BOOLEAN :
        /\ renew => ip = ciaddr
        /\ "ACK" = ParseOptions("REQUEST", option, ip, renew)
        /\ pool' = IF "ACK" \in {"RELEASE", "NAK"} THEN Others(mac)
                   ELSE Others(mac) \cup {Fresh(mac, ip)}
  BY <1>1, HandleServes
<1>3. Fresh(mac, ip) \in pool'
  BY <1>2
<1>4. ip = IF option = None THEN ciaddr ELSE option
  BY <1>2 DEF ParseOptions, ByOption
<1> QED  BY <1>3, <1>4

-----------------------------------------------------------------------------
(* Inv is inductive: the stations, the timer, start, stop and deletion *)

\* A station that is unbound, or bound to a lease of its own, disturbs no other.
LEMMA StationKeeps ==
  ASSUME Inv, NEW mac \in Macs, ServerType', LeaseTable', OneTimer', Cursor',
         \A l \in pool : l.mac # mac => l \in pool',
         \/ Unbind(mac)
         \/ \E ip \in 1..254 : Bind(mac, ip) /\ Fresh(mac, ip) \in pool'
         \/ /\ UNCHANGED stations
            /\ bound[mac] # None /\ mac \notin forgotten
                 => Fresh(mac, bound[mac]) \in pool'
  PROVE  Inv'
<1>1. StationType /\ \A m \in Macs : bound[m] # None /\ m \notin forgotten => Held(m)
  BY InvParts
<1>2. ASSUME NEW m \in Macs, m # mac,
             bound'[m] = bound[m], left'[m] = left[m],
             m \notin forgotten, bound[m] # None
      PROVE  Held(m)'
  <2>1. PICK l \in pool : l.mac = m /\ l.ip = bound[m] /\ l.lease_timer >= left[m]
    BY <1>1, <1>2 DEF Held
  <2>2. l \in pool'
    BY <1>2, <2>1
  <2> QED  BY <1>2, <2>1, <2>2 DEF Held
<1>3. CASE Unbind(mac)
  <2>1. StationType'
    BY <1>1, <1>3 DEF StationType, Unbind
  <2>2. ASSUME NEW m \in Macs, bound'[m] # None, m \notin forgotten'
        PROVE  Held(m)'
    BY <1>1, <1>2, <1>3, <2>2 DEF StationType, Unbind
  <2> QED  BY <2>1, <2>2, InvPartsPrime
<1>4. ASSUME NEW ip \in 1..254, Bind(mac, ip), Fresh(mac, ip) \in pool'
      PROVE  Inv'
  <2>1. StationType'
    <3>1. /\ bound' \in [Macs -> (1..254) \cup {None}]
          /\ left' \in [Macs -> 0..LeaseTime] /\ forgotten' \in SUBSET Macs
      <4>1. /\ bound \in [Macs -> (1..254) \cup {None}]
            /\ left \in [Macs -> 0..LeaseTime] /\ forgotten \in SUBSET Macs
        BY <1>1 DEF StationType
      <4>2. /\ bound' = [bound EXCEPT ![mac] = ip]
            /\ left' = [left EXCEPT ![mac] = LeaseTime]
            /\ forgotten' = forgotten \ {mac}
        BY <1>4 DEF Bind
      <4>3. LeaseTime \in 0..LeaseTime /\ ip \in (1..254) \cup {None}
        OBVIOUS
      <4>4. bound' \in [Macs -> (1..254) \cup {None}]
        BY ONLY <4>1, <4>2, <4>3
      <4>5. left' \in [Macs -> 0..LeaseTime] /\ forgotten' \in SUBSET Macs
        BY ONLY <4>1, <4>2, <4>3
      <4> QED  BY <4>4, <4>5
    <3>2. /\ bound'[mac] = ip /\ ip # None /\ left'[mac] = LeaseTime /\ LeaseTime > 0
          /\ \A m \in Macs : m # mac => bound'[m] = bound[m] /\ left'[m] = left[m]
      <4>1. /\ bound \in [Macs -> (1..254) \cup {None}]
            /\ left \in [Macs -> 0..LeaseTime]
        BY <1>1 DEF StationType
      <4>2. /\ bound' = [bound EXCEPT ![mac] = ip]
            /\ left' = [left EXCEPT ![mac] = LeaseTime]
        BY <1>4 DEF Bind
      <4>3. ip # None /\ LeaseTime > 0
        OBVIOUS
      <4>4. bound'[mac] = ip /\ \A m \in Macs : m # mac => bound'[m] = bound[m]
        BY ONLY <4>1, <4>2, mac \in Macs
      <4>5. left'[mac] = LeaseTime /\ \A m \in Macs : m # mac => left'[m] = left[m]
        BY ONLY <4>1, <4>2, mac \in Macs
      <4> QED  BY <4>3, <4>4, <4>5
    <3>3. \A m \in Macs : bound'[m] # None <=> left'[m] > 0
      BY <1>1, <3>2 DEF StationType
    <3>4. \A m \in forgotten' : m # mac /\ m \in forgotten /\ m \in Macs
      BY <1>1, <1>4 DEF StationType, Bind
    <3>5. \A m \in forgotten' : bound'[m] # None
      BY <1>1, <3>2, <3>4 DEF StationType
    <3> QED  BY <3>1, <3>3, <3>5 DEF StationType
  <2>2. ASSUME NEW m \in Macs, bound'[m] # None, m \notin forgotten'
        PROVE  Held(m)'
    <3>1. CASE m = mac
      <4>1. bound'[m] = ip /\ left'[m] = LeaseTime
        BY <1>1, <1>4, <3>1 DEF StationType, Bind
      <4>2. /\ Fresh(mac, ip).mac = mac /\ Fresh(mac, ip).ip = ip
            /\ Fresh(mac, ip).lease_timer = LeaseTime
        BY DEF Fresh
      <4> QED  BY <1>4, <3>1, <4>1, <4>2 DEF Held
    <3>2. CASE m # mac
      BY <1>1, <1>2, <1>4, <2>2, <3>2 DEF StationType, Bind
    <3> QED  BY <3>1, <3>2
  <2> QED  BY <2>1, <2>2, InvPartsPrime
<1>5. ASSUME UNCHANGED stations,
             bound[mac] # None /\ mac \notin forgotten
               => Fresh(mac, bound[mac]) \in pool'
      PROVE  Inv'
  <2>1. StationType'
    BY <1>1, <1>5 DEF StationType, stations
  <2>2. ASSUME NEW m \in Macs, bound'[m] # None, m \notin forgotten'
        PROVE  Held(m)'
    <3>1. bound' = bound /\ left' = left /\ forgotten' = forgotten
      BY <1>5 DEF stations
    <3>2. CASE m = mac
      <4>1. Fresh(mac, bound[mac]) \in pool'
        BY <1>5, <2>2, <3>1, <3>2
      <4>2. LeaseTime >= left[mac]
        BY <1>1 DEF StationType
      <4>3. /\ Fresh(mac, bound[mac]).mac = mac /\ Fresh(mac, bound[mac]).ip = bound[mac]
            /\ Fresh(mac, bound[mac]).lease_timer = LeaseTime
        BY DEF Fresh
      <4> QED  BY <3>1, <3>2, <4>1, <4>2, <4>3 DEF Held
    <3>3. CASE m # mac
      BY <1>2, <2>2, <3>1, <3>3
    <3> QED  BY <3>2, <3>3
  <2> QED  BY <2>1, <2>2, InvPartsPrime
<1> QED  BY <1>3, <1>4, <1>5

\* A tick of the stations' clocks, when the server keeps the leases that last.
LEMMA AgeKeeps ==
  ASSUME Inv, NEW dropped, Age(dropped),
         ServerType', LeaseTable', OneTimer', Cursor',
         \A l \in pool : l.mac \in Macs \ dropped /\ l.lease_timer > 1
           => \E k \in pool' : /\ k.mac = l.mac /\ k.ip = l.ip
                              /\ k.lease_timer >= l.lease_timer - 1
  PROVE  Inv'
<1>1. StationType /\ \A m \in Macs : bound[m] # None /\ m \notin forgotten => Held(m)
  BY InvParts
<1>2. /\ bound' = [m \in Macs |-> IF left[m] > 1 THEN bound[m] ELSE None]
      /\ left' = [m \in Macs |-> IF left[m] > 1 THEN left[m] - 1 ELSE 0]
      /\ forgotten' = {m \in Macs : m \in forgotten \cup dropped /\ left[m] > 1}
  BY DEF Age
<1>3. \A m \in Macs : left[m] \in 0..LeaseTime /\ bound[m] \in (1..254) \cup {None}
  BY <1>1 DEF StationType
<1>4. StationType'
  <2>1. bound' \in [Macs -> (1..254) \cup {None}] /\ left' \in [Macs -> 0..LeaseTime]
    BY <1>2, <1>3
  <2>2. \A m \in Macs : bound'[m] # None <=> left'[m] > 0
    BY <1>1, <1>2, <1>3 DEF StationType
  <2>3. forgotten' \in SUBSET Macs /\ \A m \in forgotten' : bound'[m] # None
    BY <1>1, <1>2, <1>3 DEF StationType
  <2> QED  BY <2>1, <2>2, <2>3 DEF StationType
<1>5. ASSUME NEW m \in Macs, bound'[m] # None, m \notin forgotten'
      PROVE  Held(m)'
  <2>1. /\ left[m] > 1 /\ bound'[m] = bound[m] /\ left'[m] = left[m] - 1
        /\ m \notin forgotten /\ m \notin dropped /\ bound[m] # None
    BY <1>2, <1>3, <1>5
  <2>2. PICK l \in pool : l.mac = m /\ l.ip = bound[m] /\ l.lease_timer >= left[m]
    BY <1>1, <2>1 DEF Held
  <2>3. l.lease_timer \in 1..LeaseTime
    BY <2>2, InvParts DEF ServerType, Lease
  <2>4. PICK k \in pool' : k.mac = l.mac /\ k.ip = l.ip /\ k.lease_timer >= l.lease_timer - 1
    BY <1>3, <2>1, <2>2, <2>3
  <2>5. k.lease_timer \in 1..LeaseTime
    BY <2>4 DEF ServerType, Lease
  <2>6. k.lease_timer >= left[m] - 1
    BY <1>3, <2>2, <2>3, <2>4, <2>5
  <2> QED  BY <2>1, <2>2, <2>4, <2>6 DEF Held
<1> QED  BY <1>4, <1>5, InvPartsPrime

\* What the timer leaves of the list.
LEMMA RemainingFacts ==
  ASSUME ServerType, LeaseTable
  PROVE  /\ Remaining \in SUBSET Lease
         /\ Leased(Remaining) \subseteq Leased(pool)
         /\ \A k, l \in Remaining : k.ip = l.ip \/ k.mac = l.mac => k = l
         /\ \A l \in pool : l.lease_timer > 1 => Older(l) \in Remaining
<1>1. \A l \in pool : /\ l \in Lease
                      /\ Older(l).mac = l.mac /\ Older(l).ip = l.ip
                      /\ Older(l).lease_timer = l.lease_timer - 1
  BY DEF ServerType, Older
<1>2. \A k \in Remaining : \E l \in pool : l.lease_timer > 1 /\ k = Older(l)
  BY DEF Remaining
<1>3. Remaining \in SUBSET Lease
  BY <1>1, <1>2 DEF Older, Lease
<1>4. Leased(Remaining) \subseteq Leased(pool)
  BY <1>1, <1>2 DEF Leased
<1>5. ASSUME NEW k \in Remaining, NEW l \in Remaining, k.ip = l.ip \/ k.mac = l.mac
      PROVE  k = l
  <2>1. PICK k0 \in pool : k = Older(k0)
    BY <1>2
  <2>2. PICK l0 \in pool : l = Older(l0)
    BY <1>2
  <2>3. k0 = l0
    BY <1>1, <1>5, <2>1, <2>2 DEF LeaseTable
  <2> QED  BY <2>1, <2>2, <2>3
<1>6. \A l \in pool : l.lease_timer > 1 => Older(l) \in Remaining
  BY DEF Remaining
<1> QED  BY <1>3, <1>4, <1>5, <1>6

\* A tick keeps Inv, with or without a lease that it kills.
LEMMA TickKeeps ==
  ASSUME Inv, Tick
  PROVE  Inv'
<1>1. ServerType /\ StationType /\ LeaseTable /\ OneTimer /\ Cursor
  BY InvParts
<1>2. UNCHANGED <<state, timers, range, plus>> /\ state = "started"
  BY DEF Tick
<1>3. PICK gone : /\ pool' = Remaining \ gone
                  /\ \E dropped : Age(dropped) /\ \A l \in gone : l.mac \in dropped
  <2>1. CASE Cardinality(Remaining) > MaxStations
    <3> DEFINE killed == {Oldest(Remaining)}
               macs == {Oldest(Remaining).mac}
    <3>1. pool' = Remaining \ killed /\ Age(macs)
      BY <2>1 DEF Tick
    <3>2. \A l \in killed : l.mac \in macs
      OBVIOUS
    <3> HIDE DEF killed, macs
    <3> QED  BY <3>1, <3>2
  <2>2. CASE ~(Cardinality(Remaining) > MaxStations)
    <3> DEFINE none == {}
    <3>1. pool' = Remaining \ none /\ Age({})
      BY <2>2 DEF Tick
    <3>2. \A l \in none : l.mac \in {}
      OBVIOUS
    <3> HIDE DEF none
    <3> QED  BY <3>1, <3>2
  <2> QED  BY <2>1, <2>2
<1>4. PICK dropped : Age(dropped) /\ \A l \in gone : l.mac \in dropped
  BY <1>3
<1>5. ServerType'
  BY <1>1, <1>2, <1>3, RemainingFacts DEF ServerType
<1>6. LeaseTable'
  <2>1. \A k, l \in pool' : k.ip = l.ip \/ k.mac = l.mac => k = l
    BY <1>1, <1>3, RemainingFacts
  <2>2. Leased(pool') \subseteq Leased(pool)
    <3>1. Leased(pool') \subseteq Leased(Remaining)
      BY <1>3 DEF Leased
    <3> QED  BY <1>1, <3>1, RemainingFacts
  <2>3. Addresses' = Addresses
    BY <1>2 DEF Addresses
  <2> QED  BY <1>1, <1>2, <2>1, <2>2, <2>3 DEF LeaseTable, Leased
<1>7. OneTimer' /\ Cursor'
  BY <1>1, <1>2 DEF OneTimer, Cursor, Up
<1>8. ASSUME NEW l \in pool, l.mac \in Macs \ dropped, l.lease_timer > 1
      PROVE  \E k \in pool' : /\ k.mac = l.mac /\ k.ip = l.ip
                              /\ k.lease_timer >= l.lease_timer - 1
  <2>1. /\ Older(l).mac = l.mac /\ Older(l).ip = l.ip
        /\ Older(l).lease_timer = l.lease_timer - 1
    BY DEF Older
  <2>2. Older(l) \in pool'
    BY <1>1, <1>3, <1>4, <1>8, <2>1, RemainingFacts
  <2>3. l.lease_timer - 1 \in Int
    BY <1>1 DEF ServerType, Lease
  <2> QED  BY <2>1, <2>2, <2>3
<1> QED  BY <1>4, <1>5, <1>6, <1>7, <1>8, AgeKeeps

\* A tick that frees the server leaves every bound station forgotten.
LEMMA TickFreesKeeps ==
  ASSUME Inv, TickFrees
  PROVE  Inv'
<1>1. ServerType /\ OneTimer
  BY InvParts
<1>2. /\ state = "delete_pending" /\ state' = "freed" /\ pool' = {} /\ Age(Macs)
      /\ timers' = timers - 1 /\ range' = range /\ plus' = plus
  BY DEF TickFrees
<1>3. timers = 1 /\ timers' = 0
  BY <1>1, <1>2 DEF OneTimer
<1>4. ServerType' /\ LeaseTable' /\ OneTimer' /\ Cursor'
  BY <1>1, <1>2, <1>3 DEF ServerType, LeaseTable, Leased, OneTimer, Cursor, Up
<1> QED  BY <1>2, <1>4, AgeKeeps

\* Time without a server only takes from what the stations may use.
LEMMA TimePassesKeeps ==
  ASSUME Inv, TimePasses
  PROVE  Inv'
<1>1. ServerType /\ LeaseTable /\ OneTimer /\ Cursor
  BY InvParts
<1>2. UNCHANGED server /\ timers = 0 /\ Age({})
  BY DEF TimePasses
<1>3. ServerType' /\ LeaseTable' /\ OneTimer' /\ Cursor'
  BY <1>1, <1>2 DEF server, ServerType, LeaseTable, Leased, Addresses, OneTimer, Cursor, Up
<1>4. pool = {}
  BY <1>1, <1>2 DEF OneTimer, Cursor, Up
<1> QED  BY <1>2, <1>3, <1>4, AgeKeeps

\* A start finds an empty list and no timeout.
LEMMA StartKeeps ==
  ASSUME Inv, NEW s \in Setups, Start(s)
  PROVE  Inv'
<1>1. ServerType /\ LeaseTable /\ OneTimer /\ Cursor /\ StationType
      /\ \A m \in Macs : bound[m] # None /\ m \notin forgotten => Held(m)
  BY InvParts
<1>2. /\ state \in {"created", "stopped"} /\ state' = "started"
      /\ range' = PollSet(s) /\ plus' = PollSet(s).start /\ timers' = timers + 1
      /\ pool' = pool /\ UNCHANGED <<bound, left, forgotten>>
  BY DEF Start, stations
<1>3. timers' = 1 /\ pool' = {}
  BY <1>1, <1>2 DEF OneTimer, Cursor, Up
<1>4. /\ range' \in [server : 0..254, start : 1..255, end : 0..254]
      /\ range'.server \notin range'.start..range'.end
      /\ plus' \in 1..255 /\ plus' = range'.start
  BY <1>2, RangeExcludesServer
<1>5. ServerType'
  BY <1>1, <1>2, <1>3, <1>4 DEF ServerType
<1>6. LeaseTable'
  BY <1>3, <1>4 DEF LeaseTable, Leased, Addresses
<1>7. OneTimer' /\ Cursor'
  BY <1>2, <1>3, <1>4 DEF OneTimer, Cursor, Up
<1>8. StationType' /\ \A m \in Macs : bound'[m] # None /\ m \notin forgotten' => Held(m)'
  BY <1>1, <1>2 DEF StationType, Held
<1> QED  BY <1>5, <1>6, <1>7, <1>8, InvPartsPrime

\* A stop empties the list, forgets the stations and takes the timeout away.
LEMMA StopKeeps ==
  ASSUME Inv, Stop
  PROVE  Inv'
<1>1. ServerType /\ LeaseTable /\ OneTimer /\ StationType
  BY InvParts
<1>2. /\ state' = "stopped" /\ pool' = {} /\ timers' = 0
      /\ forgotten' = {m \in Macs : bound[m] # None}
      /\ UNCHANGED <<range, plus, bound, left>>
  BY <1>1 DEF Stop, OneTimer
<1>3. ServerType' /\ LeaseTable' /\ OneTimer' /\ Cursor'
  BY <1>1, <1>2 DEF ServerType, LeaseTable, Leased, OneTimer, Cursor, Up
<1>4. StationType' /\ \A m \in Macs : bound'[m] # None /\ m \notin forgotten' => Held(m)'
  BY <1>1, <1>2 DEF StationType
<1> QED  BY <1>3, <1>4, InvPartsPrime

\* A deletion frees a server without leases or postpones itself.
LEMMA DeleteKeeps ==
  ASSUME Inv, Delete
  PROVE  Inv'
<1>1. ServerType /\ LeaseTable /\ OneTimer /\ Cursor /\ StationType
      /\ \A m \in Macs : bound[m] # None /\ m \notin forgotten => Held(m)
  BY InvParts
<1>2. /\ state \in {"created", "started", "stopped"}
      /\ state' = IF state = "started" THEN "delete_pending" ELSE "freed"
      /\ UNCHANGED <<timers, range, pool, plus, bound, left, forgotten>>
  BY DEF Delete, stations
<1>3. Up' = Up
  BY <1>2 DEF Up
<1>4. ServerType' /\ LeaseTable'
  BY <1>1, <1>2 DEF ServerType, LeaseTable, Leased, Addresses
<1>5. OneTimer' /\ Cursor'
  BY <1>1, <1>2 DEF OneTimer, Cursor, Up
<1>6. StationType' /\ \A m \in Macs : bound'[m] # None /\ m \notin forgotten' => Held(m)'
  BY <1>1, <1>2 DEF StationType, Held
<1> QED  BY <1>4, <1>5, <1>6, InvPartsPrime

\* A request that is acknowledged binds the station to its fresh lease.
LEMMA RequestKeeps ==
  ASSUME Inv, NEW mac \in Macs, NEW ip, NEW answer, Request(mac, ip, answer)
  PROVE  Inv'
<1>1. /\ bound[mac] \in {None, ip} /\ Handle(mac, "REQUEST", None, ip, answer)
      /\ Outcome(mac, ip, answer)
  BY DEF Request
<1>2. /\ ServerType' /\ LeaseTable' /\ OneTimer' /\ Cursor'
      /\ \A l \in pool : l.mac # mac => l \in pool'
  BY <1>1, HandleKeeps
<1>3. CASE answer = "ACK" /\ Bind(mac, ip)
  <2>1. PICK a \in 1..254 : Fresh(mac, a) \in pool' /\ a = IF ip = None THEN None ELSE ip
    BY <1>1, <1>3, AckIsLease
  <2>2. a = ip
    BY <2>1
  <2> QED  BY <1>2, <1>3, <2>1, <2>2, StationKeeps
<1>4. CASE Unbind(mac)
  BY <1>2, <1>4, StationKeeps
<1>5. CASE UNCHANGED stations
  <2>1. bound[mac] # None /\ mac \notin forgotten => Fresh(mac, bound[mac]) \in pool'
    BY <1>1, LiveLeaseIsServed
  <2> QED  BY <1>2, <1>5, <2>1, StationKeeps
<1> QED  BY <1>1, <1>3, <1>4, <1>5 DEF Outcome

\* A renewal that is acknowledged extends the lease that the station has.
LEMMA RenewKeeps ==
  ASSUME Inv, NEW mac \in Macs, NEW answer, Renew(mac, answer)
  PROVE  Inv'
<1>1. /\ bound[mac] # None /\ Handle(mac, "REQUEST", bound[mac], None, answer)
      /\ Outcome(mac, bound[mac], answer)
  BY DEF Renew
<1>2. /\ ServerType' /\ LeaseTable' /\ OneTimer' /\ Cursor'
      /\ \A l \in pool : l.mac # mac => l \in pool'
  BY <1>1, HandleKeeps
<1>3. CASE answer = "ACK" /\ Bind(mac, bound[mac])
  <2>1. PICK a \in 1..254 : Fresh(mac, a) \in pool' /\ a = bound[mac]
    BY <1>1, <1>3, AckIsLease
  <2> QED  BY <1>2, <1>3, <2>1, StationKeeps
<1>4. CASE Unbind(mac)
  BY <1>2, <1>4, StationKeeps
<1>5. CASE UNCHANGED stations
  <2>1. bound[mac] # None /\ mac \notin forgotten => Fresh(mac, bound[mac]) \in pool'
    BY <1>1, LiveLeaseIsServed
  <2> QED  BY <1>2, <1>5, <2>1, StationKeeps
<1> QED  BY <1>1, <1>3, <1>4, <1>5 DEF Outcome

\* An inform only refreshes the lease.
LEMMA InformKeeps ==
  ASSUME Inv, NEW mac \in Macs, NEW answer, Inform(mac, answer)
  PROVE  Inv'
<1>1. Handle(mac, "INFORM", None, None, answer) /\ UNCHANGED stations
  BY DEF Inform
<1>2. /\ ServerType' /\ LeaseTable' /\ OneTimer' /\ Cursor'
      /\ \A l \in pool : l.mac # mac => l \in pool'
  BY <1>1, HandleKeeps
<1>3. bound[mac] # None /\ mac \notin forgotten => Fresh(mac, bound[mac]) \in pool'
  BY <1>1, LiveLeaseIsServed
<1> QED  BY <1>1, <1>2, <1>3, StationKeeps

\* Discover, Release and Decline: whatever the server does, the station is unbound.
LEMMA UnboundKeeps ==
  ASSUME Inv, NEW mac \in Macs, NEW type, NEW ciaddr, NEW option, NEW answer,
         Handle(mac, type, ciaddr, option, answer), Unbind(mac)
  PROVE  Inv'
<1>1. /\ ServerType' /\ LeaseTable' /\ OneTimer' /\ Cursor'
      /\ \A l \in pool : l.mac # mac => l \in pool'
  BY HandleKeeps
<1> QED  BY <1>1, StationKeeps

\* A station that goes away leaves its lease to the timer.
LEMMA LeaveKeeps ==
  ASSUME Inv, NEW mac \in Macs, Leave(mac)
  PROVE  Inv'
<1>1. Unbind(mac) /\ UNCHANGED <<state, timers, range, pool, plus>>
  BY DEF Leave, server
<1>2. ServerType /\ LeaseTable /\ OneTimer /\ Cursor
  BY InvParts
<1>3. ServerType' /\ LeaseTable' /\ OneTimer' /\ Cursor'
  BY <1>1, <1>2 DEF ServerType, LeaseTable, Leased, Addresses, OneTimer, Cursor, Up
<1>4. \A l \in pool : l.mac # mac => l \in pool'
  BY <1>1
<1> QED  BY <1>1, <1>3, <1>4, StationKeeps

-----------------------------------------------------------------------------
(* Inv is an invariant *)

\* A new server has no lease and no station uses an address.
LEMMA InitEstablishesInv == Init => Inv
<1> SUFFICES ASSUME Init PROVE Inv
  OBVIOUS
<1>1. ServerType /\ LeaseTable /\ OneTimer /\ Cursor
  BY DEF Init, ServerType, LeaseTable, Leased, OneTimer, Cursor, Up
<1>2. StationType /\ \A m \in Macs : bound[m] = None
  BY DEF Init, StationType
<1> QED  BY <1>1, <1>2, InvParts

\* Every action keeps Inv.
LEMMA NextPreservesInv == Inv /\ [Next]_vars => Inv'
<1> SUFFICES ASSUME Inv, [Next]_vars PROVE Inv'
  OBVIOUS
<1>1. ASSUME NEW m \in Macs, NEW answer \in Answers,
             Discover(m, answer) \/ Release(m, answer) \/ Decline(m, answer)
      PROVE  Inv'
  BY <1>1, UnboundKeeps DEF Discover, Release, Decline
<1>2. ASSUME NEW m \in Macs, NEW answer \in Answers, Renew(m, answer)
      PROVE  Inv'
  BY <1>2, RenewKeeps
<1>3. ASSUME NEW m \in Macs, NEW answer \in Answers, Inform(m, answer)
      PROVE  Inv'
  BY <1>3, InformKeeps
<1>4. ASSUME NEW m \in Macs, NEW answer \in Answers,
             NEW ip \in Addresses \cup {None}, Request(m, ip, answer)
      PROVE  Inv'
  BY <1>4, RequestKeeps
<1>5. ASSUME NEW m \in Macs, Leave(m)
      PROVE  Inv'
  BY <1>5, LeaveKeeps
<1>6. CASE Tick
  BY <1>6, TickKeeps
<1>7. CASE TickFrees
  BY <1>7, TickFreesKeeps
<1>8. CASE TimePasses
  BY <1>8, TimePassesKeeps
<1>9. ASSUME NEW s \in Setups, Start(s)
      PROVE  Inv'
  BY <1>9, StartKeeps
<1>10. CASE Stop
  BY <1>10, StopKeeps
<1>11. CASE Delete
  BY <1>11, DeleteKeeps
<1>12. CASE UNCHANGED vars
  <2>1. /\ UNCHANGED <<state, timers, range, pool, plus>>
        /\ UNCHANGED <<bound, left, forgotten>>
    BY <1>12 DEF vars, server, stations
  <2>2. /\ ServerType /\ StationType /\ LeaseTable /\ OneTimer /\ Cursor
        /\ \A m \in Macs : bound[m] # None /\ m \notin forgotten => Held(m)
    BY InvParts
  <2>3. ServerType' /\ LeaseTable' /\ OneTimer' /\ Cursor'
    BY <2>1, <2>2 DEF ServerType, LeaseTable, Leased, Addresses, OneTimer, Cursor, Up
  <2>4. StationType' /\ \A m \in Macs : bound'[m] # None /\ m \notin forgotten' => Held(m)'
    BY <2>1, <2>2 DEF StationType, Held
  <2> QED  BY <2>3, <2>4, InvPartsPrime
<1> QED  BY <1>1, <1>2, <1>3, <1>4, <1>5, <1>6, <1>7, <1>8, <1>9, <1>10, <1>11,
            <1>12 DEF Next

\* The inductive invariant holds: the types, the lease table, the promise, the
\* one timer, and no lease without a started server.
THEOREM Invariance == Spec => []Inv
<1> QED  BY InitEstablishesInv, NextPreservesInv, PTL DEF Spec

-----------------------------------------------------------------------------
(* The theorems *)

\* The variables of the server and of its stations keep their types.
THEOREM TypeCorrect == Spec => []TypeOK
<1>1. Inv => TypeOK
  BY DEF Inv
<1> QED  BY <1>1, Invariance, PTL

\* No address and no station is leased twice, and the leased addresses lie in a
\* range that leaves out the server's, in the order of any datagrams, ticks,
\* stops and starts.
THEOREM LeasesAreUnique == Spec => []LeaseTable
<1>1. Inv => LeaseTable
  BY DEF Inv
<1> QED  BY <1>1, Invariance, PTL

\* The server keeps the lease of every station at least as long as the station
\* uses its address, unless it stopped or killed the lease.
THEOREM PromiseIsKept == Spec => []Promise
<1>1. Inv => Promise
  BY DEF Inv
<1> QED  BY <1>1, Invariance, PTL

\* Two stations share an address only after the lease of one was dropped.
THEOREM AddressesAreNotShared == Spec => []NoSharedAddress
<1>1. ASSUME Inv, NEW m \in Macs, NEW n \in Macs, m # n, bound[m] # None,
             bound[m] = bound[n], m \notin forgotten, n \notin forgotten
      PROVE  FALSE
  <2>1. PICK k \in pool : k.mac = m /\ k.ip = bound[m]
    BY <1>1, InvParts DEF Held
  <2>2. PICK l \in pool : l.mac = n /\ l.ip = bound[n]
    BY <1>1, InvParts DEF Held
  <2>3. LeaseTable
    BY <1>1 DEF Inv
  <2> QED  BY <1>1, <2>1, <2>2, <2>3 DEF LeaseTable
<1>2. Inv => NoSharedAddress
  BY <1>1 DEF NoSharedAddress
<1> QED  BY <1>2, Invariance, PTL

\* A started server has one timeout and any other has none, so that stopping and
\* starting again does not make leases end early.
THEOREM TimerIsSingle == Spec => []OneTimer
<1>1. Inv => OneTimer
  BY DEF Inv
<1> QED  BY <1>1, Invariance, PTL

\* Wherever the search for an address begins, it only fails when all are leased.
THEOREM SearchIsComplete == Spec => RefusedOnlyWhenFull
<1>1. ASSUME Inv, NEW m \in Macs, Discover(m, "NAK")
      PROVE  Addresses \subseteq Leased(pool)
  <2>1. TypeOK /\ LeaseTable /\ Cursor
    BY <1>1 DEF Inv
  <2>2. Handle(m, "DISCOVER", None, None, "NAK")
    BY <1>1 DEF Discover
  <2>3. \A ip, renew : ParseOptions("DISCOVER", None, ip, renew) = "OFFER"
    BY DEF ParseOptions
  <2> QED  BY <2>1, <2>2, <2>3, HandleServes
<1>2. Inv => [\A m \in Macs : Discover(m, "NAK") => Addresses \subseteq Leased(pool)]_vars
  BY <1>1
<1> QED  BY <1>2, Invariance, PTL DEF RefusedOnlyWhenFull

\* A station whose lease was not dropped is acknowledged.
THEOREM RenewalSucceeds == Spec => RenewalIsAcknowledged
<1>1. ASSUME Inv, NEW m \in Macs \ forgotten, NEW answer \in Answers, bound[m] # None,
             Renew(m, answer) \/ Request(m, bound[m], answer)
      PROVE  answer = "ACK"
  BY <1>1, LiveLeaseIsServed DEF Renew, Request
<1>2. Inv => [\A m \in Macs \ forgotten, answer \in Answers :
               bound[m] # None /\ (Renew(m, answer) \/ Request(m, bound[m], answer))
                 => answer = "ACK"]_vars
  BY <1>1
<1> QED  BY <1>2, Invariance, PTL DEF RenewalIsAcknowledged

===============================================================================
