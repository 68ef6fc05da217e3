----------------------------- MODULE NetifProofs ------------------------------
(***************************************************************************)
(* Netif keeps its promises for any interfaces, priorities, flags and      *)
(* addresses.  IInv joins what the run checks with what makes it           *)
(* inductive: a destroyed interface is not in lwIP, a manual choice is     *)
(* listed once no destruction is under way, and a DHCP client has an       *)
(* address exactly while it is bound.                                      *)
(***************************************************************************)
EXTENDS Netif, TLAPS

USE NetifAssumption

Address == Addresses \cup {None}
IpRecord == [addr : Address, info : Address,
             held : {"nothing", "lease", "static"}, timer : BOOLEAN, pending : Nat]

Gone == \A i \in Netifs : life[i] \in {"absent", "removed"} => ~added[i] /\ ~up[i]

ChoiceIsListed == Settled /\ overridden => last \in Listed

LeaseIsHeld ==
  \A i \in Listed :
    /\ engine[i] = "bound" => ip[i].addr # None /\ ip[i].info = ip[i].addr
    /\ engine[i] = "asking" => ip[i].addr = None
    /\ i \notin Client => engine[i] \notin {"asking", "bound"}
    /\ ip[i].held = "lease" /\ ip[i].addr # None => engine[i] = "bound"

IInv ==
  TypeOK /\ DefaultIsBest /\ StatusAgrees /\ LossIsCovered
  /\ Gone /\ ChoiceIsListed /\ LeaseIsHeld

-----------------------------------------------------------------------------
(* The operators on the record of an interface *)

(* The fields of an interface's record *)
LEMMA RecordFields ==
  ASSUME NEW a, NEW b, NEW h, NEW t, NEW p
  PROVE  LET r == Record(a, b, h, t, p)
         IN  /\ r.addr = a /\ r.info = b
             /\ r.held = h /\ r.timer = t /\ r.pending = p
BY DEF Record

(* The operators on the record of an interface keep its type. *)
LEMMA OperatorTypes ==
  ASSUME NEW r \in IpRecord, NEW a \in Address, NEW how \in {"lease", "static"}
  PROVE  /\ StartTimer(r) \in IpRecord /\ ResetInfo(r) \in IpRecord
         /\ SetInfo(r, a) \in IpRecord
         /\ Zeroed(r) \in IpRecord
         /\ SetAddr(r, a, how) \in IpRecord /\ SetAddr(r, None, "nothing") \in IpRecord
         /\ r.pending > 0 => LostTimer(r) \in IpRecord
<1> USE DEF IpRecord, Address, Record
<1>1. StartTimer(r) \in IpRecord
  BY DEF StartTimer
<1>2. ResetInfo(r) \in IpRecord /\ SetInfo(r, a) \in IpRecord
  BY DEF ResetInfo, SetInfo
<1>3. Zeroed(r) \in IpRecord
  BY DEF Zeroed
<1>4. SetAddr(r, a, how) \in IpRecord
  BY DEF SetAddr, DhcpcCb, StartTimer
<1>5. SetAddr(r, None, "nothing") \in IpRecord
  BY DEF SetAddr, DhcpcCb, StartTimer
<1>6. r.pending > 0 => LostTimer(r) \in IpRecord
  BY DEF LostTimer
<1> QED  BY <1>1, <1>2, <1>3, <1>4, <1>5, <1>6

(* Those without an address, for all records at once *)
LEMMA PlainTypes ==
  \A r \in IpRecord : /\ StartTimer(r) \in IpRecord /\ ResetInfo(r) \in IpRecord
                      /\ Zeroed(r) \in IpRecord /\ SetAddr(r, None, "nothing") \in IpRecord
BY OperatorTypes DEF Address

-----------------------------------------------------------------------------
(* Types *)

(* The choice of a default after an interface came up keeps the types. *)
LEMMA StartedTypes ==
  ASSUME TypeOK, NEW i \in Netifs, UpdateStarted(i, route)
  PROVE  /\ last' \in Netifs \cup {None} /\ overridden' \in BOOLEAN
         /\ route' \in Netifs \cup {None}
<1> DEFINE prev == IF last \in Listed' THEN last ELSE None
           next == IF prev \in Ups /\ Prio[prev] > Prio[i] THEN prev
                   ELSE IF i \in Ups THEN i ELSE None
<1>1. prev \in Netifs \cup {None} /\ next \in Netifs \cup {None}
  BY DEF TypeOK
<1> QED  BY <1>1 DEF UpdateStarted, TypeOK

(* So does the choice after one went down or was removed. *)
LEMMA StoppedTypes ==
  ASSUME TypeOK, NEW r \in Netifs \cup {None}, UpdateStopped(r)
  PROVE  /\ last' \in Netifs \cup {None} /\ overridden' \in BOOLEAN
         /\ route' \in Netifs \cup {None}
BY DEF UpdateStopped, TypeOK, Ups, Listed

(* Without a route through one interface there is another or none. *)
LEMMA UnroutedType == TypeOK => \A i \in Netifs : Unrouted(i) \in Netifs \cup {None}
BY DEF Unrouted, TypeOK

(* The conjuncts of the type invariant, with the types of the records      *)
(* closed                                                                  *)
LEMMA TypeParts ==
  TypeOK <=>
    /\ life \in [Netifs -> {"absent", "listed", "unlisted", "removed"}]
    /\ added \in [Netifs -> BOOLEAN] /\ up \in [Netifs -> BOOLEAN]
    /\ last \in Netifs \cup {None} /\ overridden \in BOOLEAN
    /\ route \in Netifs \cup {None}
    /\ status \in [Netifs -> Status] /\ engine \in [Netifs -> Engine]
    /\ ip \in [Netifs -> IpRecord]
    /\ handler \in [pc : {"idle", "status", "start", "read", "post"},
                    netif : Netifs \cup {None}, ip : Address]
    /\ handler.pc = "idle" \/ handler.netif \in Listed \cap Client
    /\ handler.pc = "post" => handler.ip # None
BY DEF TypeOK, IpRecord, Address

(* The same in the next state *)
LEMMA TypePartsPrime ==
  TypeOK' <=>
    /\ life' \in [Netifs -> {"absent", "listed", "unlisted", "removed"}]
    /\ added' \in [Netifs -> BOOLEAN] /\ up' \in [Netifs -> BOOLEAN]
    /\ last' \in Netifs \cup {None} /\ overridden' \in BOOLEAN
    /\ route' \in Netifs \cup {None}
    /\ status' \in [Netifs -> Status] /\ engine' \in [Netifs -> Engine]
    /\ ip' \in [Netifs -> IpRecord]
    /\ handler' \in [pc : {"idle", "status", "start", "read", "post"},
                    netif : Netifs \cup {None}, ip : Address]
    /\ handler'.pc = "idle" \/ handler'.netif \in Listed' \cap Client
    /\ handler'.pc = "post" => handler'.ip # None
BY DEF TypeOK, IpRecord, Address

(* The initial state has the types. *)
LEMMA TypeInit == Init => TypeOK
<1> SUFFICES ASSUME Init PROVE TypeOK
  OBVIOUS
<1>1. ip \in [Netifs -> IpRecord]
  BY DEF Init, IpRecord, Address, Fresh, Record
<1>2. /\ handler.pc = "idle"
      /\ handler \in [pc : {"idle", "status", "start", "read", "post"},
                      netif : Netifs \cup {None}, ip : Address]
  BY DEF Init, Idle, Handling, Address
<1> QED  BY <1>1, <1>2, TypeParts DEF Init, Status, Engine

(* Every step keeps them. *)
LEMMA TypeStep == TypeOK /\ [Next]_vars => TypeOK'
<1> SUFFICES ASSUME TypeOK, [Next]_vars PROVE TypeOK'
  OBVIOUS
<1> USE DEF Status, Engine, Listed, choice
<1>a. /\ life \in [Netifs -> {"absent", "listed", "unlisted", "removed"}]
      /\ added \in [Netifs -> BOOLEAN] /\ up \in [Netifs -> BOOLEAN]
      /\ last \in Netifs \cup {None} /\ overridden \in BOOLEAN
      /\ route \in Netifs \cup {None}
      /\ status \in [Netifs -> Status] /\ engine \in [Netifs -> Engine]
      /\ ip \in [Netifs -> IpRecord]
      /\ handler \in [pc : {"idle", "status", "start", "read", "post"},
                      netif : Netifs \cup {None}, ip : Address]
      /\ handler.pc = "idle" \/ handler.netif \in Listed \cap Client
      /\ handler.pc = "post" => handler.ip # None
  BY TypeParts
<1>1. CASE \E i \in Netifs : SetDefault(i)
  BY <1>1, <1>a, TypePartsPrime DEF SetDefault
<1>2. CASE \E i \in Netifs : Expire(i)
  <2> PICK i \in Netifs : Expire(i)
    BY <1>2
  <2>1. ip[i] \in IpRecord /\ ip[i].pending > 0
    BY <1>a DEF Expire
  <2>2. /\ LostTimer(ip[i]) \in IpRecord
        /\ Record(ip[i].addr, ip[i].info, ip[i].held, ip[i].timer,
                  ip[i].pending - 1) \in IpRecord
    BY <2>1, OperatorTypes DEF IpRecord, Record
  <2>3. ip' \in [Netifs -> IpRecord]
    BY <1>a, <2>2 DEF Expire
  <2> QED  BY <1>a, <2>3, TypePartsPrime DEF Expire
<1>3. CASE \E i \in Netifs : LoseLease(i) \/ \E a \in Addresses : Lease(i, a)
  <2> PICK i \in Netifs : LoseLease(i) \/ \E a \in Addresses : Lease(i, a)
    BY <1>3
  <2>1. \A a \in Address : /\ SetAddr(ip[i], None, "nothing") \in IpRecord
                           /\ SetAddr(ip[i], a, "lease") \in IpRecord
    BY <1>a, OperatorTypes
  <2>2. ip' \in [Netifs -> IpRecord]
    BY <1>a, <2>1 DEF LoseLease, Lease, Address
  <2> QED  BY <1>a, <2>2, TypePartsPrime DEF LoseLease, Lease
<1>4. CASE \E i \in Netifs : \E a \in Address : SetIpInfo(i, a)
  <2> PICK i \in Netifs, a \in Address : SetIpInfo(i, a)
    BY <1>4
  <2> DEFINE r == SetInfo(ip[i], a)
             s == SetAddr(r, a, "static")
  <2>1. r \in IpRecord
    BY <1>a, OperatorTypes
  <2>2. s \in IpRecord
    BY <2>1, OperatorTypes
  <2>3. ip' \in [Netifs -> IpRecord]
    BY <1>a, <2>1, <2>2 DEF SetIpInfo
  <2> QED  BY <1>a, <2>3, TypePartsPrime DEF SetIpInfo
<1>b. \A i \in Netifs : DhcpStop(i, ip[i]) \in IpRecord
  BY <1>a, OperatorTypes DEF DhcpStop
<1>c. \A i \in Netifs : ResetInfo(DhcpStop(i, ip[i])) \in IpRecord
  BY <1>b, PlainTypes
<1>5. CASE \E i \in Netifs : DhcpcStop(i)
  <2> PICK i \in Netifs : DhcpcStop(i)
    BY <1>5
  <2>1. StartTimer(ResetInfo(DhcpStop(i, ip[i]))) \in IpRecord
    BY <1>c, PlainTypes
  <2>2. ip' \in [Netifs -> IpRecord]
    BY <1>a, <2>1 DEF DhcpcStop
  <2>3. status' \in [Netifs -> Status] /\ engine' \in [Netifs -> Engine]
    BY <1>a DEF DhcpcStop
  <2> QED  BY <1>a, <2>2, <2>3, TypePartsPrime DEF DhcpcStop
<1>d. ASSUME NEW i \in Netifs, StartClient(i)
      PROVE  /\ ip' \in [Netifs -> IpRecord]
             /\ status' \in [Netifs -> Status] /\ engine' \in [Netifs -> Engine]
  <2>1. Zeroed(ip[i]) \in IpRecord /\ ResetInfo(ip[i]) \in IpRecord
    BY <1>a, OperatorTypes
  <2>2. StartTimer(Zeroed(ip[i])) \in IpRecord
    BY <2>1, PlainTypes
  <2>3. ip' \in [Netifs -> IpRecord]
    BY <1>a, <1>d, <2>1, <2>2 DEF StartClient
  <2> QED  BY <1>a, <1>d, <2>3 DEF StartClient
<1>6. CASE \E i \in Netifs : DhcpcStart(i)
  BY <1>6, <1>a, <1>d, TypePartsPrime DEF DhcpcStart
<1>7. CASE \E i \in Netifs : DhcpsStart(i) \/ DhcpsStop(i)
  <2> PICK i \in Netifs : DhcpsStart(i) \/ DhcpsStop(i)
    BY <1>7
  <2>1. status' \in [Netifs -> Status] /\ engine' \in [Netifs -> Engine]
    BY <1>a DEF DhcpsStart, DhcpsStop, StartServer
  <2> QED  BY <1>a, <2>1, TypePartsPrime DEF DhcpsStart, DhcpsStop
<1>8. CASE \E i \in Netifs : \E a \in Address : New(i, a)
  <2> PICK i \in Netifs, a \in Address : New(i, a)
    BY <1>8
  <2>1. Fresh(a, ip[i].pending) \in IpRecord
    BY <1>a DEF IpRecord, Address, Fresh, Record
  <2>2. ip' \in [Netifs -> IpRecord]
    BY <1>a, <2>1 DEF New
  <2> QED  BY <1>a, <2>2, TypePartsPrime DEF New
<1>9. CASE \E i \in Netifs : DestroyBegin(i)
  BY <1>9, <1>a, TypePartsPrime DEF DestroyBegin
<1>10. CASE \E i \in Netifs : DestroyRemove(i)
  <2> PICK i \in Netifs : DestroyRemove(i)
    BY <1>10
  <2>1. engine' \in [Netifs -> Engine] /\ route' \in Netifs \cup {None}
    BY <1>a, UnroutedType DEF DestroyRemove, Cleaned
  <2> QED  BY <1>a, <2>1, TypePartsPrime DEF DestroyRemove
<1>11. CASE \E i \in Netifs : DestroyEnd(i)
  <2> PICK i \in Netifs : DestroyEnd(i)
    BY <1>11
  <2>1. Fresh(None, ip[i].pending) \in IpRecord
    BY <1>a DEF IpRecord, Address, Fresh, Record
  <2>2. ip' \in [Netifs -> IpRecord]
    BY <1>a, <2>1 DEF DestroyEnd
  <2>3. /\ last' \in Netifs \cup {None} /\ overridden' \in BOOLEAN
        /\ route' \in Netifs \cup {None}
    BY <1>a, StoppedTypes DEF DestroyEnd
  <2> QED  BY <1>a, <2>2, <2>3, TypePartsPrime DEF DestroyEnd
<1>12. CASE \E i \in Netifs : Start(i)
  <2> PICK i \in Netifs : Start(i)
    BY <1>12
  <2>1. Record(ip[i].info, ip[i].info,
               IF ip[i].info = None THEN ip[i].held ELSE "static",
               ip[i].timer, ip[i].pending) \in IpRecord
    BY <1>a DEF IpRecord, Record
  <2>2. ip' \in [Netifs -> IpRecord]
    BY <1>a, <2>1 DEF Start
  <2>3. /\ last' \in Netifs \cup {None} /\ overridden' \in BOOLEAN
        /\ route' \in Netifs \cup {None}
    <3>1. UpdateStarted(i, route) \/ UNCHANGED <<last, overridden, route>>
      BY Zenon DEF Start, choice
    <3> QED  BY <1>a, <3>1, StartedTypes
  <2>4. status' \in [Netifs -> Status] /\ engine' \in [Netifs -> Engine]
    BY <1>a DEF Start, StartServer
  <2> QED  BY <1>a, <2>2, <2>3, <2>4, TypePartsPrime DEF Start
<1>13. CASE \E i \in Netifs : StopDown(i)
  <2> PICK i \in Netifs : StopDown(i)
    BY <1>13
  <2>1. engine' \in [Netifs -> Engine] /\ route' \in Netifs \cup {None}
    BY <1>a, UnroutedType DEF StopDown, Cleaned
  <2> QED  BY <1>a, <2>1, TypePartsPrime DEF StopDown
<1>14. CASE \E i \in Netifs : Stop(i)
  <2> PICK i \in Netifs : Stop(i)
    BY <1>14
  <2>1. ip' \in [Netifs -> IpRecord]
    BY <1>a, <1>c DEF Stop
  <2>2. /\ last' \in Netifs \cup {None} /\ overridden' \in BOOLEAN
        /\ route' \in Netifs \cup {None}
    BY UnroutedType, StoppedTypes DEF Stop
  <2>3. status' \in [Netifs -> Status] /\ engine' \in [Netifs -> Engine]
    BY <1>a DEF Stop
  <2> QED  BY <1>a, <2>1, <2>2, <2>3, TypePartsPrime DEF Stop
<1>15. CASE \E i \in Netifs : Disconnected(i)
  <2> PICK i \in Netifs : Disconnected(i)
    BY <1>15
  <2> DEFINE r == IF i \in Client /\ status[i] = "started"
                  THEN ResetInfo(DhcpStop(i, ip[i])) ELSE ip[i]
             s == SetAddr(r, None, "nothing")
  <2>1. r \in IpRecord
    BY <1>a, <1>c
  <2>2. s \in IpRecord
    <3> HIDE DEF r
    <3> QED  BY <2>1, PlainTypes
  <2>3. StartTimer(s) \in IpRecord
    <3> HIDE DEF s
    <3> QED  BY <2>2, PlainTypes
  <2>4. ip' \in [Netifs -> IpRecord]
    BY <1>a, <2>2, <2>3 DEF Disconnected
  <2>5. /\ last' \in Netifs \cup {None} /\ overridden' \in BOOLEAN
        /\ route' \in Netifs \cup {None}
    BY <1>a, StoppedTypes DEF Disconnected
  <2>6. status' \in [Netifs -> Status] /\ engine' \in [Netifs -> Engine]
    BY <1>a DEF Disconnected
  <2> QED  BY <1>a, <2>4, <2>5, <2>6, TypePartsPrime DEF Disconnected
<1>16. CASE \E i \in Netifs : Connected(i)
  <2> PICK i \in Netifs : Connected(i)
    BY <1>16
  <2>1. ip[i] \in IpRecord /\ ip[i].info \in Address
    BY <1>a DEF IpRecord
  <2>2. SetAddr(ip[i], ip[i].info, "static") \in IpRecord
    BY <2>1, OperatorTypes
  <2>3. ip' \in [Netifs -> IpRecord]
    BY <1>a, <2>2 DEF Connected
  <2>4. /\ last' \in Netifs \cup {None} /\ overridden' \in BOOLEAN
        /\ route' \in Netifs \cup {None}
    <3>1. UpdateStarted(i, route)
      BY DEF Connected
    <3> QED  BY <1>a, <3>1, StartedTypes
  <2>5. /\ handler' \in [pc : {"idle", "status", "start", "read", "post"},
                         netif : Netifs \cup {None}, ip : Address]
        /\ handler'.pc = "idle" \/ handler'.netif \in Listed' \cap Client
        /\ handler'.pc # "post"
    BY <1>a DEF Connected, Driver, Handling, Idle, Address
  <2> QED  BY <1>a, <2>3, <2>4, <2>5, TypePartsPrime DEF Connected
<1>17. CASE ReadStatus
  <2>1. handler.netif \in Listed \cap Client
    BY <1>a, <1>17 DEF ReadStatus
  <2>2. /\ handler' \in [pc : {"idle", "status", "start", "read", "post"},
                         netif : Netifs \cup {None}, ip : Address]
        /\ handler'.pc = "idle" \/ handler'.netif \in Listed' \cap Client
        /\ handler'.pc # "post"
    BY <1>a, <1>17, <2>1 DEF ReadStatus, Handling, Idle, Address
  <2> QED  BY <1>a, <1>17, <2>2, TypePartsPrime DEF ReadStatus
<1>18. CASE HandlerStart
  <2>1. handler.netif \in Netifs
    BY <1>a, <1>18 DEF HandlerStart
  <2>2. /\ ip' \in [Netifs -> IpRecord]
        /\ status' \in [Netifs -> Status] /\ engine' \in [Netifs -> Engine]
    BY <1>a, <1>d, <1>18, <2>1 DEF HandlerStart
  <2>3. /\ handler' \in [pc : {"idle", "status", "start", "read", "post"},
                         netif : Netifs \cup {None}, ip : Address]
        /\ handler'.pc = "idle"
    BY <1>18 DEF HandlerStart, Handling, Idle, Address
  <2> QED  BY <1>a, <1>18, <2>2, <2>3, TypePartsPrime DEF HandlerStart
<1>19. CASE ReadIp
  <2>1. handler.netif \in Listed \cap Client
    BY <1>a, <1>19 DEF ReadIp
  <2>2. ip[handler.netif].addr \in Address /\ ip[handler.netif].info \in Address
    BY <1>a, <2>1 DEF IpRecord
  <2>3. /\ handler' \in [pc : {"idle", "status", "start", "read", "post"},
                         netif : Netifs \cup {None}, ip : Address]
        /\ handler'.pc = "idle" \/ handler'.netif \in Listed' \cap Client
        /\ handler'.pc = "post" => handler'.ip # None
    BY <1>a, <1>19, <2>1, <2>2 DEF ReadIp, Handling, Idle, Address
  <2> QED  BY <1>a, <1>19, <2>3, TypePartsPrime DEF ReadIp
<1>20. CASE PostStatic
  <2>1. /\ handler' \in [pc : {"idle", "status", "start", "read", "post"},
                         netif : Netifs \cup {None}, ip : Address]
        /\ handler'.pc = "idle"
    BY <1>20 DEF PostStatic, Handling, Idle, Address
  <2> QED  BY <1>a, <1>20, <2>1, TypePartsPrime DEF PostStatic
<1>21. CASE UNCHANGED vars
  BY <1>21, <1>a, TypePartsPrime DEF vars
<1> QED
  BY <1>1, <1>2, <1>3, <1>4, <1>5, <1>6, <1>7, <1>8, <1>9, <1>10, <1>11, <1>12,
     <1>13, <1>14, <1>15, <1>16, <1>17, <1>18, <1>19, <1>20, <1>21 DEF Next, Address

\* The variables keep their types, and the handler that runs between other tasks'
\* calls (esp_netif_action_connected) always works on an interface that exists.
THEOREM TypeCorrect == Spec => []TypeOK
BY TypeInit, TypeStep, PTL DEF Spec

-----------------------------------------------------------------------------
(* The choice of the default interface *)

(* esp_netif_update_default_netif after an interface came up makes the     *)
(* best the default.                                                       *)
LEMMA StartedChoice ==
  ASSUME TypeOK, TypeOK', DefaultIsBest, ChoiceIsListed,
         NEW i \in Listed, ~up[i], UNCHANGED life,
         \A j \in Netifs : j # i => up'[j] = up[j],
         UpdateStarted(i, route)
  PROVE  DefaultIsBest' /\ ChoiceIsListed'
<1> USE DEF Listed, Settled
<1> DEFINE prev == IF last \in Listed' THEN last ELSE None
           next == IF prev \in Ups /\ Prio[prev] > Prio[i] THEN prev
                   ELSE IF i \in Ups THEN i ELSE None
<1>1. CASE Stands
  BY <1>1 DEF UpdateStarted, Stands, DefaultIsBest, ChoiceIsListed
<1>2. CASE ~Stands
  <2>1. /\ overridden' = FALSE
        /\ last' = IF next = None THEN prev ELSE next
        /\ route' = IF next = None THEN route ELSE next
    BY <1>2 DEF UpdateStarted
  <2>2. ChoiceIsListed'
    BY <2>1 DEF ChoiceIsListed
  <2>3. last' # None => life'[last'] # "absent"
    BY <2>1 DEF Ups
  <2>4. route' # None => life'[route'] \in {"listed", "unlisted"}
    BY <2>1 DEF Ups, DefaultIsBest
  <2>5. ASSUME Settled'
        PROVE  /\ last' # None => last' \in Listed' /\ up'[last'] /\ route' = last'
               /\ \A j \in Listed' \ Server :
                    up'[j] => last' # None /\ Prio[j] <= Prio[last']
    <3>1. Settled /\ ~overridden
      BY <1>2, <2>5 DEF Stands, ChoiceIsListed
    <3>2. /\ last # None => last \in Listed /\ up[last] /\ route = last
          /\ \A j \in Listed \ Server : up[j] => last # None /\ Prio[j] <= Prio[last]
      BY <3>1 DEF DefaultIsBest
    <3>3. prev = last /\ last # i
      BY <3>2 DEF TypeOK
    <3>4. last # None => last \in Ups
      BY <3>2, <3>3 DEF Ups, TypeOK
    <3>5. \A j \in Netifs : Prio[j] \in Nat
      OBVIOUS
    <3>6. CASE last # None /\ Prio[last] > Prio[i]
      <4>1. last' = last /\ route' = last
        BY <2>1, <3>3, <3>4, <3>6
      <4> QED  BY <4>1, <3>2, <3>3, <3>4, <3>5, <3>6 DEF Ups, TypeOK
    <3>7. CASE ~(last # None /\ Prio[last] > Prio[i]) /\ i \in Ups
      <4>1. next = i /\ i # None
        BY <3>3, <3>4, <3>7 DEF Ups
      <4>2. last' = i /\ route' = i
        BY <2>1, <4>1
      <4> QED  BY <4>2, <3>2, <3>5, <3>7 DEF Ups, TypeOK
    <3>8. CASE ~(last # None /\ Prio[last] > Prio[i]) /\ i \notin Ups
      <4>1. last' = last /\ route' = route
        BY <2>1, <3>3, <3>4, <3>8
      <4>2. ~up'[i]
        BY <3>8 DEF Ups, TypeOK
      <4> QED  BY <4>1, <4>2, <3>2, <3>3 DEF TypeOK
    <3> QED  BY <3>6, <3>7, <3>8
  <2> QED  BY <2>2, <2>3, <2>4, <2>5 DEF DefaultIsBest
<1> QED  BY <1>1, <1>2

(* And so it does after an interface went down or was removed. *)
LEMMA StoppedChoice ==
  ASSUME TypeOK, TypeOK', NEW r \in Netifs \cup {None},
         r # None => life'[r] \in {"listed", "unlisted"},
         UpdateStopped(r)
  PROVE  DefaultIsBest' /\ ChoiceIsListed'
<1> USE DEF Listed, Settled
<1>1. CASE Stands
  BY <1>1 DEF UpdateStopped, Stands, DefaultIsBest, ChoiceIsListed, TypeOK
<1>2. CASE ~Stands /\ Ups = {}
  BY <1>2 DEF UpdateStopped, Ups, DefaultIsBest, ChoiceIsListed
<1>3. CASE ~Stands /\ Ups # {}
  <2>1. PICK best \in {i \in Ups : \A j \in Ups : Prio[j] <= Prio[i]} :
          last' = best /\ route' = best
    BY <1>3 DEF UpdateStopped
  <2>2. overridden' = FALSE
    BY <1>3 DEF UpdateStopped
  <2>3. best \in Listed' /\ up'[best] /\ best # None
    BY DEF Ups
  <2> QED  BY <2>1, <2>2, <2>3 DEF Ups, DefaultIsBest, ChoiceIsListed
<1> QED  BY <1>1, <1>2, <1>3

(* Every step leaves the best interface, or the one chosen by hand, the    *)
(* default.                                                                *)
LEMMA ChoiceStep == IInv /\ TypeOK' /\ [Next]_vars => DefaultIsBest' /\ ChoiceIsListed'
<1> SUFFICES ASSUME IInv, TypeOK', [Next]_vars PROVE DefaultIsBest' /\ ChoiceIsListed'
  OBVIOUS
<1>a. TypeOK /\ DefaultIsBest /\ StatusAgrees /\ Gone /\ ChoiceIsListed
  BY DEF IInv
<1>b. UNCHANGED <<life, up, last, overridden, route>> => DefaultIsBest' /\ ChoiceIsListed'
  BY <1>a DEF DefaultIsBest, ChoiceIsListed, Settled, Listed
<1>c. \A i \in Netifs : /\ Unrouted(i) \in Netifs \cup {None}
                        /\ Unrouted(i) # None => life[Unrouted(i)] \in {"listed", "unlisted"}
  BY <1>a DEF Unrouted, TypeOK, DefaultIsBest
<1>d. route \in Netifs \cup {None} /\ (route # None => life[route] \in {"listed", "unlisted"})
  BY <1>a DEF TypeOK, DefaultIsBest
<1>1. CASE \E i \in Netifs : SetDefault(i)
  BY <1>1, <1>a DEF SetDefault, DefaultIsBest, ChoiceIsListed, Settled, Listed
<1>2. CASE \/ \E i \in Netifs :
                \/ Expire(i) \/ LoseLease(i) \/ DhcpcStop(i) \/ DhcpcStart(i)
                \/ DhcpsStart(i) \/ DhcpsStop(i)
                \/ \E a \in Addresses : Lease(i, a)
                \/ \E a \in Address : SetIpInfo(i, a)
           \/ ReadStatus \/ HandlerStart \/ ReadIp \/ PostStatic
  <2>1. UNCHANGED <<life, up, last, overridden, route>>
    BY <1>2 DEF Expire, LoseLease, DhcpcStop, DhcpcStart, DhcpsStart, DhcpsStop, Lease,
                SetIpInfo, ReadStatus, HandlerStart, ReadIp, PostStatic, choice
  <2> QED  BY <2>1, <1>b
<1>3. CASE \E i \in Netifs : \E a \in Address : New(i, a)
  <2> PICK i \in Netifs, a \in Address : New(i, a)
    BY <1>3
  <2>1. ~up[i] /\ life[i] = "absent" /\ Settled
    BY <1>a DEF New, Gone
  <2>2. /\ life' = [life EXCEPT ![i] = "listed"] /\ UNCHANGED up
        /\ UNCHANGED <<last, overridden, route>>
    BY DEF New, choice
  <2>3. Listed' = Listed \cup {i}
    BY <1>a, <2>2 DEF Listed, TypeOK
  <2> QED  BY <1>a, <2>1, <2>2, <2>3 DEF DefaultIsBest, ChoiceIsListed, TypeOK
<1>4. CASE \E i \in Netifs : DestroyBegin(i)
  <2> PICK i \in Netifs : DestroyBegin(i)
    BY <1>4
  <2>1. /\ life' = [life EXCEPT ![i] = "unlisted"]
        /\ UNCHANGED <<last, overridden, route>>
    BY DEF DestroyBegin, choice
  <2>2. ~Settled'
    BY <1>a, <2>1 DEF Settled, TypeOK
  <2> QED  BY <1>a, <2>1, <2>2 DEF DefaultIsBest, ChoiceIsListed, TypeOK
<1>5. CASE \E i \in Netifs : DestroyRemove(i)
  <2> PICK i \in Netifs : DestroyRemove(i)
    BY <1>5
  <2>1. /\ life' = [life EXCEPT ![i] = "removed"]
        /\ UNCHANGED <<last, overridden>> /\ route' = Unrouted(i)
    BY DEF DestroyRemove
  <2>2. ~Settled'
    BY <1>a, <2>1 DEF Settled, TypeOK
  <2> QED  BY <1>a, <2>1, <2>2 DEF DefaultIsBest, ChoiceIsListed, TypeOK, Unrouted
<1>6. CASE \E i \in Netifs : DestroyEnd(i)
  <2> PICK i \in Netifs : DestroyEnd(i)
    BY <1>6
  <2>1. life' = [life EXCEPT ![i] = "absent"] /\ life[i] = "removed" /\ UpdateStopped(route)
    BY DEF DestroyEnd
  <2>2. route # None => life'[route] \in {"listed", "unlisted"}
    BY <1>a, <1>d, <2>1 DEF TypeOK
  <2> QED  BY <1>a, <1>d, <2>1, <2>2, StoppedChoice
<1>7. CASE \E i \in Netifs : Start(i)
  <2> PICK i \in Netifs : Start(i)
    BY <1>7
  <2>1. i \in Listed /\ UNCHANGED life /\ up' = [up EXCEPT ![i] = i \in AutoUp] /\ ~added[i]
    BY DEF Start, Driver
  <2>2. ~up[i]
    BY <1>a, <2>1 DEF StatusAgrees
  <2>3. UpdateStarted(i, route) \/ (i \in Server /\ UNCHANGED <<last, overridden, route>>)
    BY Zenon DEF Start, choice
  <2>4. CASE UpdateStarted(i, route)
    <3>1. \A j \in Netifs : j # i => up'[j] = up[j]
      BY <1>a, <2>1 DEF TypeOK
    <3> QED  BY <1>a, <2>1, <2>2, <2>4, <3>1, StartedChoice
  <2>5. CASE i \in Server /\ UNCHANGED <<last, overridden, route>>
    BY <1>a, <2>1, <2>2, <2>5 DEF DefaultIsBest, ChoiceIsListed, Settled, Listed, TypeOK
  <2> QED  BY <2>3, <2>4, <2>5
<1>8. CASE \E i \in Netifs : StopDown(i)
  <2> PICK i \in Netifs : StopDown(i)
    BY <1>8
  <2>1. UNCHANGED <<life, up, last, overridden>> /\ route' = Unrouted(i) /\ ~up[i]
    BY DEF StopDown
  <2> QED  BY <1>a, <1>c, <2>1 DEF DefaultIsBest, ChoiceIsListed, Settled, Listed, Unrouted
<1>9. CASE \E i \in Netifs : Stop(i)
  <2> PICK i \in Netifs : Stop(i)
    BY <1>9
  <2>1. UNCHANGED life /\ UpdateStopped(Unrouted(i))
    BY DEF Stop
  <2> QED  BY <1>a, <1>c, <2>1, StoppedChoice
<1>10. CASE \E i \in Netifs : Disconnected(i)
  <2> PICK i \in Netifs : Disconnected(i)
    BY <1>10
  <2>1. UNCHANGED life /\ UpdateStopped(route)
    BY DEF Disconnected
  <2> QED  BY <1>a, <1>d, <2>1, StoppedChoice
<1>11. CASE \E i \in Netifs : Connected(i)
  <2> PICK i \in Netifs : Connected(i)
    BY <1>11
  <2>1. /\ i \in Listed /\ ~up[i] /\ UNCHANGED life /\ UpdateStarted(i, route)
        /\ up' = [up EXCEPT ![i] = TRUE]
    BY DEF Connected, Driver
  <2>2. \A j \in Netifs : j # i => up'[j] = up[j]
    BY <1>a, <2>1 DEF TypeOK
  <2> QED  BY <1>a, <2>1, <2>2, StartedChoice
<1>12. CASE UNCHANGED vars
  BY <1>12, <1>b DEF vars, choice
<1> QED
  BY <1>1, <1>2, <1>3, <1>4, <1>5, <1>6, <1>7, <1>8, <1>9, <1>10, <1>11, <1>12
     DEF Next, Address

-----------------------------------------------------------------------------
(* The DHCP client and server, and lwIP's list *)

(* Every step leaves the fields of an interface in agreement with its      *)
(* client and server.                                                      *)
LEMMA StatusStep ==
  IInv /\ TypeOK' /\ [Next]_vars => StatusAgrees' /\ Gone'
<1> SUFFICES ASSUME IInv, TypeOK', [Next]_vars PROVE StatusAgrees' /\ Gone'
  OBVIOUS
<1> USE DEF Listed
<1>a. TypeOK /\ StatusAgrees /\ Gone
  BY DEF IInv
<1>t. /\ life \in [Netifs -> {"absent", "listed", "unlisted", "removed"}]
      /\ added \in [Netifs -> BOOLEAN] /\ up \in [Netifs -> BOOLEAN]
      /\ status \in [Netifs -> Status] /\ engine \in [Netifs -> Engine]
  BY <1>a DEF TypeOK
<1>b. UNCHANGED <<life, added, up, status, engine>> => StatusAgrees' /\ Gone'
  BY <1>a DEF StatusAgrees, Gone
<1>1. CASE \/ \E i \in Netifs :
                \/ SetDefault(i) \/ Expire(i) \/ \E a \in Address : SetIpInfo(i, a)
           \/ ReadStatus \/ ReadIp \/ PostStatic
  <2>1. UNCHANGED <<life, added, up, status, engine>>
    BY <1>1 DEF SetDefault, Expire, SetIpInfo, ReadStatus, ReadIp, PostStatic
  <2> QED  BY <2>1, <1>b
<1>2. CASE \E i \in Netifs : LoseLease(i) \/ \E a \in Addresses : Lease(i, a)
  BY <1>2, <1>a, <1>t DEF LoseLease, Lease, StatusAgrees, Gone
<1>3. CASE \E i \in Netifs : DhcpcStop(i)
  BY <1>3, <1>a, <1>t DEF DhcpcStop, StatusAgrees, Gone
<1>c. ASSUME NEW i \in Listed \cap Client, StartClient(i), UNCHANGED <<life, added, up>>
      PROVE  StatusAgrees' /\ Gone'
  BY <1>c, <1>a, <1>t DEF StartClient, StatusAgrees, Gone
<1>4. CASE \E i \in Netifs : DhcpcStart(i)
  BY <1>4, <1>c DEF DhcpcStart
<1>5. CASE HandlerStart
  <2>1. handler.netif \in Listed \cap Client
    BY <1>5, <1>a DEF HandlerStart, TypeOK
  <2> QED  BY <1>5, <2>1, <1>b, <1>c DEF HandlerStart
<1>6. CASE \E i \in Netifs : DhcpsStart(i)
  BY <1>6, <1>a, <1>t DEF DhcpsStart, StartServer, StatusAgrees, Gone
<1>7. CASE \E i \in Netifs : DhcpsStop(i)
  BY <1>7, <1>a, <1>t DEF DhcpsStop, StatusAgrees, Gone
<1>8. CASE \E i \in Netifs : \E a \in Address : New(i, a)
  BY <1>8, <1>a, <1>t DEF New, StatusAgrees, Gone
<1>9. CASE \E i \in Netifs : DestroyBegin(i)
  BY <1>9, <1>a, <1>t DEF DestroyBegin, StatusAgrees, Gone
<1>10. CASE \E i \in Netifs : DestroyRemove(i)
  BY <1>10, <1>a, <1>t DEF DestroyRemove, StatusAgrees, Gone
<1>11. CASE \E i \in Netifs : DestroyEnd(i)
  BY <1>11, <1>a, <1>t DEF DestroyEnd, StatusAgrees, Gone
<1>12. CASE \E i \in Netifs : Start(i)
  <2> PICK i \in Netifs : Start(i)
    BY <1>12
  <2>1. /\ i \in Listed /\ ~added[i] /\ UNCHANGED life
        /\ added' = [added EXCEPT ![i] = TRUE] /\ up' = [up EXCEPT ![i] = i \in AutoUp]
    BY DEF Start, Driver
  <2>2. \/ UNCHANGED <<status, engine>>
        \/ i \in Server /\ status[i] = "init" /\ StartServer(i)
    BY Zenon DEF Start
  <2>3. ~up[i]
    BY <2>1, <1>a DEF StatusAgrees
  <2>4. CASE UNCHANGED <<status, engine>>
    BY <2>1, <2>3, <2>4, <1>a, <1>t DEF StatusAgrees, Gone
  <2>5. CASE i \in Server /\ status[i] = "init" /\ StartServer(i)
    BY <2>1, <2>5, <1>a, <1>t DEF StatusAgrees, Gone, StartServer
  <2> QED  BY <2>2, <2>4, <2>5
<1>13. CASE \E i \in Netifs : StopDown(i)
  BY <1>13, <1>a, <1>t DEF StopDown, Driver, Cleaned, StatusAgrees, Gone
<1>14. CASE \E i \in Netifs : Stop(i)
  BY <1>14, <1>a, <1>t DEF Stop, Driver, StatusAgrees, Gone
<1>15. CASE \E i \in Netifs : Disconnected(i)
  BY <1>15, <1>a, <1>t DEF Disconnected, Driver, StatusAgrees, Gone
<1>16. CASE \E i \in Netifs : Connected(i)
  BY <1>16, <1>a, <1>t DEF Connected, Driver, StatusAgrees, Gone
<1>17. CASE UNCHANGED vars
  BY <1>17, <1>b DEF vars
<1> QED
  BY <1>1, <1>2, <1>3, <1>4, <1>5, <1>6, <1>7, <1>8, <1>9, <1>10, <1>11, <1>12,
     <1>13, <1>14, <1>15, <1>16, <1>17 DEF Next, Address

-----------------------------------------------------------------------------
(* Addresses and the timer of lost addresses *)

Covered(r) == /\ r.held = "lease" /\ r.addr = None => r.timer
              /\ r.timer => r.pending > 0

Holds(e, r) ==
  /\ e = "bound" => r.addr # None /\ r.info = r.addr
  /\ e = "asking" => r.addr = None
  /\ r.held = "lease" /\ r.addr # None => e = "bound"

AddressOK ==
  \A i \in Listed : /\ Covered(ip[i]) /\ Holds(engine[i], ip[i])
                    /\ i \notin Client => engine[i] \notin {"asking", "bound"}

(* The two invariants on addresses, interface by interface *)
LEMMA AddressParts == AddressOK <=> LossIsCovered /\ LeaseIsHeld
BY DEF AddressOK, LossIsCovered, LeaseIsHeld, Covered, Holds

(* The same in the next state *)
LEMMA AddressPartsPrime == AddressOK' <=> LossIsCovered' /\ LeaseIsHeld'
BY DEF AddressOK, LossIsCovered, LeaseIsHeld, Covered, Holds

\* The end of a lease starts the timer, whatever ends it.
LEMMA EndOfLease ==
  ASSUME NEW r \in IpRecord, NEW e \in Engine, Covered(r), Holds(e, r), e = "bound"
  PROVE  LET s == SetAddr(r, None, "nothing")
         IN  s.addr = None /\ s.timer /\ s.pending > 0
BY DEF SetAddr, DhcpcCb, StartTimer, Record, IpRecord, Covered, Holds

(* Changes of an address without a lease leave each lost lease covered by  *)
(* its timer.                                                              *)
LEMMA OtherChanges ==
  ASSUME NEW r \in IpRecord, NEW e \in Engine, NEW a \in Address,
         Covered(r), Holds(e, r), e \notin {"asking", "bound"}
  PROVE  /\ Covered(StartTimer(r)) /\ Holds(e, StartTimer(r))
         /\ Covered(ResetInfo(r)) /\ Holds(e, ResetInfo(r))
         /\ Covered(SetInfo(r, a)) /\ Holds(e, SetInfo(r, a))
         /\ Covered(SetAddr(r, None, "nothing")) /\ Holds(e, SetAddr(r, None, "nothing"))
         /\ Covered(SetAddr(r, a, "static")) /\ Holds(e, SetAddr(r, a, "static"))
         /\ LET z == StartTimer(Zeroed(r))
            IN  Covered(z) /\ Holds(e, z) /\ Holds("asking", z)
<1> USE DEF Record, IpRecord, Covered, Holds, Address
<1>1. Covered(StartTimer(r)) /\ Holds(e, StartTimer(r))
  BY DEF StartTimer
<1>2. Covered(SetInfo(r, a)) /\ Holds(e, SetInfo(r, a))
  BY DEF SetInfo
<1>3. Covered(ResetInfo(r)) /\ Holds(e, ResetInfo(r))
  BY DEF ResetInfo, SetInfo
<1>4. Covered(SetAddr(r, None, "nothing")) /\ Holds(e, SetAddr(r, None, "nothing"))
  BY DEF SetAddr, DhcpcCb, StartTimer
<1>5. Covered(SetAddr(r, a, "static")) /\ Holds(e, SetAddr(r, a, "static"))
  BY DEF SetAddr, DhcpcCb, StartTimer
<1>6. LET z == StartTimer(Zeroed(r))
      IN  Covered(z) /\ Holds(e, z) /\ Holds("asking", z)
  BY DEF Zeroed, StartTimer
<1> QED  BY <1>1, <1>2, <1>3, <1>4, <1>5, <1>6

\* When the DHCP client is turned off, its lease ends and nothing else changes.
LEMMA ClientOff ==
  ASSUME TypeOK, AddressOK, StatusAgrees, NEW i \in Listed \cap Client
  PROVE  LET r == ResetInfo(DhcpStop(i, ip[i]))
             s == SetAddr(r, None, "nothing")
         IN  /\ Covered(r) /\ Holds("off", r)
             /\ Covered(StartTimer(r)) /\ Holds("off", StartTimer(r))
             /\ status[i] = "started" => Covered(s) /\ Holds("off", s)
                                         /\ StartTimer(s) = s
<1> USE DEF Record, IpRecord, Covered, Holds
<1>1. ip[i] \in IpRecord /\ engine[i] \in Engine /\ Covered(ip[i]) /\ Holds(engine[i], ip[i])
  BY TypeParts DEF AddressOK, Listed
<1>2. status[i] = "started" => engine[i] \in {"asking", "bound"}
  BY DEF StatusAgrees
<1> DEFINE q == DhcpStop(i, ip[i])
           r == ResetInfo(q)
<1>3. Covered(q) /\ Holds("off", q) /\ (status[i] = "started" => q.addr = None)
  <2>1. CASE engine[i] = "bound"
    <3>1. q = SetAddr(ip[i], None, "nothing")
      BY <2>1 DEF DhcpStop
    <3>2. q.addr = None /\ q.timer /\ q.pending > 0
      BY <1>1, <2>1, <3>1, EndOfLease
    <3> HIDE DEF q
    <3> QED  BY <3>2
  <2>2. CASE engine[i] # "bound"
    BY <1>1, <1>2, <2>2 DEF DhcpStop
  <2> QED  BY <2>1, <2>2
<1> HIDE DEF q
<1>4. r.addr = q.addr /\ r.held = q.held /\ r.timer = q.timer /\ r.pending = q.pending
      /\ r.info = None
  BY DEF ResetInfo, SetInfo
<1> HIDE DEF r
<1>5. StartTimer(r) = r
  BY <1>4 DEF StartTimer
<1>6. status[i] = "started" => SetAddr(r, None, "nothing") = r
  BY <1>3, <1>4 DEF SetAddr
<1>7. Covered(r) /\ Holds("off", r)
  BY <1>3, <1>4
<1> QED  BY <1>5, <1>6, <1>7 DEF r, q

(* Every step leaves each lost lease covered. *)
LEMMA AddressStep ==
  TypeOK /\ AddressOK /\ StatusAgrees /\ [Next]_vars => AddressOK'
<1> SUFFICES ASSUME TypeOK, AddressOK, StatusAgrees, [Next]_vars PROVE AddressOK'
  OBVIOUS
<1> USE DEF Listed
<1>t. /\ life \in [Netifs -> {"absent", "listed", "unlisted", "removed"}]
      /\ up \in [Netifs -> BOOLEAN] /\ added \in [Netifs -> BOOLEAN]
      /\ status \in [Netifs -> Status] /\ engine \in [Netifs -> Engine]
      /\ ip \in [Netifs -> IpRecord]
  BY TypeParts
<1>r. ASSUME NEW i \in Listed
      PROVE  /\ ip[i] \in IpRecord /\ engine[i] \in Engine
             /\ Covered(ip[i]) /\ Holds(engine[i], ip[i])
             /\ i \notin Client => engine[i] \notin {"asking", "bound"}
  BY <1>t DEF AddressOK
\* A step that changes one interface.
<1>o. ASSUME NEW i \in Netifs, UNCHANGED life,
             \A j \in Netifs : j # i => ip'[j] = ip[j] /\ engine'[j] = engine[j],
             i \in Listed => /\ Covered(ip'[i]) /\ Holds(engine'[i], ip'[i])
                             /\ i \notin Client => engine'[i] \notin {"asking", "bound"}
      PROVE  AddressOK'
  <2>1. \A j \in Listed : /\ Covered(ip'[j]) /\ Holds(engine'[j], ip'[j])
                          /\ j \notin Client => engine'[j] \notin {"asking", "bound"}
    BY <1>o, <1>r
  <2> QED  BY <2>1, <1>o DEF AddressOK, Covered, Holds
<1>b. UNCHANGED <<life, engine, ip>> => AddressOK'
  BY <1>t DEF AddressOK, Covered, Holds
<1>1. CASE \/ \E i \in Netifs : SetDefault(i)
           \/ ReadStatus \/ ReadIp
  BY <1>1, <1>b DEF SetDefault, ReadStatus, ReadIp
<1>2. CASE \E i \in Netifs : Expire(i)
  <2> PICK i \in Netifs : Expire(i)
    BY <1>2
  <2>1. /\ ip[i].pending > 0 /\ UNCHANGED <<life, engine>>
        /\ i \in Listed => ip' = [ip EXCEPT ![i] = LostTimer(ip[i])]
        /\ \A j \in Netifs : j # i => ip'[j] = ip[j]
    BY <1>t DEF Expire
  <2>2. ASSUME i \in Listed
        PROVE  Covered(LostTimer(ip[i])) /\ Holds(engine[i], LostTimer(ip[i]))
    BY <1>r, <2>2 DEF LostTimer, Record, Covered, Holds, IpRecord
  <2> QED  BY <1>t, <1>r, <1>o, <2>1, <2>2
<1>3. CASE \E i \in Netifs : \E a \in Addresses : Lease(i, a)
  <2> PICK i \in Netifs, a \in Addresses : Lease(i, a)
    BY <1>3
  <2>1. /\ i \in Listed /\ engine[i] = "asking" /\ UNCHANGED life
        /\ engine' = [engine EXCEPT ![i] = "bound"]
        /\ ip' = [ip EXCEPT ![i] = SetAddr(ip[i], a, "lease")]
    BY DEF Lease
  <2>2. /\ Covered(SetAddr(ip[i], a, "lease"))
        /\ Holds("bound", SetAddr(ip[i], a, "lease"))
    BY <1>r, <2>1 DEF SetAddr, DhcpcCb, Record, Covered, Holds, IpRecord
  <2> QED  BY <1>t, <1>r, <1>o, <2>1, <2>2
<1>4. CASE \E i \in Netifs : LoseLease(i)
  <2> PICK i \in Netifs : LoseLease(i)
    BY <1>4
  <2>1. /\ i \in Listed /\ engine[i] = "bound" /\ UNCHANGED life
        /\ engine' = [engine EXCEPT ![i] = "asking"]
        /\ ip' = [ip EXCEPT ![i] = SetAddr(ip[i], None, "nothing")]
    BY DEF LoseLease
  <2>2. /\ SetAddr(ip[i], None, "nothing").addr = None
        /\ SetAddr(ip[i], None, "nothing").timer
        /\ SetAddr(ip[i], None, "nothing").pending > 0
    BY <1>r, <2>1, EndOfLease
  <2>3. /\ Covered(SetAddr(ip[i], None, "nothing"))
        /\ Holds("asking", SetAddr(ip[i], None, "nothing"))
    BY <2>2 DEF Covered, Holds
  <2> QED  BY <1>t, <1>r, <1>o, <2>1, <2>3
<1>5. CASE \E i \in Netifs : \E a \in Address : SetIpInfo(i, a)
  <2> PICK i \in Netifs, a \in Address : SetIpInfo(i, a)
    BY <1>5
  <2> DEFINE r == SetInfo(ip[i], a)
             s == SetAddr(r, a, "static")
  <2>1. /\ i \in Listed /\ UNCHANGED <<life, engine>>
        /\ i \in Client \cup Server => status[i] = "stopped"
        /\ ip' = [ip EXCEPT ![i] = IF up[i] THEN s ELSE r]
    BY DEF SetIpInfo
  <2>2. engine[i] \notin {"asking", "bound"}
    BY <1>r, <2>1 DEF StatusAgrees
  <2>3. r \in IpRecord /\ Covered(r) /\ Holds(engine[i], r)
    <3>1. SetInfo(ip[i], a) \in IpRecord
      BY <1>r, <2>1, OperatorTypes
    <3> QED  BY <1>r, <2>1, <2>2, <3>1, OtherChanges
  <2>4. s \in IpRecord /\ Covered(s) /\ Holds(engine[i], s)
    <3> HIDE DEF r
    <3>1. SetAddr(r, a, "static") \in IpRecord
      BY <2>3, OperatorTypes
    <3> QED  BY <1>r, <2>1, <2>2, <2>3, <3>1, OtherChanges
  <2> HIDE DEF r, s
  <2> QED  BY <1>t, <1>r, <1>o, <2>1, <2>3, <2>4
<1>6. CASE \E i \in Netifs : DhcpcStop(i)
  <2> PICK i \in Netifs : DhcpcStop(i)
    BY <1>6
  <2>1. i \in Listed \cap Client /\ UNCHANGED life
    BY DEF DhcpcStop
  <2>2. CASE status[i] = "started"
    <3>1. /\ engine' = [engine EXCEPT ![i] = "off"]
          /\ ip' = [ip EXCEPT ![i] = StartTimer(ResetInfo(DhcpStop(i, ip[i])))]
      BY <2>2 DEF DhcpcStop
    <3>2. /\ Covered(StartTimer(ResetInfo(DhcpStop(i, ip[i]))))
          /\ Holds("off", StartTimer(ResetInfo(DhcpStop(i, ip[i]))))
      BY <2>1, ClientOff
    <3> QED  BY <1>t, <1>o, <2>1, <3>1, <3>2
  <2>3. CASE status[i] # "started"
    BY <2>1, <2>3, <1>b DEF DhcpcStop
  <2> QED  BY <2>2, <2>3
<1>c. ASSUME NEW i \in Listed \cap Client, StartClient(i), UNCHANGED life
      PROVE  AddressOK'
  <2>1. engine[i] \notin {"asking", "bound"}
    BY <1>c DEF StartClient, StatusAgrees
  <2>2. /\ Covered(StartTimer(Zeroed(ip[i]))) /\ Holds(engine[i], StartTimer(Zeroed(ip[i])))
        /\ Holds("asking", StartTimer(Zeroed(ip[i])))
        /\ Covered(ResetInfo(ip[i])) /\ Holds(engine[i], ResetInfo(ip[i]))
    BY <1>r, <2>1, OtherChanges DEF Address
  <2>3. \/ /\ ip' = [ip EXCEPT ![i] = StartTimer(Zeroed(ip[i]))]
           /\ UNCHANGED engine \/ engine' = [engine EXCEPT ![i] = "asking"]
        \/ ip' = [ip EXCEPT ![i] = ResetInfo(ip[i])] /\ UNCHANGED engine
    BY <1>c DEF StartClient
  <2>4. /\ \A j \in Netifs : j # i => ip'[j] = ip[j] /\ engine'[j] = engine[j]
        /\ Covered(ip'[i]) /\ Holds(engine'[i], ip'[i])
    BY <1>t, <2>2, <2>3
  <2> QED  BY <1>c, <1>o, <2>4
<1>7. CASE \E i \in Netifs : DhcpcStart(i)
  BY <1>7, <1>c DEF DhcpcStart
<1>8. CASE HandlerStart
  <2>1. handler.netif \in Listed \cap Client
    BY <1>8 DEF HandlerStart, TypeOK
  <2> QED  BY <1>8, <2>1, <1>b, <1>c DEF HandlerStart
<1>s. ASSUME NEW i \in Server, i \in Listed, UNCHANGED <<life, ip>>, NEW e \in {"serving", "quiet"},
             engine' = [engine EXCEPT ![i] = e]
      PROVE  AddressOK'
  <2>1. Covered(ip[i]) /\ Holds(e, ip[i])
    BY <1>s, <1>r DEF Holds
  <2> QED  BY <1>t, <1>o, <1>s, <2>1
<1>9. CASE \E i \in Netifs : DhcpsStart(i) \/ DhcpsStop(i)
  <2> PICK i \in Netifs : DhcpsStart(i) \/ DhcpsStop(i)
    BY <1>9
  <2>1. /\ i \in Server /\ i \in Listed /\ UNCHANGED <<life, ip>>
        /\ \/ UNCHANGED engine
           \/ \E e \in {"serving", "quiet"} : engine' = [engine EXCEPT ![i] = e]
    BY <1>t DEF DhcpsStart, DhcpsStop, StartServer
  <2> QED  BY <2>1, <1>b, <1>s
<1>10. CASE \E i \in Netifs : \E a \in Address : New(i, a)
  <2> PICK i \in Netifs, a \in Address : New(i, a)
    BY <1>10
  <2>1. /\ life' = [life EXCEPT ![i] = "listed"]
        /\ engine' = [engine EXCEPT ![i] = "off"]
        /\ ip' = [ip EXCEPT ![i] = Fresh(a, ip[i].pending)]
    BY DEF New
  <2>2. Covered(Fresh(a, ip[i].pending)) /\ Holds("off", Fresh(a, ip[i].pending))
    BY DEF Fresh, Record, Covered, Holds
  <2>3. \A j \in Netifs : life'[j] = "listed" =>
          /\ Covered(ip'[j]) /\ Holds(engine'[j], ip'[j])
          /\ j \notin Client => engine'[j] \notin {"asking", "bound"}
    BY <1>t, <1>r, <2>1, <2>2
  <2> QED  BY <2>3 DEF AddressOK, Covered, Holds
<1>11. CASE \E i \in Netifs : DestroyBegin(i) \/ DestroyRemove(i) \/ DestroyEnd(i)
  <2> PICK i \in Netifs : DestroyBegin(i) \/ DestroyRemove(i) \/ DestroyEnd(i)
    BY <1>11
  <2>1. /\ life'[i] # "listed"
        /\ \A j \in Netifs : j # i => /\ life'[j] = life[j] /\ ip'[j] = ip[j]
                                      /\ engine'[j] = engine[j]
    BY <1>t DEF DestroyBegin, DestroyRemove, DestroyEnd
  <2>2. \A j \in Netifs : life'[j] = "listed" =>
          /\ Covered(ip'[j]) /\ Holds(engine'[j], ip'[j])
          /\ j \notin Client => engine'[j] \notin {"asking", "bound"}
    BY <1>r, <2>1
  <2> QED  BY <2>2 DEF AddressOK, Covered, Holds
<1>12. CASE \E i \in Netifs : Start(i)
  <2> PICK i \in Netifs : Start(i)
    BY <1>12
  <2> DEFINE r == Record(ip[i].info, ip[i].info,
                         IF ip[i].info = None THEN ip[i].held ELSE "static",
                         ip[i].timer, ip[i].pending)
  <2>1. i \in Listed /\ ~added[i] /\ UNCHANGED life /\ ip' = [ip EXCEPT ![i] = r]
    BY DEF Start, Driver
  <2>2. \/ UNCHANGED engine
        \/ i \in Server /\ \E e \in {"serving", "quiet"} : engine' = [engine EXCEPT ![i] = e]
    BY DEF Start, StartServer
  <2>3. engine[i] \notin {"asking", "bound"}
    BY <1>r, <2>1 DEF StatusAgrees
  <2>4. Covered(r) /\ \A e \in {engine[i], "serving", "quiet"} : Holds(e, r)
    BY <1>r, <2>1, <2>3 DEF Record, Covered, Holds, IpRecord
  <2> HIDE DEF r
  <2>5. /\ \A j \in Netifs : j # i => ip'[j] = ip[j] /\ engine'[j] = engine[j]
        /\ Covered(ip'[i]) /\ Holds(engine'[i], ip'[i])
        /\ engine'[i] \notin {"asking", "bound"}
    BY <1>t, <2>1, <2>2, <2>3, <2>4
  <2> QED  BY <1>o, <2>1, <2>5
<1>13. CASE \E i \in Netifs : StopDown(i)
  <2> PICK i \in Netifs : StopDown(i)
    BY <1>13
  <2>1. i \in Listed /\ ~up[i] /\ UNCHANGED <<life, ip>>
        /\ engine' = [engine EXCEPT ![i] = IF i \in Client THEN "off" ELSE engine[i]]
    BY DEF StopDown, Driver, Cleaned
  <2>2. i \in Client => engine[i] \notin {"asking", "bound"}
    BY <1>t, <2>1 DEF StatusAgrees
  <2>3. i \in Client => Covered(ip[i]) /\ Holds("off", ip[i])
    BY <1>r, <2>1, <2>2 DEF Holds
  <2> QED  BY <1>t, <1>r, <1>o, <2>1, <2>3
<1>14. CASE \E i \in Netifs : Stop(i)
  <2> PICK i \in Netifs : Stop(i)
    BY <1>14
  <2>1. /\ i \in Listed /\ UNCHANGED life
        /\ engine' = [engine EXCEPT ![i] =
             IF i \in Server /\ engine[i] # "off" THEN "quiet" ELSE "off"]
        /\ ip' = [ip EXCEPT ![i] =
             IF i \in Client THEN ResetInfo(DhcpStop(i, ip[i])) ELSE ip[i]]
    BY DEF Stop, Driver
  <2>2. CASE i \in Client
    <3>1. /\ engine' = [engine EXCEPT ![i] = "off"]
          /\ ip' = [ip EXCEPT ![i] = ResetInfo(DhcpStop(i, ip[i]))]
      BY <2>1, <2>2
    <3>2. /\ Covered(ResetInfo(DhcpStop(i, ip[i])))
          /\ Holds("off", ResetInfo(DhcpStop(i, ip[i])))
      BY <2>1, <2>2, ClientOff
    <3> QED  BY <1>t, <1>o, <2>1, <2>2, <3>1, <3>2
  <2>3. CASE i \notin Client
    <3>1. \A e \in {"off", "quiet"} : Covered(ip[i]) /\ Holds(e, ip[i])
      BY <1>r, <2>1, <2>3 DEF Holds
    <3> QED  BY <1>t, <1>o, <2>1, <2>3, <3>1
  <2> QED  BY <2>2, <2>3
<1>15. CASE \E i \in Netifs : Disconnected(i)
  <2> PICK i \in Netifs : Disconnected(i)
    BY <1>15
  <2>1. i \in Listed /\ UNCHANGED life
    BY DEF Disconnected, Driver
  <2>2. CASE i \in Client /\ status[i] = "started"
    <3> DEFINE s == SetAddr(ResetInfo(DhcpStop(i, ip[i])), None, "nothing")
    <3>1. /\ engine' = [engine EXCEPT ![i] = "off"]
          /\ ip' = [ip EXCEPT ![i] = StartTimer(s)]
      BY <2>2 DEF Disconnected
    <3>2. Covered(s) /\ Holds("off", s) /\ StartTimer(s) = s
      BY <2>1, <2>2, ClientOff
    <3> HIDE DEF s
    <3> QED  BY <1>t, <1>o, <2>1, <2>2, <3>1, <3>2
  <2>3. CASE ~(i \in Client /\ status[i] = "started")
    <3> DEFINE s == SetAddr(ip[i], None, "nothing")
    <3>1. /\ UNCHANGED engine
          /\ ip' = [ip EXCEPT ![i] = IF i \in Client THEN StartTimer(s) ELSE s]
      BY <2>3 DEF Disconnected
    <3>2. engine[i] \notin {"asking", "bound"}
      BY <1>r, <2>1, <2>3 DEF StatusAgrees
    <3>3. s \in IpRecord
      BY <1>r, <2>1, PlainTypes
    <3>4. Covered(s) /\ Holds(engine[i], s)
      BY <1>r, <2>1, <3>2, OtherChanges DEF Address
    <3> HIDE DEF s
    <3>5. Covered(StartTimer(s)) /\ Holds(engine[i], StartTimer(s))
      BY <1>r, <2>1, <3>2, <3>3, <3>4, OtherChanges DEF Address
    <3> QED  BY <1>t, <1>r, <1>o, <2>1, <3>1, <3>4, <3>5
  <2> QED  BY <2>2, <2>3
<1>16. CASE \E i \in Netifs : Connected(i)
  <2> PICK i \in Netifs : Connected(i)
    BY <1>16
  <2>1. /\ i \in Listed /\ ~up[i] /\ UNCHANGED <<life, engine>>
        /\ ip' = [ip EXCEPT ![i] = SetAddr(ip[i], ip[i].info, "static")]
    BY DEF Connected, Driver
  <2>2. engine[i] \notin {"asking", "bound"} /\ ip[i].info \in Address
    BY <1>r, <2>1 DEF StatusAgrees, IpRecord
  <2>3. /\ Covered(SetAddr(ip[i], ip[i].info, "static"))
        /\ Holds(engine[i], SetAddr(ip[i], ip[i].info, "static"))
    BY <1>r, <2>1, <2>2, OtherChanges
  <2> QED  BY <1>t, <1>r, <1>o, <2>1, <2>3
<1>17. CASE PostStatic
  BY <1>17, <1>b DEF PostStatic
<1>18. CASE UNCHANGED vars
  BY <1>18, <1>b DEF vars
<1> QED
  BY <1>1, <1>2, <1>3, <1>4, <1>5, <1>6, <1>7, <1>8, <1>9, <1>10, <1>11, <1>12,
     <1>13, <1>14, <1>15, <1>16, <1>17, <1>18 DEF Next, Address

-----------------------------------------------------------------------------
(* The theorems *)

\* The inductive invariant.
LEMMA Invariance == Spec => []IInv
<1>1. Init => IInv
  <2> SUFFICES ASSUME Init PROVE IInv
    OBVIOUS
  <2>1. Listed = {}
    BY DEF Init, Listed
  <2> QED  BY <2>1, TypeInit DEF Init, IInv, DefaultIsBest, StatusAgrees, LossIsCovered,
                                 Gone, ChoiceIsListed, LeaseIsHeld
<1>2. IInv /\ [Next]_vars => IInv'
  <2> SUFFICES ASSUME IInv, [Next]_vars PROVE IInv'
    OBVIOUS
  <2>1. TypeOK'
    BY TypeStep DEF IInv
  <2>2. DefaultIsBest' /\ ChoiceIsListed'
    BY <2>1, ChoiceStep
  <2>3. StatusAgrees' /\ Gone'
    BY <2>1, StatusStep
  <2>4. AddressOK'
    BY AddressParts, AddressStep DEF IInv
  <2> QED  BY <2>1, <2>2, <2>3, <2>4, AddressPartsPrime DEF IInv
<1> QED  BY <1>1, <1>2, PTL DEF Spec

\* The default that esp_netif_update_default_netif keeps never outlives its
\* interface and, once no esp_netif_destroy is under way, is the best there is.
THEOREM BestIsDefault == Spec => []DefaultIsBest
<1>1. IInv => DefaultIsBest
  BY DEF IInv
<1> QED  BY <1>1, Invariance, PTL

\* The status fields agree with lwIP's client and with the server: esp_netif_start
\* and esp_netif_dhcps_start never start a server that runs.
THEOREM StatusIsTrue == Spec => []StatusAgrees
<1>1. IInv => StatusAgrees
  BY DEF IInv
<1> QED  BY <1>1, Invariance, PTL

\* Whatever takes a leased address away, the timer that reports its loss runs.
THEOREM LossOfLeaseIsCovered == Spec => []LossIsCovered
<1>1. IInv => LossIsCovered
  BY DEF IInv
<1> QED  BY <1>1, Invariance, PTL

\* esp_netif_set_default_netif: the choice by hand survives every event but
\* another choice, until the destruction of its interface has begun.
THEOREM ManualDefaultIsKept == Spec => ManualDefaultHolds
<1>1. ASSUME TypeOK, [Next]_vars, overridden, last \in Listed,
             ~(\E i \in Netifs : SetDefault(i))
      PROVE  overridden' /\ last' = last
  <2> USE DEF Listed
  <2>1. ASSUME UNCHANGED <<last, overridden>>
        PROVE  overridden' /\ last' = last
    BY <1>1, <2>1
  <2>2. ASSUME NEW i \in Netifs, life'[last] = "listed",
               \/ UpdateStopped(route) \/ UpdateStopped(Unrouted(i))
               \/ UpdateStarted(i, route)
        PROVE  overridden' /\ last' = last
    <3>1. Stands
      BY <1>1, <2>2 DEF Stands
    <3>2. CASE UpdateStopped(route)
      BY <1>1, <3>1, <3>2 DEF UpdateStopped
    <3>3. CASE UpdateStopped(Unrouted(i))
      BY <1>1, <3>1, <3>3 DEF UpdateStopped
    <3>4. CASE UpdateStarted(i, route)
      BY <1>1, <3>1, <3>4 DEF UpdateStarted
    <3> QED  BY <2>2, <3>2, <3>3, <3>4
  <2>3. CASE \E i \in Netifs : DestroyEnd(i)
    <3> PICK i \in Netifs : DestroyEnd(i)
      BY <2>3
    <3>1. UpdateStopped(route) /\ life'[last] = "listed"
      BY <1>1 DEF DestroyEnd, TypeOK
    <3> QED  BY <3>1, <2>2
  <2>4. CASE \E i \in Netifs : Start(i)
    <3> PICK i \in Netifs : Start(i)
      BY <2>4
    <3>1. UpdateStarted(i, route) \/ UNCHANGED <<last, overridden>>
      BY Zenon DEF Start, choice
    <3>2. life'[last] = "listed"
      BY <1>1 DEF Start
    <3>3. CASE UpdateStarted(i, route)
      BY <3>2, <3>3, <2>2
    <3>4. CASE UNCHANGED <<last, overridden>>
      BY <3>4, <2>1
    <3> QED  BY <3>1, <3>3, <3>4
  <2>5. CASE \E i \in Netifs : Connected(i)
    <3> PICK i \in Netifs : Connected(i)
      BY <2>5
    <3>1. UpdateStarted(i, route) /\ life'[last] = "listed"
      BY <1>1 DEF Connected
    <3> QED  BY <3>1, <2>2
  <2>6. CASE \E i \in Netifs : Stop(i)
    <3> PICK i \in Netifs : Stop(i)
      BY <2>6
    <3>1. UpdateStopped(Unrouted(i)) /\ life'[last] = "listed"
      BY <1>1 DEF Stop
    <3> QED  BY <3>1, <2>2
  <2>7. CASE \E i \in Netifs : Disconnected(i)
    <3> PICK i \in Netifs : Disconnected(i)
      BY <2>7
    <3>1. UpdateStopped(route) /\ life'[last] = "listed"
      BY <1>1 DEF Disconnected
    <3> QED  BY <3>1, <2>2
  <2>8. CASE \/ \E i \in Netifs :
                  \/ Expire(i) \/ LoseLease(i) \/ DhcpcStop(i) \/ DhcpcStart(i)
                  \/ DhcpsStart(i) \/ DhcpsStop(i)
                  \/ DestroyBegin(i) \/ DestroyRemove(i) \/ StopDown(i)
                  \/ \E a \in Addresses : Lease(i, a)
                  \/ \E a \in Address : SetIpInfo(i, a) \/ New(i, a)
             \/ ReadStatus \/ HandlerStart \/ ReadIp \/ PostStatic
             \/ UNCHANGED vars
    <3>1. UNCHANGED <<last, overridden>>
      BY <2>8 DEF Expire, LoseLease, DhcpcStop, DhcpcStart, DhcpsStart, DhcpsStop,
                  DestroyBegin, DestroyRemove, StopDown, Lease, SetIpInfo, New,
                  ReadStatus, HandlerStart, ReadIp, PostStatic, vars, choice
    <3> QED  BY <3>1, <2>1
  <2> QED
    BY <1>1, <2>3, <2>4, <2>5, <2>6, <2>7, <2>8 DEF Next, Address
<1>2. TypeOK /\ [Next]_vars =>
        [overridden /\ last \in Listed /\ ~(\E i \in Netifs : SetDefault(i))
         => overridden' /\ last' = last]_vars
  BY <1>1
<1> QED  BY <1>2, TypeCorrect, PTL DEF Spec, ManualDefaultHolds

===============================================================================
