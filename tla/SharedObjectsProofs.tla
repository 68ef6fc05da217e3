-------------------------- MODULE SharedObjectsProofs -------------------------
(***************************************************************************)
(* What the shared objects promise, for any number of objects and tasks.   *)
(* One part after the other has its inductive invariant, its steps and its *)
(* theorems; at the end the composition is shown to do what its parts do.  *)
(***************************************************************************)
EXTENDS SharedObjects, FiniteSetTheorems, SequenceTheorems, TLAPS

-----------------------------------------------------------------------------
(* The L2 TAP device (L2Tap), for any number of descriptors, tasks and     *)
(* frames and any capacity of the queues.  Three invariants, the later     *)
(* ones on top of the first: who holds a socket and its queue, which       *)
(* selects are told, and where each frame is.                              *)

(* The module of the device counts with the same operator as this one. *)
LEMMA TapCardinality ==
  ASSUME NEW S
  PROVE  Tap!Cardinality(S) = Cardinality(S)
BY Zenon DEF Tap!Cardinality, Cardinality

-----------------------------------------------------------------------------
(* The invariants *)

SockStates == {"ready", "opened", "closing"}
TapPcs == {"idle", "opening", "setting", "receiving", "remark", "closing", "waiting", "select"}
RxPcs == {"idle", "state", "match", "push", "notify"}
Cleaners == {"none", "mark", "pop", "flush", "given"}
QueueEntries == [buff : Frames \cup {"NULL"}, len : {0, 1}]
Sockets == [state : SockStates, driver : Drivers \cup {NoDriver}, filter : EthTypes \cup {0},
            nonblock : BOOLEAN, alive : BOOLEAN, queue : Seq(QueueEntries)]
TapRecords == [pc : TapPcs, fd : Fds, orig : SUBSET Fds, ready : SUBSET Fds]
RxRecords == [pc : RxPcs, fd : Fds, frame : Frames \cup {"NULL"}, type : EthTypes \cup {0},
              driver : Drivers \cup {NoDriver}, size : {0, 1}, early : BOOLEAN]

TapTypeOK ==
  /\ socks \in [Fds -> Sockets] /\ taps \in [Tapers -> TapRecords]
  /\ cleaner \in [Fds -> Cleaners] /\ tapRx \in RxRecords
  /\ allocated \subseteq Frames /\ shared \in BOOLEAN

(* The state of a socket, its queue and its cleaner *)
SocketsInOrder ==
  \A f \in Fds :
    /\ socks[f].state = "ready" => ~socks[f].alive
    /\ socks[f].state # "closing" => cleaner[f] = "none"
    /\ socks[f].state = "closing" => socks[f].alive = (cleaner[f] # "given")
    /\ socks[f].state = "opened" /\ ~socks[f].alive => \E t \in Tapers : Tap!At(t, "opening", f)
    /\ ~socks[f].alive => socks[f].queue = <<>>
    /\ Len(socks[f].queue) <= RX_QUEUE_MAX_SIZE

(* The task that opens or closes a descriptor *)
OwnerPcs == {"opening", "setting", "closing", "waiting"}
OwnersInOrder ==
  \A t \in Tapers :
    LET f == taps[t].fd IN
    /\ taps[t].pc = "opening" => socks[f].state = "opened" /\ ~socks[f].alive
    /\ taps[t].pc = "setting" => socks[f].state = "opened" /\ socks[f].alive
    /\ taps[t].pc = "closing" => socks[f].state = "closing" /\ cleaner[f] = "none"
    /\ taps[t].pc = "waiting" => socks[f].state = "closing" /\ cleaner[f] # "none"
OneOwner ==
  \A t, u \in Tapers :
    taps[t].pc \in OwnerPcs /\ taps[u].pc \in OwnerPcs /\ taps[t].fd = taps[u].fd => t = u

(* The readers and the receiver *)
Reads(t, f) == Tap!At(t, "receiving", f) \/ Tap!At(t, "remark", f)
UsersInOrder ==
  /\ \A t \in Tapers : taps[t].pc \in {"receiving", "remark"} => socks[taps[t].fd].alive
  /\ tapRx.pc \in {"match", "push"} =>
       (tapRx.early \/ socks[tapRx.fd].alive) /\ cleaner[tapRx.fd] \in {"none", "mark"}

(* The mark of a close wakes one reader after the other. *)
MarkGoesRound(f) ==
  \/ socks[f].queue = <<Tap!Mark>> /\ \A t \in Tapers : ~Tap!At(t, "remark", f)
  \/ /\ socks[f].queue = <<>>
     /\ \E t \in Tapers : Tap!At(t, "remark", f) /\ \A u \in Tapers : Tap!At(u, "remark", f) => u = t
  \/ /\ \A t \in Tapers : ~Reads(t, f)
     /\ cleaner[f] = "pop" => socks[f].queue # <<>>
ReadersWake == \A f \in Fds : cleaner[f] \in {"pop", "flush"} => MarkGoesRound(f)

TapInv == TapTypeOK /\ SocketsInOrder /\ OwnersInOrder /\ OneOwner /\ UsersInOrder /\ ReadersWake

(* The tasks that select *)
SelectInv ==
  /\ \A t \in Tapers : taps[t].pc # "select" => taps[t].orig = {}
  /\ Tap!SelectIsTold

(* Where frames are *)
OneEach ==
  \A f, g \in Fds : \A i \in 1 .. Len(socks[f].queue), j \in 1 .. Len(socks[g].queue) :
    socks[f].queue[i].buff = socks[g].queue[j].buff /\ socks[f].queue[i].buff \in Frames => f = g /\ i = j
EntriesInOrder ==
  \A f \in Fds : \A i \in 1 .. Len(socks[f].queue) :
    \/ socks[f].queue[i] = Tap!Mark /\ socks[f].state = "closing"
    \/ socks[f].queue[i].len = 1 /\ socks[f].queue[i].buff \in allocated
RemarksInOrder == \A t \in Tapers : taps[t].pc = "remark" => socks[taps[t].fd].state = "closing"
InQueue(b) == \E f \in Fds : \E i \in 1 .. Len(socks[f].queue) : socks[f].queue[i].buff = b
AllHeld ==
  /\ \A b \in Frames : Tap!Received(b) => b \in allocated /\ ~InQueue(b)
  /\ \A b \in allocated : Tap!Received(b) \/ InQueue(b)
  /\ tapRx.pc # "idle" => tapRx.frame \in Frames
  /\ tapRx.pc = "notify" => tapRx.size = 1
FrameOrder == OneEach /\ EntriesInOrder /\ RemarksInOrder /\ AllHeld
FrameInv == ~shared => FrameOrder

-----------------------------------------------------------------------------
(* The operators of the model, and the types *)

(* The entry that close puts into a queue holds no frame. *)
LEMMA MarkIs == Tap!Mark \in QueueEntries /\ Tap!Mark.len = 0 /\ Tap!Mark.buff = "NULL"
BY DEF Tap!Mark, QueueEntries

(* push_rx_queue adds an entry where there is room, and changes nothing else. *)
LEMMA PushedIs ==
  ASSUME NEW s \in Sockets, NEW e \in QueueEntries
  PROVE  /\ Tap!Pushed(s, e) \in Sockets
         /\ Tap!Pushed(s, e).state = s.state /\ Tap!Pushed(s, e).alive = s.alive
         /\ Tap!Pushed(s, e).nonblock = s.nonblock
         /\ Len(s.queue) < RX_QUEUE_MAX_SIZE => Tap!Pushed(s, e).queue = Append(s.queue, e)
         /\ ~(Len(s.queue) < RX_QUEUE_MAX_SIZE) => Tap!Pushed(s, e).queue = s.queue
BY DEF Tap!Pushed, Sockets

(* Idle tasks and an idle receiver are of the right type. *)
LEMMA IdleIs ==
  /\ Tap!IdleTap \in TapRecords /\ Tap!IdleTap.pc = "idle" /\ Tap!IdleTap.orig = {} /\ Tap!IdleTap.ready = {}
  /\ Tap!IdleRx \in RxRecords /\ Tap!IdleRx.pc = "idle"
BY TapsAssumption DEF Tap!IdleTap, Tap!IdleRx, TapRecords, RxRecords, TapPcs, RxPcs

(* What is left when the first entry is taken. *)
LEMMA TailIs ==
  ASSUME NEW S, NEW q \in Seq(S), q # <<>>
  PROVE  /\ Tail(q) \in Seq(S) /\ Head(q) \in S /\ Head(q) = q[1]
         /\ Len(q) \in Nat \ {0} /\ Len(Tail(q)) = Len(q) - 1
         /\ \A i \in 1 .. Len(q) - 1 : Tail(q)[i] = q[i + 1]
  OBVIOUS

(* What is there when an entry is added. *)
LEMMA AppendIs ==
  ASSUME NEW S, NEW q \in Seq(S), NEW e \in S
  PROVE  /\ Append(q, e) \in Seq(S) /\ Append(q, e) # <<>>
         /\ Len(q) \in Nat /\ Len(Append(q, e)) = Len(q) + 1
         /\ \A i \in 1 .. Len(q) : Append(q, e)[i] = q[i]
         /\ Append(q, e)[Len(q) + 1] = e
  OBVIOUS

(* Types: l2tap_open *)
LEMMA OpenTypes ==
  ASSUME TapTypeOK, NEW t \in Tapers, NEW f \in Fds,
         \/ Tap!OpenTake(t, f) \/ Tap!OpenQueue(t, f) \/ \E nb \in BOOLEAN : Tap!OpenSet(t, f, nb)
  PROVE  TapTypeOK'
<1>1. UNCHANGED <<cleaner, tapRx, allocated, shared>>
  BY DEF Tap!OpenTake, Tap!OpenQueue, Tap!OpenSet
<1>2. socks[f] \in Sockets /\ taps[t] \in TapRecords /\ NoDriver \in Drivers \cup {NoDriver}
  BY DEF TapTypeOK
<1>3. taps' \in [Tapers -> TapRecords]
  BY <1>2, IdleIs DEF TapTypeOK, Tap!OpenTake, Tap!OpenQueue, Tap!OpenSet, Tap!Goes,
     Tap!Return, TapRecords, TapPcs
<1>4. CASE Tap!OpenTake(t, f)
  BY <1>1, <1>2, <1>3, <1>4 DEF TapTypeOK, Tap!OpenTake, Sockets, SockStates
<1>5. CASE Tap!OpenQueue(t, f)
  <2>1. <<>> \in Seq(QueueEntries)
    OBVIOUS
  <2>2. CASE socks' = [socks EXCEPT ![f].alive = TRUE, ![f].queue = <<>>]
    BY <1>1, <1>2, <1>3, <2>1, <2>2 DEF TapTypeOK, Sockets
  <2>3. CASE socks' = [socks EXCEPT ![f].state = "ready"]
    BY <1>1, <1>2, <1>3, <2>3 DEF TapTypeOK, Sockets, SockStates
  <2> QED
    BY <1>5, <2>2, <2>3 DEF Tap!OpenQueue
<1>6. ASSUME NEW nb \in BOOLEAN, Tap!OpenSet(t, f, nb) PROVE TapTypeOK'
  <2>1. socks' = [socks EXCEPT ![f].filter = 0, ![f].driver = NoDriver, ![f].nonblock = nb]
    BY <1>6 DEF Tap!OpenSet
  <2> QED
    BY <1>1, <1>2, <1>3, <2>1 DEF TapTypeOK, Sockets
<1> QED
  BY <1>4, <1>5, <1>6

(* Types: l2tap_ioctl and fcntl *)
LEMMA SetTypes ==
  ASSUME TapTypeOK, NEW t \in Tapers, NEW f \in Fds,
         \/ \E type \in EthTypes : Tap!SetFilter(t, f, type)
         \/ \E d \in Drivers : Tap!SetDriver(t, f, d)
         \/ Tap!Fcntl(t, f)
  PROVE  TapTypeOK'
<1>1. ASSUME NEW type \in EthTypes, Tap!SetFilter(t, f, type) PROVE TapTypeOK'
  BY <1>1 DEF TapTypeOK, Tap!SetFilter, Sockets
<1>2. ASSUME NEW d \in Drivers, Tap!SetDriver(t, f, d) PROVE TapTypeOK'
  BY <1>2 DEF TapTypeOK, Tap!SetDriver, Sockets
<1>3. CASE Tap!Fcntl(t, f)
  <2>1. [socks[f] EXCEPT !.nonblock = ~socks[f].nonblock] \in Sockets
    BY DEF TapTypeOK, Sockets
  <2>2. socks' = [socks EXCEPT ![f] = [socks[f] EXCEPT !.nonblock = ~socks[f].nonblock]]
    BY <1>3 DEF Tap!Fcntl, TapTypeOK
  <2>3. socks' \in [Fds -> Sockets]
    BY <2>1, <2>2 DEF TapTypeOK
  <2> QED
    BY <1>3, <2>3 DEF TapTypeOK, Tap!Fcntl
<1> QED
  BY <1>1, <1>2, <1>3

(* Types: l2tap_read *)
LEMMA ReadTypes ==
  ASSUME TapTypeOK, NEW t \in Tapers, NEW f \in Fds,
         Tap!Read(t, f) \/ Tap!Receive(t, f) \/ Tap!ReceiveNothing(t, f) \/ Tap!Remark(t, f)
  PROVE  TapTypeOK'
<1>1. CASE Tap!Read(t, f) \/ Tap!ReceiveNothing(t, f)
  BY <1>1, IdleIs DEF TapTypeOK, Tap!Read, Tap!ReceiveNothing, Tap!Goes, Tap!Return,
     TapRecords, TapPcs
<1>2. CASE Tap!Receive(t, f)
  <2>1. socks[f].queue \in Seq(QueueEntries) /\ socks[f].queue # <<>>
    BY <1>2 DEF Tap!Receive, TapTypeOK, Sockets
  <2>2. Tail(socks[f].queue) \in Seq(QueueEntries)
    BY <2>1, TailIs
  <2>3. socks' = [socks EXCEPT ![f].queue = Tail(socks[f].queue)]
    BY <1>2 DEF Tap!Receive
  <2>4. socks' \in [Fds -> Sockets]
    BY <2>2, <2>3 DEF TapTypeOK, Sockets
  <2>5. taps' \in [Tapers -> TapRecords]
    BY <1>2, IdleIs DEF Tap!Receive, Tap!Goes, Tap!Return, TapTypeOK, TapRecords, TapPcs
  <2> QED
    BY <1>2, <2>4, <2>5 DEF Tap!Receive, TapTypeOK
<1>3. CASE Tap!Remark(t, f)
  <2>1. Tap!Pushed(socks[f], Tap!Mark) \in Sockets
    BY MarkIs, PushedIs DEF TapTypeOK
  <2> QED
    BY <1>3, <2>1, IdleIs DEF Tap!Remark, Tap!Return, TapTypeOK
<1> QED
  BY <1>1, <1>2, <1>3

(* Types: l2tap_close *)
LEMMA CloseTypes ==
  ASSUME TapTypeOK, NEW t \in Tapers, NEW f \in Fds,
         Tap!Close(t, f) \/ Tap!CloseTask(t, f) \/ Tap!CloseDone(t, f)
  PROVE  TapTypeOK'
<1>1. CASE Tap!Close(t, f)
  <2>1. socks' \in [Fds -> Sockets]
    <3>1. [socks[f] EXCEPT !.state = "closing"] \in Sockets
      BY DEF TapTypeOK, Sockets, SockStates
    <3>2. socks' = [socks EXCEPT ![f] = [socks[f] EXCEPT !.state = "closing"]]
      BY <1>1 DEF Tap!Close, TapTypeOK
    <3> QED
      BY <3>1, <3>2 DEF TapTypeOK
  <2>2. taps' \in [Tapers -> TapRecords]
    <3>1. [taps[t] EXCEPT !.pc = "closing", !.fd = f] \in TapRecords
      BY DEF TapTypeOK, TapRecords, TapPcs
    <3>2. taps' = [taps EXCEPT ![t] = [taps[t] EXCEPT !.pc = "closing", !.fd = f]]
      BY <1>1 DEF Tap!Close, Tap!Goes, TapTypeOK
    <3> QED
      BY <3>1, <3>2 DEF TapTypeOK
  <2> QED
    BY <1>1, <2>1, <2>2 DEF TapTypeOK, Tap!Close
<1>2. CASE Tap!CloseTask(t, f)
  <2>1. cleaner' \in [Fds -> Cleaners]
    BY <1>2 DEF TapTypeOK, Tap!CloseTask, Cleaners
  <2>2. taps' \in [Tapers -> TapRecords]
    <3>1. [taps[t] EXCEPT !.pc = "waiting", !.fd = f] \in TapRecords
      BY DEF TapTypeOK, TapRecords, TapPcs
    <3>2. \/ taps' = [taps EXCEPT ![t] = [taps[t] EXCEPT !.pc = "waiting", !.fd = f]]
          \/ taps' = [taps EXCEPT ![t] = Tap!IdleTap]
      BY <1>2 DEF Tap!CloseTask, Tap!Goes, Tap!Return, TapTypeOK
    <3> QED
      BY <3>1, <3>2, IdleIs DEF TapTypeOK
  <2> QED
    BY <1>2, <2>1, <2>2 DEF TapTypeOK, Tap!CloseTask
<1>3. CASE Tap!CloseDone(t, f)
  <2>1. socks' \in [Fds -> Sockets]
    <3>1. [socks[f] EXCEPT !.state = "ready"] \in Sockets
      BY DEF TapTypeOK, Sockets, SockStates
    <3>2. socks' = [socks EXCEPT ![f] = [socks[f] EXCEPT !.state = "ready"]]
      BY <1>3 DEF Tap!CloseDone, TapTypeOK
    <3> QED
      BY <3>1, <3>2 DEF TapTypeOK
  <2>2. taps' \in [Tapers -> TapRecords]
    BY <1>3, IdleIs DEF TapTypeOK, Tap!CloseDone, Tap!Return
  <2>3. cleaner' \in [Fds -> Cleaners]
    BY <1>3 DEF TapTypeOK, Tap!CloseDone, Cleaners
  <2> QED
    BY <1>3, <2>1, <2>2, <2>3 DEF TapTypeOK, Tap!CloseDone
<1> QED
  BY <1>1, <1>2, <1>3

(* Types: l2tap_clean_task *)
LEMMA CleanTypes ==
  ASSUME TapTypeOK, NEW f \in Fds, Tap!Clean(f)
  PROVE  TapTypeOK'
<1>1. CASE Tap!CleanMark(f)
  <2>1. Tap!Pushed(socks[f], Tap!Mark) \in Sockets
    BY MarkIs, PushedIs DEF TapTypeOK
  <2>2. socks' \in [Fds -> Sockets]
    BY <1>1, <2>1 DEF Tap!CleanMark, TapTypeOK
  <2>3. cleaner' \in [Fds -> Cleaners]
    BY <1>1 DEF Tap!CleanMark, TapTypeOK, Cleaners
  <2> QED
    BY <1>1, <2>2, <2>3 DEF Tap!CleanMark, TapTypeOK
<1>2. CASE Tap!CleanPop(f)
  <2> DEFINE popped == [socks[f] EXCEPT !.queue = Tail(@)]
  <2>1. ASSUME socks[f].queue # <<>> PROVE popped \in Sockets /\ Tap!Pushed(popped, Tap!Mark) \in Sockets
    <3>1. Tail(socks[f].queue) \in Seq(QueueEntries)
      BY <2>1, TailIs DEF TapTypeOK, Sockets
    <3>2. popped \in Sockets
      BY <3>1 DEF TapTypeOK, Sockets
    <3> QED
      BY <3>2, MarkIs, PushedIs
  <2> HIDE DEF popped
  <2>2. cleaner' = [cleaner EXCEPT ![f] = "flush"] /\ UNCHANGED <<taps, tapRx, shared>>
    BY <1>2 DEF Tap!CleanPop
  <2>3. /\ \/ UNCHANGED socks
           \/ /\ socks[f].queue # <<>>
              /\ \E s \in {popped, Tap!Pushed(popped, Tap!Mark)} : socks' = [socks EXCEPT ![f] = s]
        /\ allocated' \subseteq allocated
    BY <1>2 DEF Tap!CleanPop, popped
  <2> QED
    BY <2>1, <2>2, <2>3 DEF TapTypeOK, Cleaners
<1>3. CASE Tap!CleanFlush(f)
  <2>1. /\ socks' = [socks EXCEPT ![f].queue = <<>>, ![f].alive = FALSE]
        /\ cleaner' = [cleaner EXCEPT ![f] = "given"] /\ UNCHANGED <<taps, tapRx, shared>>
        /\ allocated' \subseteq allocated
    BY <1>3 DEF Tap!CleanFlush
  <2>2. <<>> \in Seq(QueueEntries)
    OBVIOUS
  <2>3. socks' \in [Fds -> Sockets]
    <3>1. [socks[f] EXCEPT !.queue = <<>>, !.alive = FALSE] \in Sockets
      BY <2>2 DEF TapTypeOK, Sockets
    <3>2. socks' = [socks EXCEPT ![f] = [socks[f] EXCEPT !.queue = <<>>, !.alive = FALSE]]
      BY <2>1 DEF TapTypeOK
    <3> QED
      BY <3>1, <3>2 DEF TapTypeOK
  <2> QED
    BY <2>1, <2>3 DEF TapTypeOK, Cleaners
<1> QED
  BY <1>1, <1>2, <1>3 DEF Tap!Clean

(* Types: esp_vfs_l2tap_eth_filter *)
LEMMA FilterTypes ==
  ASSUME TapTypeOK,
         Tap!Filter \/ \E b \in Frames, type \in EthTypes, d \in Drivers : Tap!Arrive(b, type, d)
  PROVE  TapTypeOK'
<1>1. ASSUME NEW r \in RxRecords, Tap!NextFd(r)
      PROVE  tapRx' \in RxRecords /\ allocated' \subseteq allocated
  <2>1. [r EXCEPT !.pc = "state", !.fd = @ + 1, !.early = FALSE] \in RxRecords \/ r.fd + 1 \notin Fds
    BY DEF RxRecords, RxPcs
  <2> QED
    BY <1>1, <2>1, IdleIs DEF Tap!NextFd
<1>2. CASE \E b \in Frames, type \in EthTypes, d \in Drivers : Tap!Arrive(b, type, d)
  BY <1>2, TapsAssumption DEF Tap!Arrive, TapTypeOK, RxRecords, RxPcs
<1>3. CASE Tap!FilterState \/ Tap!FilterMatch
  <2>1. UNCHANGED <<socks, taps, cleaner, shared>>
    BY <1>3 DEF Tap!FilterState, Tap!FilterMatch
  <2>2. tapRx' \in RxRecords /\ allocated' \subseteq allocated
    <3>1. tapRx \in RxRecords
      BY DEF TapTypeOK
    <3>2. Tap!NextFd(tapRx) \/ (/\ UNCHANGED allocated
                         /\ \/ tapRx' = [tapRx EXCEPT !.pc = "match", !.early = Tap!Opening(tapRx.fd)]
                            \/ tapRx' = [tapRx EXCEPT !.pc = "push"])
      BY <1>3 DEF Tap!FilterState, Tap!FilterMatch
    <3>3. Tap!Opening(tapRx.fd) \in BOOLEAN
      BY DEF Tap!Opening
    <3> QED
      BY <1>1, <3>1, <3>2, <3>3 DEF RxRecords, RxPcs
  <2> QED
    BY <2>1, <2>2 DEF TapTypeOK
<1>4. CASE Tap!FilterPush
  <2>1. tapRx \in RxRecords /\ tapRx.fd \in Fds
    BY DEF TapTypeOK, RxRecords
  <2>2. [buff |-> tapRx.frame, len |-> tapRx.size] \in QueueEntries
    BY <2>1 DEF RxRecords, QueueEntries
  <2>3. Tap!Pushed(socks[tapRx.fd], [buff |-> tapRx.frame, len |-> tapRx.size]) \in Sockets
    BY <2>1, <2>2, PushedIs DEF TapTypeOK
  <2>4. socks' \in [Fds -> Sockets]
    BY <1>4, <2>1, <2>3 DEF Tap!FilterPush, TapTypeOK
  <2>5. tapRx' \in RxRecords
    BY <1>4, <2>1 DEF Tap!FilterPush, RxRecords, RxPcs
  <2> QED
    BY <1>4, <2>4, <2>5 DEF Tap!FilterPush, TapTypeOK
<1>5. CASE Tap!FilterNotify
  <2>1. tapRx \in RxRecords /\ tapRx.fd \in Fds /\ [tapRx EXCEPT !.size = 0] \in RxRecords
    BY DEF TapTypeOK, RxRecords
  <2>2. tapRx' \in RxRecords /\ allocated' \subseteq allocated
    BY <1>1, <1>5, <2>1 DEF Tap!FilterNotify
  <2>3. taps' \in [Tapers -> TapRecords]
    BY <1>5, <2>1 DEF Tap!FilterNotify, TapTypeOK, TapRecords
  <2> QED
    BY <1>5, <2>2, <2>3 DEF Tap!FilterNotify, TapTypeOK
<1> QED
  BY <1>2, <1>3, <1>4, <1>5 DEF Tap!Filter

(* Types: l2tap_start_select and l2tap_end_select *)
LEMMA SelectTypes ==
  ASSUME TapTypeOK, NEW t \in Tapers, (\E f \in Fds : Tap!StartSelect(t, {f})) \/ Tap!EndSelect(t)
  PROVE  TapTypeOK'
BY IdleIs, TapsAssumption DEF Tap!StartSelect, Tap!EndSelect, Tap!Return, TapTypeOK,
   TapRecords, TapPcs

(* Every step keeps the types. *)
LEMMA TapTypes == ASSUME TapTypeOK, [Tap!Next]_(Tap!tapVars) PROVE TapTypeOK'
<1>1. CASE UNCHANGED Tap!tapVars
  BY <1>1 DEF Tap!tapVars, TapTypeOK
<1> QED
  BY <1>1, OpenTypes, SetTypes, ReadTypes, CloseTypes, CleanTypes, FilterTypes, SelectTypes
     DEF Tap!Next, Tap!Call, Tap!Proceed

(* A task that goes on with a call; the others stay where they are. *)
LEMMA GoesIs ==
  ASSUME TapTypeOK, NEW t \in Tapers, NEW f \in Fds, NEW p, Tap!Goes(t, p, f)
  PROVE  /\ taps'[t].pc = p /\ taps'[t].fd = f /\ taps'[t].orig = taps[t].orig
         /\ \A u \in Tapers : u # t => taps'[u] = taps[u]
BY DEF Tap!Goes, TapTypeOK, TapRecords

(* A task that leaves a call; the others stay where they are. *)
LEMMA ReturnIs ==
  ASSUME TapTypeOK, NEW t \in Tapers, Tap!Return(t)
  PROVE  /\ taps'[t].pc = "idle" /\ taps'[t].orig = {}
         /\ \A u \in Tapers : u # t => taps'[u] = taps[u]
BY IdleIs DEF Tap!Return, TapTypeOK

(* The fields of a socket. *)
LEMMA SockIs ==
  ASSUME TapTypeOK, NEW f \in Fds
  PROVE  /\ socks[f] \in Sockets /\ socks[f].state \in SockStates /\ socks[f].alive \in BOOLEAN
         /\ socks[f].queue \in Seq(QueueEntries) /\ Len(socks[f].queue) \in Nat
         /\ socks[f].nonblock \in BOOLEAN
<1>1. socks[f] \in Sockets
  BY DEF TapTypeOK
<1> QED
  BY <1>1 DEF Sockets

(* The receiver and the tasks work on descriptors. *)
LEMMA FdsIn == ASSUME TapTypeOK PROVE tapRx.fd \in Fds /\ \A t \in Tapers : taps[t].fd \in Fds
BY DEF TapTypeOK, TapRecords, RxRecords

(* The marks in the other descriptors *)
LEMMA OthersWake ==
  ASSUME ReadersWake, NEW f \in Fds,
         \A g \in Fds : g # f => socks'[g] = socks[g] /\ cleaner'[g] = cleaner[g],
         NEW t \in Tapers, \A u \in Tapers : u # t => taps'[u] = taps[u],
         taps[t].pc \in {"receiving", "remark"} => taps[t].fd = f,
         taps'[t].pc \in {"receiving", "remark"} => taps'[t].fd = f
  PROVE  \A g \in Fds : g # f /\ cleaner'[g] \in {"pop", "flush"} => MarkGoesRound(g)'
<1> SUFFICES ASSUME NEW g \in Fds, g # f, cleaner'[g] \in {"pop", "flush"}
             PROVE  MarkGoesRound(g)'
  OBVIOUS
<1>1. MarkGoesRound(g)
  BY DEF ReadersWake
<1>2. \A u \in Tapers : /\ Tap!At(u, "remark", g)' <=> Tap!At(u, "remark", g)
                        /\ Reads(u, g)' <=> Reads(u, g)
  BY DEF Tap!At, Reads
<1>3. socks'[g].queue = socks[g].queue /\ cleaner'[g] = cleaner[g]
  OBVIOUS
<1> QED
  BY <1>1, <1>2, <1>3 DEF MarkGoesRound

-----------------------------------------------------------------------------
(* Sockets, queues and the mark of a close *)

(* A task that owns a descriptor changes its state. *)
LEMMA OpenTakeStep ==
  ASSUME TapInv, NEW t \in Tapers, NEW f \in Fds, Tap!OpenTake(t, f)
  PROVE  TapInv'
<1>1. TapTypeOK /\ TapTypeOK' /\ UNCHANGED <<cleaner, tapRx>>
  BY OpenTypes DEF TapInv, Tap!OpenTake
<1>2. socks[f] \in Sockets /\ Len(socks[f].queue) \in Nat /\ socks[f].alive \in BOOLEAN
  BY <1>1, SockIs
<1>3. socks[f].state = "ready" /\ ~socks[f].alive /\ cleaner[f] = "none" /\ socks[f].queue = <<>>
  BY DEF Tap!OpenTake, TapInv, SocketsInOrder
<1>4. /\ socks'[f].state = "opened" /\ ~socks'[f].alive /\ socks'[f].queue = <<>>
      /\ \A g \in Fds : g # f => socks'[g] = socks[g]
  BY <1>1, <1>2, <1>3 DEF Tap!OpenTake, TapTypeOK, Sockets
<1>5. /\ taps[t].pc = "idle" /\ taps'[t].pc = "opening" /\ taps'[t].fd = f
      /\ \A u \in Tapers : u # t => taps'[u] = taps[u]
  BY <1>1, GoesIs DEF Tap!OpenTake, Tap!May
<1>6. SocketsInOrder'
  BY <1>1, <1>3, <1>4, <1>5, TapsAssumption DEF TapInv, SocketsInOrder, Tap!At
<1>7. OwnersInOrder' /\ OneOwner'
  <2>1. \A u \in Tapers : u # t /\ taps[u].pc \in OwnerPcs => taps[u].fd \in Fds \ {f}
    BY <1>1, <1>3, FdsIn DEF TapInv, OwnersInOrder, OneOwner, OwnerPcs
  <2>2. OwnersInOrder'
    BY <1>1, <1>3, <1>4, <1>5, <2>1 DEF TapInv, OwnersInOrder, OwnerPcs
  <2>3. OneOwner'
    BY <1>5, <2>1 DEF TapInv, OneOwner, OwnerPcs
  <2> QED
    BY <2>2, <2>3
<1>8. UsersInOrder'
  <2>1. \A u \in Tapers : taps[u].pc \in {"receiving", "remark"} => taps[u].fd \in Fds \ {f}
    BY <1>1, <1>3, FdsIn DEF TapInv, UsersInOrder
  <2>2. \A u \in Tapers : taps'[u].pc \in {"receiving", "remark"} => socks'[taps'[u].fd].alive
    BY <1>5, <1>4, <2>1 DEF TapInv, UsersInOrder
  <2>3. tapRx.pc \in {"match", "push"} => tapRx.early \/ (tapRx.fd \in Fds \ {f} /\ socks[tapRx.fd].alive)
    BY <1>1, <1>3, FdsIn DEF TapInv, UsersInOrder
  <2>4. tapRx.pc \in {"match", "push"} => tapRx.early \/ socks'[tapRx.fd].alive
    BY <1>4, <1>5, <2>3
  <2> QED
    BY <1>1, <2>2, <2>4 DEF TapInv, UsersInOrder
<1>9. ReadersWake'
  BY <1>1, <1>3, <1>4, <1>5, OthersWake DEF TapInv, ReadersWake
<1> QED
  BY <1>1, <1>6, <1>7, <1>8, <1>9 DEF TapInv

(* l2tap_open makes the queue, or gives the socket back. *)
LEMMA OpenQueueStep ==
  ASSUME TapInv, NEW t \in Tapers, NEW f \in Fds, Tap!OpenQueue(t, f)
  PROVE  TapInv'
<1>1. TapTypeOK /\ TapTypeOK' /\ UNCHANGED <<cleaner, tapRx>>
  BY OpenTypes DEF TapInv, Tap!OpenQueue
<1>2. socks[f] \in Sockets /\ Len(socks[f].queue) \in Nat /\ socks[f].alive \in BOOLEAN
  BY <1>1, SockIs
<1>3. /\ taps[t].pc = "opening" /\ taps[t].fd = f
      /\ socks[f].state = "opened" /\ ~socks[f].alive /\ cleaner[f] = "none" /\ socks[f].queue = <<>>
  BY DEF Tap!OpenQueue, Tap!At, TapInv, SocketsInOrder, OwnersInOrder
<1>4. \A u \in Tapers : u # t /\ taps[u].fd = f => taps[u].pc \notin OwnerPcs \cup {"receiving", "remark"}
  BY <1>3 DEF TapInv, OneOwner, OwnerPcs, UsersInOrder
<1>5. /\ \A g \in Fds : g # f => socks'[g] = socks[g]
      /\ \A u \in Tapers : u # t => taps'[u] = taps[u]
      /\ socks'[f].queue = <<>>
      /\ \/ /\ socks'[f].state = "opened" /\ socks'[f].alive
            /\ taps'[t].pc = "setting" /\ taps'[t].fd = f
         \/ socks'[f].state = "ready" /\ ~socks'[f].alive /\ taps'[t].pc = "idle"
  BY <1>1, <1>2, <1>3, GoesIs, ReturnIs DEF Tap!OpenQueue, TapTypeOK, Sockets
<1>6. SocketsInOrder'
  BY <1>1, <1>3, <1>5, TapsAssumption DEF TapInv, SocketsInOrder, Tap!At
<1>7. OwnersInOrder' /\ OneOwner'
  <2>1. \A u \in Tapers : u # t /\ taps[u].pc \in OwnerPcs => taps[u].fd \in Fds \ {f}
    BY <1>1, <1>3, FdsIn DEF TapInv, OwnersInOrder, OneOwner, OwnerPcs
  <2>2. OwnersInOrder'
    BY <1>1, <1>3, <1>4, <1>5, <2>1 DEF TapInv, OwnersInOrder, OwnerPcs
  <2>3. OneOwner'
    BY <1>5, <2>1 DEF TapInv, OneOwner, OwnerPcs
  <2> QED
    BY <2>2, <2>3
<1>8. UsersInOrder'
  <2>1. \A u \in Tapers : taps[u].pc \in {"receiving", "remark"} => taps[u].fd \in Fds \ {f}
    BY <1>1, <1>3, FdsIn DEF TapInv, UsersInOrder
  <2>2. \A u \in Tapers : taps'[u].pc \in {"receiving", "remark"} => socks'[taps'[u].fd].alive
    BY <1>5, <1>4, <2>1 DEF TapInv, UsersInOrder
  <2>3. tapRx.pc \in {"match", "push"} => tapRx.early \/ (tapRx.fd \in Fds \ {f} /\ socks[tapRx.fd].alive)
    BY <1>1, <1>3, FdsIn DEF TapInv, UsersInOrder
  <2>4. tapRx.pc \in {"match", "push"} => tapRx.early \/ socks'[tapRx.fd].alive
    BY <1>4, <1>5, <2>3
  <2> QED
    BY <1>1, <2>2, <2>4 DEF TapInv, UsersInOrder
<1>9. ReadersWake'
  BY <1>1, <1>3, <1>5, OthersWake DEF TapInv, ReadersWake
<1> QED
  BY <1>1, <1>6, <1>7, <1>8, <1>9 DEF TapInv

(* A task leaves a call, or enters select, and no socket changes its state. *)
LEMMA LeaveStep ==
  ASSUME TapInv, TapTypeOK', UNCHANGED <<cleaner, tapRx>>, NEW t \in Tapers,
         \A g \in Fds : /\ socks'[g].state = socks[g].state /\ socks'[g].alive = socks[g].alive
                        /\ socks'[g].queue = socks[g].queue,
         \A u \in Tapers : u # t => taps'[u] = taps[u],
         taps[t].pc \notin {"opening", "remark"}, taps'[t].pc \in {"idle", "select"}
  PROVE  TapInv'
<1>1. TapTypeOK
  BY DEF TapInv
<1>2. \A u \in Tapers : taps[u].fd \in Fds
  BY <1>1, FdsIn
<1>3. SocketsInOrder'
  BY DEF TapInv, SocketsInOrder, Tap!At
<1>4. OwnersInOrder'
  BY <1>2 DEF TapInv, OwnersInOrder
<1>5. OneOwner'
  BY DEF TapInv, OneOwner, OwnerPcs
<1>6. UsersInOrder'
  BY <1>1, <1>2, FdsIn DEF TapInv, UsersInOrder
<1>7. ReadersWake'
  <2> SUFFICES ASSUME NEW g \in Fds, cleaner[g] \in {"pop", "flush"}
               PROVE  MarkGoesRound(g)'
    BY DEF ReadersWake
  <2>1. MarkGoesRound(g)
    BY DEF TapInv, ReadersWake
  <2>2. \A u \in Tapers : (Tap!At(u, "remark", g)' <=> Tap!At(u, "remark", g)) /\ (Reads(u, g)' => Reads(u, g))
    BY DEF Tap!At, Reads
  <2> QED
    BY <2>1, <2>2 DEF MarkGoesRound
<1> QED
  BY <1>3, <1>4, <1>5, <1>6, <1>7 DEF TapInv

(* l2tap_open resets the configuration. *)
LEMMA OpenSetStep ==
  ASSUME TapInv, NEW t \in Tapers, NEW f \in Fds, NEW nb \in BOOLEAN, Tap!OpenSet(t, f, nb)
  PROVE  TapInv'
<1>1. TapTypeOK /\ TapTypeOK' /\ UNCHANGED <<cleaner, tapRx>>
  BY OpenTypes DEF TapInv, Tap!OpenSet
<1>2. \A g \in Fds : /\ socks'[g].state = socks[g].state /\ socks'[g].alive = socks[g].alive
                     /\ socks'[g].queue = socks[g].queue
  <2>1. socks' = [socks EXCEPT ![f].filter = 0, ![f].driver = NoDriver, ![f].nonblock = nb]
    BY DEF Tap!OpenSet
  <2> QED
    BY <1>1, <2>1 DEF TapTypeOK, Sockets
<1> QED
  BY <1>1, <1>2, LeaveStep, ReturnIs DEF Tap!OpenSet, Tap!At

(* l2tap_ioctl and fcntl touch no queue. *)
LEMMA ConfigureSteps ==
  ASSUME TapInv, NEW t \in Tapers, NEW f \in Fds,
         \/ \E type \in EthTypes : Tap!SetFilter(t, f, type)
         \/ \E d \in Drivers : Tap!SetDriver(t, f, d)
         \/ Tap!Fcntl(t, f)
  PROVE  TapInv'
<1>1. TapTypeOK /\ TapTypeOK' /\ UNCHANGED <<cleaner, tapRx, taps>> /\ taps[t].pc = "idle"
  BY SetTypes DEF TapInv, Tap!SetFilter, Tap!SetDriver, Tap!Fcntl, Tap!May
<1>2. \A g \in Fds : /\ socks'[g].state = socks[g].state /\ socks'[g].alive = socks[g].alive
                     /\ socks'[g].queue = socks[g].queue
  <2>1. \/ \E type \in EthTypes : socks' = [socks EXCEPT ![f].filter = type]
        \/ \E d \in Drivers : socks' = [socks EXCEPT ![f].driver = d]
        \/ socks' = [socks EXCEPT ![f].nonblock = ~socks[f].nonblock]
    BY DEF Tap!SetFilter, Tap!SetDriver, Tap!Fcntl
  <2>2. ASSUME NEW type \in EthTypes, socks' = [socks EXCEPT ![f].filter = type] 
        PROVE  \A g \in Fds : /\ socks'[g].state = socks[g].state /\ socks'[g].alive = socks[g].alive
                               /\ socks'[g].queue = socks[g].queue
    BY <1>1, <2>2 DEF TapTypeOK, Sockets
  <2>3. ASSUME NEW d \in Drivers, socks' = [socks EXCEPT ![f].driver = d] 
        PROVE  \A g \in Fds : /\ socks'[g].state = socks[g].state /\ socks'[g].alive = socks[g].alive
                               /\ socks'[g].queue = socks[g].queue
    BY <1>1, <2>3 DEF TapTypeOK, Sockets
  <2>4. CASE socks' = [socks EXCEPT ![f].nonblock = ~socks[f].nonblock]
    BY <1>1, <2>4 DEF TapTypeOK, Sockets
  <2> QED
    BY <2>1, <2>2, <2>3, <2>4
<1> QED
  BY <1>1, <1>2, LeaveStep

(* Nor do the calls of select. *)
LEMMA SelectSteps ==
  ASSUME TapInv, NEW t \in Tapers, (\E f \in Fds : Tap!StartSelect(t, {f})) \/ Tap!EndSelect(t)
  PROVE  TapInv'
<1>1. TapTypeOK /\ TapTypeOK' /\ UNCHANGED <<cleaner, tapRx, socks>>
  BY SelectTypes DEF TapInv, Tap!StartSelect, Tap!EndSelect
<1>2. /\ taps[t].pc \in {"idle", "select"} /\ taps'[t].pc \in {"idle", "select"}
      /\ \A u \in Tapers : u # t => taps'[u] = taps[u]
  BY <1>1, ReturnIs DEF Tap!StartSelect, Tap!EndSelect, Tap!May, TapTypeOK
<1> QED
  BY <1>1, <1>2, LeaveStep

(* A read that does not block leaves an empty queue. *)
LEMMA ReceiveNothingStep ==
  ASSUME TapInv, NEW t \in Tapers, NEW f \in Fds, Tap!ReceiveNothing(t, f)
  PROVE  TapInv'
<1>1. TapTypeOK /\ TapTypeOK' /\ UNCHANGED <<cleaner, tapRx, socks>>
  BY ReadTypes DEF TapInv, Tap!ReceiveNothing
<1> QED
  BY <1>1, LeaveStep, ReturnIs DEF Tap!ReceiveNothing, Tap!At

(* l2tap_read enters a descriptor that is open. *)
LEMMA ReadStep ==
  ASSUME TapInv, NEW t \in Tapers, NEW f \in Fds, Tap!Read(t, f)
  PROVE  TapInv'
<1>1. TapTypeOK /\ TapTypeOK' /\ UNCHANGED <<cleaner, tapRx, socks>>
  BY ReadTypes DEF TapInv, Tap!Read
<1>2. /\ taps[t].pc = "idle" /\ taps'[t].pc = "receiving" /\ taps'[t].fd = f
      /\ \A u \in Tapers : u # t => taps'[u] = taps[u]
  BY <1>1, GoesIs DEF Tap!Read, Tap!May
<1>3. socks[f].alive /\ cleaner[f] = "none"
  BY DEF Tap!Read, Tap!Held, Tap!Opening, TapInv, SocketsInOrder
<1>4. SocketsInOrder'
  BY <1>1, <1>2 DEF TapInv, SocketsInOrder, Tap!At
<1>5. OwnersInOrder' /\ OneOwner'
  BY <1>1, <1>2 DEF TapInv, OwnersInOrder, OneOwner, OwnerPcs
<1>6. UsersInOrder'
  BY <1>1, <1>2, <1>3 DEF TapInv, UsersInOrder
<1>7. ReadersWake'
  BY <1>1, <1>2, <1>3, OthersWake DEF TapInv, ReadersWake
<1> QED
  BY <1>1, <1>4, <1>5, <1>6, <1>7 DEF TapInv

(* A step that only takes from or adds to the queue of f *)
LEMMA QueueStep ==
  ASSUME TapInv, TapTypeOK', UNCHANGED <<cleaner, tapRx>>, NEW t \in Tapers, NEW f \in Fds,
         socks[f].alive, taps[t].fd = f, taps[t].pc \in {"receiving", "remark"},
         \A g \in Fds : g # f => socks'[g] = socks[g],
         socks'[f].state = socks[f].state, socks'[f].alive = socks[f].alive,
         Len(socks'[f].queue) <= RX_QUEUE_MAX_SIZE,
         \A u \in Tapers : u # t => taps'[u] = taps[u],
         taps'[t].pc = "idle" \/ (taps'[t].pc = "remark" /\ taps'[t].fd = f),
         cleaner[f] \in {"pop", "flush"} => MarkGoesRound(f)'
  PROVE  TapInv'
<1>1. TapTypeOK
  BY DEF TapInv
<1>21. \A g \in Fds : socks'[g].state = socks[g].state /\ socks'[g].alive = socks[g].alive
  OBVIOUS
<1>2. SocketsInOrder'
  <2>1. SocketsInOrder
    BY DEF TapInv
  <2>2. \A g \in Fds : \A u \in Tapers : Tap!At(u, "opening", g) => Tap!At(u, "opening", g)'
    BY DEF Tap!At
  <2> QED
    BY <1>21, <2>1, <2>2 DEF SocketsInOrder
<1>3. OwnersInOrder'
  <2>1. OwnersInOrder /\ \A u \in Tapers : taps[u].fd \in Fds
    BY <1>1, FdsIn DEF TapInv
  <2>2. taps'[t].pc \notin OwnerPcs
    BY DEF OwnerPcs
  <2>3. \A u \in Tapers : taps'[u].pc \in OwnerPcs => taps'[u] = taps[u]
    BY <2>2
  <2> QED
    BY <1>21, <2>1, <2>3 DEF OwnersInOrder, OwnerPcs
<1>4. OneOwner'
  BY DEF TapInv, OneOwner, OwnerPcs
<1>5. UsersInOrder'
  <2>1. UsersInOrder
    BY DEF TapInv
  <2>2. \A u \in Tapers : taps[u].fd \in Fds
    BY <1>1, FdsIn
  <2>3. taps'[t].pc \in {"receiving", "remark"} => socks'[taps'[t].fd].alive
    BY <1>21
  <2>4. ASSUME NEW u \in Tapers, u # t, taps'[u].pc \in {"receiving", "remark"}
        PROVE  socks'[taps'[u].fd].alive
    BY <1>21, <2>1, <2>2, <2>4 DEF UsersInOrder
  <2>5. tapRx.fd \in Fds
    BY <1>1, FdsIn
  <2> QED
    BY <1>21, <2>1, <2>3, <2>4, <2>5 DEF UsersInOrder
<1>6. ReadersWake'
  BY OthersWake DEF TapInv, ReadersWake
<1> QED
  BY <1>2, <1>3, <1>4, <1>5, <1>6 DEF TapInv

(* A reader takes an entry; if it is the mark, it is the one to put it back. *)
LEMMA ReceiveStep ==
  ASSUME TapInv, NEW t \in Tapers, NEW f \in Fds, Tap!Receive(t, f)
  PROVE  TapInv'
<1>1. TapTypeOK /\ TapTypeOK' /\ UNCHANGED <<cleaner, tapRx>>
  BY ReadTypes DEF TapInv, Tap!Receive
<1> DEFINE q == socks[f].queue
<1>2. /\ q \in Seq(QueueEntries) /\ q # <<>> /\ Len(Tail(q)) = Len(q) - 1 /\ Len(q) \in Nat
      /\ Head(q) = q[1]
  BY <1>1, SockIs, TailIs DEF Tap!Receive
<1>3. /\ taps[t].pc = "receiving" /\ taps[t].fd = f /\ socks[f].alive
      /\ Len(q) <= RX_QUEUE_MAX_SIZE
  BY DEF Tap!Receive, Tap!At, TapInv, UsersInOrder, SocketsInOrder
<1>4. /\ socks'[f].queue = Tail(q) /\ socks'[f].state = socks[f].state /\ socks'[f].alive = socks[f].alive
      /\ \A g \in Fds : g # f => socks'[g] = socks[g]
  BY <1>1 DEF Tap!Receive, TapTypeOK, Sockets
<1>5. /\ \A u \in Tapers : u # t => taps'[u] = taps[u]
      /\ q[1].len = 0 => taps'[t].pc = "remark" /\ taps'[t].fd = f
      /\ q[1].len # 0 => taps'[t].pc = "idle"
  BY <1>1, <1>2, GoesIs, ReturnIs DEF Tap!Receive
<1>6. ASSUME cleaner[f] \in {"pop", "flush"} PROVE MarkGoesRound(f)'
  <2>1. MarkGoesRound(f)
    BY <1>6 DEF TapInv, ReadersWake
  <2>2. q = <<Tap!Mark>> /\ \A u \in Tapers : ~Tap!At(u, "remark", f)
    BY <1>2, <1>3, <2>1 DEF MarkGoesRound, Reads, Tap!At
  <2>3. q[1].len = 0 /\ Tail(q) = <<>>
    BY <1>2, <2>2, MarkIs
  <2>4. Tap!At(t, "remark", f)' /\ \A u \in Tapers : Tap!At(u, "remark", f)' => u = t
    BY <1>5, <2>2, <2>3 DEF Tap!At
  <2> QED
    BY <1>4, <2>3, <2>4 DEF MarkGoesRound
<1> HIDE DEF q
<1>7. Len(socks'[f].queue) <= RX_QUEUE_MAX_SIZE
  BY <1>2, <1>3, <1>4, TapsAssumption
<1> QED
  BY <1>1, <1>3, <1>4, <1>5, <1>6, <1>7, QueueStep

(* The reader that took the mark puts it back. *)
LEMMA RemarkStep ==
  ASSUME TapInv, NEW t \in Tapers, NEW f \in Fds, Tap!Remark(t, f)
  PROVE  TapInv'
<1>1. TapTypeOK /\ TapTypeOK' /\ UNCHANGED <<cleaner, tapRx>>
  BY ReadTypes DEF TapInv, Tap!Remark
<1> DEFINE q == socks[f].queue
<1>2. q \in Seq(QueueEntries) /\ Len(q) \in Nat /\ Append(q, Tap!Mark) # <<>> /\ Len(Append(q, Tap!Mark)) = Len(q) + 1
  BY <1>1, SockIs, AppendIs, MarkIs
<1>3. /\ taps[t].pc = "remark" /\ taps[t].fd = f /\ socks[f].alive /\ Len(q) <= RX_QUEUE_MAX_SIZE
  BY DEF Tap!Remark, Tap!At, TapInv, UsersInOrder, SocketsInOrder
<1>4. /\ socks'[f] = Tap!Pushed(socks[f], Tap!Mark) /\ \A g \in Fds : g # f => socks'[g] = socks[g]
  BY <1>1 DEF Tap!Remark, TapTypeOK
<1>5. /\ socks'[f].state = socks[f].state /\ socks'[f].alive = socks[f].alive
      /\ socks'[f].queue = IF Len(q) < RX_QUEUE_MAX_SIZE THEN Append(q, Tap!Mark) ELSE q
  <2>1. socks[f] \in Sockets
    BY <1>1, SockIs
  <2>2. /\ Tap!Pushed(socks[f], Tap!Mark).state = socks[f].state /\ Tap!Pushed(socks[f], Tap!Mark).alive = socks[f].alive
        /\ Len(q) < RX_QUEUE_MAX_SIZE => Tap!Pushed(socks[f], Tap!Mark).queue = Append(q, Tap!Mark)
        /\ ~(Len(q) < RX_QUEUE_MAX_SIZE) => Tap!Pushed(socks[f], Tap!Mark).queue = q
    BY <2>1, PushedIs, MarkIs
  <2> QED
    BY <1>4, <2>2
<1>6. taps'[t].pc = "idle" /\ \A u \in Tapers : u # t => taps'[u] = taps[u]
  BY <1>1, ReturnIs DEF Tap!Remark
<1>7. ASSUME cleaner[f] \in {"pop", "flush"} PROVE MarkGoesRound(f)'
  <2>1. MarkGoesRound(f)
    BY <1>7 DEF TapInv, ReadersWake
  <2>2. q = <<>> /\ \A u \in Tapers : Tap!At(u, "remark", f) => u = t
    BY <1>3, <2>1 DEF MarkGoesRound, Reads, Tap!At
  <2>3. socks'[f].queue = <<Tap!Mark>>
    BY <1>5, <2>2, TapsAssumption
  <2>4. \A u \in Tapers : ~Tap!At(u, "remark", f)'
    BY <1>6, <2>2 DEF Tap!At
  <2> QED
    BY <2>3, <2>4 DEF MarkGoesRound
<1> HIDE DEF q
<1>8. Len(socks'[f].queue) <= RX_QUEUE_MAX_SIZE
  BY <1>2, <1>3, <1>5, TapsAssumption
<1> QED
  BY <1>1, <1>3, <1>4, <1>5, <1>6, <1>7, <1>8, QueueStep

(* l2tap_close: readers may still be in the descriptor. *)
LEMMA CloseStep ==
  ASSUME TapInv, NEW t \in Tapers, NEW f \in Fds, Tap!Close(t, f)
  PROVE  TapInv'
<1>1. TapTypeOK /\ TapTypeOK' /\ UNCHANGED <<cleaner, tapRx>>
  BY CloseTypes DEF TapInv, Tap!Close
<1>2. /\ taps[t].pc = "idle" /\ taps'[t].pc = "closing" /\ taps'[t].fd = f
      /\ \A u \in Tapers : u # t => taps'[u] = taps[u]
  BY <1>1, GoesIs DEF Tap!Close, Tap!May
<1>3. /\ socks[f].state = "opened" /\ socks[f].alive /\ cleaner[f] = "none"
      /\ \A u \in Tapers : ~Tap!At(u, "opening", f) /\ ~Tap!At(u, "setting", f)
  BY DEF Tap!Close, Tap!Held, Tap!Opening, TapInv, SocketsInOrder
<1>4. /\ socks'[f].state = "closing" /\ socks'[f].alive /\ socks'[f].queue = socks[f].queue
      /\ \A g \in Fds : g # f => socks'[g] = socks[g]
  BY <1>1, <1>3 DEF Tap!Close, TapTypeOK, Sockets
<1>5. SocketsInOrder'
  <2>1. SocketsInOrder
    BY DEF TapInv
  <2>2. \A g \in Fds : \A u \in Tapers : Tap!At(u, "opening", g) => Tap!At(u, "opening", g)'
    BY <1>2 DEF Tap!At
  <2>3. Len(socks'[f].queue) <= RX_QUEUE_MAX_SIZE
    BY <1>4, <2>1 DEF SocketsInOrder
  <2>4. socks'[f].alive = (cleaner'[f] # "given")
    BY <1>1, <1>3, <1>4
  <2> QED
    BY <1>1, <1>3, <1>4, <2>1, <2>2, <2>3, <2>4 DEF SocketsInOrder
<1>6. OwnersInOrder' /\ OneOwner'
  <2>1. \A u \in Tapers : u # t /\ taps[u].pc \in OwnerPcs => taps[u].fd \in Fds \ {f}
    BY <1>1, <1>3, FdsIn DEF TapInv, OwnersInOrder, OwnerPcs, Tap!At
  <2>2. OwnersInOrder'
    BY <1>1, <1>2, <1>3, <1>4, <2>1 DEF TapInv, OwnersInOrder, OwnerPcs
  <2>3. OneOwner'
    BY <1>2, <2>1 DEF TapInv, OneOwner, OwnerPcs
  <2> QED
    BY <2>2, <2>3
<1>7. UsersInOrder'
  BY <1>1, <1>2, <1>3, <1>4, FdsIn DEF TapInv, UsersInOrder
<1>8. ReadersWake'
  BY <1>1, <1>2, <1>3, <1>4, OthersWake DEF TapInv, ReadersWake
<1> QED
  BY <1>1, <1>5, <1>6, <1>7, <1>8 DEF TapInv

(* l2tap_close starts the cleaner, or leaves the socket closing. *)
LEMMA CloseTaskStep ==
  ASSUME TapInv, NEW t \in Tapers, NEW f \in Fds, Tap!CloseTask(t, f)
  PROVE  TapInv'
<1>1. TapTypeOK /\ TapTypeOK' /\ UNCHANGED <<socks, tapRx>>
  BY CloseTypes DEF TapInv, Tap!CloseTask
<1>2. taps[t].pc = "closing" /\ taps[t].fd = f /\ socks[f].state = "closing" /\ cleaner[f] = "none" /\ socks[f].alive
  BY DEF Tap!CloseTask, Tap!At, TapInv, OwnersInOrder, SocketsInOrder
<1>3. CASE Tap!Return(t) /\ UNCHANGED cleaner
  BY <1>1, <1>2, <1>3, LeaveStep, ReturnIs
<1>4. CASE cleaner' = [cleaner EXCEPT ![f] = "mark"] /\ Tap!Goes(t, "waiting", f)
  <2>1. /\ taps'[t].pc = "waiting" /\ taps'[t].fd = f
        /\ \A u \in Tapers : u # t => taps'[u] = taps[u]
    BY <1>1, <1>4, GoesIs
  <2>2. cleaner'[f] = "mark" /\ \A g \in Fds : g # f => cleaner'[g] = cleaner[g]
    BY <1>1, <1>4 DEF TapTypeOK
  <2>3. SocketsInOrder'
    BY <1>1, <1>2, <2>1, <2>2 DEF TapInv, SocketsInOrder, Tap!At
  <2>4. \A u \in Tapers : u # t /\ taps[u].pc \in OwnerPcs => taps[u].fd \in Fds \ {f}
    BY <1>1, <1>2, FdsIn DEF TapInv, OneOwner, OwnerPcs
  <2>5. OwnersInOrder'
    BY <1>1, <1>2, <2>1, <2>2, <2>4 DEF TapInv, OwnersInOrder, OwnerPcs
  <2>6. OneOwner'
    BY <2>1, <2>4 DEF TapInv, OneOwner, OwnerPcs
  <2>7. UsersInOrder'
    BY <1>1, <1>2, <2>1, <2>2, FdsIn DEF TapInv, UsersInOrder
  <2>8. ReadersWake'
    BY <1>1, <1>2, <2>1, <2>2, OthersWake DEF TapInv, ReadersWake
  <2> QED
    BY <1>1, <2>3, <2>5, <2>6, <2>7, <2>8 DEF TapInv
<1> QED
  BY <1>3, <1>4 DEF Tap!CloseTask

(* l2tap_close returns when the cleaner has deleted the queue. *)
LEMMA CloseDoneStep ==
  ASSUME TapInv, NEW t \in Tapers, NEW f \in Fds, Tap!CloseDone(t, f)
  PROVE  TapInv'
<1>1. TapTypeOK /\ TapTypeOK' /\ UNCHANGED tapRx
  BY CloseTypes DEF TapInv, Tap!CloseDone
<1>2. /\ taps[t].pc = "waiting" /\ taps[t].fd = f /\ cleaner[f] = "given"
      /\ socks[f].state = "closing" /\ ~socks[f].alive /\ socks[f].queue = <<>>
  BY DEF Tap!CloseDone, Tap!At, TapInv, OwnersInOrder, SocketsInOrder
<1>3. taps'[t].pc = "idle" /\ \A u \in Tapers : u # t => taps'[u] = taps[u]
  BY <1>1, ReturnIs DEF Tap!CloseDone
<1>4. /\ socks'[f].state = "ready" /\ ~socks'[f].alive /\ socks'[f].queue = <<>> /\ cleaner'[f] = "none"
      /\ \A g \in Fds : g # f => socks'[g] = socks[g] /\ cleaner'[g] = cleaner[g]
  <2>1. socks' = [socks EXCEPT ![f].state = "ready"] /\ cleaner' = [cleaner EXCEPT ![f] = "none"]
    BY DEF Tap!CloseDone
  <2> QED
    BY <1>1, <1>2, <2>1 DEF TapTypeOK, Sockets
<1>5. SocketsInOrder'
  BY <1>1, <1>2, <1>3, <1>4, TapsAssumption DEF TapInv, SocketsInOrder, Tap!At
<1>6. OwnersInOrder' /\ OneOwner'
  <2>1. \A u \in Tapers : u # t /\ taps[u].pc \in OwnerPcs => taps[u].fd \in Fds \ {f}
    BY <1>1, <1>2, FdsIn DEF TapInv, OneOwner, OwnerPcs
  <2>2. OwnersInOrder'
    BY <1>1, <1>3, <1>4, <2>1 DEF TapInv, OwnersInOrder, OwnerPcs
  <2>3. OneOwner'
    BY <1>3, <2>1 DEF TapInv, OneOwner, OwnerPcs
  <2> QED
    BY <2>2, <2>3
<1>7. UsersInOrder'
  BY <1>1, <1>2, <1>3, <1>4, FdsIn DEF TapInv, UsersInOrder
<1>8. ReadersWake'
  BY <1>1, <1>2, <1>3, <1>4, OthersWake DEF TapInv, ReadersWake
<1> QED
  BY <1>1, <1>5, <1>6, <1>7, <1>8 DEF TapInv

(* While a task of idle priority runs, whoever reads is blocked. *)
LEMMA NobodyIsReady ==
  ASSUME Tap!IdlePriority, NEW f \in Fds
  PROVE  /\ tapRx.pc = "idle" /\ \A t \in Tapers : ~Tap!At(t, "remark", f)
         /\ socks[f].queue # <<>> \/ socks[f].nonblock => \A t \in Tapers : ~Reads(t, f)
BY DEF Tap!IdlePriority, Tap!Ready, Tap!At, Reads

(* A step of the cleaner of f *)
LEMMA CleanerStep ==
  ASSUME TapInv, TapTypeOK', UNCHANGED <<taps, tapRx>>, tapRx.pc = "idle", NEW f \in Fds,
         cleaner[f] \in {"mark", "pop", "flush"}, cleaner'[f] \in {"pop", "flush", "given"},
         \A g \in Fds : g # f => socks'[g] = socks[g] /\ cleaner'[g] = cleaner[g],
         socks'[f].state = socks[f].state, socks'[f].alive = (cleaner'[f] # "given"),
         cleaner'[f] = "given" => socks'[f].queue = <<>> /\ \A t \in Tapers : ~Reads(t, f),
         Len(socks'[f].queue) <= RX_QUEUE_MAX_SIZE,
         cleaner'[f] \in {"pop", "flush"} => MarkGoesRound(f)'
  PROVE  TapInv'
<1>1. TapTypeOK /\ socks[f].state = "closing" /\ socks[f].alive
  BY DEF TapInv, SocketsInOrder
<1>2. SocketsInOrder'
  <2>1. SocketsInOrder
    BY DEF TapInv
  <2>2. \A g \in Fds : \A u \in Tapers : Tap!At(u, "opening", g) => Tap!At(u, "opening", g)'
    BY DEF Tap!At
  <2> QED
    BY <1>1, <2>1, <2>2 DEF SocketsInOrder
<1>3. OwnersInOrder'
  <2>1. OwnersInOrder /\ \A u \in Tapers : taps[u].fd \in Fds
    BY <1>1, FdsIn DEF TapInv
  <2> QED
    BY <1>1, <2>1 DEF OwnersInOrder
<1>4. OneOwner'
  BY DEF TapInv, OneOwner
<1>5. UsersInOrder'
  BY <1>1, FdsIn DEF TapInv, UsersInOrder, Reads, Tap!At
<1>6. ReadersWake'
  <2> SUFFICES ASSUME NEW g \in Fds, g # f, cleaner'[g] \in {"pop", "flush"} PROVE MarkGoesRound(g)'
    BY DEF ReadersWake
  <2>1. MarkGoesRound(g)
    BY DEF TapInv, ReadersWake
  <2> QED
    BY <2>1 DEF MarkGoesRound, Reads, Tap!At
<1> QED
  BY <1>2, <1>3, <1>4, <1>5, <1>6 DEF TapInv

(* The cleaner marks, pops and flushes while no reader is ready. *)
LEMMA CleanStep ==
  ASSUME TapInv, NEW f \in Fds, Tap!Clean(f)
  PROVE  TapInv'
<1> DEFINE q == socks[f].queue
<1>1. TapTypeOK /\ TapTypeOK' /\ UNCHANGED <<taps, tapRx>>
  BY CleanTypes DEF TapInv, Tap!Clean, Tap!CleanMark, Tap!CleanPop, Tap!CleanFlush
<1>2. /\ tapRx.pc = "idle" /\ \A t \in Tapers : ~Tap!At(t, "remark", f)
      /\ q # <<>> \/ socks[f].nonblock => \A t \in Tapers : ~Reads(t, f)
  BY NobodyIsReady DEF Tap!Clean
<1>3. /\ socks[f] \in Sockets /\ q \in Seq(QueueEntries) /\ Len(q) \in Nat
      /\ Len(Append(q, Tap!Mark)) = Len(q) + 1 /\ Append(q, Tap!Mark) # <<>>
  BY <1>1, SockIs, AppendIs, MarkIs
<1>4. cleaner[f] \in {"mark", "pop", "flush"} /\ socks[f].alive /\ Len(q) <= RX_QUEUE_MAX_SIZE
  BY DEF Tap!Clean, Tap!CleanMark, Tap!CleanPop, Tap!CleanFlush, TapInv, SocketsInOrder
<1>5. CASE Tap!CleanMark(f)
  <2>1. /\ socks'[f] = Tap!Pushed(socks[f], Tap!Mark) /\ cleaner'[f] = "pop"
        /\ \A g \in Fds : g # f => socks'[g] = socks[g] /\ cleaner'[g] = cleaner[g]
    BY <1>1, <1>5 DEF Tap!CleanMark, TapTypeOK
  <2>2. /\ socks'[f].state = socks[f].state /\ socks'[f].alive
        /\ Len(q) < RX_QUEUE_MAX_SIZE => socks'[f].queue = Append(q, Tap!Mark)
        /\ ~(Len(q) < RX_QUEUE_MAX_SIZE) => socks'[f].queue = q
    <3>1. Tap!Mark \in QueueEntries /\ socks[f] \in Sockets
      BY <1>3, MarkIs
    <3>2. PICK s : s = Tap!Pushed(socks[f], Tap!Mark)
      OBVIOUS
    <3>3. /\ s.state = socks[f].state /\ s.alive = socks[f].alive
          /\ Len(q) < RX_QUEUE_MAX_SIZE => s.queue = Append(q, Tap!Mark)
          /\ ~(Len(q) < RX_QUEUE_MAX_SIZE) => s.queue = q
      BY <3>1, <3>2, PushedIs
    <3> HIDE DEF q
    <3> QED
      BY <1>4, <2>1, <3>2, <3>3
  <2>3. Len(socks'[f].queue) <= RX_QUEUE_MAX_SIZE
    BY <1>3, <1>4, <2>2, TapsAssumption
  <2>4. MarkGoesRound(f)'
    <3>1. CASE q = <<>>
      BY <1>1, <1>2, <2>2, <3>1, TapsAssumption DEF MarkGoesRound, Tap!At
    <3>2. CASE q # <<>>
      BY <1>1, <1>2, <1>3, <2>2, <3>2 DEF MarkGoesRound, Tap!At, Reads
    <3> QED
      BY <3>1, <3>2
  <2> HIDE DEF q
  <2> QED
    BY <1>1, <1>2, <1>4, <2>1, <2>2, <2>3, <2>4, CleanerStep
<1>6. CASE Tap!CleanPop(f)
  <2> DEFINE popped == [socks[f] EXCEPT !.queue = Tail(@)]
  <2>1. cleaner[f] = "pop" /\ MarkGoesRound(f)
    BY <1>6 DEF Tap!CleanPop, TapInv, ReadersWake
  <2>2. cleaner'[f] = "flush" /\ \A g \in Fds : g # f => cleaner'[g] = cleaner[g]
    BY <1>1, <1>6 DEF Tap!CleanPop, TapTypeOK
  <2>3. q # <<>> /\ \A t \in Tapers : ~Reads(t, f)
    BY <1>2, <2>1 DEF MarkGoesRound
  <2>4. /\ Tail(q) \in Seq(QueueEntries) /\ Len(Tail(q)) = Len(q) - 1
        /\ Len(Append(Tail(q), Tap!Mark)) = Len(q)
    <3>1. Tail(q) \in Seq(QueueEntries) /\ Len(Tail(q)) = Len(q) - 1 /\ Len(q) \in Nat
      BY <1>3, <2>3, TailIs
    <3>2. Len(Append(Tail(q), Tap!Mark)) = Len(Tail(q)) + 1
      BY <3>1, AppendIs, MarkIs
    <3> QED
      BY <3>1, <3>2
  <2>5. popped \in Sockets /\ popped.state = socks[f].state /\ popped.alive /\ popped.queue = Tail(q)
    BY <1>3, <1>4, <2>4 DEF Sockets
  <2> HIDE DEF popped
  <2>6. /\ Tap!Pushed(popped, Tap!Mark).state = socks[f].state /\ Tap!Pushed(popped, Tap!Mark).alive
        /\ Tap!Pushed(popped, Tap!Mark).queue \in {Tail(q), Append(Tail(q), Tap!Mark)}
    <3>1. /\ Tap!Pushed(popped, Tap!Mark).state = popped.state /\ Tap!Pushed(popped, Tap!Mark).alive = popped.alive
          /\ Len(popped.queue) < RX_QUEUE_MAX_SIZE => Tap!Pushed(popped, Tap!Mark).queue = Append(popped.queue, Tap!Mark)
          /\ ~(Len(popped.queue) < RX_QUEUE_MAX_SIZE) => Tap!Pushed(popped, Tap!Mark).queue = popped.queue
      BY <2>5, PushedIs, MarkIs
    <3> QED
      BY <2>5, <3>1
  <2>7. /\ socks'[f] \in {popped, Tap!Pushed(popped, Tap!Mark)}
        /\ \A g \in Fds : g # f => socks'[g] = socks[g]
    BY <1>1, <1>6, <2>3 DEF Tap!CleanPop, popped, TapTypeOK
  <2>8. /\ socks'[f].state = socks[f].state /\ socks'[f].alive
        /\ socks'[f].queue \in {Tail(q), Append(Tail(q), Tap!Mark)}
    BY <2>5, <2>6, <2>7
  <2>9. MarkGoesRound(f)'
    BY <1>1, <2>2, <2>3 DEF MarkGoesRound, Tap!At, Reads
  <2> HIDE DEF q
  <2>10. Len(socks'[f].queue) <= RX_QUEUE_MAX_SIZE
    BY <1>3, <1>4, <2>4, <2>8, TapsAssumption
  <2> QED
    BY <1>1, <1>2, <1>4, <2>2, <2>7, <2>8, <2>9, <2>10, CleanerStep
<1>7. CASE Tap!CleanFlush(f)
  <2>1. cleaner[f] = "flush" /\ MarkGoesRound(f)
    BY <1>7 DEF Tap!CleanFlush, TapInv, ReadersWake
  <2>2. \A t \in Tapers : ~Reads(t, f)
    BY <1>2, <2>1 DEF MarkGoesRound
  <2>3. socks' = [socks EXCEPT ![f].queue = <<>>, ![f].alive = FALSE] /\ cleaner' = [cleaner EXCEPT ![f] = "given"]
    BY <1>7 DEF Tap!CleanFlush
  <2>4. /\ socks'[f].queue = <<>> /\ ~socks'[f].alive /\ socks'[f].state = socks[f].state
        /\ cleaner'[f] = "given"
        /\ \A g \in Fds : g # f => socks'[g] = socks[g] /\ cleaner'[g] = cleaner[g]
    BY <1>1, <2>3 DEF TapTypeOK, Sockets
  <2>5. Len(socks'[f].queue) <= RX_QUEUE_MAX_SIZE
    BY <2>4, TapsAssumption
  <2>6. socks'[f].alive = (cleaner'[f] # "given")
    <3>1. socks'[f].alive \in BOOLEAN
      BY <1>1 DEF TapTypeOK, Sockets
    <3> QED
      BY <2>4, <3>1
  <2> HIDE DEF q
  <2> QED
    BY <1>1, <1>2, <2>1, <2>2, <2>4, <2>5, <2>6, CleanerStep
<1> QED
  BY <1>5, <1>6, <1>7 DEF Tap!Clean

(* A step of the receiver that only moves on to a descriptor or a frame *)
LEMMA MoveOnStep ==
  ASSUME TapInv, TapTypeOK', UNCHANGED <<socks, taps, cleaner>>,
         tapRx'.pc \in {"match", "push"} =>
           (tapRx'.early \/ socks[tapRx'.fd].alive) /\ cleaner[tapRx'.fd] \in {"none", "mark"}
  PROVE  TapInv'
<1>1. SocketsInOrder' /\ OwnersInOrder' /\ OneOwner'
  BY DEF TapInv, SocketsInOrder, OwnersInOrder, OneOwner, Tap!At
<1>2. UsersInOrder'
  BY DEF TapInv, UsersInOrder
<1>3. ReadersWake'
  BY DEF TapInv, ReadersWake, MarkGoesRound, Reads, Tap!At
<1> QED
  BY <1>1, <1>2, <1>3 DEF TapInv

(* The receiver goes to the next descriptor or is done with its frame. *)
LEMMA NextFdIs ==
  ASSUME NEW r \in RxRecords, Tap!NextFd(r)
  PROVE  /\ tapRx'.pc \in {"state", "idle"}
         /\ \/ /\ tapRx'.pc = "state" /\ allocated' = allocated
               /\ tapRx'.frame = r.frame /\ tapRx'.size = r.size
            \/ /\ tapRx' = Tap!IdleRx
               /\ allocated' = IF r.size > 0 THEN allocated \ {r.frame} ELSE allocated
BY IdleIs DEF Tap!NextFd, RxRecords

(* A frame arrives. *)
LEMMA ArriveStep ==
  ASSUME TapInv, NEW b \in Frames, NEW type \in EthTypes, NEW d \in Drivers, Tap!Arrive(b, type, d)
  PROVE  TapInv'
<1>1. TapTypeOK' /\ UNCHANGED <<socks, taps, cleaner>> /\ tapRx'.pc = "state"
  BY FilterTypes DEF TapInv, Tap!Arrive
<1> QED
  BY <1>1, MoveOnStep

(* An open socket without a queue is one that is being opened. *)
LEMMA FilterStateStep ==
  ASSUME TapInv, Tap!FilterState
  PROVE  TapInv'
<1>1. TapTypeOK /\ TapTypeOK' /\ UNCHANGED <<socks, taps, cleaner>> /\ tapRx \in RxRecords /\ tapRx.fd \in Fds
  BY FilterTypes, FdsIn DEF TapInv, Tap!FilterState, Tap!Filter, TapTypeOK
<1>2. CASE socks[tapRx.fd].state = "opened"
  <2>1. tapRx'.fd = tapRx.fd /\ (tapRx'.early <=> Tap!Opening(tapRx.fd))
    BY <1>1, <1>2 DEF Tap!FilterState, RxRecords
  <2>2. cleaner[tapRx.fd] = "none" /\ (socks[tapRx.fd].alive \/ Tap!Opening(tapRx.fd))
    BY <1>1, <1>2 DEF TapInv, SocketsInOrder, Tap!Opening
  <2> QED
    BY <1>1, <2>1, <2>2, MoveOnStep
<1>3. CASE socks[tapRx.fd].state # "opened"
  <2>1. tapRx'.pc \in {"state", "idle"}
    BY <1>1, <1>3, NextFdIs DEF Tap!FilterState
  <2> QED
    BY <1>1, <2>1, MoveOnStep
<1> QED
  BY <1>2, <1>3

(* The receiver still sees the socket that it found open. *)
LEMMA FilterMatchStep ==
  ASSUME TapInv, Tap!FilterMatch
  PROVE  TapInv'
<1>1. TapTypeOK /\ TapTypeOK' /\ UNCHANGED <<socks, taps, cleaner>> /\ tapRx \in RxRecords
  BY FilterTypes DEF TapInv, Tap!FilterMatch, Tap!Filter, TapTypeOK
<1>2. \/ tapRx' = [tapRx EXCEPT !.pc = "push"] \/ Tap!NextFd(tapRx)
  BY DEF Tap!FilterMatch
<1>3. CASE tapRx' = [tapRx EXCEPT !.pc = "push"]
  <2>1. tapRx'.fd = tapRx.fd /\ tapRx'.early = tapRx.early
    BY <1>1, <1>3 DEF RxRecords
  <2>2. tapRx.early \/ socks[tapRx.fd].alive
    BY DEF TapInv, UsersInOrder, Tap!FilterMatch
  <2>3. cleaner[tapRx.fd] \in {"none", "mark"}
    BY DEF TapInv, UsersInOrder, Tap!FilterMatch
  <2> QED
    BY <1>1, <2>1, <2>2, <2>3, MoveOnStep
<1>4. CASE Tap!NextFd(tapRx)
  BY <1>1, <1>4, NextFdIs, MoveOnStep
<1> QED
  BY <1>2, <1>3, <1>4

(* What the receiver pushes *)
LEMMA FilterPushIs ==
  ASSUME TapTypeOK, Tap!FilterPush
  PROVE  /\ tapRx.fd \in Fds
         /\ [buff |-> tapRx.frame, len |-> tapRx.size] \in QueueEntries
         /\ socks'[tapRx.fd].state = socks[tapRx.fd].state /\ socks'[tapRx.fd].alive = socks[tapRx.fd].alive
         /\ Len(socks[tapRx.fd].queue) < RX_QUEUE_MAX_SIZE =>
              socks'[tapRx.fd].queue = Append(socks[tapRx.fd].queue, [buff |-> tapRx.frame, len |-> tapRx.size])
         /\ ~(Len(socks[tapRx.fd].queue) < RX_QUEUE_MAX_SIZE) => socks'[tapRx.fd].queue = socks[tapRx.fd].queue
         /\ \A g \in Fds : g # tapRx.fd => socks'[g] = socks[g]
<1> DEFINE e == [buff |-> tapRx.frame, len |-> tapRx.size]
<1>1. tapRx.fd \in Fds /\ e \in QueueEntries
  BY DEF TapTypeOK, RxRecords, QueueEntries
<1>2. socks[tapRx.fd] \in Sockets
  BY <1>1, SockIs
<1>3. socks' = [socks EXCEPT ![tapRx.fd] = Tap!Pushed(socks[tapRx.fd], e)]
  BY DEF Tap!FilterPush
<1>4. socks'[tapRx.fd] = Tap!Pushed(socks[tapRx.fd], e) /\ \A g \in Fds : g # tapRx.fd => socks'[g] = socks[g]
  BY <1>1, <1>3 DEF TapTypeOK
<1>5. /\ Tap!Pushed(socks[tapRx.fd], e).state = socks[tapRx.fd].state
      /\ Tap!Pushed(socks[tapRx.fd], e).alive = socks[tapRx.fd].alive
      /\ Len(socks[tapRx.fd].queue) < RX_QUEUE_MAX_SIZE => Tap!Pushed(socks[tapRx.fd], e).queue = Append(socks[tapRx.fd].queue, e)
      /\ ~(Len(socks[tapRx.fd].queue) < RX_QUEUE_MAX_SIZE) => Tap!Pushed(socks[tapRx.fd], e).queue = socks[tapRx.fd].queue
  BY <1>1, <1>2, PushedIs
<1> HIDE DEF e
<1>6. /\ socks'[tapRx.fd].state = socks[tapRx.fd].state /\ socks'[tapRx.fd].alive = socks[tapRx.fd].alive
      /\ Len(socks[tapRx.fd].queue) < RX_QUEUE_MAX_SIZE => socks'[tapRx.fd].queue = Append(socks[tapRx.fd].queue, e)
      /\ ~(Len(socks[tapRx.fd].queue) < RX_QUEUE_MAX_SIZE) => socks'[tapRx.fd].queue = socks[tapRx.fd].queue
  BY <1>4, <1>5
<1> QED
  BY <1>1, <1>4, <1>6 DEF e

(* The receiver puts the frame into the queue. *)
LEMMA FilterPushStep ==
  ASSUME TapInv, Tap!FilterPush
  PROVE  TapInv'
<1> DEFINE f == tapRx.fd
           q == socks[f].queue
           e == [buff |-> tapRx.frame, len |-> tapRx.size]
<1>1. TapTypeOK /\ TapTypeOK' /\ UNCHANGED <<taps, cleaner>> /\ tapRx'.pc = "notify" /\ tapRx.pc = "push"
  BY FilterTypes DEF TapInv, Tap!FilterPush, Tap!Filter, TapTypeOK, RxRecords
<1>2. /\ f \in Fds /\ e \in QueueEntries /\ q \in Seq(QueueEntries) /\ Len(q) \in Nat
      /\ Len(Append(q, e)) = Len(q) + 1 /\ Append(q, e) # <<>>
  <2>1. f \in Fds /\ e \in QueueEntries
    BY <1>1, FilterPushIs
  <2>2. q \in Seq(QueueEntries) /\ Len(q) \in Nat
    BY <1>1, <2>1, SockIs
  <2> QED
    BY <2>1, <2>2, AppendIs
<1>3. socks[f].alive /\ cleaner[f] \in {"none", "mark"} /\ Len(q) <= RX_QUEUE_MAX_SIZE
  <2>1. f \in Fds
    BY <1>2
  <2> QED
    BY <2>1 DEF Tap!FilterPush, TapInv, UsersInOrder, SocketsInOrder
<1>4. /\ socks'[f].state = socks[f].state /\ socks'[f].alive = socks[f].alive
      /\ socks'[f].queue \in {q, Append(q, e)}
      /\ Len(q) < RX_QUEUE_MAX_SIZE \/ socks'[f].queue = q
      /\ \A g \in Fds : g # f => socks'[g] = socks[g]
  BY <1>1, FilterPushIs
<1> HIDE DEF f, e, q
<1>5. Len(socks'[f].queue) <= RX_QUEUE_MAX_SIZE
  BY <1>2, <1>3, <1>4, TapsAssumption
<1>6. \A g \in Fds : socks'[g].state = socks[g].state /\ socks'[g].alive = socks[g].alive
  BY <1>4
<1>7. SocketsInOrder'
  BY <1>1, <1>3, <1>4, <1>5, <1>6 DEF TapInv, SocketsInOrder, Tap!At
<1>8. OwnersInOrder' /\ OneOwner'
  BY <1>1, <1>6, FdsIn DEF TapInv, OwnersInOrder, OneOwner
<1>9. UsersInOrder'
  BY <1>1, <1>6, FdsIn DEF TapInv, UsersInOrder
<1>10. ReadersWake'
  <2> SUFFICES ASSUME NEW g \in Fds, g # f, cleaner[g] \in {"pop", "flush"} PROVE MarkGoesRound(g)'
    BY <1>1, <1>3 DEF ReadersWake
  <2>1. MarkGoesRound(g)
    BY DEF TapInv, ReadersWake
  <2> QED
    BY <1>1, <1>4, <2>1 DEF MarkGoesRound, Reads, Tap!At
<1> QED
  BY <1>1, <1>7, <1>8, <1>9, <1>10 DEF TapInv

(* l2tap_select_notify tells the tasks that select *)
LEMMA FilterNotifyIs ==
  ASSUME TapTypeOK, Tap!FilterNotify
  PROVE  /\ tapRx.pc = "notify" /\ tapRx.fd \in Fds /\ tapRx'.pc \in {"state", "idle"}
         /\ \A t \in Tapers :
              /\ taps'[t].pc = taps[t].pc /\ taps'[t].fd = taps[t].fd /\ taps'[t].orig = taps[t].orig
              /\ \A f \in taps[t].ready : f \in taps'[t].ready
              /\ taps[t].pc = "select" /\ tapRx.fd \in taps[t].orig => tapRx.fd \in taps'[t].ready
<1>1. tapRx \in RxRecords /\ tapRx.fd \in Fds /\ [tapRx EXCEPT !.size = 0] \in RxRecords
  BY DEF TapTypeOK, RxRecords
<1>2. tapRx'.pc \in {"state", "idle"}
  BY <1>1, NextFdIs DEF Tap!FilterNotify
<1> QED
  BY <1>1, <1>2 DEF Tap!FilterNotify, TapTypeOK, TapRecords

(* The receiver tells the tasks that select. *)
LEMMA FilterNotifyStep ==
  ASSUME TapInv, Tap!FilterNotify
  PROVE  TapInv'
<1>1. TapTypeOK /\ TapTypeOK' /\ UNCHANGED <<socks, cleaner>>
  BY FilterTypes DEF TapInv, Tap!FilterNotify, Tap!Filter
<1>2. /\ tapRx'.pc \notin {"match", "push"}
      /\ \A t \in Tapers : taps'[t].pc = taps[t].pc /\ taps'[t].fd = taps[t].fd
  BY <1>1, FilterNotifyIs
<1>3. \A t \in Tapers, f \in Fds, pc \in TapPcs : Tap!At(t, pc, f)' <=> Tap!At(t, pc, f)
  BY <1>2 DEF Tap!At
<1>4. SocketsInOrder'
  BY <1>1, <1>3 DEF TapInv, SocketsInOrder, TapPcs
<1>5. OwnersInOrder' /\ OneOwner' /\ UsersInOrder'
  BY <1>1, <1>2 DEF TapInv, OwnersInOrder, OneOwner, UsersInOrder
<1>6. ReadersWake'
  BY <1>1, <1>3 DEF TapInv, ReadersWake, MarkGoesRound, Reads, TapPcs
<1> QED
  BY <1>1, <1>4, <1>5, <1>6 DEF TapInv

(* Every step keeps the invariant. *)
LEMMA TapStep == ASSUME TapInv, [Tap!Next]_(Tap!tapVars) PROVE TapInv'
<1>1. CASE UNCHANGED Tap!tapVars
  <2>1. UNCHANGED <<socks, taps, cleaner, tapRx>> /\ TapTypeOK'
    BY <1>1, TapTypes DEF Tap!tapVars, TapInv
  <2> QED
    BY <2>1, MoveOnStep DEF TapInv, UsersInOrder
<1>2. ASSUME NEW t \in Tapers, NEW f \in Fds, Tap!Call(t, f) PROVE TapInv'
  BY <1>2, OpenTakeStep, ReadStep, CloseStep, ConfigureSteps, SelectSteps DEF Tap!Call
<1>3. ASSUME NEW t \in Tapers, NEW f \in Fds, Tap!Proceed(t, f) PROVE TapInv'
  BY <1>3, OpenQueueStep, OpenSetStep, ReceiveStep, ReceiveNothingStep, RemarkStep,
     CloseTaskStep, CloseDoneStep DEF Tap!Proceed
<1>4. CASE Tap!Filter
  BY <1>4, FilterStateStep, FilterMatchStep, FilterPushStep, FilterNotifyStep DEF Tap!Filter
<1> QED
  BY <1>1, <1>2, <1>3, <1>4, ArriveStep, SelectSteps, CleanStep DEF Tap!Next

(* It holds at first. *)
LEMMA TapInit == ASSUME Tap!Init PROVE TapInv
<1>1. <<>> \in Seq(QueueEntries) /\ Len(<<>>) = 0
  OBVIOUS
<1>2. TapTypeOK
  BY <1>1, IdleIs, TapsAssumption DEF Tap!Init, TapTypeOK, Sockets, SockStates, Cleaners
<1>3. /\ \A f \in Fds : socks[f].state = "ready" /\ ~socks[f].alive /\ socks[f].queue = <<>> /\ cleaner[f] = "none"
      /\ \A t \in Tapers : taps[t].pc = "idle"
      /\ tapRx.pc = "idle"
  BY IdleIs DEF Tap!Init
<1>4. SocketsInOrder
  BY <1>1, <1>3, TapsAssumption DEF SocketsInOrder
<1> QED
  BY <1>2, <1>3, <1>4 DEF TapInv, OwnersInOrder, OneOwner, OwnerPcs, UsersInOrder,
     ReadersWake

(* It always holds. *)
LEMMA TapInvariant == Tap!Spec => []TapInv
<1>1. Tap!Init => TapInv
  BY TapInit
<1>2. TapInv /\ [Tap!Next]_(Tap!tapVars) => TapInv'
  BY TapStep
<1> QED
  BY <1>1, <1>2, PTL DEF Tap!Spec

(* Whatever receiver, readers, cleaner, open and close do meanwhile, nobody *)
(* uses a queue that close has deleted; the receiver that sees the socket  *)
(* before open has made its queue is the only one that finds none.         *)
THEOREM QueuesOutliveUse == Tap!Spec => []QueueOutlivesUse
<1>1. TapInv => QueueOutlivesUse
  <2> SUFFICES ASSUME TapInv, NEW f \in Fds, Tap!Uses(f) PROVE socks[f].alive \/ (tapRx.early /\ tapRx.fd = f)
    BY DEF QueueOutlivesUse, Tap!QueueOutlivesUse
  <2>1. CASE tapRx.pc = "push" /\ tapRx.fd = f
    BY <2>1 DEF TapInv, UsersInOrder
  <2>2. CASE \E t \in Tapers : Tap!At(t, "receiving", f) \/ Tap!At(t, "remark", f)
    BY <2>2 DEF TapInv, UsersInOrder, Tap!At
  <2>3. CASE cleaner[f] \in {"mark", "pop", "flush"}
    BY <2>3 DEF TapInv, SocketsInOrder
  <2> QED
    BY <2>1, <2>2, <2>3 DEF Tap!Uses
<1> QED
  BY <1>1, TapInvariant, PTL

(* While l2tap_close is being finished, no reader and no cleaner sleeps in *)
(* the descriptor: the mark goes round until nobody is left.               *)
THEOREM ClosesWakeReaders == Tap!Spec => []CloseWakesReaders
<1>1. TapInv => CloseWakesReaders
  <2> SUFFICES ASSUME TapInv, NEW f \in Fds, cleaner[f] \in {"pop", "flush"}, socks[f].queue = <<>>,
                      \A t \in Tapers : ~Tap!At(t, "remark", f)
               PROVE  /\ \A t \in Tapers : ~Tap!At(t, "receiving", f)
                      /\ cleaner[f] # "pop"
    BY DEF CloseWakesReaders, Tap!CloseWakesReaders
  <2>1. MarkGoesRound(f)
    BY DEF TapInv, ReadersWake
  <2>2. <<Tap!Mark>> # <<>>
    OBVIOUS
  <2> QED
    BY <2>1, <2>2 DEF MarkGoesRound, Reads
<1> QED
  BY <1>1, TapInvariant, PTL

-----------------------------------------------------------------------------
(* The tasks that select *)

(* A descriptor whose queue has a frame *)
HasFrame(f) == /\ socks[f].state = "opened"
               /\ \E i \in DOMAIN socks[f].queue : socks[f].queue[i].len > 0

(* A step that shows no descriptor with a frame that had none, and that leaves *)
(* select or stays in it *)
LEMMA NothingNewStep ==
  ASSUME SelectInv,
         \A t \in Tapers : \/ taps'[t].orig = {}
                           \/ /\ taps'[t].pc = taps[t].pc /\ taps'[t].orig = taps[t].orig
                              /\ taps'[t].ready = taps[t].ready,
         \A f \in Fds : HasFrame(f)' => HasFrame(f),
         tapRx.pc # "notify" \/ UNCHANGED tapRx, TapTypeOK
  PROVE  SelectInv'
<1>1. \A t \in Tapers : taps'[t].pc # "select" => taps'[t].orig = {}
  BY DEF SelectInv
<1>2. ASSUME NEW t \in Tapers, NEW f \in taps'[t].orig, HasFrame(f)', ~(tapRx'.pc = "notify" /\ tapRx'.fd = f)
      PROVE  f \in taps'[t].ready
  <2>1. /\ taps'[t].ready = taps[t].ready /\ f \in taps[t].orig /\ f \in Fds
    BY <1>2 DEF TapTypeOK, TapRecords
  <2>2. HasFrame(f) /\ ~(tapRx.pc = "notify" /\ tapRx.fd = f)
    BY <1>2, <2>1
  <2> QED
    BY <2>1, <2>2 DEF SelectInv, Tap!SelectIsTold, HasFrame
<1> QED
  BY <1>1, <1>2 DEF SelectInv, Tap!SelectIsTold, HasFrame

(* The entries that a push and a pop leave *)
LEMMA MarkIsNoFrame ==
  ASSUME NEW q \in Seq(QueueEntries), NEW i \in DOMAIN Append(q, Tap!Mark), Append(q, Tap!Mark)[i].len > 0
  PROVE  i \in DOMAIN q /\ q[i].len > 0
<1>1. /\ Append(q, Tap!Mark) \in Seq(QueueEntries) /\ Len(Append(q, Tap!Mark)) = Len(q) + 1 /\ Len(q) \in Nat
      /\ \A j \in 1 .. Len(q) : Append(q, Tap!Mark)[j] = q[j]
      /\ Append(q, Tap!Mark)[Len(q) + 1] = Tap!Mark
  BY MarkIs, AppendIs
<1>2. i \in 1 .. Len(q) + 1
  BY <1>1
<1>3. i # Len(q) + 1
  BY <1>1, MarkIs
<1> QED
  BY <1>1, <1>2, <1>3

(* A frame behind the first entry was there before. *)
LEMMA TailHasFrame ==
  ASSUME NEW q \in Seq(QueueEntries), q # <<>>, NEW i \in DOMAIN Tail(q), Tail(q)[i].len > 0
  PROVE  \E j \in DOMAIN q : q[j].len > 0
<1>1. Len(Tail(q)) = Len(q) - 1 /\ Len(q) \in Nat \ {0} /\ \A j \in 1 .. Len(q) - 1 : Tail(q)[j] = q[j + 1]
      /\ Tail(q) \in Seq(QueueEntries)
  BY TailIs
<1>2. i \in 1 .. Len(q) - 1 /\ i + 1 \in DOMAIN q
  BY <1>1
<1> QED
  BY <1>1, <1>2

(* A call tells a new select of the frames that are there. *)
LEMMA CallSelects ==
  ASSUME TapInv, SelectInv, NEW t \in Tapers, NEW f \in Fds, Tap!Call(t, f) \/ Tap!EndSelect(t)
  PROVE  SelectInv'
<1>1. TapTypeOK /\ UNCHANGED tapRx
  BY DEF TapInv, Tap!Call, Tap!OpenTake, Tap!Read, Tap!Close, Tap!Fcntl, Tap!SetFilter,
     Tap!SetDriver, Tap!StartSelect, Tap!EndSelect
<1>2. taps[t].pc = "idle" => taps[t].orig = {}
  BY DEF SelectInv
<1>3. CASE Tap!OpenTake(t, f)
  <2>1. socks[f].state = "ready" /\ socks[f].queue = <<>>
    BY <1>3 DEF Tap!OpenTake, TapInv, SocketsInOrder
  <2>2. \A g \in Fds : socks'[g].queue = socks[g].queue /\ (g # f => socks'[g].state = socks[g].state)
    BY <1>1, <1>3 DEF Tap!OpenTake, TapTypeOK, Sockets
  <2>3. \A g \in Fds : HasFrame(g)' => HasFrame(g)
    BY <2>1, <2>2 DEF HasFrame
  <2>4. \A u \in Tapers : u # t => taps'[u] = taps[u]
    BY <1>1, <1>3, GoesIs DEF Tap!OpenTake
  <2>5. taps'[t].orig = {}
    BY <1>1, <1>2, <1>3, GoesIs DEF Tap!OpenTake, Tap!May
  <2> QED
    BY <1>1, <2>3, <2>4, <2>5, NothingNewStep
<1>4. CASE Tap!Read(t, f) \/ Tap!Close(t, f)
  <2>1. \A g \in Fds : socks'[g].queue = socks[g].queue /\ (socks'[g].state \in {socks[g].state, "closing"})
    <3>1. CASE Tap!Read(t, f)
      BY <3>1 DEF Tap!Read
    <3>2. CASE Tap!Close(t, f)
      BY <1>1, <3>2 DEF Tap!Close, TapTypeOK, Sockets
    <3> QED
      BY <1>4, <3>1, <3>2
  <2>2. \A g \in Fds : HasFrame(g)' => HasFrame(g)
    BY <2>1 DEF HasFrame
  <2>3. \A u \in Tapers : u # t => taps'[u] = taps[u]
    BY <1>1, <1>4, GoesIs DEF Tap!Read, Tap!Close
  <2>4. taps'[t].orig = {}
    BY <1>1, <1>2, <1>4, GoesIs DEF Tap!Read, Tap!Close, Tap!May
  <2> QED
    BY <1>1, <2>2, <2>3, <2>4, NothingNewStep
<1>5. CASE \/ \E type \in EthTypes : Tap!SetFilter(t, f, type)
           \/ \E d \in Drivers : Tap!SetDriver(t, f, d)
           \/ Tap!Fcntl(t, f)
  <2>1. UNCHANGED taps
    BY <1>5 DEF Tap!SetFilter, Tap!SetDriver, Tap!Fcntl
  <2>2. \A g \in Fds : socks'[g].queue = socks[g].queue /\ socks'[g].state = socks[g].state
    <3>1. CASE \E type \in EthTypes : Tap!SetFilter(t, f, type)
      BY <1>1, <3>1 DEF Tap!SetFilter, TapTypeOK, Sockets
    <3>2. CASE \E d \in Drivers : Tap!SetDriver(t, f, d)
      BY <1>1, <3>2 DEF Tap!SetDriver, TapTypeOK, Sockets
    <3>3. CASE Tap!Fcntl(t, f)
      BY <1>1, <3>3 DEF Tap!Fcntl, TapTypeOK, Sockets
    <3> QED
      BY <1>5, <3>1, <3>2, <3>3
  <2>3. \A g \in Fds : HasFrame(g)' => HasFrame(g)
    BY <2>2 DEF HasFrame
  <2> QED
    BY <1>1, <2>1, <2>3, NothingNewStep
<1>6. CASE Tap!EndSelect(t)
  <2>1. UNCHANGED socks /\ taps'[t].orig = {} /\ \A u \in Tapers : u # t => taps'[u] = taps[u]
    BY <1>1, <1>6, ReturnIs DEF Tap!EndSelect
  <2>2. \A g \in Fds : HasFrame(g)' => HasFrame(g)
    BY <2>1 DEF HasFrame
  <2> QED
    BY <1>1, <2>1, <2>2, NothingNewStep
<1>7. CASE Tap!StartSelect(t, {f})
  <2>1. UNCHANGED socks
    BY <1>7 DEF Tap!StartSelect
  <2>2. /\ taps'[t].pc = "select" /\ taps'[t].orig = {f}
        /\ taps'[t].ready = {g \in {f} : socks[g].queue # <<>>}
        /\ \A u \in Tapers : u # t => taps'[u] = taps[u]
    BY <1>1, <1>7 DEF Tap!StartSelect, TapTypeOK
  <2>3. \A g \in Fds : (\E i \in DOMAIN socks[g].queue : socks[g].queue[i].len > 0) => socks[g].queue # <<>>
    OBVIOUS
  <2>4. \A u \in Tapers : taps'[u].pc # "select" => taps'[u].orig = {}
    BY <2>2 DEF SelectInv
  <2>5. Tap!SelectIsTold'
    BY <1>1, <2>1, <2>2, <2>3 DEF SelectInv, Tap!SelectIsTold
  <2> QED
    BY <2>4, <2>5 DEF SelectInv
<1> QED
  BY <1>3, <1>4, <1>5, <1>6, <1>7 DEF Tap!Call

(* No other task adds a frame to a queue. *)
LEMMA ProceedSelects ==
  ASSUME TapInv, SelectInv, NEW t \in Tapers, NEW f \in Fds, Tap!Proceed(t, f)
  PROVE  SelectInv'
<1>1. TapTypeOK /\ UNCHANGED tapRx
  BY DEF TapInv, Tap!Proceed, Tap!OpenQueue, Tap!OpenSet, Tap!Receive, Tap!ReceiveNothing,
     Tap!Remark, Tap!CloseTask, Tap!CloseDone
<1>2. \A u \in Tapers : u # t => taps'[u] = taps[u]
  BY <1>1, GoesIs, ReturnIs DEF Tap!Proceed, Tap!OpenQueue, Tap!OpenSet, Tap!Receive,
     Tap!ReceiveNothing, Tap!Remark, Tap!CloseTask, Tap!CloseDone
<1>3. taps'[t].orig = {}
  <2>1. taps[t].orig = {}
    BY DEF SelectInv, Tap!Proceed, Tap!OpenQueue, Tap!OpenSet, Tap!Receive,
       Tap!ReceiveNothing, Tap!Remark, Tap!CloseTask, Tap!CloseDone, Tap!At
  <2> QED
    BY <1>1, <2>1, GoesIs, ReturnIs
       DEF Tap!Proceed, Tap!OpenQueue, Tap!OpenSet, Tap!Receive, Tap!ReceiveNothing, Tap!Remark, Tap!CloseTask, Tap!CloseDone
<1>4. socks[f] \in Sockets /\ socks[f].queue \in Seq(QueueEntries)
  BY <1>1, SockIs
<1>5. \A g \in Fds : HasFrame(g)' => HasFrame(g)
  <2>1. CASE Tap!ReceiveNothing(t, f) \/ Tap!CloseTask(t, f)
    BY <2>1 DEF Tap!ReceiveNothing, Tap!CloseTask, HasFrame
  <2>2. CASE Tap!OpenQueue(t, f)
    <3>1. \A g \in Fds : /\ g # f => socks'[g] = socks[g]
                         /\ socks'[f].queue = <<>> \/ socks'[f].state = "ready"
      BY <1>1, <2>2 DEF Tap!OpenQueue, TapTypeOK, Sockets
    <3> QED
      BY <3>1 DEF HasFrame
  <2>3. CASE \E nb \in BOOLEAN : Tap!OpenSet(t, f, nb)
    <3>1. PICK nb \in BOOLEAN : Tap!OpenSet(t, f, nb)
      BY <2>3
    <3>2. \A g \in Fds : socks'[g].queue = socks[g].queue /\ socks'[g].state = socks[g].state
      <4>1. socks' = [socks EXCEPT ![f].filter = 0, ![f].driver = NoDriver, ![f].nonblock = nb]
        BY <3>1 DEF Tap!OpenSet
      <4> QED
        BY <1>1, <4>1 DEF TapTypeOK, Sockets
    <3> QED
      BY <3>2 DEF HasFrame
  <2>4. CASE Tap!Receive(t, f)
    <3>1. socks[f].queue # <<>> /\ socks' = [socks EXCEPT ![f].queue = Tail(socks[f].queue)]
      BY <2>4 DEF Tap!Receive
    <3>2. /\ \A g \in Fds : g # f => socks'[g] = socks[g]
          /\ socks'[f].queue = Tail(socks[f].queue) /\ socks'[f].state = socks[f].state
      BY <1>1, <3>1 DEF TapTypeOK, Sockets
    <3> QED
      BY <1>4, <3>1, <3>2, TailHasFrame DEF HasFrame
  <2>5. CASE Tap!Remark(t, f)
    <3>1. \A g \in Fds : g # f => socks'[g] = socks[g]
      BY <1>1, <2>5 DEF Tap!Remark, TapTypeOK
    <3>2. /\ socks'[f].state = socks[f].state
          /\ socks'[f].queue = socks[f].queue \/ socks'[f].queue = Append(socks[f].queue, Tap!Mark)
      <4>1. socks'[f] = Tap!Pushed(socks[f], Tap!Mark)
        BY <1>1, <2>5 DEF Tap!Remark, TapTypeOK
      <4>2. /\ Tap!Pushed(socks[f], Tap!Mark).state = socks[f].state
            /\ Len(socks[f].queue) < RX_QUEUE_MAX_SIZE => Tap!Pushed(socks[f], Tap!Mark).queue = Append(socks[f].queue, Tap!Mark)
            /\ ~(Len(socks[f].queue) < RX_QUEUE_MAX_SIZE) => Tap!Pushed(socks[f], Tap!Mark).queue = socks[f].queue
        BY <1>4, PushedIs, MarkIs
      <4> QED
        BY <4>1, <4>2
    <3>3. HasFrame(f)' => HasFrame(f)
      <4>1. CASE socks'[f].queue = socks[f].queue
        BY <3>2, <4>1 DEF HasFrame
      <4>2. CASE socks'[f].queue = Append(socks[f].queue, Tap!Mark)
        BY <1>4, <3>2, <4>2, MarkIsNoFrame DEF HasFrame
      <4> QED
        BY <3>2, <4>1, <4>2
    <3> QED
      BY <3>1, <3>3 DEF HasFrame
  <2>6. CASE Tap!CloseDone(t, f)
    <3>1. /\ \A g \in Fds : g # f => socks'[g] = socks[g]
          /\ socks'[f].state = "ready"
      BY <1>1, <2>6 DEF Tap!CloseDone, TapTypeOK, Sockets
    <3> QED
      BY <3>1 DEF HasFrame
  <2> QED
    BY <2>1, <2>2, <2>3, <2>4, <2>5, <2>6 DEF Tap!Proceed
<1> QED
  BY <1>1, <1>2, <1>3, <1>5, NothingNewStep

(* A socket that is being cleaned is not open. *)
LEMMA CleanSelects ==
  ASSUME TapInv, SelectInv, NEW f \in Fds, Tap!Clean(f)
  PROVE  SelectInv'
<1>1. TapTypeOK /\ UNCHANGED <<taps, tapRx>>
  BY DEF TapInv, Tap!Clean, Tap!CleanMark, Tap!CleanPop, Tap!CleanFlush
<1>2. /\ socks'[f].state = "closing" /\ \A g \in Fds : g # f => socks'[g] = socks[g]
  <2>1. socks[f].state = "closing"
    BY DEF Tap!Clean, Tap!CleanMark, Tap!CleanPop, Tap!CleanFlush, TapInv, SocketsInOrder
  <2>2. TapTypeOK'
    BY CleanTypes DEF TapInv
  <2>3. CASE Tap!CleanMark(f)
    BY <1>1, <2>1, <2>3, SockIs, PushedIs, MarkIs DEF Tap!CleanMark, TapTypeOK
  <2>4. CASE Tap!CleanFlush(f)
    BY <1>1, <2>1, <2>4 DEF Tap!CleanFlush, TapTypeOK, Sockets
  <2>5. CASE Tap!CleanPop(f)
    <3> DEFINE popped == [socks[f] EXCEPT !.queue = Tail(@)]
    <3>1. CASE socks[f].queue = <<>>
      BY <1>1, <2>1, <2>5, <3>1 DEF Tap!CleanPop
    <3>2. CASE socks[f].queue # <<>>
      <4>1. Tail(socks[f].queue) \in Seq(QueueEntries) /\ socks[f] \in Sockets
        BY <1>1, <3>2, SockIs, TailIs
      <4>2. popped \in Sockets /\ popped.state = "closing"
        BY <2>1, <4>1 DEF Sockets
      <4>3. Tap!Pushed(popped, Tap!Mark).state = "closing"
        BY <4>2, PushedIs, MarkIs
      <4>4. \E s \in {popped, Tap!Pushed(popped, Tap!Mark)} : socks' = [socks EXCEPT ![f] = s]
        BY <2>5, <3>2 DEF Tap!CleanPop
      <4> QED
        BY <1>1, <4>2, <4>3, <4>4 DEF TapTypeOK
    <3> QED
      BY <3>1, <3>2
  <2> QED
    BY <2>3, <2>4, <2>5 DEF Tap!Clean
<1>3. \A g \in Fds : HasFrame(g)' => HasFrame(g)
  BY <1>2 DEF HasFrame
<1> QED
  BY <1>1, <1>3, NothingNewStep

(* Between push and notify the select is still to be told. *)
LEMMA FilterSelects ==
  ASSUME TapInv, SelectInv,
         Tap!Filter \/ \E b \in Frames, type \in EthTypes, d \in Drivers : Tap!Arrive(b, type, d)
  PROVE  SelectInv'
<1>1. TapTypeOK /\ tapRx \in RxRecords
  BY DEF TapInv, TapTypeOK
<1>2. CASE Tap!FilterPush
  <2>1. tapRx.pc = "push" /\ tapRx'.pc = "notify" /\ tapRx'.fd = tapRx.fd /\ UNCHANGED taps
    BY <1>1, <1>2 DEF Tap!FilterPush, RxRecords
  <2>2. \A g \in Fds : g # tapRx.fd => socks'[g] = socks[g]
    BY <1>1, <1>2, FilterPushIs
  <2>3. \A t \in Tapers : taps[t].orig \subseteq Fds
    BY <1>1 DEF TapTypeOK, TapRecords
  <2> QED
    BY <2>1, <2>2, <2>3 DEF SelectInv, Tap!SelectIsTold
<1>3. CASE Tap!FilterNotify
  <2>1. /\ tapRx.pc = "notify" /\ tapRx.fd \in Fds /\ tapRx'.pc \in {"state", "idle"} /\ UNCHANGED socks
        /\ \A t \in Tapers :
             /\ taps'[t].pc = taps[t].pc /\ taps'[t].orig = taps[t].orig
             /\ \A f \in taps[t].ready : f \in taps'[t].ready
             /\ taps[t].pc = "select" /\ tapRx.fd \in taps[t].orig => tapRx.fd \in taps'[t].ready
    BY <1>1, <1>3, FilterNotifyIs DEF Tap!FilterNotify
  <2>2. \A t \in Tapers : taps[t].pc # "select" => taps[t].orig = {}
    BY DEF SelectInv
  <2>3. Tap!SelectIsTold'
    BY <2>1, <2>2 DEF SelectInv, Tap!SelectIsTold
  <2> QED
    BY <2>1, <2>2, <2>3 DEF SelectInv
<1>4. CASE \/ Tap!FilterState \/ Tap!FilterMatch
           \/ \E b \in Frames, type \in EthTypes, d \in Drivers : Tap!Arrive(b, type, d)
  <2>1. UNCHANGED <<socks, taps>> /\ tapRx.pc # "notify"
    BY <1>4 DEF Tap!FilterState, Tap!FilterMatch, Tap!Arrive
  <2>2. \A g \in Fds : HasFrame(g)' => HasFrame(g)
    BY <2>1 DEF HasFrame
  <2> QED
    BY <1>1, <2>1, <2>2, NothingNewStep
<1> QED
  BY <1>2, <1>3, <1>4 DEF Tap!Filter

(* Every step keeps the invariant of select. *)
LEMMA SelectStep == ASSUME TapInv, SelectInv, [Tap!Next]_(Tap!tapVars) PROVE SelectInv'
<1>1. CASE UNCHANGED Tap!tapVars
  BY <1>1 DEF Tap!tapVars, SelectInv, Tap!SelectIsTold
<1> QED
  BY <1>1, TapsAssumption, CallSelects, ProceedSelects, CleanSelects, FilterSelects
     DEF Tap!Next

(* A task in select is told of every frame in the queues of its            *)
(* descriptors, except while the receiver is just about to.                *)
THEOREM SelectsAreTold == Tap!Spec => []SelectIsTold
<1>1. Tap!Init => SelectInv
  BY IdleIs DEF Tap!Init, SelectInv, Tap!SelectIsTold
<1>2. TapInv /\ SelectInv /\ [Tap!Next]_(Tap!tapVars) => SelectInv'
  BY SelectStep
<1>3. SelectInv => SelectIsTold
  BY DEF SelectInv, SelectIsTold
<1> QED
  BY <1>1, <1>2, <1>3, TapInvariant, PTL DEF Tap!Spec

-----------------------------------------------------------------------------
(* The frames *)

(* The frames that stay in the queues *)
LEMMA FramesStay ==
  ASSUME TapTypeOK, FrameOrder,
         \A f \in Fds : socks'[f].queue = socks[f].queue,
         \A f \in Fds : socks[f].queue # <<>> /\ socks[f].state = "closing" => socks'[f].state = "closing",
         RemarksInOrder',
         NEW freed \in SUBSET Frames, allocated' = allocated \ freed,
         \A b \in freed : ~InQueue(b),
         \A b \in Frames : Tap!Received(b)' <=> Tap!Received(b) /\ b \notin freed,
         tapRx'.pc # "idle" => tapRx'.frame \in Frames,
         tapRx'.pc = "notify" => tapRx'.size = 1
  PROVE  FrameOrder'
<1>1. OneEach'
  <2> SUFFICES ASSUME NEW f \in Fds, NEW g \in Fds,
                      NEW i \in 1 .. Len(socks'[f].queue), NEW j \in 1 .. Len(socks'[g].queue),
                      socks'[f].queue[i].buff = socks'[g].queue[j].buff, socks'[f].queue[i].buff \in Frames
               PROVE  f = g /\ i = j
    BY DEF OneEach
  <2>1. socks'[f].queue = socks[f].queue /\ socks'[g].queue = socks[g].queue
    OBVIOUS
  <2> QED
    BY <2>1 DEF FrameOrder, OneEach
<1>2. \A b \in Frames : InQueue(b)' <=> InQueue(b)
  BY DEF InQueue
<1>3. EntriesInOrder'
  <2> SUFFICES ASSUME NEW f \in Fds, NEW i \in 1 .. Len(socks[f].queue)
               PROVE  \/ socks[f].queue[i] = Tap!Mark /\ socks'[f].state = "closing"
                      \/ socks[f].queue[i].len = 1 /\ socks[f].queue[i].buff \in allocated'
    BY DEF EntriesInOrder
  <2>1. socks[f].queue # <<>>
    OBVIOUS
  <2>2. InQueue(socks[f].queue[i].buff)
    BY DEF InQueue
  <2>3. \/ socks[f].queue[i] = Tap!Mark /\ socks[f].state = "closing"
        \/ socks[f].queue[i].len = 1 /\ socks[f].queue[i].buff \in allocated
    BY DEF FrameOrder, EntriesInOrder
  <2> QED
    BY <2>1, <2>2, <2>3
<1>4. AllHeld'
  BY <1>2 DEF FrameOrder, AllHeld, TapTypeOK
<1> QED
  BY <1>1, <1>3, <1>4 DEF FrameOrder

(* A mark that is put into the queue of a closing descriptor *)
LEMMA MarksStay ==
  ASSUME TapTypeOK, FrameOrder, NEW f \in Fds, socks[f].state = "closing",
         socks'[f].state = "closing",
         socks'[f].queue \in {socks[f].queue, Append(socks[f].queue, Tap!Mark)},
         \A g \in Fds : g # f => socks'[g] = socks[g],
         RemarksInOrder', UNCHANGED <<allocated, tapRx>>
  PROVE  FrameOrder'
<1> DEFINE q == socks[f].queue
<1>1. /\ q \in Seq(QueueEntries) /\ Len(q) \in Nat /\ Len(Append(q, Tap!Mark)) = Len(q) + 1
      /\ \A i \in 1 .. Len(q) : Append(q, Tap!Mark)[i] = q[i]
      /\ Append(q, Tap!Mark)[Len(q) + 1] = Tap!Mark
  BY SockIs, AppendIs, MarkIs
<1>2. CASE socks'[f].queue = q
  <2>1. \A b \in Frames : Tap!Received(b)' <=> Tap!Received(b)
    BY DEF Tap!Received
  <2>2. /\ {} \in SUBSET Frames /\ allocated' = allocated \ {} /\ \A b \in {} : ~InQueue(b)
        /\ \A b \in Frames : Tap!Received(b)' <=> Tap!Received(b) /\ b \notin {}
    BY <2>1
  <2>3. /\ \A g \in Fds : socks'[g].queue = socks[g].queue
        /\ \A g \in Fds : socks[g].queue # <<>> /\ socks[g].state = "closing" => socks'[g].state = "closing"
    BY <1>2
  <2> QED
    BY <2>2, <2>3, FramesStay DEF FrameOrder, AllHeld
<1>3. CASE socks'[f].queue = Append(q, Tap!Mark)
  <2>1. Tap!Mark.buff \notin Frames
    BY MarkIs, TapsAssumption
  <2>2. \A g \in Fds : \A i \in 1 .. Len(socks'[g].queue) :
           \/ g = f /\ socks'[g].queue[i] = Tap!Mark
           \/ i \in 1 .. Len(socks[g].queue) /\ socks'[g].queue[i] = socks[g].queue[i]
    <3> TAKE g \in Fds
    <3>1. CASE g # f
      BY <3>1
    <3>2. CASE g = f
      <4>1. \A i \in 1 .. Len(Append(q, Tap!Mark)) : i = Len(q) + 1 \/ i \in 1 .. Len(q)
        BY <1>1
      <4> QED
        BY <1>1, <1>3, <3>2, <4>1
    <3> QED
      BY <3>1, <3>2
  <2>3. \A g \in Fds : \A i \in 1 .. Len(socks[g].queue) :
           i \in 1 .. Len(socks'[g].queue) /\ socks'[g].queue[i] = socks[g].queue[i]
    BY <1>1, <1>3
  <2> HIDE DEF q
  <2>4. OneEach'
    <3> SUFFICES ASSUME NEW g \in Fds, NEW h \in Fds,
                        NEW i \in 1 .. Len(socks'[g].queue), NEW j \in 1 .. Len(socks'[h].queue),
                        socks'[g].queue[i].buff = socks'[h].queue[j].buff, socks'[g].queue[i].buff \in Frames
                 PROVE  g = h /\ i = j
      BY DEF OneEach
    <3>1. /\ i \in 1 .. Len(socks[g].queue) /\ socks'[g].queue[i] = socks[g].queue[i]
          /\ j \in 1 .. Len(socks[h].queue) /\ socks'[h].queue[j] = socks[h].queue[j]
      BY <2>1, <2>2
    <3> QED
      BY <3>1 DEF FrameOrder, OneEach
  <2>5. EntriesInOrder'
    BY <2>2 DEF FrameOrder, EntriesInOrder
  <2>6. \A b \in Frames : InQueue(b)' <=> InQueue(b)
    <3>1. \A b \in Frames : InQueue(b)' => InQueue(b)
      <4> SUFFICES ASSUME NEW b \in Frames, NEW g \in Fds, NEW i \in 1 .. Len(socks'[g].queue),
                          socks'[g].queue[i].buff = b
                   PROVE  InQueue(b)
        BY DEF InQueue
      <4>1. i \in 1 .. Len(socks[g].queue) /\ socks'[g].queue[i] = socks[g].queue[i]
        BY <2>1, <2>2
      <4> QED
        BY <4>1 DEF InQueue
    <3>2. \A b \in Frames : InQueue(b) => InQueue(b)'
      BY <2>3 DEF InQueue
    <3> QED
      BY <3>1, <3>2
  <2>7. \A b \in Frames : Tap!Received(b)' <=> Tap!Received(b)
    BY DEF Tap!Received
  <2>8. AllHeld'
    BY <2>6, <2>7 DEF FrameOrder, AllHeld, TapTypeOK
  <2> QED
    BY <2>4, <2>5, <2>8 DEF FrameOrder
<1> QED
  BY <1>2, <1>3

(* A reader or the cleaner takes the first entry of a queue, and frees its *)
(* frame; the cleaner puts a mark back.                                     *)
LEMMA FrameTaken ==
  ASSUME TapTypeOK, FrameOrder, NEW f \in Fds, socks[f].queue # <<>>,
         socks'[f].state = socks[f].state, 
         \/ socks'[f].queue = Tail(socks[f].queue)
         \/ socks'[f].queue = Append(Tail(socks[f].queue), Tap!Mark) /\ socks[f].state = "closing",
         \A g \in Fds : g # f => socks'[g] = socks[g],
         RemarksInOrder', UNCHANGED tapRx,
         allocated' = IF Head(socks[f].queue).len = 0 THEN allocated
                      ELSE allocated \ {Head(socks[f].queue).buff}
  PROVE  FrameOrder'
<1> DEFINE q == socks[f].queue
<1>1. /\ q \in Seq(QueueEntries) /\ Len(q) \in Nat \ {0} /\ Len(Tail(q)) = Len(q) - 1
      /\ \A i \in 1 .. Len(q) - 1 : Tail(q)[i] = q[i + 1]
      /\ Head(q) = q[1] /\ 1 \in 1 .. Len(q) /\ Tail(q) \in Seq(QueueEntries)
  BY SockIs, TailIs
<1>21. /\ Len(Append(Tail(q), Tap!Mark)) = Len(q)
      /\ \A i \in 1 .. Len(q) - 1 : Append(Tail(q), Tap!Mark)[i] = q[i + 1]
      /\ Append(Tail(q), Tap!Mark)[Len(q)] = Tap!Mark
  BY <1>1, AppendIs, MarkIs
<1>23. /\ \A i \in 1 .. Len(q) - 1 : socks'[f].queue[i] = q[i + 1]
      /\ \/ Len(socks'[f].queue) = Len(q) - 1
         \/ /\ Len(socks'[f].queue) = Len(q) /\ socks'[f].queue[Len(q)] = Tap!Mark
            /\ socks[f].state = "closing"
  <2>1. CASE socks'[f].queue = Tail(q)
    BY <1>1, <2>1
  <2>2. CASE socks'[f].queue = Append(Tail(q), Tap!Mark) /\ socks[f].state = "closing"
    BY <1>21, <2>2
  <2> QED
    BY <2>1, <2>2
<1>22. Tap!Mark.buff \notin Frames
  BY MarkIs, TapsAssumption
<1>2. \/ q[1] = Tap!Mark /\ q[1].buff \notin Frames /\ allocated' = allocated
      \/ q[1].buff \in allocated /\ allocated' = allocated \ {q[1].buff}
  <2>1. \/ q[1] = Tap!Mark /\ socks[f].state = "closing"
        \/ q[1].len = 1 /\ q[1].buff \in allocated
    BY <1>1 DEF FrameOrder, EntriesInOrder
  <2> QED
    BY <1>1, <2>1, MarkIs, TapsAssumption
<1>3. \A g \in Fds : \A i \in 1 .. Len(socks'[g].queue) :
         \/ socks'[g].queue[i] = Tap!Mark /\ socks[g].state = "closing"
         \/ \E j \in 1 .. Len(socks[g].queue) :
              /\ socks'[g].queue[i] = socks[g].queue[j]
              /\ g = f => j = i + 1
              /\ g # f => j = i
  <2> TAKE g \in Fds
  <2> TAKE i \in 1 .. Len(socks'[g].queue)
  <2>1. CASE g = f
    <3>1. CASE i \in 1 .. Len(q) - 1
      <4>1. i + 1 \in 1 .. Len(q) /\ socks'[f].queue[i] = q[i + 1]
        BY <1>1, <1>23, <3>1
      <4> QED
        BY <2>1, <4>1
    <3>2. CASE i \notin 1 .. Len(q) - 1
      <4>1. i \in 1 .. Len(socks'[f].queue)
        BY <2>1
      <4>2. socks'[f].queue[i] = Tap!Mark /\ socks[f].state = "closing"
        BY <1>1, <1>23, <3>2, <4>1
      <4> QED
        BY <2>1, <4>2
    <3> QED
      BY <3>1, <3>2
  <2>2. CASE g # f
    BY <2>2
  <2> QED
    BY <2>1, <2>2
<1>4. \A g \in Fds : \A j \in 1 .. Len(socks[g].queue) :
         (g = f /\ j = 1) \/ \E i \in 1 .. Len(socks'[g].queue) : socks'[g].queue[i] = socks[g].queue[j]
  <2> TAKE g \in Fds
  <2> TAKE j \in 1 .. Len(socks[g].queue)
  <2>1. CASE g = f /\ j # 1
    <3>1. j - 1 \in 1 .. Len(q) - 1 /\ (j - 1) + 1 = j
      BY <1>1, <2>1
    <3>2. j - 1 \in 1 .. Len(socks'[f].queue) /\ socks'[f].queue[j - 1] = q[j]
      BY <1>1, <1>23, <3>1
    <3> QED
      BY <2>1, <3>2
  <2>2. CASE g # f
    BY <2>2
  <2> QED
    BY <2>1, <2>2
<1>5. OneEach'
  <2> SUFFICES ASSUME NEW g \in Fds, NEW h \in Fds,
                      NEW i \in 1 .. Len(socks'[g].queue), NEW j \in 1 .. Len(socks'[h].queue),
                      socks'[g].queue[i].buff = socks'[h].queue[j].buff, socks'[g].queue[i].buff \in Frames
               PROVE  g = h /\ i = j
    BY DEF OneEach
  <2>1. PICK m \in 1 .. Len(socks[g].queue) :
          socks'[g].queue[i] = socks[g].queue[m] /\ (g = f => m = i + 1) /\ (g # f => m = i)
    BY <1>3, <1>22
  <2>2. PICK n \in 1 .. Len(socks[h].queue) :
          socks'[h].queue[j] = socks[h].queue[n] /\ (h = f => n = j + 1) /\ (h # f => n = j)
    BY <1>3, <1>22
  <2>3. g = h /\ m = n
    BY <2>1, <2>2 DEF FrameOrder, OneEach
  <2>4. i \in Int /\ j \in Int
    OBVIOUS
  <2> QED
    BY <2>1, <2>2, <2>3, <2>4
<1>6. \A g \in Fds : \A i \in 1 .. Len(socks'[g].queue) : socks'[g].queue[i].buff \in Frames =>
         socks'[g].queue[i].buff # q[1].buff
  <2> SUFFICES ASSUME NEW g \in Fds, NEW i \in 1 .. Len(socks'[g].queue), socks'[g].queue[i].buff \in Frames,
                      socks'[g].queue[i].buff = q[1].buff
               PROVE  FALSE
    OBVIOUS
  <2>1. PICK m \in 1 .. Len(socks[g].queue) :
          socks'[g].queue[i] = socks[g].queue[m] /\ (g = f => m = i + 1) /\ (g # f => m = i)
    BY <1>3, <1>22
  <2>2. g = f /\ m = 1
    <3>1. OneEach /\ q = socks[f].queue
      BY DEF FrameOrder
    <3>2. 1 \in 1 .. Len(socks[f].queue)
      BY <1>1
    <3>3. socks[g].queue[m].buff = socks[f].queue[1].buff /\ socks[g].queue[m].buff \in Frames
      BY <2>1, <3>1
    <3> QED
      BY <3>1, <3>2, <3>3 DEF OneEach
  <2> QED
    BY <2>1, <2>2
<1>7. EntriesInOrder'
  <2> SUFFICES ASSUME NEW g \in Fds, NEW i \in 1 .. Len(socks'[g].queue)
               PROVE  \/ socks'[g].queue[i] = Tap!Mark /\ socks'[g].state = "closing"
                      \/ socks'[g].queue[i].len = 1 /\ socks'[g].queue[i].buff \in allocated'
    BY DEF EntriesInOrder
  <2>0. CASE socks'[g].queue[i] = Tap!Mark /\ socks[g].state = "closing"
    BY <2>0
  <2>1. CASE \E m \in 1 .. Len(socks[g].queue) : socks'[g].queue[i] = socks[g].queue[m]
    <3>1. PICK m \in 1 .. Len(socks[g].queue) : socks'[g].queue[i] = socks[g].queue[m]
    BY <2>1
    <3>2. socks'[g].state = socks[g].state /\ allocated \subseteq Frames
    BY DEF TapTypeOK
    <3>3. \/ socks[g].queue[m] = Tap!Mark /\ socks[g].state = "closing"
          \/ socks[g].queue[m].len = 1 /\ socks[g].queue[m].buff \in allocated
    BY DEF FrameOrder, EntriesInOrder
    <3> QED
    BY <1>2, <1>6, <3>1, <3>2, <3>3
  <2> QED
    BY <1>3, <2>0, <2>1
<1>8. \A b \in Frames : InQueue(b)' => InQueue(b) /\ b # q[1].buff
  <2> SUFFICES ASSUME NEW b \in Frames, NEW g \in Fds, NEW i \in 1 .. Len(socks'[g].queue),
                      socks'[g].queue[i].buff = b
               PROVE  InQueue(b) /\ b # q[1].buff
    BY DEF InQueue
  <2>1. PICK m \in 1 .. Len(socks[g].queue) : socks'[g].queue[i] = socks[g].queue[m]
    BY <1>3, <1>22
  <2> QED
    BY <1>6, <2>1 DEF InQueue
<1>9. \A b \in Frames : InQueue(b) => InQueue(b)' \/ b = q[1].buff
  <2> SUFFICES ASSUME NEW b \in Frames, NEW g \in Fds, NEW j \in 1 .. Len(socks[g].queue),
                      socks[g].queue[j].buff = b, b # q[1].buff
               PROVE  InQueue(b)'
    BY DEF InQueue
  <2>1. PICK i \in 1 .. Len(socks'[g].queue) : socks'[g].queue[i] = socks[g].queue[j]
    BY <1>4
  <2> QED
    BY <2>1 DEF InQueue
<1>10. \A b \in Frames : Tap!Received(b)' <=> Tap!Received(b)
  BY DEF Tap!Received
<1>11. InQueue(q[1].buff)
  BY <1>1 DEF InQueue
<1>12. AllHeld'
  <2>1. \A b \in Frames : Tap!Received(b)' => b \in allocated' /\ ~InQueue(b)'
    BY <1>2, <1>8, <1>10, <1>11 DEF FrameOrder, AllHeld
  <2>2. \A b \in allocated' : Tap!Received(b)' \/ InQueue(b)'
    BY <1>2, <1>9, <1>10 DEF FrameOrder, AllHeld, TapTypeOK
  <2> QED
    BY <2>1, <2>2 DEF FrameOrder, AllHeld
<1> QED
  BY <1>5, <1>7, <1>12 DEF FrameOrder

(* The queue of a closing descriptor is emptied, and its frames freed. *)
LEMMA FramesFlushed ==
  ASSUME TapTypeOK, FrameOrder, NEW f \in Fds, Tap!CleanFlush(f), RemarksInOrder'
  PROVE  FrameOrder'
<1> DEFINE q == socks[f].queue
           freed == {e.buff : e \in {x \in {q[i] : i \in DOMAIN q} : x.len > 0}}
<1>1. /\ allocated' = allocated \ freed /\ UNCHANGED tapRx
      /\ socks' = [socks EXCEPT ![f].queue = <<>>, ![f].alive = FALSE]
  BY DEF Tap!CleanFlush
<1>2. /\ socks'[f].queue = <<>> /\ Len(socks'[f].queue) = 0
      /\ \A g \in Fds : g # f => socks'[g] = socks[g]
  BY <1>1 DEF TapTypeOK, Sockets
<1>3. q \in Seq(QueueEntries) /\ Len(q) \in Nat /\ DOMAIN q = 1 .. Len(q)
  BY SockIs
<1>4. \A b \in Frames : b \in freed <=> \E i \in 1 .. Len(q) : q[i].buff = b
  <2>1. \A i \in 1 .. Len(q) : q[i].buff \in Frames => q[i].len = 1
    BY MarkIs, TapsAssumption DEF FrameOrder, EntriesInOrder
  <2>2. ASSUME NEW b \in Frames, NEW i \in 1 .. Len(q), q[i].buff = b PROVE b \in freed
    <3>1. q[i].len > 0 /\ q[i] \in {q[j] : j \in DOMAIN q}
      BY <1>3, <2>1, <2>2
    <3> QED
      BY <2>2, <3>1
  <2>3. ASSUME NEW b \in freed PROVE \E i \in 1 .. Len(q) : q[i].buff = b
    BY <1>3
  <2> QED
    BY <2>2, <2>3
<1> HIDE DEF q, freed
<1>5. OneEach'
  <2> SUFFICES ASSUME NEW g \in Fds, NEW h \in Fds,
                      NEW i \in 1 .. Len(socks'[g].queue), NEW j \in 1 .. Len(socks'[h].queue),
                      socks'[g].queue[i].buff = socks'[h].queue[j].buff, socks'[g].queue[i].buff \in Frames
               PROVE  g = h /\ i = j
    BY DEF OneEach
  <2>1. g # f /\ h # f
    BY <1>2
  <2>2. socks'[g] = socks[g] /\ socks'[h] = socks[h]
    BY <1>2, <2>1
  <2> QED
    BY <2>2 DEF FrameOrder, OneEach
<1>6. EntriesInOrder'
  <2> SUFFICES ASSUME NEW g \in Fds, g # f, NEW i \in 1 .. Len(socks[g].queue)
               PROVE  \/ socks[g].queue[i] = Tap!Mark /\ socks[g].state = "closing"
                      \/ socks[g].queue[i].len = 1 /\ socks[g].queue[i].buff \in allocated'
    BY <1>2 DEF EntriesInOrder
  <2>1. \/ socks[g].queue[i] = Tap!Mark /\ socks[g].state = "closing"
        \/ socks[g].queue[i].len = 1 /\ socks[g].queue[i].buff \in allocated
    BY DEF FrameOrder, EntriesInOrder
  <2>2. socks[g].queue[i].buff \in Frames => socks[g].queue[i].buff \notin freed
    BY <1>4 DEF FrameOrder, OneEach, q
  <2> QED
    BY <1>1, <2>1, <2>2 DEF TapTypeOK
<1>7. \A b \in Frames : InQueue(b)' <=> InQueue(b) /\ b \notin freed
  <2>1. \A b \in Frames : InQueue(b)' => InQueue(b) /\ b \notin freed
    <3> SUFFICES ASSUME NEW b \in Frames, NEW g \in Fds, g # f, NEW i \in 1 .. Len(socks[g].queue),
                        socks[g].queue[i].buff = b
                 PROVE  InQueue(b) /\ b \notin freed
      BY <1>2 DEF InQueue
    <3> QED
      BY <1>4 DEF FrameOrder, OneEach, InQueue, q
  <2>2. \A b \in Frames : InQueue(b) /\ b \notin freed => InQueue(b)'
    BY <1>2, <1>4 DEF InQueue, q
  <2> QED
    BY <2>1, <2>2
<1>8. \A b \in Frames : Tap!Received(b)' <=> Tap!Received(b)
  BY <1>1 DEF Tap!Received
<1>9. \A b \in Frames : b \in freed => InQueue(b)
  BY <1>4 DEF InQueue, q
<1>10. AllHeld'
  <2>1. \A b \in Frames : Tap!Received(b)' => b \in allocated' /\ ~InQueue(b)'
    BY <1>1, <1>7, <1>8, <1>9 DEF FrameOrder, AllHeld
  <2>2. \A b \in allocated' : Tap!Received(b)' \/ InQueue(b)'
    BY <1>1, <1>7, <1>8 DEF FrameOrder, AllHeld, TapTypeOK
  <2> QED
    BY <1>1, <2>1, <2>2 DEF FrameOrder, AllHeld
<1> QED
  BY <1>5, <1>6, <1>10 DEF FrameOrder

(* The receiver puts the frame it holds into a queue. *)
LEMMA FramePushed ==
  ASSUME TapTypeOK, FrameOrder, Tap!FilterPush, tapRx.size = 1, RemarksInOrder'
  PROVE  FrameOrder'
<1> DEFINE f == tapRx.fd
           q == socks[f].queue
           e == [buff |-> tapRx.frame, len |-> tapRx.size]
<1>1. /\ f \in Fds /\ e \in QueueEntries
      /\ socks'[f].state = socks[f].state
      /\ Len(q) < RX_QUEUE_MAX_SIZE => socks'[f].queue = Append(q, e)
      /\ ~(Len(q) < RX_QUEUE_MAX_SIZE) => socks'[f].queue = q
      /\ \A g \in Fds : g # f => socks'[g] = socks[g]
  BY FilterPushIs
<1>2. q \in Seq(QueueEntries) /\ Len(q) \in Nat /\ RX_QUEUE_MAX_SIZE \in Nat
  BY <1>1, SockIs, TapsAssumption
<1>3. /\ tapRx.frame \in Frames /\ Tap!Received(tapRx.frame) /\ tapRx.pc = "push"
      /\ tapRx.frame \in allocated /\ ~InQueue(tapRx.frame)
  BY DEF Tap!FilterPush, FrameOrder, AllHeld, Tap!Received
<1>4. tapRx'.pc = "notify" /\ tapRx'.frame = tapRx.frame /\ tapRx'.size = 1
  BY DEF Tap!FilterPush, TapTypeOK, RxRecords
<1>5. \A b \in Frames : Tap!Received(b) <=> b = tapRx.frame
  BY <1>3 DEF Tap!Received
<1>6. \A b \in Frames : ~Tap!Received(b)'
  BY <1>4 DEF Tap!Received
<1>7. CASE ~(Len(q) < RX_QUEUE_MAX_SIZE)
  <2>1. allocated' = allocated \ {tapRx.frame}
    BY <1>2, <1>7 DEF Tap!FilterPush, Tap!Full
  <2>2. \A g \in Fds : socks'[g].queue = socks[g].queue /\ socks'[g].state = socks[g].state
    BY <1>1, <1>7
  <2> HIDE DEF f, q, e
  <2> QED
    <3>1. /\ \A b \in Frames : Tap!Received(b)' <=> Tap!Received(b) /\ b \notin {tapRx.frame}
          /\ \A b \in {tapRx.frame} : ~InQueue(b)
          /\ {tapRx.frame} \in SUBSET Frames
      BY <1>3, <1>5, <1>6
    <3>2. /\ tapRx'.pc # "idle" => tapRx'.frame \in Frames
          /\ tapRx'.pc = "notify" => tapRx'.size = 1
      BY <1>3, <1>4
    <3>3. /\ \A g \in Fds : socks'[g].queue = socks[g].queue
          /\ \A g \in Fds : socks[g].queue # <<>> /\ socks[g].state = "closing" => socks'[g].state = "closing"
      BY <2>2
    <3> QED
      BY <2>1, <3>1, <3>2, <3>3, FramesStay
<1>8. CASE Len(q) < RX_QUEUE_MAX_SIZE
  <2>1. allocated' = allocated
    BY <1>2, <1>8 DEF Tap!FilterPush, Tap!Full
  <2>2. /\ Len(Append(q, e)) = Len(q) + 1
        /\ \A i \in 1 .. Len(q) : Append(q, e)[i] = q[i]
        /\ Append(q, e)[Len(q) + 1] = e
    BY <1>1, <1>2, AppendIs
  <2>3. e.buff = tapRx.frame /\ e.len = 1
    OBVIOUS
  <2>4. socks'[f].queue = Append(q, e)
    BY <1>1, <1>8
  <2>5. \A g \in Fds : \A i \in 1 .. Len(socks'[g].queue) :
           \/ g = f /\ i = Len(q) + 1 /\ socks'[g].queue[i] = e
           \/ i \in 1 .. Len(socks[g].queue) /\ socks'[g].queue[i] = socks[g].queue[i]
    <3> TAKE g \in Fds
    <3>1. CASE g # f
      BY <1>1, <3>1
    <3>2. CASE g = f
      <4>1. \A i \in 1 .. Len(Append(q, e)) : i = Len(q) + 1 \/ i \in 1 .. Len(q)
        BY <1>2, <2>2
      <4> HIDE DEF e
      <4> QED
        BY <2>2, <2>4, <3>2, <4>1
    <3> QED
      BY <3>1, <3>2
  <2>6. \A g \in Fds : \A i \in 1 .. Len(socks[g].queue) :
           i \in 1 .. Len(socks'[g].queue) /\ socks'[g].queue[i] = socks[g].queue[i]
    <3> TAKE g \in Fds
    <3>1. CASE g # f
      BY <1>1, <3>1
    <3>2. CASE g = f
      <4>1. \A i \in 1 .. Len(q) : i \in 1 .. Len(Append(q, e))
        BY <1>2, <2>2
      <4> HIDE DEF e
      <4> QED
        BY <2>2, <2>4, <3>2, <4>1
    <3> QED
      BY <3>1, <3>2
  <2>7. Len(q) + 1 \in 1 .. Len(socks'[f].queue) /\ socks'[f].queue[Len(q) + 1] = e
    BY <1>2, <2>2, <2>4
  <2> HIDE DEF f, e, q
  <2>8. \A g \in Fds : \A i \in 1 .. Len(socks[g].queue) : socks[g].queue[i].buff # tapRx.frame
    BY <1>3 DEF InQueue
  <2>9. OneEach'
    <3> SUFFICES ASSUME NEW g \in Fds, NEW h \in Fds,
                        NEW i \in 1 .. Len(socks'[g].queue), NEW j \in 1 .. Len(socks'[h].queue),
                        socks'[g].queue[i].buff = socks'[h].queue[j].buff, socks'[g].queue[i].buff \in Frames
                 PROVE  g = h /\ i = j
      BY DEF OneEach
    <3>1. CASE socks'[g].queue[i].buff = tapRx.frame
      BY <2>3, <2>5, <2>8, <3>1
    <3>2. CASE socks'[g].queue[i].buff # tapRx.frame
      <4>1. /\ i \in 1 .. Len(socks[g].queue) /\ socks'[g].queue[i] = socks[g].queue[i]
            /\ j \in 1 .. Len(socks[h].queue) /\ socks'[h].queue[j] = socks[h].queue[j]
        BY <2>3, <2>5, <3>2
      <4> QED
        BY <4>1 DEF FrameOrder, OneEach
    <3> QED
      BY <3>1, <3>2
  <2>10. EntriesInOrder'
    <3> SUFFICES ASSUME NEW g \in Fds, NEW i \in 1 .. Len(socks'[g].queue)
                 PROVE  \/ socks'[g].queue[i] = Tap!Mark /\ socks'[g].state = "closing"
                        \/ socks'[g].queue[i].len = 1 /\ socks'[g].queue[i].buff \in allocated'
      BY DEF EntriesInOrder, Tap!Mark
    <3>1. CASE socks'[g].queue[i] = e
      BY <1>3, <2>1, <2>3, <3>1
    <3>2. CASE i \in 1 .. Len(socks[g].queue) /\ socks'[g].queue[i] = socks[g].queue[i]
      <4>1. socks'[g].state = socks[g].state
        BY <1>1
      <4> QED
        BY <2>1, <3>2, <4>1 DEF FrameOrder, EntriesInOrder
    <3> QED
      BY <2>5, <3>1, <3>2
  <2>11. \A b \in Frames : InQueue(b) => InQueue(b)'
    BY <2>6 DEF InQueue
  <2>12. \A b \in Frames : b = tapRx.frame => InQueue(b)'
    BY <1>1, <2>3, <2>7 DEF InQueue
  <2>13. AllHeld'
    BY <1>3, <1>4, <1>5, <1>6, <2>1, <2>11, <2>12 DEF FrameOrder, AllHeld, TapTypeOK
  <2> QED
    BY <2>9, <2>10, <2>13 DEF FrameOrder
<1> QED
  BY <1>7, <1>8

(* Steps that leave the queues, the frames and the receiver alone *)
LEMMA NoFrameMoves ==
  ASSUME TapTypeOK, FrameOrder,
         \A f \in Fds : socks'[f].queue = socks[f].queue,
         \A f \in Fds : socks[f].queue # <<>> /\ socks[f].state = "closing" => socks'[f].state = "closing",
         \A t \in Tapers : taps'[t].pc = "remark" =>
            /\ taps[t].pc = "remark" /\ taps'[t].fd = taps[t].fd
            /\ socks[taps[t].fd].state = "closing" => socks'[taps[t].fd].state = "closing",
         UNCHANGED <<allocated, tapRx>>
  PROVE  FrameOrder'
<1>1. RemarksInOrder'
  BY DEF FrameOrder, RemarksInOrder
<1>2. allocated' = allocated \ {} /\ \A b \in Frames : Tap!Received(b)' <=> Tap!Received(b)
  BY DEF Tap!Received
<1>3. (tapRx'.pc # "idle" => tapRx'.frame \in Frames) /\ (tapRx'.pc = "notify" => tapRx'.size = 1)
  BY DEF FrameOrder, AllHeld
<1>4. PICK freed \in SUBSET Frames : freed = {}
  OBVIOUS
<1>5. /\ allocated' = allocated \ freed
      /\ \A b \in freed : ~InQueue(b)
      /\ \A b \in Frames : Tap!Received(b)' <=> Tap!Received(b) /\ b \notin freed
  BY <1>2, <1>4
<1> QED
  BY <1>1, <1>3, <1>5, FramesStay

(* Calls move no frame. *)
LEMMA CallFrames ==
  ASSUME TapInv, FrameOrder, NEW t \in Tapers, NEW f \in Fds, Tap!Call(t, f) \/ Tap!EndSelect(t)
  PROVE  FrameOrder'
<1>1. TapTypeOK /\ UNCHANGED <<allocated, tapRx>>
  BY DEF TapInv, Tap!Call, Tap!OpenTake, Tap!Read, Tap!Close, Tap!Fcntl, Tap!SetFilter,
     Tap!SetDriver, Tap!StartSelect, Tap!EndSelect
<1>2. \A u \in Tapers : taps[u].fd \in Fds
  BY <1>1, FdsIn
<1>3. \A g \in Fds : /\ socks'[g].queue = socks[g].queue
                     /\ socks[g].state = "closing" => socks'[g].state = "closing"
  <2>1. CASE Tap!OpenTake(t, f)
    <3>1. socks[f].state = "ready"
      BY <2>1 DEF Tap!OpenTake
    <3> QED
      BY <1>1, <2>1, <3>1 DEF Tap!OpenTake, TapTypeOK, Sockets
  <2>2. CASE Tap!Read(t, f) \/ Tap!StartSelect(t, {f}) \/ Tap!EndSelect(t)
    BY <2>2 DEF Tap!Read, Tap!StartSelect, Tap!EndSelect
  <2>3. CASE Tap!Close(t, f)
    BY <1>1, <2>3 DEF Tap!Close, TapTypeOK, Sockets
  <2>4. CASE Tap!Fcntl(t, f)
    BY <1>1, <2>4 DEF Tap!Fcntl, TapTypeOK, Sockets
  <2>5. CASE \E type \in EthTypes : Tap!SetFilter(t, f, type)
    BY <1>1, <2>5 DEF Tap!SetFilter, TapTypeOK, Sockets
  <2>6. CASE \E d \in Drivers : Tap!SetDriver(t, f, d)
    BY <1>1, <2>6 DEF Tap!SetDriver, TapTypeOK, Sockets
  <2> QED
    BY <2>1, <2>2, <2>3, <2>4, <2>5, <2>6 DEF Tap!Call
<1>4. \A u \in Tapers : taps'[u].pc = "remark" => taps'[u] = taps[u]
  <2>1. CASE Tap!OpenTake(t, f) \/ Tap!Read(t, f) \/ Tap!Close(t, f)
    BY <1>1, <2>1, GoesIs DEF Tap!OpenTake, Tap!Read, Tap!Close
  <2>2. CASE Tap!EndSelect(t)
    BY <1>1, <2>2, ReturnIs DEF Tap!EndSelect
  <2>3. CASE Tap!StartSelect(t, {f})
    BY <1>1, <2>3 DEF Tap!StartSelect, TapTypeOK
  <2>4. CASE \/ Tap!Fcntl(t, f) \/ \E type \in EthTypes : Tap!SetFilter(t, f, type)
             \/ \E d \in Drivers : Tap!SetDriver(t, f, d)
    BY <2>4 DEF Tap!Fcntl, Tap!SetFilter, Tap!SetDriver
  <2> QED
    BY <2>1, <2>2, <2>3, <2>4 DEF Tap!Call
<1> QED
  BY <1>1, <1>2, <1>3, <1>4, NoFrameMoves

(* A read takes the frame out of the queue and frees it. *)
LEMMA ProceedFrames ==
  ASSUME TapInv, FrameOrder, NEW t \in Tapers, NEW f \in Fds, Tap!Proceed(t, f)
  PROVE  FrameOrder'
<1>1. TapTypeOK /\ UNCHANGED tapRx /\ \A u \in Tapers : taps[u].fd \in Fds
  BY FdsIn DEF TapInv, Tap!Proceed, Tap!OpenQueue, Tap!OpenSet, Tap!Receive,
     Tap!ReceiveNothing, Tap!Remark, Tap!CloseTask, Tap!CloseDone
<1>2. \A u \in Tapers : taps[u].pc = "remark" => socks[taps[u].fd].alive
  BY DEF TapInv, UsersInOrder
<1>3. CASE Tap!OpenQueue(t, f)
  <2>1. socks[f].queue = <<>> /\ socks[f].state = "opened"
    BY <1>3 DEF Tap!OpenQueue, Tap!At, TapInv, OwnersInOrder, SocketsInOrder
  <2>2. CASE socks' = [socks EXCEPT ![f].alive = TRUE, ![f].queue = <<>>] /\ Tap!Goes(t, "setting", f)
    <3>1. \A g \in Fds : socks'[g].queue = socks[g].queue /\ socks'[g].state = socks[g].state
      BY <1>1, <2>1, <2>2 DEF TapTypeOK, Sockets
    <3>2. \A u \in Tapers : taps'[u].pc = "remark" => taps'[u] = taps[u]
      BY <1>1, <2>2, GoesIs
    <3>3. UNCHANGED allocated
      BY <1>3 DEF Tap!OpenQueue
    <3> QED
      BY <1>1, <3>1, <3>2, <3>3, NoFrameMoves
  <2>3. CASE socks' = [socks EXCEPT ![f].state = "ready"] /\ Tap!Return(t)
    <3>1. \A g \in Fds : /\ socks'[g].queue = socks[g].queue
                         /\ socks[g].state = "closing" => socks'[g].state = "closing"
      BY <1>1, <2>1, <2>3 DEF TapTypeOK, Sockets
    <3>2. \A u \in Tapers : taps'[u].pc = "remark" => taps'[u] = taps[u]
      BY <1>1, <2>3, ReturnIs
    <3>3. UNCHANGED allocated
      BY <1>3 DEF Tap!OpenQueue
    <3> QED
      BY <1>1, <3>1, <3>2, <3>3, NoFrameMoves
  <2> QED
    BY <1>3, <2>2, <2>3 DEF Tap!OpenQueue
<1>4. CASE \E nb \in BOOLEAN : Tap!OpenSet(t, f, nb)
  <2>1. PICK nb \in BOOLEAN : Tap!OpenSet(t, f, nb)
    BY <1>4
  <2>2. socks' = [socks EXCEPT ![f].filter = 0, ![f].driver = NoDriver, ![f].nonblock = nb]
    BY <2>1 DEF Tap!OpenSet
  <2>3. \A g \in Fds : socks'[g].queue = socks[g].queue /\ socks'[g].state = socks[g].state
    BY <1>1, <2>2 DEF TapTypeOK, Sockets
  <2>4. UNCHANGED allocated /\ \A u \in Tapers : taps'[u].pc = "remark" => taps'[u] = taps[u]
    BY <1>1, <2>1, ReturnIs DEF Tap!OpenSet
  <2> QED
    BY <1>1, <2>3, <2>4, NoFrameMoves
<1>5. CASE Tap!Receive(t, f)
  <2>1. /\ socks[f].queue # <<>> /\ socks' = [socks EXCEPT ![f].queue = Tail(socks[f].queue)]
        /\ allocated' = IF Head(socks[f].queue).len = 0 THEN allocated
                        ELSE allocated \ {Head(socks[f].queue).buff}
    BY <1>5 DEF Tap!Receive
  <2>2. /\ \A g \in Fds : g # f => socks'[g] = socks[g]
        /\ socks'[f].queue = Tail(socks[f].queue) /\ socks'[f].state = socks[f].state
    BY <1>1, <2>1 DEF TapTypeOK, Sockets
  <2>3. Head(socks[f].queue).len = 0 => socks[f].state = "closing"
    <3>1. Head(socks[f].queue) = socks[f].queue[1] /\ 1 \in 1 .. Len(socks[f].queue)
      BY <1>1, <2>1, SockIs, TailIs
    <3> QED
      BY <3>1 DEF FrameOrder, EntriesInOrder
  <2>4. RemarksInOrder'
    <3>1. \A u \in Tapers : u # t => taps'[u] = taps[u]
      BY <1>1, <1>5, GoesIs, ReturnIs DEF Tap!Receive
    <3>2. taps'[t].pc = "remark" => taps'[t].fd = f /\ socks[f].state = "closing"
      BY <1>1, <1>5, <2>3, GoesIs, ReturnIs DEF Tap!Receive
    <3>3. \A g \in Fds : socks'[g].state = socks[g].state
      BY <2>2
    <3> QED
      BY <1>1, <3>1, <3>2, <3>3 DEF FrameOrder, RemarksInOrder
  <2> QED
    BY <1>1, <2>1, <2>2, <2>4, FrameTaken
<1>6. CASE Tap!ReceiveNothing(t, f) \/ Tap!CloseTask(t, f)
  <2>1. UNCHANGED <<socks, allocated>> /\ \A u \in Tapers : taps'[u].pc = "remark" => taps'[u] = taps[u]
    BY <1>1, <1>6, GoesIs, ReturnIs DEF Tap!ReceiveNothing, Tap!CloseTask
  <2> QED
    BY <1>1, <2>1, NoFrameMoves
<1>7. CASE Tap!Remark(t, f)
  <2>1. socks[f].state = "closing"
    BY <1>7 DEF Tap!Remark, Tap!At, FrameOrder, RemarksInOrder
  <2>2. socks[f] \in Sockets /\ socks'[f] = Tap!Pushed(socks[f], Tap!Mark) /\ \A g \in Fds : g # f => socks'[g] = socks[g]
    BY <1>1, <1>7 DEF Tap!Remark, TapTypeOK
  <2>3. /\ Tap!Pushed(socks[f], Tap!Mark).state = socks[f].state
        /\ Tap!Pushed(socks[f], Tap!Mark).queue \in {socks[f].queue, Append(socks[f].queue, Tap!Mark)}
    BY <2>2, PushedIs, MarkIs
  <2>4. UNCHANGED allocated /\ \A u \in Tapers : taps'[u].pc = "remark" => taps'[u] = taps[u]
    BY <1>1, <1>7, ReturnIs DEF Tap!Remark
  <2>5. \A g \in Fds : socks'[g].state = socks[g].state
    BY <2>2, <2>3
  <2>6. RemarksInOrder'
    BY <1>1, <2>4, <2>5 DEF FrameOrder, RemarksInOrder
  <2> QED
    BY <1>1, <2>1, <2>2, <2>3, <2>4, <2>6, MarksStay
<1>8. CASE Tap!CloseDone(t, f)
  <2>1. socks[f].queue = <<>> /\ ~socks[f].alive
    BY <1>8 DEF Tap!CloseDone, Tap!At, TapInv, SocketsInOrder, OwnersInOrder
  <2>2. /\ \A g \in Fds : g # f => socks'[g] = socks[g]
        /\ socks'[f].queue = socks[f].queue
    BY <1>1, <1>8 DEF Tap!CloseDone, TapTypeOK, Sockets
  <2>3. UNCHANGED allocated /\ \A u \in Tapers : taps'[u].pc = "remark" => taps'[u] = taps[u]
    BY <1>1, <1>8, ReturnIs DEF Tap!CloseDone
  <2>4. \A u \in Tapers : taps[u].pc = "remark" => taps[u].fd # f
    BY <1>2, <2>1
  <2> QED
    BY <1>1, <2>1, <2>2, <2>3, <2>4, NoFrameMoves
<1> QED
  BY <1>3, <1>4, <1>5, <1>6, <1>7, <1>8 DEF Tap!Proceed

(* The cleaner frees what the queue holds. *)
LEMMA CleanFrames ==
  ASSUME TapInv, FrameOrder, NEW f \in Fds, Tap!Clean(f)
  PROVE  FrameOrder'
<1>1. /\ TapTypeOK /\ UNCHANGED <<taps, tapRx>> /\ \A u \in Tapers : taps[u].fd \in Fds
      /\ socks[f] \in Sockets
  BY FdsIn, SockIs DEF TapInv, Tap!Clean, Tap!CleanMark, Tap!CleanPop, Tap!CleanFlush
<1>2. socks[f].state = "closing"
  BY DEF Tap!Clean, Tap!CleanMark, Tap!CleanPop, Tap!CleanFlush, TapInv, SocketsInOrder
<1>3. (\A g \in Fds : socks'[g].state = socks[g].state) => RemarksInOrder'
  BY <1>1 DEF FrameOrder, RemarksInOrder
<1>4. ASSUME NEW s \in Sockets, s.state = "closing"
      PROVE  /\ Tap!Pushed(s, Tap!Mark).state = "closing"
             /\ Tap!Pushed(s, Tap!Mark).queue \in {s.queue, Append(s.queue, Tap!Mark)}
  BY <1>4, PushedIs, MarkIs
<1>5. CASE Tap!CleanMark(f)
  <2>1. /\ socks'[f] = Tap!Pushed(socks[f], Tap!Mark) /\ \A g \in Fds : g # f => socks'[g] = socks[g]
        /\ UNCHANGED allocated
    BY <1>1, <1>5 DEF Tap!CleanMark, TapTypeOK
  <2> QED
    BY <1>1, <1>2, <1>3, <1>4, <2>1, MarksStay
<1>6. CASE Tap!CleanFlush(f)
  <2>1. \A g \in Fds : socks'[g].state = socks[g].state
    BY <1>1, <1>6 DEF Tap!CleanFlush, TapTypeOK, Sockets
  <2> QED
    BY <1>1, <1>3, <1>6, <2>1, FramesFlushed
<1>7. CASE Tap!CleanPop(f)
  <2> DEFINE q == socks[f].queue
             popped == [socks[f] EXCEPT !.queue = Tail(@)]
  <2>1. CASE q = <<>>
    <3>1. UNCHANGED <<socks, allocated>>
      BY <1>7, <2>1 DEF Tap!CleanPop
    <3> QED
      BY <1>1, <3>1, NoFrameMoves
  <2>2. CASE q # <<>> /\ Head(q).len # 0
    <3>1. Tail(q) \in Seq(QueueEntries)
      BY <1>1, <2>2, SockIs, TailIs
    <3>2. socks' = [socks EXCEPT ![f] = popped] /\ allocated' = allocated \ {Head(q).buff}
      BY <1>7, <2>2 DEF Tap!CleanPop
    <3>3. popped.queue = Tail(q) /\ popped.state = socks[f].state
      BY <1>1, <3>1 DEF Sockets
    <3>4. /\ socks'[f].queue = Tail(q) /\ socks'[f].state = socks[f].state
          /\ \A g \in Fds : g # f => socks'[g] = socks[g]
      BY <1>1, <3>2, <3>3 DEF TapTypeOK
    <3>5. RemarksInOrder'
      BY <1>3, <3>4
    <3>6. UNCHANGED tapRx /\ TapTypeOK
      BY <1>1
    <3> HIDE DEF popped
    <3> QED
      BY <2>2, <3>2, <3>4, <3>5, <3>6, FrameTaken
  <2>3. CASE q # <<>> /\ Head(q).len = 0
    <3>1. /\ q \in Seq(QueueEntries) /\ Tail(q) \in Seq(QueueEntries) /\ Head(q) = q[1] /\ 1 \in 1 .. Len(q)
          /\ Len(q) \in Nat \ {0} /\ Len(Tail(q)) = Len(q) - 1 /\ \A i \in 1 .. Len(q) - 1 : Tail(q)[i] = q[i + 1]
      BY <1>1, <2>3, SockIs, TailIs
    <3>2. socks' = [socks EXCEPT ![f] = Tap!Pushed(popped, Tap!Mark)] /\ UNCHANGED allocated
      BY <1>7, <2>3 DEF Tap!CleanPop
    <3>3. popped \in Sockets /\ popped.queue = Tail(q) /\ popped.state = "closing"
      BY <1>1, <1>2, <3>1 DEF Sockets
    <3>4. /\ socks'[f].queue \in {Tail(q), Append(Tail(q), Tap!Mark)} /\ socks'[f].state = "closing"
          /\ \A g \in Fds : g # f => socks'[g] = socks[g]
      <4>1. socks'[f] = Tap!Pushed(popped, Tap!Mark) /\ \A g \in Fds : g # f => socks'[g] = socks[g]
        BY <1>1, <3>2 DEF TapTypeOK
      <4> HIDE DEF popped
      <4> QED
        BY <1>4, <3>3, <4>1
    <3>5. RemarksInOrder'
      BY <1>2, <1>3, <3>4
    <3> QED
      BY <1>1, <1>2, <2>3, <3>2, <3>4, <3>5, FrameTaken
  <2> QED
    BY <2>1, <2>2, <2>3
<1> QED
  BY <1>5, <1>6, <1>7 DEF Tap!Clean

(* A step of the receiver that moves no frame into a queue *)
LEMMA ReceiverMoves ==
  ASSUME TapTypeOK, FrameOrder, UNCHANGED socks, RemarksInOrder',
         NEW freed \in SUBSET Frames, allocated' = allocated \ freed,
         \A b \in freed : ~InQueue(b),
         \A b \in Frames : Tap!Received(b)' <=> Tap!Received(b) /\ b \notin freed,
         tapRx'.pc = "idle" \/ (tapRx'.pc \in {"state", "match", "push"} /\ tapRx'.frame \in Frames)
  PROVE  FrameOrder'
<1>1. /\ \A f \in Fds : socks'[f].queue = socks[f].queue
      /\ \A f \in Fds : socks[f].queue # <<>> /\ socks[f].state = "closing" => socks'[f].state = "closing"
  OBVIOUS
<1>2. /\ tapRx'.pc # "idle" => tapRx'.frame \in Frames
      /\ tapRx'.pc = "notify" => tapRx'.size = 1
  OBVIOUS
<1> QED
  BY <1>1, <1>2, FramesStay

(* and one that frees none *)
LEMMA ReceiverKeeps ==
  ASSUME TapTypeOK, FrameOrder, UNCHANGED <<socks, allocated>>, RemarksInOrder',
         \A b \in Frames : Tap!Received(b)' <=> Tap!Received(b),
         tapRx'.pc = "idle" \/ (tapRx'.pc \in {"state", "match", "push"} /\ tapRx'.frame \in Frames)
  PROVE  FrameOrder'
<1>1. /\ {} \in SUBSET Frames /\ allocated' = allocated \ {} /\ \A b \in {} : ~InQueue(b)
      /\ \A b \in Frames : Tap!Received(b)' <=> Tap!Received(b) /\ b \notin {}
  OBVIOUS
<1> QED
  BY <1>1, ReceiverMoves

(* The receiver holds its frame until a socket or the IP stack has it. *)
LEMMA FilterFrames ==
  ASSUME TapInv, FrameOrder, ~shared',
         Tap!Filter \/ \E b \in Frames, type \in EthTypes, d \in Drivers : Tap!Arrive(b, type, d)
  PROVE  FrameOrder'
<1>1. TapTypeOK /\ tapRx \in RxRecords /\ \A u \in Tapers : taps[u].fd \in Fds
  BY FdsIn DEF TapInv, TapTypeOK
<1>2. CASE \/ Tap!FilterState \/ Tap!FilterMatch
           \/ \E b \in Frames, type \in EthTypes, d \in Drivers : Tap!Arrive(b, type, d)
  <2>0. UNCHANGED <<socks, taps>>
    BY <1>2 DEF Tap!FilterState, Tap!FilterMatch, Tap!Arrive
  <2>1. RemarksInOrder'
    BY <2>0 DEF FrameOrder, RemarksInOrder
  <2>2. CASE \E b \in Frames, type \in EthTypes, d \in Drivers : Tap!Arrive(b, type, d)
    <3>1. PICK b \in Frames : /\ tapRx.pc = "idle" /\ b \notin allocated /\ allocated' = allocated \cup {b}
                              /\ tapRx'.pc = "state" /\ tapRx'.frame = b /\ tapRx'.size = 1
      BY <2>2 DEF Tap!Arrive
    <3>2. OneEach'
      BY <2>0 DEF FrameOrder, OneEach
    <3>3. EntriesInOrder'
      BY <2>0, <3>1 DEF FrameOrder, EntriesInOrder
    <3>4. \A c \in Frames : (Tap!Received(c)' <=> c = b) /\ ~Tap!Received(c)
      BY <3>1 DEF Tap!Received
    <3>5. ~InQueue(b)
      BY <3>1, MarkIs, TapsAssumption DEF InQueue, FrameOrder, EntriesInOrder
    <3>6. \A c \in Frames : InQueue(c)' <=> InQueue(c)
      BY <2>0 DEF InQueue
    <3>7. AllHeld'
      BY <1>1, <3>1, <3>4, <3>5, <3>6 DEF FrameOrder, AllHeld, TapTypeOK
    <3> QED
      BY <2>1, <3>2, <3>3, <3>7 DEF FrameOrder
  <2>3. CASE \/ Tap!FilterState /\ socks[tapRx.fd].state = "opened"
             \/ Tap!FilterMatch /\ Tap!Accepts(socks[tapRx.fd], tapRx.driver, tapRx.type)
    <3>1. /\ UNCHANGED allocated /\ tapRx.pc \in {"state", "match"} /\ tapRx'.pc \in {"match", "push"}
          /\ tapRx'.frame = tapRx.frame /\ tapRx'.size = tapRx.size
      BY <1>1, <2>3 DEF Tap!FilterState, Tap!FilterMatch, RxRecords
    <3>2. \A c \in Frames : Tap!Received(c)' <=> Tap!Received(c)
      BY <3>1 DEF Tap!Received
    <3>3. tapRx'.frame \in Frames
      BY <3>1 DEF FrameOrder, AllHeld
    <3> QED
      BY <1>1, <2>0, <2>1, <3>1, <3>2, <3>3, ReceiverKeeps
  <2>4. CASE (Tap!FilterState \/ Tap!FilterMatch) /\ Tap!NextFd(tapRx)
    <3>1. /\ tapRx.pc \in {"state", "match"} /\ tapRx.frame \in Frames
          /\ \A c \in Frames : Tap!Received(c) <=> c = tapRx.frame /\ tapRx.size > 0
      BY <2>4 DEF Tap!FilterState, Tap!FilterMatch, FrameOrder, AllHeld, Tap!Received
    <3>2. CASE tapRx'.pc = "state" /\ allocated' = allocated /\ tapRx'.frame = tapRx.frame /\ tapRx'.size = tapRx.size
      <4>1. \A c \in Frames : Tap!Received(c)' <=> Tap!Received(c)
        BY <3>1, <3>2 DEF Tap!Received
      <4> QED
        BY <1>1, <2>0, <2>1, <3>1, <3>2, <4>1, ReceiverKeeps
    <3>3. CASE /\ tapRx' = Tap!IdleRx
               /\ allocated' = IF tapRx.size > 0 THEN allocated \ {tapRx.frame} ELSE allocated
      <4> DEFINE freed == IF tapRx.size > 0 THEN {tapRx.frame} ELSE {}
      <4>1. allocated' = allocated \ freed /\ freed \in SUBSET Frames
        BY <3>1, <3>3
      <4>2. \A b \in freed : ~InQueue(b)
        BY <3>1 DEF FrameOrder, AllHeld
      <4>3. \A c \in Frames : Tap!Received(c)' <=> Tap!Received(c) /\ c \notin freed
        BY <3>1, <3>3, IdleIs DEF Tap!Received
      <4>4. tapRx'.pc = "idle"
        BY <3>3, IdleIs
      <4> HIDE DEF freed
      <4> QED
        BY <1>1, <2>0, <2>1, <4>1, <4>2, <4>3, <4>4, ReceiverMoves
    <3> QED
      BY <1>1, <2>4, <3>2, <3>3, NextFdIs
  <2> QED
    BY <1>2, <2>2, <2>3, <2>4 DEF Tap!FilterState, Tap!FilterMatch
<1>3. CASE Tap!FilterPush
  <2>1. tapRx.size = 1
    <3>1. tapRx.size # 0 /\ tapRx.size \in {0, 1}
      BY <1>1, <1>3 DEF Tap!FilterPush, RxRecords
    <3> QED
      BY <3>1
  <2>2. \A g \in Fds : socks'[g].state = socks[g].state
    BY <1>1, <1>3, FilterPushIs
  <2>3. UNCHANGED taps
    BY <1>3 DEF Tap!FilterPush
  <2>4. RemarksInOrder'
    BY <1>1, <2>2, <2>3 DEF FrameOrder, RemarksInOrder
  <2> QED
    BY <1>1, <1>3, <2>1, <2>4, FramePushed
<1>4. CASE Tap!FilterNotify
  <2>1. /\ tapRx.pc = "notify" /\ UNCHANGED socks /\ Tap!NextFd([tapRx EXCEPT !.size = 0])
        /\ \A t \in Tapers : taps'[t].pc = taps[t].pc /\ taps'[t].fd = taps[t].fd
    BY <1>1, <1>4, FilterNotifyIs DEF Tap!FilterNotify
  <2>2. RemarksInOrder'
    BY <2>1 DEF FrameOrder, RemarksInOrder
  <2>3. [tapRx EXCEPT !.size = 0] \in RxRecords
    BY <1>1 DEF RxRecords
  <2>4. /\ tapRx'.pc \in {"state", "idle"} /\ allocated' = allocated
        /\ tapRx'.pc = "state" => tapRx'.frame = tapRx.frame /\ tapRx'.size = 0
    BY <1>1, <2>1, <2>3, NextFdIs, IdleIs DEF RxRecords
  <2>5. \A c \in Frames : Tap!Received(c)' <=> Tap!Received(c)
    BY <2>1, <2>4 DEF Tap!Received
  <2>6. tapRx'.pc = "idle" \/ (tapRx'.pc = "state" /\ tapRx'.frame \in Frames)
    BY <2>1, <2>4 DEF FrameOrder, AllHeld
  <2> QED
    BY <1>1, <2>1, <2>2, <2>4, <2>5, <2>6, ReceiverKeeps
<1> QED
  BY <1>2, <1>3, <1>4 DEF Tap!Filter

(* Every step keeps the frames in order, until one is shared. *)
LEMMA FrameStep == ASSUME TapInv, FrameInv, [Tap!Next]_(Tap!tapVars) PROVE FrameInv'
<1>1. SUFFICES ASSUME ~shared' PROVE FrameOrder'
  BY DEF FrameInv, FrameOrder
<1>2. ~shared
  <2>1. shared => shared'
    <3>1. ASSUME NEW t \in Tapers, NEW f \in Fds, Tap!Call(t, f) PROVE UNCHANGED shared
      BY <3>1 DEF Tap!Call, Tap!OpenTake, Tap!SetFilter, Tap!SetDriver, Tap!Fcntl, Tap!Read,
         Tap!Close, Tap!StartSelect
    <3>2. ASSUME NEW t \in Tapers, NEW f \in Fds, Tap!Proceed(t, f) PROVE UNCHANGED shared
      BY <3>2 DEF Tap!Proceed, Tap!OpenQueue, Tap!OpenSet, Tap!Receive, Tap!ReceiveNothing,
         Tap!Remark, Tap!CloseTask, Tap!CloseDone
    <3>3. ASSUME NEW f \in Fds, Tap!Clean(f) PROVE UNCHANGED shared
      BY <3>3 DEF Tap!Clean, Tap!CleanMark, Tap!CleanPop, Tap!CleanFlush
    <3>4. ASSUME NEW t \in Tapers, Tap!EndSelect(t) PROVE UNCHANGED shared
      BY <3>4 DEF Tap!EndSelect
    <3>5. CASE \E b \in Frames, type \in EthTypes, d \in Drivers : Tap!Arrive(b, type, d)
      BY <3>5 DEF Tap!Arrive
    <3>6. CASE Tap!Filter
      <4>1. CASE Tap!FilterPush
        BY <4>1, Zenon DEF Tap!FilterPush
      <4>2. CASE Tap!FilterState \/ Tap!FilterMatch \/ Tap!FilterNotify
        BY <4>2 DEF Tap!FilterState, Tap!FilterMatch, Tap!FilterNotify
      <4> QED
        BY <3>6, <4>1, <4>2 DEF Tap!Filter
    <3>7. CASE UNCHANGED Tap!tapVars
      BY <3>7 DEF Tap!tapVars
    <3> QED
      BY <3>1, <3>2, <3>3, <3>4, <3>5, <3>6, <3>7 DEF Tap!Next
  <2> QED
    BY <1>1, <2>1
<1>3. FrameOrder
  BY <1>2 DEF FrameInv, FrameOrder
<1>4. CASE UNCHANGED Tap!tapVars
  BY <1>3, <1>4 DEF Tap!tapVars, FrameOrder, OneEach, EntriesInOrder, RemarksInOrder,
     AllHeld, InQueue, Tap!Received
<1> QED
  BY <1>1, <1>3, <1>4, TapsAssumption, CallFrames, ProceedFrames, CleanFrames, FilterFrames
     DEF Tap!Next

-----------------------------------------------------------------------------
(* Who owns a frame *)

(* The positions that a frame has in the queues *)
LEMMA QueuedIs ==
  ASSUME TapInv, FrameOrder, NEW b \in Frames
  PROVE  Cardinality(Tap!Queued(b)) = IF InQueue(b) THEN 1 ELSE 0
<1>1. \A f \in Fds : Len(socks[f].queue) \in Nat /\ Len(socks[f].queue) <= RX_QUEUE_MAX_SIZE
  BY SockIs DEF TapInv, SocketsInOrder
<1>2. CASE ~InQueue(b)
  <2>1. \A p \in Fds \X (1 .. RX_QUEUE_MAX_SIZE) : p[2] <= Len(socks[p[1]].queue) => socks[p[1]].queue[p[2]].buff # b
    <3> SUFFICES ASSUME NEW p \in Fds \X (1 .. RX_QUEUE_MAX_SIZE), p[2] <= Len(socks[p[1]].queue)
                 PROVE  socks[p[1]].queue[p[2]].buff # b
      OBVIOUS
    <3>1. p[1] \in Fds /\ p[2] \in 1 .. RX_QUEUE_MAX_SIZE
      OBVIOUS
    <3>2. p[2] \in 1 .. Len(socks[p[1]].queue)
      BY <1>1, <3>1, TapsAssumption
    <3> QED
      BY <1>2, <3>1, <3>2 DEF InQueue
  <2>2. Tap!Queued(b) = {}
    BY <2>1 DEF Tap!Queued
  <2> QED
    BY <1>2, <2>2, FS_EmptySet
<1>3. CASE InQueue(b)
  <2>1. PICK f \in Fds : \E i \in 1 .. Len(socks[f].queue) : socks[f].queue[i].buff = b
    BY <1>3 DEF InQueue
  <2>2. PICK i \in 1 .. Len(socks[f].queue) : socks[f].queue[i].buff = b
    BY <2>1
  <2>3. i \in 1 .. RX_QUEUE_MAX_SIZE /\ i <= Len(socks[f].queue)
    BY <1>1, TapsAssumption
  <2>4. <<f, i>> \in Tap!Queued(b)
    BY <2>2, <2>3 DEF Tap!Queued
  <2>5. ASSUME NEW p \in Tap!Queued(b) PROVE p = <<f, i>>
    <3>1. /\ p = <<p[1], p[2]>> /\ p[1] \in Fds /\ p[2] \in 1 .. RX_QUEUE_MAX_SIZE
          /\ p[2] <= Len(socks[p[1]].queue) /\ socks[p[1]].queue[p[2]].buff = b
      BY <2>5 DEF Tap!Queued
    <3>2. p[2] \in 1 .. Len(socks[p[1]].queue)
      BY <1>1, <3>1, TapsAssumption
    <3>3. p[1] = f /\ p[2] = i
      BY <2>2, <3>1, <3>2 DEF FrameOrder, OneEach
    <3> QED
      BY <3>1, <3>3
  <2>6. Tap!Queued(b) = {<<f, i>>}
    BY <2>4, <2>5
  <2> QED
    BY <1>3, <2>6, FS_Singleton
<1> QED
  BY <1>2, <1>3

(* Until a second socket takes one, each allocated frame is in one queue   *)
(* at one place or with the receiver, and no freed frame is anywhere.      *)
THEOREM FramesAreOwned == Tap!Spec => []FramesHaveOneOwner
<1>1. Tap!Init => FrameInv
  <2> SUFFICES ASSUME Tap!Init PROVE FrameInv
    OBVIOUS
  <2>1. /\ \A f \in Fds : socks[f].queue = <<>> /\ Len(socks[f].queue) = 0
        /\ \A t \in Tapers : taps[t].pc = "idle"
        /\ tapRx.pc = "idle" /\ allocated = {}
    BY IdleIs DEF Tap!Init
  <2> QED
    BY <2>1 DEF FrameInv, FrameOrder, OneEach, EntriesInOrder, RemarksInOrder, AllHeld,
       InQueue, Tap!Received
<1>2. TapInv /\ FrameInv /\ [Tap!Next]_(Tap!tapVars) => FrameInv'
  BY FrameStep
<1>3. TapInv /\ FrameInv => FramesHaveOneOwner
  <2> SUFFICES ASSUME TapInv, FrameInv, ~shared PROVE FramesHaveOneOwner
    BY DEF FramesHaveOneOwner, Tap!FramesHaveOneOwner
  <2>1. FrameOrder /\ TapTypeOK
    BY DEF FrameInv, FrameOrder, TapInv
  <2>2. ASSUME NEW b \in Frames
        PROVE  Cardinality(Tap!Queued(b)) + (IF Tap!Received(b) THEN 1 ELSE 0) = IF b \in allocated THEN 1 ELSE 0
    <3>1. /\ Tap!Received(b) => b \in allocated /\ ~InQueue(b)
          /\ b \in allocated => Tap!Received(b) \/ InQueue(b)
      BY <2>1 DEF FrameOrder, AllHeld
    <3>2. InQueue(b) => b \in allocated
      BY <2>1, MarkIs, TapsAssumption DEF FrameOrder, EntriesInOrder, InQueue
    <3>3. Cardinality(Tap!Queued(b)) = IF InQueue(b) THEN 1 ELSE 0
      BY <2>1, QueuedIs
    <3> QED
      BY <3>1, <3>2, <3>3
  <2>3. ASSUME NEW f \in Fds, NEW i \in DOMAIN socks[f].queue, socks[f].queue[i] = Tap!Mark
        PROVE  socks[f].state = "closing"
    <3>1. i \in 1 .. Len(socks[f].queue)
      BY <2>1, SockIs
    <3> QED
      BY <2>1, <2>3, <3>1, MarkIs DEF FrameOrder, EntriesInOrder
  <2>4. \A b \in Frames : Tap!Cardinality(Tap!Queued(b)) = Cardinality(Tap!Queued(b))
    BY TapCardinality
  <2> QED
    BY <2>2, <2>3, <2>4 DEF FramesHaveOneOwner, Tap!FramesHaveOneOwner
<1> QED
  BY <1>1, <1>2, <1>3, TapInvariant, PTL DEF Tap!Spec

-----------------------------------------------------------------------------
(* The modules of the list and of the default loop count with the same     *)
(* operator as this one.                                                   *)
LEMMA SameCardinality ==
  ASSUME NEW S
  PROVE  List!Cardinality(S) = Cardinality(S) /\ Default!Cardinality(S) = Cardinality(S)
<1>1. List!Cardinality(S) = Cardinality(S)
  BY Zenon DEF List!Cardinality, Cardinality
<1>2. Default!Cardinality(S) = Cardinality(S)
  BY Zenon DEF Default!Cardinality, Cardinality
<1> QED
  BY <1>1, <1>2

-----------------------------------------------------------------------------
(* The list of interfaces (NetifList).  As long as no two calls overlap    *)
(* while the list is empty, the counter is the length of the list, each    *)
(* call that adds or removes has its interface for itself, and the mutex   *)
(* exists from the first call on until the last one gives it back.         *)

(* SLIST_REMOVE takes one element out and moves those behind it. *)
LEMMA ListWithout ==
  ASSUME NEW S, NEW s \in Seq(S), NEW i \in 1 .. Len(s)
  PROVE  /\ List!Without(s, i) \in Seq(S) /\ Len(List!Without(s, i)) = Len(s) - 1
         /\ \A j \in 1 .. Len(s) - 1 : List!Without(s, i)[j] = IF j < i THEN s[j] ELSE s[j + 1]
<1> DEFINE r == List!Without(s, i)
<1> HIDE DEF r
<1>1. SubSeq(s, 1, i - 1) \in Seq(S) /\ Len(SubSeq(s, 1, i - 1)) = i - 1
  OBVIOUS
<1>2. SubSeq(s, i + 1, Len(s)) \in Seq(S) /\ Len(SubSeq(s, i + 1, Len(s))) = Len(s) - i
  OBVIOUS
<1>3. /\ \A j \in 1 .. i - 1 : SubSeq(s, 1, i - 1)[j] = s[j]
      /\ \A j \in 1 .. Len(s) - i : SubSeq(s, i + 1, Len(s))[j] = s[i + j]
  OBVIOUS
<1> DEFINE before == SubSeq(s, 1, i - 1)
           after == SubSeq(s, i + 1, Len(s))
<1> HIDE DEF before, after
<1>4. /\ before \in Seq(S) /\ Len(before) = i - 1 /\ after \in Seq(S) /\ Len(after) = Len(s) - i
      /\ \A j \in 1 .. i - 1 : before[j] = s[j]
      /\ \A j \in 1 .. Len(s) - i : after[j] = s[i + j]
  BY <1>1, <1>2, <1>3 DEF before, after
<1>5. r = before \o after
  BY DEF before, after, r, List!Without
<1>6. /\ r \in Seq(S) /\ Len(r) = (i - 1) + (Len(s) - i)
      /\ \A j \in 1 .. (i - 1) + (Len(s) - i) : r[j] = IF j <= i - 1 THEN before[j] ELSE after[j - (i - 1)]
  <2>1. /\ before \o after \in Seq(S)
        /\ Len(before \o after) = Len(before) + Len(after)
        /\ \A j \in 1 .. Len(before) + Len(after) :
             (before \o after)[j] = IF j <= Len(before) THEN before[j] ELSE after[j - Len(before)]
    BY <1>4, ConcatProperties
  <2> QED
    BY <1>4, <1>5, <2>1
<1>7. Len(s) \in Nat /\ i \in 1 .. Len(s)
  BY LenProperties
<1>8. Len(r) = Len(s) - 1
  BY ONLY <1>6, <1>7
<1>9. ASSUME NEW j \in 1 .. Len(r) PROVE r[j] = IF j < i THEN s[j] ELSE s[j + 1]
  <2>1. r[j] = IF j <= i - 1 THEN before[j] ELSE after[j - (i - 1)]
    BY <1>6
  <2>4. j \in 1 .. Len(s) - 1
    BY <1>8
  <2>2. CASE j < i
    BY <1>4, <1>7, <2>1, <2>2
  <2>3. CASE ~(j < i)
    <3>1. j - (i - 1) \in 1 .. Len(s) - i /\ i + (j - (i - 1)) = j + 1
      BY ONLY <1>7, <2>3, <2>4
    <3>2. r[j] = after[j - (i - 1)]
      BY ONLY <1>7, <2>1, <2>3, <2>4
    <3> QED
      BY <1>4, <2>3, <3>1, <3>2
  <2> QED
    BY <2>2, <2>3
<1> QED
  BY <1>6, <1>8, <1>9 DEF r

(* SLIST_INSERT_HEAD moves all elements. *)
LEMMA ListWith ==
  ASSUME NEW S, NEW s \in Seq(S), NEW e \in S
  PROVE  /\ <<e>> \o s \in Seq(S) /\ Len(<<e>> \o s) = Len(s) + 1
         /\ (<<e>> \o s)[1] = e
         /\ \A j \in 1 .. Len(s) : (<<e>> \o s)[j + 1] = s[j]
  OBVIOUS

ListerPcs == {"idle", "lock", "create", "take", "wait", "in", "unlock", "given"}
ListerRecords == [pc : ListerPcs, op : {"none", "add", "remove", "walk"},
                  entry : Entries \cup {List!None}, lock : Locks \cup {List!None}]

ListTypeOK ==
  /\ list \in Seq(Entries) /\ counter \in Nat
  /\ listLock \in Locks \cup {List!None}
  /\ listHolder \in [Locks -> Listers \cup {List!Free, List!None}]
  /\ listers \in [Listers -> ListerRecords]
  /\ gone \subseteq Entries

(* An empty list has one caller at most. *)
LonelyWhenEmpty ==
  counter = 0 =>
    \A t \in Listers, u \in Listers : listers[t].pc # "idle" /\ listers[u].pc # "idle" => t = u

(* The mutex exists while the list is not empty, and while a call uses it. *)
LockExists ==
  /\ listLock # List!None => listHolder[listLock] # List!None
  /\ counter > 0 => listLock # List!None
  /\ \A t \in Listers :
       /\ listers[t].pc = "create" => counter = 0 /\ listLock = List!None
       /\ listers[t].pc \in {"take", "wait", "in", "unlock"} => listLock # List!None
       /\ listers[t].pc \in {"wait", "in", "unlock"} => listers[t].lock = listLock
       /\ listers[t].pc \in {"in", "unlock"} => listHolder[listLock] = t

(* The objects of the list and of the calls. *)
EachOnce == \A i, j \in 1 .. Len(list) : list[i] = list[j] => i = j
BeforeUnlock == {"lock", "create", "take", "wait", "in"}
AddersAreNew ==
  \A t \in Listers : listers[t].op = "add" /\ listers[t].pc \in BeforeUnlock =>
    /\ listers[t].entry \in Entries \ gone /\ ~List!InList(listers[t].entry)
    /\ \A u \in Listers : u # t => listers[u].entry # listers[t].entry
RemoversOwn ==
  \A t \in Listers : listers[t].op = "remove" =>
    /\ listers[t].entry \in Entries \ gone
    /\ listers[t].pc \in BeforeUnlock => List!InList(listers[t].entry)
    /\ listers[t].pc \in {"unlock", "given"} => ~List!InList(listers[t].entry)
    /\ \A u \in Listers : u # t /\ listers[u].op = "remove" => listers[u].entry # listers[t].entry
WalkersAreIn ==
  \A t \in Listers : listers[t].op = "walk" /\ listers[t].entry # List!None =>
    listers[t].pc = "in" /\ List!InList(listers[t].entry)
IdleIsIdle ==
  \A t \in Listers :
    /\ listers[t].pc = "idle" <=> listers[t].op = "none"
    /\ listers[t].pc = "idle" => listers[t].entry = List!None

ListContents ==
  /\ counter = Len(list) /\ EachOnce
  /\ \A i \in 1 .. Len(list) : list[i] \notin gone
  /\ AddersAreNew /\ RemoversOwn /\ WalkersAreIn /\ IdleIsIdle

ListInv == ~raced => ListTypeOK /\ LonelyWhenEmpty /\ LockExists /\ ListContents

(* A set with two different elements has more than one. *)
LEMMA TwoAreMore ==
  ASSUME NEW S, IsFiniteSet(S), NEW a \in S, NEW b \in S, a # b
  PROVE  Cardinality(S) > 1
<1>1. IsFiniteSet(S \ {a}) /\ Cardinality(S \ {a}) = Cardinality(S) - 1
  BY FS_RemoveElement
<1>2. Cardinality(S \ {a}) # 0
  BY <1>1, FS_EmptySet
<1>3. Cardinality(S \ {a}) \in Nat /\ Cardinality(S) \in Nat
  BY <1>1, FS_CardinalityType
<1> QED
  BY <1>1, <1>2, <1>3

(* While the list is empty no two calls use its mutex, from what Watch     *)
(* notes.                                                                  *)
LEMMA ListWatchSees ==
  ASSUME List!Watch, ~raced'
  PROVE  ~raced /\ LonelyWhenEmpty'
<1>1. ~raced
  BY DEF List!Watch
<1>2. ASSUME NEW t \in Listers, NEW u \in Listers, t # u, counter' = 0,
             listers'[t].pc # "idle", listers'[u].pc # "idle"
      PROVE  FALSE
  <2> DEFINE busy == {v \in Listers : listers'[v].pc # "idle"}
  <2>1. IsFiniteSet(busy)
    BY ListersAssumption, FS_Subset
  <2>2. Cardinality(busy) > 1
    BY <1>2, <2>1, TwoAreMore
  <2> HIDE DEF busy
  <2>3. raced' = (raced \/ (counter' = 0 /\ Cardinality(busy) > 1))
    BY SameCardinality DEF List!Watch, List!Busy, busy
  <2> QED
    BY <1>2, <2>2, <2>3
<1> QED
  BY <1>1, <1>2 DEF LonelyWhenEmpty

(* What every step of a call does to the record of the caller. *)
LEMMA Moves ==
  ASSUME ListTypeOK, NEW t \in Listers, NEW p \in ListerPcs, List!Goes(t, p)
  PROVE  /\ listers' \in [Listers -> ListerRecords]
         /\ listers'[t].pc = p /\ listers'[t].op = listers[t].op
         /\ listers'[t].entry = listers[t].entry /\ listers'[t].lock = listers[t].lock
         /\ \A u \in Listers : u # t => listers'[u] = listers[u]
BY DEF ListTypeOK, List!Goes, ListerRecords

(* A call that returns leaves a caller that does nothing. *)
LEMMA EndsIdle ==
  ASSUME ListTypeOK, NEW t \in Listers, listers' = [listers EXCEPT ![t] = List!IdleLister]
  PROVE  /\ listers' \in [Listers -> ListerRecords]
         /\ listers'[t].pc = "idle" /\ listers'[t].op = "none" /\ listers'[t].entry = List!None
         /\ \A u \in Listers : u # t => listers'[u] = listers[u]
BY DEF ListTypeOK, List!IdleLister, ListerRecords, ListerPcs

(* A step that leaves the list alone leaves its contents in order. *)
LEMMA ContentsStay ==
  ASSUME ListContents, NEW t \in Listers, UNCHANGED <<list, counter, gone>>,
         \A u \in Listers : u # t => listers'[u] = listers[u],
         \/ listers'[t].pc = "idle" /\ listers'[t].op = "none" /\ listers'[t].entry = List!None
              /\ listers[t].op # "remove" 
         \/ /\ listers'[t].op = listers[t].op /\ listers'[t].entry = listers[t].entry
            /\ \/ {listers[t].pc, listers'[t].pc} \subseteq BeforeUnlock
               \/ listers[t].pc = "unlock" /\ listers'[t].pc = "given"
            /\ listers[t].op = "walk" => listers[t].pc # "in"
  PROVE  ListContents'
<1> USE DEF ListContents, List!InList, BeforeUnlock
<1>1. EachOnce' /\ (counter = Len(list))' /\ (\A i \in 1 .. Len(list) : list[i] \notin gone)'
  BY DEF EachOnce
<1>2. AddersAreNew'
  BY ListersAssumption DEF AddersAreNew, List!None
<1>3. RemoversOwn'
  BY DEF RemoversOwn
<1>4. WalkersAreIn'
  BY DEF WalkersAreIn
<1>5. IdleIsIdle'
  BY DEF IdleIsIdle
<1> QED
  BY <1>1, <1>2, <1>3, <1>4, <1>5

(* The steps that only move the caller, before and after it is in the list. *)
LEMMA QuietSteps ==
  ASSUME ListInv, NEW t \in Listers, ~raced',
         List!LockTest(t) \/ List!LockWait(t) \/ List!LockTake(t) \/ List!Unlock(t)
  PROVE  ListInv'
<1>1. List!Watch /\ UNCHANGED <<list, counter, gone>>
  BY DEF List!LockTest, List!LockWait, List!LockTake, List!Unlock
<1>2. ~raced /\ LonelyWhenEmpty'
  BY <1>1, ListWatchSees
<1>3. LonelyWhenEmpty /\ LockExists /\ ListContents /\ ListTypeOK
  BY <1>2 DEF ListInv
<1>4. CASE List!LockTest(t)
  <2>1. /\ listers'[t].pc = IF listLock = List!None THEN "create" ELSE "take"
        /\ listers'[t].op = listers[t].op /\ listers'[t].entry = listers[t].entry
        /\ listers' \in [Listers -> ListerRecords]
        /\ \A u \in Listers : u # t => listers'[u] = listers[u]
    BY <1>3, <1>4, Moves DEF List!LockTest, ListerPcs
  <2>2. listers[t].pc = "lock" /\ UNCHANGED <<listLock, listHolder>>
    BY <1>4 DEF List!LockTest, List!At
  <2>3. ListContents'
    BY <1>1, <1>3, <2>1, <2>2, ContentsStay DEF BeforeUnlock, ListContents, WalkersAreIn
  <2>4. LockExists'
    BY <1>1, <1>3, <2>1, <2>2 DEF LockExists, ListTypeOK
  <2> QED
    BY <1>1, <1>2, <1>3, <2>1, <2>2, <2>3, <2>4 DEF ListInv, ListTypeOK
<1>5. CASE List!LockWait(t)
  <2>1. /\ listers'[t].pc = "wait" /\ listers'[t].lock = listLock
        /\ listers'[t].op = listers[t].op /\ listers'[t].entry = listers[t].entry
        /\ listers' \in [Listers -> ListerRecords]
        /\ \A u \in Listers : u # t => listers'[u] = listers[u]
    BY <1>3, <1>5 DEF List!LockWait, ListerPcs, ListerRecords, ListTypeOK
  <2>2. listers[t].pc = "take" /\ UNCHANGED <<listLock, listHolder>>
    BY <1>5 DEF List!LockWait, List!At
  <2>3. ListContents'
    BY <1>1, <1>3, <2>1, <2>2, ContentsStay DEF BeforeUnlock, ListContents, WalkersAreIn
  <2>4. LockExists'
    BY <1>1, <1>3, <2>1, <2>2 DEF LockExists, ListTypeOK
  <2> QED
    BY <1>1, <1>2, <1>3, <2>1, <2>2, <2>3, <2>4 DEF ListInv, ListTypeOK
<1>6. CASE List!LockTake(t)
  <2>1. /\ listers'[t].pc = "in" /\ listers'[t].lock = listers[t].lock
        /\ listers'[t].op = listers[t].op /\ listers'[t].entry = listers[t].entry
        /\ listers' \in [Listers -> ListerRecords]
        /\ \A u \in Listers : u # t => listers'[u] = listers[u]
    BY <1>3, <1>6, Moves DEF List!LockTake, ListerPcs
  <2>2. listers[t].pc = "wait" /\ UNCHANGED listLock
    BY <1>6 DEF List!LockTake, List!At
  <2>3. ListContents'
    BY <1>1, <1>3, <2>1, <2>2, ContentsStay DEF BeforeUnlock, ListContents, WalkersAreIn
  <2>4. listers[t].lock = listLock /\ listLock \in Locks
    BY <1>3, <2>2 DEF LockExists, ListTypeOK
  <2>5. listHolder[listLock] = List!Free /\ listHolder' = [listHolder EXCEPT ![listLock] = t]
    BY <1>6, <2>4 DEF List!LockTake
  <2>6. LockExists'
    BY <1>1, <1>3, <2>1, <2>2, <2>4, <2>5, ListersAssumption DEF LockExists, ListTypeOK,
         List!None, List!Free
  <2> QED
    BY <1>1, <1>2, <1>3, <2>1, <2>2, <2>3, <2>4, <2>5, <2>6 DEF ListInv, ListTypeOK
<1>7. CASE List!Unlock(t)
  <2>1. /\ listers'[t].pc = "given" /\ listers'[t].lock = listers[t].lock
        /\ listers'[t].op = listers[t].op /\ listers'[t].entry = listers[t].entry
        /\ listers' \in [Listers -> ListerRecords]
        /\ \A u \in Listers : u # t => listers'[u] = listers[u]
    BY <1>3, <1>7, Moves DEF List!Unlock, ListerPcs
  <2>2. listers[t].pc = "unlock" /\ UNCHANGED listLock
    BY <1>7 DEF List!Unlock, List!At
  <2>3. ListContents'
    BY <1>1, <1>3, <2>1, <2>2, ContentsStay DEF BeforeUnlock, ListContents, WalkersAreIn
  <2>4. listLock \in Locks /\ listHolder[listLock] = t
    BY <1>3, <2>2 DEF LockExists, ListTypeOK
  <2>5. listHolder' = [listHolder EXCEPT ![listLock] = List!Free]
    BY <1>7 DEF List!Unlock
  <2>6. LockExists'
    BY <1>1, <1>3, <2>1, <2>2, <2>4, <2>5, ListersAssumption DEF LockExists, ListTypeOK,
         List!None, List!Free
  <2> QED
    BY <1>1, <1>2, <1>3, <2>1, <2>2, <2>3, <2>4, <2>5, <2>6 DEF ListInv, ListTypeOK
<1> QED
  BY <1>4, <1>5, <1>6, <1>7

(* A call of esp_netif_add_to_list, esp_netif_remove_from_list or          *)
(* esp_netif_next begins.                                                  *)
LEMMA EnterStep ==
  ASSUME ListInv, NEW t \in Listers, ~raced',
         NEW op \in {"add", "remove", "walk"}, NEW e \in Entries \cup {List!None}, List!Enter(t, op, e)
  PROVE  ListInv'
<1>1. List!Watch /\ UNCHANGED <<list, counter, listLock, listHolder, gone>>
  BY DEF List!Enter
<1>2. ~raced /\ LonelyWhenEmpty'
  BY <1>1, ListWatchSees
<1>3. LonelyWhenEmpty /\ LockExists /\ ListContents /\ ListTypeOK
  BY <1>2 DEF ListInv
<1>4. /\ listers'[t].pc = "lock" /\ listers'[t].op = op /\ listers'[t].entry = e
      /\ listers' \in [Listers -> ListerRecords]
      /\ \A u \in Listers : u # t => listers'[u] = listers[u]
      /\ listers[t].pc = "idle"
  BY <1>3 DEF List!Enter, List!At, ListTypeOK, ListerRecords, ListerPcs
<1>5. /\ op = "add" => e \notin gone /\ ~List!InList(e) /\ \A u \in Listers : listers[u].entry # e
      /\ op = "remove" => List!InList(e) /\ \A u \in Listers : listers[u].op = "remove" => listers[u].entry # e
      /\ op = "walk" => e = List!None
  BY DEF List!Enter
<1>6. LockExists'
  BY <1>1, <1>3, <1>4 DEF LockExists
<1>7. List!InList(e) => e \in Entries \ gone
  BY <1>3 DEF List!InList, ListContents, ListTypeOK
<1>8. listers[t].op = "none"
  BY <1>3, <1>4 DEF ListContents, IdleIsIdle
<1> USE DEF ListContents, List!InList, BeforeUnlock
<1>9. EachOnce' /\ (counter = Len(list))' /\ (\A i \in 1 .. Len(list) : list[i] \notin gone)'
  BY <1>1, <1>3 DEF EachOnce
<1>10. AddersAreNew'
  <2>1. listers[t].entry = List!None
    BY <1>3, <1>4 DEF IdleIsIdle
  <2>2. op = "add" => e \in Entries \ gone
    BY <1>5, <2>1
  <2> QED
    BY <1>1, <1>3, <1>4, <1>5, <2>2, ListersAssumption DEF AddersAreNew, List!None
<1>11. RemoversOwn'
  BY <1>1, <1>3, <1>4, <1>5, <1>7, <1>8 DEF RemoversOwn
<1>12. WalkersAreIn'
  BY <1>1, <1>3, <1>4, <1>5 DEF WalkersAreIn
<1>13. IdleIsIdle'
  BY <1>3, <1>4 DEF IdleIsIdle
<1> QED
  BY <1>1, <1>2, <1>3, <1>4, <1>6, <1>9, <1>10, <1>11, <1>12, <1>13 DEF ListInv, ListTypeOK

(* The first call creates the mutex. *)
LEMMA CreateLockStep ==
  ASSUME ListInv, NEW t \in Listers, ~raced', List!LockCreate(t)
  PROVE  ListInv'
<1>1. List!Watch /\ UNCHANGED <<list, counter, gone>>
  BY DEF List!LockCreate
<1>2. ~raced /\ LonelyWhenEmpty'
  BY <1>1, ListWatchSees
<1>3. LonelyWhenEmpty /\ LockExists /\ ListContents /\ ListTypeOK
  BY <1>2 DEF ListInv
<1>4. listers[t].pc = "create" /\ counter = 0 /\ listLock = List!None
  BY <1>3 DEF List!LockCreate, List!At, LockExists
<1>5. \A u \in Listers : u # t => listers[u].pc = "idle"
  BY <1>3, <1>4 DEF LonelyWhenEmpty
<1>6. ASSUME NEW l \in Locks, listHolder[l] = List!None,
             listHolder' = [listHolder EXCEPT ![l] = List!Free],
             listLock' = l, List!Goes(t, "take")
      PROVE  ListInv'
  <2>1. /\ listers'[t].pc = "take"
        /\ listers'[t].op = listers[t].op /\ listers'[t].entry = listers[t].entry
        /\ listers' \in [Listers -> ListerRecords]
        /\ \A u \in Listers : u # t => listers'[u] = listers[u]
    BY <1>3, <1>6, Moves DEF ListerPcs
  <2>2. ListContents'
    BY <1>1, <1>3, <1>4, <2>1, ContentsStay DEF BeforeUnlock, ListContents, WalkersAreIn
  <2>3. LockExists'
    BY <1>1, <1>3, <1>4, <1>5, <1>6, <2>1, ListersAssumption DEF LockExists, ListTypeOK,
         List!None, List!Free
  <2> QED
    BY <1>1, <1>2, <1>3, <1>6, <2>1, <2>2, <2>3 DEF ListInv, ListTypeOK
<1>7. ASSUME listers' = [listers EXCEPT ![t] = List!IdleLister], UNCHANGED <<listHolder, listLock>>
      PROVE  ListInv'
  <2>1. /\ listers'[t].pc = "idle" /\ listers'[t].op = "none" /\ listers'[t].entry = List!None
        /\ listers' \in [Listers -> ListerRecords]
        /\ \A u \in Listers : u # t => listers'[u] = listers[u]
    BY <1>3, <1>7, EndsIdle
  <2>2. listers[t].op # "remove"
    <3>1. DOMAIN list = 1 .. 0
      BY <1>3, <1>4, LenProperties DEF ListContents, ListTypeOK
    <3>2. \A x : ~List!InList(x)
      BY <3>1 DEF List!InList
    <3> QED
      BY <1>3, <1>4, <3>2 DEF ListContents, RemoversOwn, BeforeUnlock
  <2>3. ListContents'
    BY <1>1, <1>3, <2>1, <2>2, ContentsStay
  <2>4. LockExists'
    BY <1>1, <1>3, <1>4, <1>5, <1>7, <2>1 DEF LockExists
  <2> QED
    BY <1>1, <1>2, <1>3, <1>7, <2>1, <2>3, <2>4 DEF ListInv, ListTypeOK
<1> QED
  BY <1>6, <1>7 DEF List!LockCreate

(* esp_netif_add_to_list inserts the interface. *)
LEMMA InsertStep ==
  ASSUME ListInv, NEW t \in Listers, ~raced', List!Insert(t)
  PROVE  ListInv'
<1>1. List!Watch /\ UNCHANGED <<listLock, listHolder, gone>>
  BY DEF List!Insert
<1>2. ~raced /\ LonelyWhenEmpty'
  BY <1>1, ListWatchSees
<1>3. LonelyWhenEmpty /\ LockExists /\ ListContents /\ ListTypeOK
  BY <1>2 DEF ListInv
<1>4. /\ listers'[t].pc = "unlock" /\ listers'[t].lock = listers[t].lock
      /\ listers'[t].op = listers[t].op /\ listers'[t].entry = listers[t].entry
      /\ listers' \in [Listers -> ListerRecords]
      /\ \A u \in Listers : u # t => listers'[u] = listers[u]
  BY <1>3, Moves DEF List!Insert, ListerPcs
<1>5. listers[t].pc = "in" /\ listers[t].op = "add"
  BY DEF List!Insert, List!At
<1> DEFINE e == listers[t].entry
<1>6. /\ e \in Entries \ gone /\ ~List!InList(e)
      /\ \A u \in Listers : u # t => listers[u].entry # e
  BY <1>3, <1>5 DEF ListContents, AddersAreNew, BeforeUnlock
<1> HIDE DEF e
<1>7. /\ list' \in Seq(Entries) /\ Len(list') = Len(list) + 1 /\ list'[1] = e
      /\ \A j \in 1 .. Len(list) : list'[j + 1] = list[j]
      /\ Len(list) \in Nat
  BY <1>3, <1>6, ListWith, LenProperties DEF List!Insert, ListTypeOK, e
<1>8. counter' = counter + 1 /\ counter' \in Nat /\ counter' > 0 /\ counter' = Len(list')
  BY <1>3, <1>7 DEF List!Insert, ListTypeOK, ListContents
<1>9. \A x : List!InList(x)' <=> List!InList(x) \/ x = e
  <2>1. DOMAIN list = 1 .. Len(list) /\ DOMAIN list' = 1 .. Len(list) + 1
    BY <1>3, <1>7, LenProperties DEF ListTypeOK
  <2>2. ASSUME NEW x, List!InList(x) PROVE List!InList(x)'
    <3>1. PICK i \in 1 .. Len(list) : list[i] = x
      BY <2>1, <2>2 DEF List!InList
    <3>2. i + 1 \in DOMAIN list' /\ list'[i + 1] = x
      BY ONLY <1>7, <2>1, <3>1
    <3> QED
      BY <3>2 DEF List!InList
  <2>3. ASSUME NEW x, List!InList(x)' PROVE List!InList(x) \/ x = e
    <3>1. PICK i \in 1 .. Len(list) + 1 : list'[i] = x
      BY <2>1, <2>3 DEF List!InList
    <3>2. CASE i = 1
      BY <1>7, <3>1, <3>2
    <3>3. CASE i # 1
      <4>1. i - 1 \in 1 .. Len(list) /\ (i - 1) + 1 = i
        BY ONLY <1>7, <3>1, <3>3, i \in 1 .. Len(list) + 1
      <4>2. list[i - 1] = x
        BY <1>7, <3>1, <4>1
      <4> QED
        BY <2>1, <4>1, <4>2 DEF List!InList
    <3> QED
      BY <3>2, <3>3
  <2>4. ASSUME NEW x, x = e PROVE List!InList(x)'
    <3>1. 1 \in DOMAIN list'
      BY ONLY <1>7, <2>1
    <3> QED
      BY <1>7, <2>4, <3>1 DEF List!InList
  <2> QED
    BY <2>2, <2>3, <2>4
<1>10. EachOnce' /\ (\A i \in 1 .. Len(list) : list[i] \notin gone)'
  <2>1. ASSUME NEW i \in 1 .. Len(list')
        PROVE  (i = 1 /\ list'[i] = e) \/ \E j \in 1 .. Len(list) : i = j + 1 /\ list'[i] = list[j]
    <3>1. i = 1 \/ (i - 1 \in 1 .. Len(list) /\ i = (i - 1) + 1)
      BY ONLY <1>7, i \in 1 .. Len(list')
    <3> QED
      BY <1>7, <3>1
  <2>2. \A j \in 1 .. Len(list) : list[j] # e /\ list[j] \notin gone
    BY <1>3, <1>6, LenProperties DEF List!InList, ListContents, ListTypeOK
  <2>3. EachOnce'
    <3> SUFFICES ASSUME NEW i \in 1 .. Len(list'), NEW j \in 1 .. Len(list'), list'[i] = list'[j]
                 PROVE  i = j
      BY DEF EachOnce
    <3> QED
      BY <1>3, <2>1, <2>2 DEF ListContents, EachOnce
  <2>4. (\A i \in 1 .. Len(list) : list[i] \notin gone)'
    BY <1>1, <1>6, <2>1, <2>2
  <2> QED
    BY <2>3, <2>4
<1>11. AddersAreNew'
  BY <1>1, <1>3, <1>4, <1>5, <1>6, <1>9 DEF AddersAreNew, ListContents, BeforeUnlock, e
<1>12. RemoversOwn'
  BY <1>1, <1>3, <1>4, <1>5, <1>6, <1>9 DEF RemoversOwn, ListContents, BeforeUnlock, e
<1>13. WalkersAreIn'
  BY <1>1, <1>3, <1>4, <1>5, <1>9 DEF WalkersAreIn, ListContents
<1>14. IdleIsIdle'
  BY <1>3, <1>4, <1>5 DEF IdleIsIdle, ListContents
<1>15. LockExists'
  BY <1>1, <1>3, <1>4, <1>5, <1>8 DEF LockExists
<1> QED
  BY <1>1, <1>2, <1>3, <1>4, <1>7, <1>8, <1>10, <1>11, <1>12, <1>13, <1>14, <1>15 DEF ListInv,
       ListTypeOK, ListContents

(* esp_netif_remove_from_list takes it out. *)
LEMMA RemoveStep ==
  ASSUME ListInv, NEW t \in Listers, ~raced', List!Remove(t)
  PROVE  ListInv'
<1>1. List!Watch /\ UNCHANGED <<listLock, listHolder, gone>>
  BY DEF List!Remove
<1>2. ~raced /\ LonelyWhenEmpty'
  BY <1>1, ListWatchSees
<1>3. LonelyWhenEmpty /\ LockExists /\ ListContents /\ ListTypeOK
  BY <1>2 DEF ListInv
<1>4. /\ listers'[t].pc = "unlock" /\ listers'[t].lock = listers[t].lock
      /\ listers'[t].op = listers[t].op /\ listers'[t].entry = listers[t].entry
      /\ listers' \in [Listers -> ListerRecords]
      /\ \A u \in Listers : u # t => listers'[u] = listers[u]
  BY <1>3, Moves DEF List!Remove, ListerPcs
<1>5. listers[t].pc = "in" /\ listers[t].op = "remove"
  BY DEF List!Remove, List!At
<1> DEFINE e == listers[t].entry
<1>6. e \in Entries \ gone
  BY <1>3, <1>5 DEF ListContents, RemoversOwn
<1> HIDE DEF e
<1>7. DOMAIN list = 1 .. Len(list) /\ Len(list) \in Nat
  BY <1>3, LenProperties DEF ListTypeOK
<1>8. PICK i \in 1 .. Len(list) : list[i] = e /\ list' = List!Without(list, i)
  BY <1>7 DEF List!Remove, e
<1>9. /\ list' \in Seq(Entries) /\ Len(list') = Len(list) - 1
      /\ \A j \in 1 .. Len(list) - 1 : list'[j] = IF j < i THEN list[j] ELSE list[j + 1]
  BY <1>3, <1>8, ListWithout DEF ListTypeOK
<1>10. counter' = Len(list') /\ counter' \in Nat /\ counter' = counter - 1
  BY <1>3, <1>7, <1>8, <1>9 DEF List!Remove, ListTypeOK, ListContents
<1>11. DOMAIN list' = 1 .. Len(list) - 1
  BY <1>9, LenProperties
<1> DEFINE old == [j \in 1 .. Len(list) - 1 |-> IF j < i THEN j ELSE j + 1]
<1>12. /\ \A j \in 1 .. Len(list) - 1 : /\ old[j] \in 1 .. Len(list) /\ old[j] # i
                                        /\ list'[j] = list[old[j]]
       /\ \A j, k \in 1 .. Len(list) - 1 : old[j] = old[k] => j = k
       /\ \A k \in 1 .. Len(list) : k # i => \E j \in 1 .. Len(list) - 1 : old[j] = k
  <2>1. \A j \in 1 .. Len(list) - 1 : /\ old[j] \in 1 .. Len(list) /\ old[j] # i
                                      /\ old[j] = IF j < i THEN j ELSE j + 1
    BY ONLY <1>7, i \in 1 .. Len(list)
  <2>2. \A j \in 1 .. Len(list) - 1 : list'[j] = list[old[j]]
    BY <1>9, <2>1
  <2> HIDE DEF old
  <2>3. \A j, k \in 1 .. Len(list) - 1 : old[j] = old[k] => j = k
    BY ONLY <1>7, <2>1, i \in 1 .. Len(list)
  <2>4. ASSUME NEW k \in 1 .. Len(list), k # i
        PROVE  \E j \in 1 .. Len(list) - 1 : old[j] = k
    <3>1. CASE k < i
      <4>1. k \in 1 .. Len(list) - 1
        BY ONLY <1>7, <3>1, i \in 1 .. Len(list), k \in 1 .. Len(list)
      <4> QED
        BY <2>1, <3>1, <4>1
    <3>2. CASE ~(k < i)
      <4>1. k - 1 \in 1 .. Len(list) - 1 /\ ~(k - 1 < i) /\ (k - 1) + 1 = k
        BY ONLY <1>7, <2>4, <3>2, i \in 1 .. Len(list), k \in 1 .. Len(list)
      <4> QED
        BY <2>1, <4>1
    <3> QED
      BY <3>1, <3>2
  <2> QED
    BY <2>1, <2>2, <2>3, <2>4
<1> HIDE DEF old
<1>13. \A x : List!InList(x)' <=> List!InList(x) /\ x # e
  <2>1. ASSUME NEW x, List!InList(x)' PROVE List!InList(x) /\ x # e
    <3>1. PICK j \in 1 .. Len(list) - 1 : list'[j] = x
      BY <1>11, <2>1 DEF List!InList
    <3>2. old[j] \in 1 .. Len(list) /\ old[j] # i /\ list[old[j]] = x
      BY <1>12, <3>1
    <3>3. List!InList(x)
      BY <1>7, <3>2 DEF List!InList
    <3>4. x # e
      BY <1>3, <1>8, <3>2 DEF ListContents, EachOnce
    <3> QED
      BY <3>3, <3>4
  <2>2. ASSUME NEW x, List!InList(x), x # e PROVE List!InList(x)'
    <3>1. PICK k \in 1 .. Len(list) : list[k] = x
      BY <1>7, <2>2 DEF List!InList
    <3>2. k # i
      BY <1>8, <2>2, <3>1
    <3>3. PICK j \in 1 .. Len(list) - 1 : old[j] = k
      BY <1>12, <3>2
    <3>4. list'[j] = x
      BY <1>12, <3>1, <3>3
    <3> QED
      BY <1>11, <3>4 DEF List!InList
  <2> QED
    BY <2>1, <2>2
<1>14. EachOnce' /\ (\A j \in 1 .. Len(list) : list[j] \notin gone)'
  BY <1>1, <1>3, <1>9, <1>12 DEF EachOnce, ListContents
<1>15. AddersAreNew'
  BY <1>1, <1>3, <1>4, <1>5, <1>13 DEF AddersAreNew, ListContents, BeforeUnlock
<1>16. RemoversOwn'
  BY <1>1, <1>3, <1>4, <1>5, <1>6, <1>13 DEF RemoversOwn, ListContents, BeforeUnlock, e
<1>17. \A u \in Listers : u # t => listers[u].pc # "in"
  BY <1>3, <1>5 DEF LockExists
<1>18. WalkersAreIn'
  BY <1>1, <1>3, <1>4, <1>5, <1>17 DEF WalkersAreIn, ListContents
<1>19. IdleIsIdle'
  BY <1>3, <1>4, <1>5 DEF IdleIsIdle, ListContents
<1>20. LockExists'
  <2>1. \A u \in Listers : listers[u].pc # "create"
    <3>1. counter # 0
      BY <1>3, <1>7, i \in 1 .. Len(list) DEF ListContents
    <3> QED
      BY <1>3, <3>1 DEF LockExists
  <2> QED
    BY <1>1, <1>3, <1>4, <1>5, <1>10, <2>1 DEF LockExists, ListTypeOK
<1> QED
  BY <1>1, <1>2, <1>3, <1>4, <1>9, <1>10, <1>14, <1>15, <1>16, <1>18, <1>19, <1>20 DEF
       ListInv, ListTypeOK, ListContents

(* A walk over the list goes to the next interface. *)
LEMMA WalkStep ==
  ASSUME ListInv, NEW t \in Listers, ~raced', List!Walk(t)
  PROVE  ListInv'
<1>1. List!Watch /\ UNCHANGED <<list, counter, listLock, listHolder, gone>>
  BY DEF List!Walk
<1>2. ~raced /\ LonelyWhenEmpty'
  BY <1>1, ListWatchSees
<1>3. LonelyWhenEmpty /\ LockExists /\ ListContents /\ ListTypeOK
  BY <1>2 DEF ListInv
<1>4. listers[t].pc = "in" /\ listers[t].op = "walk"
  BY DEF List!Walk, List!At
<1> DEFINE e == List!Next_unsafe(listers[t].entry)
<1>5. e = List!None \/ (e \in Entries /\ List!InList(e))
  <2>1. DOMAIN list = 1 .. Len(list) /\ \A j \in DOMAIN list : list[j] \in Entries /\ List!InList(list[j])
    BY <1>3, LenProperties, ElementOfSeq DEF ListTypeOK, List!InList
  <2>2. CASE listers[t].entry = List!None
    <3>1. CASE list = <<>>
      BY <2>2, <3>1 DEF List!Next_unsafe
    <3>2. CASE list # <<>>
      <4>1. 1 \in DOMAIN list /\ Head(list) = list[1]
        BY <1>3, <2>1, <3>2, EmptySeq DEF ListTypeOK
      <4> QED
        BY <2>1, <2>2, <3>2, <4>1 DEF List!Next_unsafe
    <3> QED
      BY <3>1, <3>2
  <2>3. CASE listers[t].entry # List!None
    BY <2>1, <2>3 DEF List!Next_unsafe
  <2> QED
    BY <2>2, <2>3
<1>6. \A x : List!InList(x)' <=> List!InList(x)
  BY <1>1 DEF List!InList
<1> HIDE DEF e
<1>7. /\ listers'[t].pc = IF e = List!None THEN "unlock" ELSE "in"
      /\ listers'[t].entry = e
      /\ listers'[t].op = "walk" /\ listers'[t].lock = listers[t].lock
      /\ listers' \in [Listers -> ListerRecords]
      /\ \A u \in Listers : u # t => listers'[u] = listers[u]
  <2>1. listers' = [listers EXCEPT ![t].entry = e, ![t].pc = IF e = List!None THEN "unlock" ELSE "in"]
    BY DEF List!Walk, e
  <2> QED
    BY <1>3, <1>4, <1>5, <2>1 DEF ListTypeOK, ListerRecords, ListerPcs
<1>8. EachOnce' /\ (counter = Len(list))' /\ (\A i \in 1 .. Len(list) : list[i] \notin gone)'
  BY <1>1, <1>3 DEF EachOnce, ListContents
<1>9. AddersAreNew'
  BY <1>1, <1>3, <1>4, <1>5, <1>6, <1>7, ListersAssumption DEF AddersAreNew, ListContents,
       List!None
<1>10. RemoversOwn'
  BY <1>1, <1>3, <1>4, <1>5, <1>6, <1>7 DEF RemoversOwn, ListContents
<1>11. WalkersAreIn'
  BY <1>1, <1>3, <1>4, <1>5, <1>6, <1>7 DEF WalkersAreIn, ListContents
<1>12. IdleIsIdle'
  BY <1>3, <1>4, <1>7 DEF IdleIsIdle, ListContents
<1>13. LockExists'
  BY <1>1, <1>3, <1>4, <1>7 DEF LockExists
<1> QED
  BY <1>1, <1>2, <1>3, <1>7, <1>8, <1>9, <1>10, <1>11, <1>12, <1>13 DEF ListInv, ListTypeOK,
       ListContents

(* The last unlock deletes the mutex. *)
LEMMA DeleteLockStep ==
  ASSUME ListInv, NEW t \in Listers, ~raced', List!UnlockDelete(t)
  PROVE  ListInv'
<1>1. List!Watch /\ UNCHANGED <<list, counter>>
  BY DEF List!UnlockDelete
<1>2. ~raced /\ LonelyWhenEmpty'
  BY <1>1, ListWatchSees
<1>3. LonelyWhenEmpty /\ LockExists /\ ListContents /\ ListTypeOK
  BY <1>2 DEF ListInv
<1>4. /\ listers'[t].pc = "idle" /\ listers'[t].op = "none" /\ listers'[t].entry = List!None
      /\ listers' \in [Listers -> ListerRecords]
      /\ \A u \in Listers : u # t => listers'[u] = listers[u]
      /\ gone' = IF listers[t].op = "remove" THEN gone \cup {listers[t].entry} ELSE gone
  BY <1>3, EndsIdle DEF List!UnlockDelete, List!Return
<1>5. listers[t].pc = "given"
  BY DEF List!UnlockDelete, List!At
<1> DEFINE e == listers[t].entry
<1>6. listers[t].op = "remove" =>
        /\ e \in Entries /\ ~List!InList(e)
        /\ \A u \in Listers : u # t /\ listers[u].op = "remove" => listers[u].entry # e
  BY <1>3, <1>5 DEF ListContents, RemoversOwn
<1> HIDE DEF e
<1>7. gone' \subseteq Entries /\ \A x : x \in gone' => x \in gone \/ (x = e /\ listers[t].op = "remove")
  BY <1>3, <1>4, <1>6 DEF ListTypeOK, e
<1>8. \A x : List!InList(x)' <=> List!InList(x)
  BY <1>1 DEF List!InList
<1>9. EachOnce' /\ (counter = Len(list))'
  BY <1>1, <1>3 DEF EachOnce, ListContents
<1>10. (\A i \in 1 .. Len(list) : list[i] \notin gone)'
  <2>1. DOMAIN list = 1 .. Len(list)
    BY <1>3, LenProperties DEF ListTypeOK
  <2> QED
    BY <1>1, <1>3, <1>6, <1>7, <2>1 DEF ListContents, List!InList
<1>11. AddersAreNew'
  BY <1>1, <1>3, <1>4, <1>5, <1>6, <1>7, <1>8, ListersAssumption DEF AddersAreNew,
       ListContents, List!None, e
<1>12. RemoversOwn'
  BY <1>1, <1>3, <1>4, <1>5, <1>6, <1>7, <1>8 DEF RemoversOwn, ListContents
<1>13. WalkersAreIn'
  BY <1>1, <1>3, <1>4, <1>8 DEF WalkersAreIn, ListContents
<1>14. IdleIsIdle'
  BY <1>3, <1>4 DEF IdleIsIdle, ListContents
<1>15. /\ LockExists'
       /\ listLock' \in Locks \cup {List!None} /\ listHolder' \in [Locks -> Listers \cup {List!Free, List!None}]
  <2>1. CASE /\ counter = 0 /\ listLock # List!None
             /\ listHolder' = [listHolder EXCEPT ![listLock] = List!None] /\ listLock' = List!None
    <3>1. \A u \in Listers : listers'[u].pc = "idle"
      BY <1>3, <1>4, <1>5, <2>1 DEF LonelyWhenEmpty
    <3> QED
      BY <1>1, <1>3, <2>1, <3>1 DEF LockExists, ListTypeOK
  <2>2. CASE UNCHANGED <<listHolder, listLock>>
    BY <1>1, <1>3, <1>4, <2>2 DEF LockExists, ListTypeOK
  <2>3. \/ UNCHANGED <<listHolder, listLock>>
        \/ /\ counter = 0 /\ listLock # List!None
           /\ listHolder' = [listHolder EXCEPT ![listLock] = List!None] /\ listLock' = List!None
    BY DEF List!UnlockDelete
  <2> QED
    BY <2>1, <2>2, <2>3
<1> QED
  BY <1>1, <1>2, <1>3, <1>4, <1>7, <1>9, <1>10, <1>11, <1>12, <1>13, <1>14, <1>15 DEF ListInv,
       ListTypeOK, ListContents

(* Every step keeps the invariant. *)
LEMMA ListStep ==
  ASSUME ListInv, [List!Next]_(List!listVars)
  PROVE  ListInv'
<1>1. CASE UNCHANGED List!listVars
  BY <1>1 DEF List!listVars, ListInv, ListTypeOK, LonelyWhenEmpty, LockExists, ListContents,
       EachOnce,
              AddersAreNew, RemoversOwn, WalkersAreIn, IdleIsIdle, List!InList
<1>2. CASE List!Next /\ ~raced'
  BY <1>2, QuietSteps, EnterStep, CreateLockStep, InsertStep, RemoveStep, WalkStep,
       DeleteLockStep DEF List!Next, List!Step
<1>3. CASE raced'
  BY <1>3 DEF ListInv
<1> QED
  BY <1>1, <1>2, <1>3

(* The mutex that the first call creates and the last one deletes protects *)
(* the list, for every number of interfaces and callers, unless two calls  *)
(* overlap while the list is empty.                                        *)
THEOREM ListStaysProtected == List!Spec => []ListIsProtected
<1>1. List!Init => ListInv
  <2> SUFFICES ASSUME List!Init PROVE ListInv
    OBVIOUS
  <2>1. /\ List!IdleLister \in ListerRecords
        /\ List!IdleLister.pc = "idle" /\ List!IdleLister.op = "none" /\ List!IdleLister.entry = List!None
    BY DEF List!IdleLister, ListerRecords, ListerPcs
  <2>2. \A t \in Listers : listers[t] = List!IdleLister
    BY DEF List!Init
  <2>3. ListTypeOK
    BY <2>1 DEF List!Init, ListTypeOK
  <2>4. LonelyWhenEmpty /\ LockExists
    BY <2>1, <2>2 DEF List!Init, LonelyWhenEmpty, LockExists
  <2>5. list = <<>> /\ Len(list) = 0 /\ counter = Len(list)
    BY DEF List!Init
  <2>6. EachOnce /\ (\A i \in 1 .. Len(list) : list[i] \notin gone)
    BY <2>5 DEF EachOnce
  <2>7. AddersAreNew /\ RemoversOwn /\ WalkersAreIn /\ IdleIsIdle
    BY <2>1, <2>2 DEF AddersAreNew, RemoversOwn, WalkersAreIn, IdleIsIdle
  <2> QED
    BY <2>3, <2>4, <2>5, <2>6, <2>7 DEF ListInv, ListContents
<1>2. ListInv => ListIsProtected
  <2> SUFFICES ASSUME ListInv, ~raced PROVE ListIsProtected
    BY DEF ListIsProtected, List!ListIsProtected
  <2>1. ListTypeOK /\ LockExists /\ ListContents
    BY DEF ListInv
  <2> DEFINE inside == {t \in Listers : listers[t].pc \in {"in", "unlock"}}
  <2>2. \A t \in inside, u \in inside : t = u
    BY <2>1 DEF LockExists
  <2>3. Cardinality(inside) <= 1
    <3>1. IsFiniteSet(inside)
      BY ListersAssumption, FS_Subset
    <3> HIDE DEF inside
    <3>2. CASE inside = {}
      BY <3>2, FS_EmptySet
    <3>3. CASE inside # {}
      <4>1. PICK t : inside = {t}
        BY <2>2, <3>3
      <4> QED
        BY <4>1, FS_Singleton
    <3> QED
      BY <3>2, <3>3
  <2>4. \A t \in Listers : listers[t].op = "walk" => listers[t].entry \notin gone
    <3>1. \A x : List!InList(x) => x \notin gone
      BY <2>1, LenProperties DEF List!InList, ListContents, ListTypeOK
    <3>2. List!None \notin gone
      BY <2>1, ListersAssumption DEF ListTypeOK, List!None
    <3> QED
      BY <2>1, <3>1, <3>2 DEF ListContents, WalkersAreIn
  <2> QED
    BY <2>1, <2>3, <2>4, SameCardinality DEF ListIsProtected, List!ListIsProtected, LockExists, ListContents
<1>3. ListInv /\ [List!Next]_(List!listVars) => ListInv'
  BY ListStep
<1> QED
  BY <1>1, <1>2, <1>3, PTL DEF List!Spec

-----------------------------------------------------------------------------
(* The default and the legacy loop (DefaultLoop).  As long as no creation  *)
(* or deletion overlaps another call, there is one live loop and it is the *)
(* default, but for the moment between its deletion and the reset.         *)

Administrative == {"create", "delete", "init", "deinit"}
ClientPcs == {"idle", "create", "delete", "clear", "register", "reset", "init",
              "deinit", "use", "using", "send"}
ClientRecords == [pc : ClientPcs, op : Default!Ops \cup {"none"}, loop : Loops \cup {Default!None}]

DefaultTypeOK ==
  /\ dflt \in Loops \cup {Default!None}
  /\ loops \in [Loops -> {"new", "live", "freed"}]
  /\ registered \in SUBSET Loops
  /\ initialized \in BOOLEAN /\ legacyCb \in BOOLEAN
  /\ clients \in [Clients -> ClientRecords]
  /\ overlapped \in BOOLEAN /\ deletedAlone \in BOOLEAN

AdministersAlone ==
  \A t \in Clients, u \in Clients :
    clients[t].pc # "idle" /\ clients[t].op \in Administrative /\ clients[u].pc # "idle" => t = u

(* Where a call is says what it was. *)
CallsAreKnown ==
  \A t \in Clients :
    /\ clients[t].pc \in {"create", "register", "init", "delete", "clear", "deinit", "reset"} =>
         clients[t].op \in Administrative
    /\ clients[t].pc \in {"delete", "clear"} => clients[t].op \in {"delete", "deinit"}
    /\ clients[t].pc \in {"deinit", "reset"} => clients[t].op = "deinit"

DefaultIsLive ==
  /\ \A l \in Loops : loops[l] = "live" => dflt = l
  /\ dflt # Default!None => loops[dflt] = "live" \/ \E t \in Clients : clients[t].pc = "clear"
  /\ \A t \in Clients : clients[t].pc = "clear" => \A l \in Loops : loops[l] # "live"
  /\ \A t \in Clients : clients[t].pc = "using" => clients[t].loop = dflt /\ dflt # Default!None

Deinitializing(t) == clients[t].op = "deinit" /\ clients[t].pc \in {"delete", "clear", "reset"}
LegacyIsRegistered ==
  /\ initialized => legacyCb
  /\ \A t \in Clients : clients[t].pc = "clear" => dflt \notin registered
  /\ initialized /\ ~deletedAlone => dflt \in registered \/ \E t \in Clients : Deinitializing(t)

DefaultInv ==
  DefaultTypeOK /\ (~overlapped => AdministersAlone /\ CallsAreKnown /\ DefaultIsLive /\ LegacyIsRegistered)

(* What the calls may do at a time, from what Watch notes: a call that       *)
(* creates or deletes a loop is alone.                                     *)
LEMMA DefaultWatchSees ==
  ASSUME overlapped \in BOOLEAN, Default!Watch, ~overlapped'
  PROVE  ~overlapped /\ AdministersAlone'
<1>1. ~overlapped
  BY DEF Default!Watch
<1>2. ASSUME NEW t \in Clients, NEW u \in Clients, t # u, clients'[t].pc # "idle",
             clients'[t].op \in Administrative, clients'[u].pc # "idle"
      PROVE  FALSE
  <2> DEFINE busy == {v \in Clients : clients'[v].pc # "idle"}
  <2>1. IsFiniteSet(busy)
    BY ClientsAssumption, FS_Subset
  <2>2. Cardinality(busy) > 1
    BY <1>2, <2>1, TwoAreMore
  <2>3. \E v \in busy : clients'[v].op \in {"create", "delete", "init", "deinit"}
    BY <1>2 DEF Administrative
  <2> HIDE DEF busy
  <2>4. overlapped' = (overlapped \/
          (Cardinality(busy) > 1 /\ \E v \in busy : clients'[v].op \in {"create", "delete", "init", "deinit"}))
    BY SameCardinality DEF Default!Watch, busy
  <2> QED
    BY <2>2, <2>3, <2>4
<1> QED
  BY <1>1, <1>2 DEF AdministersAlone

(* Watch keeps the type of what it notes. *)
LEMMA WatchIsBoolean == Default!Watch => overlapped' \in BOOLEAN
BY DEF Default!Watch

(* Every step of a client keeps the types. *)
LEMMA DefaultTypes ==
  ASSUME DefaultTypeOK, [Default!Next]_(Default!defaultVars)
  PROVE  DefaultTypeOK'
<1> DEFINE Typed == [Clients -> ClientRecords]
<1>1. Default!IdleClient \in ClientRecords
  BY DEF Default!IdleClient, ClientRecords, ClientPcs
<1>2. ASSUME NEW t \in Clients, NEW pc \in ClientPcs, NEW l \in Loops \cup {Default!None},
             Default!Goes(t, pc, l)
      PROVE  clients' \in Typed
  BY <1>2 DEF ClientRecords, Default!Goes, DefaultTypeOK
<1>3. ASSUME NEW t \in Clients, Default!Return(t)
      PROVE  clients' \in Typed
  BY <1>1, <1>3 DEF Default!Return, DefaultTypeOK
<1>4. ASSUME NEW t \in Clients, NEW op \in Default!Ops, Default!Call(t, op)
      PROVE  DefaultTypeOK'
  BY <1>4, WatchIsBoolean DEF Default!Call, ClientRecords, Default!Ops, ClientPcs, DefaultTypeOK
<1> HIDE DEF Typed
<1> DEFINE Others == /\ dflt' \in Loops \cup {Default!None}
                     /\ loops' \in [Loops -> {"new", "live", "freed"}]
                     /\ registered' \in SUBSET Loops
                     /\ initialized' \in BOOLEAN /\ legacyCb' \in BOOLEAN
                     /\ deletedAlone' \in BOOLEAN
<1>5. ASSUME NEW t \in Clients, Default!CreateExists(t) \/ Default!DeleteNone(t)
             \/ Default!DeleteClear(t) \/ Default!Use(t) \/ Default!Send(t)
             \/ Default!LegacyInit(t) \/ Default!LegacyReset(t)
      PROVE  DefaultTypeOK'
  <2>1. Others
    BY <1>5 DEF Default!CreateExists, Default!DeleteNone, Default!DeleteClear, Default!Use,
         Default!Send, Default!LegacyInit, Default!LegacyReset, DefaultTypeOK
  <2>2. clients' \in Typed
    BY <1>2, <1>3, <1>5 DEF Default!CreateExists, Default!DeleteNone, Default!DeleteClear,
         Default!Use, Default!Send, Default!LegacyInit, Default!LegacyReset, ClientPcs
  <2>3. Default!Watch
    BY <1>5 DEF Default!CreateExists, Default!DeleteNone, Default!DeleteClear, Default!Use,
         Default!Send, Default!LegacyInit, Default!LegacyReset
  <2> QED
    BY <2>1, <2>2, <2>3, WatchIsBoolean DEF DefaultTypeOK, Typed
<1>6. ASSUME NEW t \in Clients, Default!Create(t) \/ Default!Test(t)
      PROVE  DefaultTypeOK'
  <2>1. Others
    BY <1>6 DEF Default!Create, Default!Test, DefaultTypeOK
  <2>2. clients' \in Typed
    BY <1>2, <1>3, <1>6 DEF Default!Create, Default!Test, ClientPcs, DefaultTypeOK
  <2>3. Default!Watch
    BY <1>6 DEF Default!Create, Default!Test
  <2> QED
    BY <2>1, <2>2, <2>3, WatchIsBoolean DEF DefaultTypeOK, Typed
<1>7. ASSUME NEW t \in Clients, Default!Delete(t) \/ Default!LegacyRegister(t)
             \/ Default!LegacyDeinit(t)
      PROVE  DefaultTypeOK'
  <2>1. Others
    BY <1>7 DEF Default!Delete, Default!LegacyRegister, Default!LegacyDeinit, DefaultTypeOK
  <2>2. clients' \in Typed
    BY <1>2, <1>3, <1>7 DEF Default!Delete, Default!LegacyRegister, Default!LegacyDeinit,
         ClientPcs
  <2>3. Default!Watch
    BY <1>7 DEF Default!Delete, Default!LegacyRegister, Default!LegacyDeinit
  <2> QED
    BY <2>1, <2>2, <2>3, WatchIsBoolean DEF DefaultTypeOK, Typed
<1>8. CASE UNCHANGED Default!defaultVars
  BY <1>8 DEF Default!defaultVars, DefaultTypeOK
<1> QED
  BY <1>4, <1>5, <1>6, <1>7, <1>8 DEF Default!Next

(* Every step that overlaps no other keeps the invariant. *)
LEMMA DefaultStep ==
  ASSUME DefaultInv, [Default!Next]_(Default!defaultVars), ~overlapped'
  PROVE  DefaultInv'
<1>1. DefaultTypeOK'
  BY DefaultTypes DEF DefaultInv
<1>2. CASE UNCHANGED Default!defaultVars
  BY <1>2 DEF Default!defaultVars, DefaultInv, DefaultTypeOK, AdministersAlone, CallsAreKnown,
       DefaultIsLive, LegacyIsRegistered, Deinitializing
<1>3. ASSUME NEW t \in Clients, NEW op \in Default!Ops, Default!Call(t, op)
      PROVE  DefaultInv'
  <2>1. ~overlapped /\ AdministersAlone'
    BY <1>3, DefaultWatchSees DEF Default!Call, DefaultInv, DefaultTypeOK
  <2>2. /\ UNCHANGED <<dflt, loops, registered, initialized, legacyCb, deletedAlone>>
        /\ \A u \in Clients : u # t => clients'[u] = clients[u]
        /\ clients[t].pc = "idle" /\ clients'[t].pc = op /\ clients'[t].op = op
    BY <1>3 DEF Default!Call, Default!At, DefaultInv, DefaultTypeOK
  <2>3. CallsAreKnown'
    BY <2>1, <2>2 DEF CallsAreKnown, DefaultInv, Default!Ops, Administrative
  <2>4. DefaultIsLive'
    BY <2>1, <2>2 DEF DefaultIsLive, DefaultInv, Default!Ops
  <2>5. LegacyIsRegistered'
    BY <2>1, <2>2 DEF LegacyIsRegistered, Deinitializing, DefaultInv, Default!Ops
  <2> QED
    BY <1>1, <2>1, <2>3, <2>4, <2>5 DEF DefaultInv
<1>4. ASSUME NEW t \in Clients, Default!Test(t) \/ Default!Use(t) \/ Default!Send(t)
      PROVE  DefaultInv'
  <2>1. ~overlapped /\ AdministersAlone'
    BY <1>4, DefaultWatchSees DEF Default!Test, Default!Use, Default!Send, DefaultInv,
         DefaultTypeOK
  <2>2. /\ UNCHANGED <<dflt, loops, registered, initialized, legacyCb, deletedAlone>>
        /\ \A u \in Clients : u # t => clients'[u] = clients[u]
    BY <1>4 DEF Default!Test, Default!Use, Default!Send, Default!Goes, Default!Return,
         DefaultInv, DefaultTypeOK
  <2>3. /\ clients[t].pc \in {"use", "using", "send"}
        /\ clients'[t].pc \in {"idle", "use", "using"}
        /\ clients'[t].pc = "using" => clients'[t].loop = dflt /\ dflt # Default!None
    BY <1>4 DEF Default!Test, Default!Use, Default!Send, Default!Goes, Default!Return,
         Default!At, Default!IdleClient, DefaultInv, DefaultTypeOK, ClientRecords
  <2>4. CallsAreKnown'
    BY <2>1, <2>2, <2>3 DEF CallsAreKnown, DefaultInv
  <2>5. DefaultIsLive'
    BY <2>1, <2>2, <2>3 DEF DefaultIsLive, DefaultInv
  <2>6. LegacyIsRegistered'
    BY <2>1, <2>2, <2>3 DEF LegacyIsRegistered, Deinitializing, DefaultInv
  <2> QED
    BY <1>1, <2>1, <2>4, <2>5, <2>6 DEF DefaultInv
<1>5. ASSUME NEW t \in Clients,
             \/ Default!CreateExists(t) \/ Default!Create(t) \/ Default!DeleteNone(t) \/ Default!Delete(t)
             \/ Default!DeleteClear(t) \/ Default!LegacyInit(t) \/ Default!LegacyRegister(t)
             \/ Default!LegacyDeinit(t) \/ Default!LegacyReset(t)
      PROVE  DefaultInv'
  <2> USE DEF Default!Goes, Default!Return, Default!At
  <2>1. Default!Watch
    BY <1>5 DEF Default!CreateExists, Default!Create, Default!DeleteNone, Default!Delete,
         Default!DeleteClear, Default!LegacyInit, Default!LegacyRegister,
         Default!LegacyDeinit, Default!LegacyReset
  <2>2. ~overlapped /\ AdministersAlone'
    BY <2>1, DefaultWatchSees DEF DefaultInv, DefaultTypeOK
  <2>3. clients[t].pc \in {"create", "delete", "clear", "register", "reset", "init", "deinit"}
    BY <1>5 DEF Default!CreateExists, Default!Create, Default!DeleteNone, Default!Delete,
         Default!DeleteClear, Default!LegacyInit, Default!LegacyRegister,
         Default!LegacyDeinit, Default!LegacyReset
  <2>4. clients[t].op \in Administrative /\ \A u \in Clients : u # t => clients[u].pc = "idle"
    BY <2>2, <2>3 DEF DefaultInv, CallsAreKnown, AdministersAlone
  <2>5. clients \in [Clients -> ClientRecords]
    BY DEF DefaultInv, DefaultTypeOK
  <2>6. \A u \in Clients : u # t => clients'[u].pc = "idle"
    BY <1>5, <2>4, <2>5 DEF Default!CreateExists, Default!Create, Default!DeleteNone,
         Default!Delete, Default!DeleteClear, Default!LegacyInit, Default!LegacyRegister,
         Default!LegacyDeinit, Default!LegacyReset
  <2>10. clients'[t].pc = "clear" => clients[t].pc = "delete" /\ dflt # Default!None
    BY <1>5, <2>5 DEF Default!CreateExists, Default!Create, Default!DeleteNone,
         Default!Delete, Default!DeleteClear, Default!LegacyInit, Default!LegacyRegister,
         Default!LegacyDeinit, Default!LegacyReset, Default!IdleClient, ClientRecords
  <2>7. CallsAreKnown'
    <3>1. clients'[t] = Default!IdleClient \/ clients'[t].op = clients[t].op
      BY <1>5, <2>5 DEF Default!CreateExists, Default!Create, Default!DeleteNone,
           Default!Delete, Default!DeleteClear, Default!LegacyInit,
           Default!LegacyRegister, Default!LegacyDeinit, Default!LegacyReset,
           ClientRecords
    <3>2. clients'[t].pc = "reset" => clients[t].op = "deinit"
      BY <1>5, <2>5 DEF Default!CreateExists, Default!Create, Default!DeleteNone,
           Default!Delete, Default!DeleteClear, Default!LegacyInit,
           Default!LegacyRegister, Default!LegacyDeinit, Default!LegacyReset,
           ClientRecords, Default!IdleClient
    <3>4. /\ clients'[t].pc \in {"delete", "clear"} => clients[t].op \in {"delete", "deinit"}
          /\ clients'[t].pc # "deinit"
      <4>1. ~(Default!LegacyDeinit(t) \/ Default!Delete(t)) => clients'[t].pc \notin {"delete", "clear", "deinit"}
        BY <1>5, <2>5 DEF Default!CreateExists, Default!Create, Default!DeleteNone,
             Default!DeleteClear, Default!LegacyInit, Default!LegacyRegister,
             Default!LegacyReset, ClientRecords, Default!IdleClient
      <4>2. CASE Default!LegacyDeinit(t)
        BY <2>2, <2>5, <4>2 DEF Default!LegacyDeinit, ClientRecords, Default!IdleClient,
             DefaultInv, CallsAreKnown
      <4>3. CASE Default!Delete(t)
        BY <2>2, <2>5, <4>3 DEF Default!Delete, ClientRecords, DefaultInv, CallsAreKnown
      <4> QED
        BY <4>1, <4>2, <4>3
    <3>3. Default!IdleClient.pc = "idle"
      BY DEF Default!IdleClient
    <3> QED
      BY <2>4, <2>6, <3>1, <3>2, <3>3, <3>4 DEF CallsAreKnown
  <2>8. DefaultIsLive'
    <3>1. clients'[t].pc # "using" /\ (~Default!Delete(t) => clients'[t].pc # "clear")
      BY <1>5, <2>5 DEF Default!CreateExists, Default!Create, Default!DeleteNone,
           Default!Delete, Default!DeleteClear, Default!LegacyInit,
           Default!LegacyRegister, Default!LegacyDeinit, Default!LegacyReset,
           Default!IdleClient, ClientRecords
    <3>2. CASE Default!CreateExists(t) \/ Default!DeleteNone(t) \/ Default!LegacyInit(t)
               \/ Default!LegacyRegister(t) \/ Default!LegacyDeinit(t) \/ Default!LegacyReset(t)
      <4>1. UNCHANGED <<dflt, loops>> /\ clients[t].pc # "clear" /\ clients'[t].pc # "clear"
        BY <2>5, <3>2 DEF ClientRecords, Default!IdleClient, Default!CreateExists,
             Default!DeleteNone, Default!LegacyInit, Default!LegacyRegister,
             Default!LegacyDeinit, Default!LegacyReset
      <4> QED
        BY <2>2, <2>4, <2>6, <3>1, <4>1 DEF DefaultIsLive, DefaultInv
    <3>3. CASE Default!Create(t)
      <4>3. clients'[t].pc # "clear"
        BY <2>5, <3>3 DEF Default!Create, ClientRecords, Default!IdleClient
      <4>1. CASE UNCHANGED <<dflt, loops>>
        BY <2>2, <2>4, <2>6, <3>1, <3>3, <4>1, <4>3 DEF DefaultIsLive, DefaultInv,
             Default!Create
      <4>2. ASSUME NEW l \in Loops, loops' = [loops EXCEPT ![l] = "live"], dflt' = l
            PROVE  DefaultIsLive'
        BY <2>2, <2>4, <2>6, <3>1, <3>3, <4>2, <4>3, ClientsAssumption DEF
             DefaultIsLive, DefaultInv, Default!Create, DefaultTypeOK, Default!None
      <4> QED
        BY <3>3, <4>1, <4>2 DEF Default!Create
    <3>4. CASE Default!Delete(t)
      <4>1. /\ clients'[t].pc = "clear" /\ UNCHANGED dflt
            /\ loops' = [loops EXCEPT ![dflt] = "freed"]
        BY <2>5, <3>4 DEF Default!Delete, ClientRecords
      <4> QED
        BY <2>2, <2>4, <2>6, <3>1, <3>4, <4>1 DEF DefaultIsLive, DefaultInv,
             DefaultTypeOK, Default!Delete
    <3>5. CASE Default!DeleteClear(t)
      <4>1. dflt' = Default!None /\ UNCHANGED loops /\ clients[t].pc = "clear" /\ clients'[t].pc # "clear"
        BY <2>5, <3>5 DEF ClientRecords, Default!IdleClient, Default!DeleteClear
      <4> QED
        BY <2>2, <2>4, <2>6, <3>1, <4>1 DEF DefaultIsLive, DefaultInv
    <3> QED
      BY <1>5, <3>2, <3>3, <3>4, <3>5
  <2>9. LegacyIsRegistered'
    <3> USE DEF LegacyIsRegistered, Deinitializing, DefaultInv, DefaultTypeOK
    <3> DEFINE Same == UNCHANGED <<dflt, registered, initialized, legacyCb, deletedAlone>>
    <3>1. CASE Default!CreateExists(t) \/ Default!LegacyInit(t)
      <4>1. Same /\ clients[t].pc \in {"create", "init"}
        BY <3>1 DEF Default!CreateExists, Default!LegacyInit
      <4> QED
        BY <2>2, <2>4, <2>6, <2>10, <4>1
    <3>2. CASE Default!Create(t)
      <4>1. /\ UNCHANGED <<registered, initialized, legacyCb, deletedAlone>>
            /\ dflt = Default!None /\ clients[t].pc = "create"
        BY <3>2 DEF Default!Create
      <4> QED
        BY <2>2, <2>4, <2>6, <2>10, <4>1, ClientsAssumption DEF Default!None
    <3>3. CASE Default!DeleteNone(t)
      <4>1. Same /\ dflt = Default!None /\ clients[t].pc = "delete"
        BY <3>3 DEF Default!DeleteNone
      <4>2. clients[t].op = "deinit" => clients'[t].pc = "reset" /\ clients'[t].op = "deinit"
        BY <2>5, <3>3 DEF Default!DeleteNone, ClientRecords
      <4> QED
        BY <2>2, <2>4, <2>6, <2>10, <4>1, <4>2, ClientsAssumption DEF Default!None
    <3>4. CASE Default!Delete(t)
      <4>1. /\ UNCHANGED <<dflt, initialized, legacyCb>> /\ registered' = registered \ {dflt}
            /\ deletedAlone' <=> (deletedAlone \/ (initialized /\ clients[t].op = "delete"))
            /\ clients'[t].pc = "clear" /\ clients'[t].op = clients[t].op
            /\ clients[t].pc = "delete"
        BY <2>5, <3>4 DEF Default!Delete, ClientRecords
      <4>2. clients[t].op \in {"delete", "deinit"}
        BY <2>2, <4>1 DEF CallsAreKnown
      <4> QED
        BY <2>2, <2>4, <2>6, <2>10, <4>1, <4>2
    <3>5. CASE Default!DeleteClear(t)
      <4>1. /\ UNCHANGED <<registered, initialized, legacyCb, deletedAlone>>
            /\ clients[t].pc = "clear"
        BY <3>5 DEF Default!DeleteClear
      <4>2. clients[t].op = "deinit" => clients'[t].pc = "reset" /\ clients'[t].op = "deinit"
        BY <2>5, <3>5 DEF Default!DeleteClear, ClientRecords
      <4> QED
        BY <2>2, <2>4, <2>6, <2>10, <4>1, <4>2, ClientsAssumption DEF Default!None
    <3>6. CASE Default!LegacyRegister(t)
      <4>1. /\ UNCHANGED dflt /\ clients[t].pc = "register"
            /\ \/ dflt' \in registered' /\ legacyCb'
               \/ UNCHANGED <<registered, initialized, legacyCb, deletedAlone>>
        BY <3>6 DEF Default!LegacyRegister
      <4> QED
        BY <2>2, <2>4, <2>6, <2>10, <4>1
    <3>7. CASE Default!LegacyDeinit(t)
      <4>1. UNCHANGED <<dflt, initialized, legacyCb, deletedAlone>>
        BY <3>7 DEF Default!LegacyDeinit
      <4>2. CASE initialized /\ dflt # Default!None
        <5>1. clients'[t].pc = "delete" /\ clients'[t].op = "deinit"
          BY <2>2, <2>5, <3>7, <4>2 DEF Default!LegacyDeinit, CallsAreKnown, ClientRecords
        <5> QED
          BY <2>2, <2>4, <2>6, <2>10, <4>1, <5>1
      <4>3. CASE ~(initialized /\ dflt # Default!None)
        <5>1. UNCHANGED registered /\ clients[t].pc = "deinit"
          BY <3>7, <4>3 DEF Default!LegacyDeinit
        <5> QED
          BY <2>2, <2>4, <2>6, <2>10, <4>1, <5>1
      <4> QED
        BY <4>2, <4>3
    <3>8. CASE Default!LegacyReset(t)
      <4>1. ~initialized'
        BY <3>8 DEF Default!LegacyReset
      <4>2. clients[t].pc = "reset"
        BY <3>8 DEF Default!LegacyReset
      <4> QED
        BY <2>4, <2>6, <2>10, <4>1, <4>2
    <3> QED
      BY <1>5, <3>1, <3>2, <3>3, <3>4, <3>5, <3>6, <3>7, <3>8
  <2> QED
    BY <1>1, <2>2, <2>7, <2>8, <2>9 DEF DefaultInv
<1> QED
  BY <1>2, <1>3, <1>4, <1>5 DEF Default!Next

(* A call of the default or the legacy loop that overlaps no creation and *)
(* no deletion uses the loop that exists: esp_event_post and the others    *)
(* after esp_event_loop_create_default and before _delete_default, and     *)
(* esp_event_send after esp_event_loop_init.                               *)
THEOREM DefaultLoopIsUsed == Default!Spec => []CallsUseTheLoop
<1>1. Default!Init => DefaultInv
  <2> SUFFICES ASSUME Default!Init PROVE DefaultInv
    OBVIOUS
  <2>1. Default!IdleClient \in ClientRecords /\ Default!IdleClient.pc = "idle"
    BY DEF Default!IdleClient, ClientRecords, ClientPcs
  <2>2. DefaultTypeOK
    BY <2>1 DEF Default!Init, DefaultTypeOK
  <2>3. \A t \in Clients : clients[t].pc = "idle"
    BY <2>1 DEF Default!Init
  <2> QED
    BY <2>2, <2>3 DEF Default!Init, DefaultInv, AdministersAlone, CallsAreKnown,
         DefaultIsLive, LegacyIsRegistered
<1>2. DefaultInv /\ [Default!Next]_(Default!defaultVars) => DefaultInv'
  BY DefaultStep, DefaultTypes DEF DefaultInv
<1>3. DefaultInv => CallsUseTheLoop
  <2> SUFFICES ASSUME DefaultInv, ~overlapped PROVE CallsUseTheLoop
    BY DEF CallsUseTheLoop, Default!CallsUseTheLoop
  <2> USE DEF DefaultInv, DefaultTypeOK, DefaultIsLive, LegacyIsRegistered
  <2>1. \A t \in Clients : clients[t].pc = "using" => loops[clients[t].loop] = "live"
    <3> SUFFICES ASSUME NEW t \in Clients, clients[t].pc = "using" PROVE loops[clients[t].loop] = "live"
      OBVIOUS
    <3>1. clients[t].loop = dflt /\ dflt # Default!None
      OBVIOUS
    <3>2. \A u \in Clients : clients[u].pc # "clear"
      BY DEF AdministersAlone, CallsAreKnown, Administrative
    <3> QED
      BY <3>1, <3>2
  <2>2. ASSUME \A t \in Clients : clients[t].pc = "idle"
        PROVE  /\ {l \in Loops : loops[l] = "live"} = {dflt} \ {Default!None}
               /\ initialized /\ ~deletedAlone => dflt \in registered /\ legacyCb
    BY <2>2, ClientsAssumption DEF Deinitializing, Default!None
  <2> QED
    BY <2>1, <2>2 DEF CallsUseTheLoop, Default!CallsUseTheLoop, Default!At
<1> QED
  BY <1>1, <1>2, <1>3, PTL DEF Default!Spec

-----------------------------------------------------------------------------
(* The Wi-Fi interfaces and their default handlers (WifiGlue).  Which      *)
(* handlers are registered follows from the flag and from how far a        *)
(* registration went; which interface has which driver from where its      *)
(* creation or its destruction is.  What a handler holds is what the       *)
(* tables name.                                                            *)

Ending == [pc : {"attach", "driver", "post", "unhook", "rxcb", "freedriver", "destroy"}, n : Netifs]
Registering == [pc : {"set"}, i : 1 .. Len(Order)]
Clearing == [pc : {"clear"}, i : 1 .. Len(Order), n : Netifs \cup {Wifi!None}]
Handling == [pc : {"io", "rxnetif", "rxcb", "action"}, on : Wifi!All, n : Netifs \cup {Wifi!None},
             early : BOOLEAN]
NetifObjects == [life : {"new", "live", "freed"}, if : Ifs, io : BOOLEAN,
            driver : {"none", "live", "freed"}, attached : BOOLEAN]

WifiTypeOK ==
  /\ slot \in [Ifs -> Netifs \cup {Wifi!None}] /\ rxnetif \in [Ifs -> Netifs \cup {Wifi!None}]
  /\ wifiHandlers \in SUBSET Wifi!All /\ set \in BOOLEAN
  /\ rxcb \in SUBSET Ifs /\ overtaken \in SUBSET Ifs
  /\ object \in [Netifs -> NetifObjects]
  /\ app \in {Wifi!Idle} \cup Ending \cup Registering \cup Clearing
  /\ evt \in {Wifi!Idle} \cup Handling

(* The registration and the flag *)
HandlersInOrder ==
  /\ app.pc = "set" /\ app.i > 1 => ~set /\ \A j \in 1 .. app.i - 1 : Order[j] \in wifiHandlers
  /\ app.pc = "clear" => \A j \in 1 .. app.i - 1 : Order[j] \notin wifiHandlers
  /\ app.pc # "clear" /\ ~(app.pc = "set" /\ app.i > 1) => wifiHandlers = IF set THEN Wifi!All ELSE {}

(* The destruction of the last interface waits for the handler that runs. *)
Waiting == app.pc = "clear" /\ app.n # Wifi!None
Destroying == app.pc \in {"unhook", "rxcb", "freedriver", "destroy"} \/ Waiting

DriversAreKnown ==
  \A n \in Netifs :
    /\ object[n].life = "new" => object[n].driver = "none"
    /\ object[n].attached => object[n].driver # "none"
    /\ object[n].io => object[n].driver = "live"
    /\ object[n].life = "live" /\ object[n].driver = "freed" => app.pc = "destroy" /\ app.n = n
    /\ object[n].life = "live" /\ ~object[n].attached => app.pc \in {"attach", "driver", "post"} /\ app.n = n
OnePerInterface ==
  \A m \in Netifs, n \in Netifs :
    object[m].life = "live" /\ object[n].life = "live" /\ object[m].if = object[n].if => m = n
NewIsBare ==
  /\ app.pc \in {"attach", "driver", "post"} => object[app.n].life = "live"
  /\ app.pc = "post" => object[app.n].driver = "live"
  /\ Destroying => object[app.n].life = "live" /\ object[app.n].attached
  /\ app.pc \in {"rxcb", "freedriver", "destroy"} => ~object[app.n].io
ObjectsInOrder == DriversAreKnown /\ OnePerInterface /\ NewIsBare

InSlot ==
  \A i \in Ifs : slot[i] # Wifi!None =>
    object[slot[i]].life = "live" /\ object[slot[i]].if = i /\ ~(Destroying /\ app.n = slot[i])
LastOne == Waiting => \A i \in Ifs : slot[i] = Wifi!None
Serving ==
  \A i \in rxcb \ overtaken :
    /\ rxnetif[i] # Wifi!None
    /\ object[rxnetif[i]].life = "live" /\ object[rxnetif[i]].if = i /\ object[rxnetif[i]].attached
    /\ slot[i] = rxnetif[i] \/ (app.n = rxnetif[i] /\ (Waiting \/ app.pc \in {"unhook", "rxcb"}))
Running ==
  evt.pc # "idle" /\ evt.n # Wifi!None /\ evt.on[2] \notin overtaken =>
    /\ object[evt.n].life = "live" /\ object[evt.n].if = evt.on[2]
    /\ slot[evt.on[2]] = evt.n \/ (Waiting /\ app.n = evt.n)
    /\ evt.early \/ object[evt.n].attached
    /\ evt.pc = "rxnetif" => object[evt.n].driver # "none"
    /\ evt.pc = "rxcb" => object[evt.n].attached /\ rxnetif[evt.on[2]] = evt.n
Reread ==
  evt.pc # "idle" /\ evt.n = Wifi!None =>
    evt.pc = "action" /\ (evt.on[2] \in overtaken \/ (evt.on[1] = "connected" /\ Waiting))

WifiInv ==
  WifiTypeOK /\ HandlersInOrder /\ ObjectsInOrder /\ InSlot /\ LastOne /\ Serving /\ Running /\ Reread

EndPcs == {"attach", "driver", "post", "unhook", "rxcb", "freedriver", "destroy"}

(* A task that does nothing *)
LEMMA WifiIdleIs == Wifi!Idle.pc = "idle"
BY DEF Wifi!Idle

(* No object is NULL. *)
LEMMA NoObjectIsNone == \A n \in Netifs : n # Wifi!None
BY OrderAssumption DEF Wifi!None

(* Where the application is says what its record is. *)
LEMMA AppKinds ==
  ASSUME WifiTypeOK
  PROVE  /\ app.pc \in EndPcs \cup {"idle", "set", "clear"}
         /\ app.pc = "idle" <=> app = Wifi!Idle
         /\ app.pc \in EndPcs => app \in Ending
         /\ app.pc = "set" => app \in Registering
         /\ app.pc = "clear" => app \in Clearing
<1>1. app \in Ending => app.pc \in EndPcs
  BY DEF Ending, EndPcs
<1>2. app \in Registering => app.pc = "set"
  BY DEF Registering
<1>3. app \in Clearing => app.pc = "clear"
  BY DEF Clearing
<1> QED
  BY <1>1, <1>2, <1>3, WifiIdleIs DEF WifiTypeOK, EndPcs

(* Where the event task is says what its record is. *)
LEMMA EvtKinds ==
  ASSUME WifiTypeOK
  PROVE  /\ evt.pc = "idle" <=> evt = Wifi!Idle
         /\ evt.pc # "idle" => /\ evt \in Handling /\ evt.on \in Wifi!All /\ evt.on[2] \in Ifs
                               /\ evt.n \in Netifs \cup {Wifi!None} /\ evt.early \in BOOLEAN
<1>1. evt \in Handling => evt.pc # "idle"
  BY DEF Handling
<1>2. evt \in Handling => evt.on \in Wifi!All /\ evt.n \in Netifs \cup {Wifi!None} /\ evt.early \in BOOLEAN
  BY DEF Handling
<1>3. \A h \in Wifi!All : h[2] \in Ifs
  <2>1. \A i \in DOMAIN Order : Order[i] \in {"start", "connected", "stop"} \X Ifs
    BY OrderAssumption
  <2> QED
    BY <2>1 DEF Wifi!All
<1> QED
  BY <1>1, <1>2, <1>3, WifiIdleIs DEF WifiTypeOK

(* Handlers are registered in order, and there is one. *)
LEMMA LenOrder == Len(Order) \in Nat \ {0} /\ DOMAIN Order = 1 .. Len(Order)
BY OrderAssumption

(* The steps of a task that ends an attachment or a destruction *)
LEMMA GoesOn ==
  ASSUME app \in Ending, NEW p \in EndPcs, app' = [app EXCEPT !.pc = p]
  PROVE  app' \in Ending /\ app'.pc = p /\ app'.n = app.n /\ app.n \in Netifs
BY DEF Ending, EndPcs

(* One object is changed, and stays an object. *)
LEMMA PutObject ==
  ASSUME object \in [Netifs -> NetifObjects], NEW n \in Netifs, NEW o \in NetifObjects,
         object' = [object EXCEPT ![n] = o]
  PROVE  /\ object' \in [Netifs -> NetifObjects] /\ object'[n] = o
         /\ \A m \in Netifs : m # n => object'[m] = object[m]
  OBVIOUS

(* esp_netif_new of a default interface *)
LEMMA CreateNetifStep ==
  ASSUME WifiInv, NEW n \in Netifs, NEW i \in Ifs, Wifi!Create(n, i)
  PROVE  WifiInv'
<1>1. /\ UNCHANGED <<slot, wifiHandlers, set, rxnetif, rxcb, evt, overtaken>>
      /\ object' = [object EXCEPT ![n].life = "live", ![n].if = i]
      /\ object[n].life = "new"
      /\ ~\E m \in Netifs : object[m].life = "live" /\ object[m].if = i
  BY DEF Wifi!Create
<1>2. /\ app.pc = "idle" /\ app' \in Ending /\ app'.pc = "attach" /\ app'.n = n
      /\ ~Destroying /\ ~Destroying' /\ ~Waiting /\ ~Waiting'
  BY WifiIdleIs DEF Wifi!Create, Wifi!Ready, Ending, Destroying, Waiting
<1>3. PICK o \in NetifObjects : /\ o = [object[n] EXCEPT !.life = "live", !.if = i]
                               /\ object' = [object EXCEPT ![n] = o]
  <2>1. [object[n] EXCEPT !.life = "live", !.if = i] \in NetifObjects
    BY DEF WifiInv, WifiTypeOK, NetifObjects
  <2> QED
    BY <1>1, <2>1 DEF WifiInv, WifiTypeOK
<1>4. /\ object[n].driver = "none" /\ ~object[n].attached /\ ~object[n].io
  BY <1>1 DEF WifiInv, ObjectsInOrder, DriversAreKnown
<1>5. /\ object'[n].life = "live" /\ object'[n].if = i
      /\ object'[n].driver = "none" /\ ~object'[n].attached /\ ~object'[n].io
      /\ \A m \in Netifs : m # n => object'[m] = object[m]
      /\ object' \in [Netifs -> NetifObjects]
  BY <1>3, <1>4, PutObject DEF WifiInv, WifiTypeOK, NetifObjects
<1>6. \A m \in Netifs : object[m].life = "live" => object'[m] = object[m]
  BY <1>1, <1>5
<1>7. WifiTypeOK'
  BY <1>1, <1>2, <1>5 DEF WifiInv, WifiTypeOK
<1>8. HandlersInOrder'
  BY <1>1, <1>2 DEF WifiInv, HandlersInOrder
<1>9. ObjectsInOrder'
  <2>1. DriversAreKnown'
    <3>1. \A m \in Netifs : object[m].life = "live" => object[m].attached /\ object[m].driver # "freed"
      BY <1>2 DEF WifiInv, ObjectsInOrder, DriversAreKnown
    <3>2. ASSUME NEW m \in Netifs
          PROVE  /\ object'[m].life = "new" => object'[m].driver = "none"
                 /\ object'[m].attached => object'[m].driver # "none"
                 /\ object'[m].io => object'[m].driver = "live"
                 /\ object'[m].life = "live" => object'[m].driver # "freed"
                 /\ object'[m].life = "live" /\ ~object'[m].attached => m = n
      <4>1. CASE m = n
        BY <1>5, <4>1
      <4>2. CASE m # n
        BY <1>5, <3>1, <4>2 DEF WifiInv, ObjectsInOrder, DriversAreKnown
      <4> QED
        BY <4>1, <4>2
    <3> QED
      BY <1>2, <3>2 DEF DriversAreKnown
  <2>2. OnePerInterface'
    <3>1. OnePerInterface
      BY DEF WifiInv, ObjectsInOrder
    <3>2. \A m \in Netifs : m # n /\ object'[m].life = "live" => object'[m].if # i
      BY <1>1, <1>5
    <3> QED
      BY <1>5, <3>1, <3>2 DEF OnePerInterface
  <2>3. NewIsBare'
    BY <1>2, <1>5 DEF NewIsBare
  <2> QED
    BY <2>1, <2>2, <2>3 DEF ObjectsInOrder
<1>10. InSlot' /\ LastOne'
  BY <1>1, <1>2, <1>6 DEF WifiInv, WifiTypeOK, InSlot, LastOne
<1>11. Serving'
  BY <1>1, <1>2, <1>6 DEF WifiInv, WifiTypeOK, Serving
<1>12. Running' /\ Reread'
  BY <1>1, <1>2, <1>6, EvtKinds DEF WifiInv, Running, Reread
<1> QED
  BY <1>7, <1>8, <1>9, <1>10, <1>11, <1>12 DEF WifiInv

(* esp_netif_attach_wifi_station and _ap *)
LEMMA AttachStep ==
  ASSUME WifiInv, Wifi!Attach
  PROVE  WifiInv'
<1>1. /\ UNCHANGED <<wifiHandlers, set, rxnetif, rxcb, object, evt, overtaken>>
      /\ slot' = [slot EXCEPT ![object[app.n].if] = app.n]
      /\ app.pc = "attach"
  BY DEF Wifi!Attach
<1>2. /\ app' \in Ending /\ app'.pc = "driver" /\ app'.n = app.n /\ app.n \in Netifs
      /\ ~Destroying /\ ~Destroying' /\ ~Waiting /\ ~Waiting'
  BY AppKinds, GoesOn DEF Wifi!Attach, WifiInv, EndPcs, Destroying, Waiting
<1>3. object[app.n].if \in Ifs /\ object[app.n].life = "live"
  BY <1>1, <1>2 DEF WifiInv, WifiTypeOK, NetifObjects, ObjectsInOrder, NewIsBare
<1>4. slot[object[app.n].if] # Wifi!None => slot[object[app.n].if] = app.n
  BY <1>2, <1>3 DEF WifiInv, WifiTypeOK, InSlot, ObjectsInOrder, OnePerInterface
<1>5. /\ slot' \in [Ifs -> Netifs \cup {Wifi!None}]
      /\ \A i \in Ifs : slot[i] # Wifi!None => slot'[i] = slot[i]
      /\ \A i \in Ifs : slot'[i] # slot[i] => slot'[i] = app.n /\ i = object[app.n].if
  BY <1>1, <1>2, <1>3, <1>4 DEF WifiInv, WifiTypeOK
<1>6. WifiTypeOK'
  BY <1>1, <1>2, <1>5 DEF WifiInv, WifiTypeOK
<1>7. HandlersInOrder'
  BY <1>1, <1>2 DEF WifiInv, HandlersInOrder
<1>8. ObjectsInOrder'
  BY <1>1, <1>2 DEF WifiInv, ObjectsInOrder, DriversAreKnown, OnePerInterface, NewIsBare
<1>9. InSlot' /\ LastOne'
  BY <1>1, <1>2, <1>3, <1>5 DEF WifiInv, InSlot, LastOne
<1>10. Serving'
  BY <1>1, <1>2, <1>5 DEF WifiInv, WifiTypeOK, Serving
<1>11. Running' /\ Reread'
  BY <1>1, <1>2, <1>5, EvtKinds DEF WifiInv, Running, Reread
<1> QED
  BY <1>6, <1>7, <1>8, <1>9, <1>10, <1>11 DEF WifiInv

(* esp_wifi_create_if_driver, and esp_netif_attach keeps the driver. *)
LEMMA AttachDriverStep ==
  ASSUME WifiInv, Wifi!AttachDriver
  PROVE  WifiInv'
<1>1. /\ UNCHANGED <<slot, wifiHandlers, set, rxnetif, rxcb, evt, overtaken>>
      /\ object' = [object EXCEPT ![app.n].driver = "live", ![app.n].io = TRUE]
      /\ app.pc = "driver"
  BY DEF Wifi!AttachDriver
<1>2. /\ app' \in Ending /\ app'.pc = "post" /\ app'.n = app.n /\ app.n \in Netifs
      /\ ~Destroying /\ ~Destroying' /\ ~Waiting /\ ~Waiting'
  BY AppKinds, GoesOn DEF Wifi!AttachDriver, WifiInv, EndPcs, Destroying, Waiting
<1>3. object[app.n].life = "live"
  BY <1>1 DEF WifiInv, ObjectsInOrder, NewIsBare
<1>4. /\ object' \in [Netifs -> NetifObjects]
      /\ object'[app.n].driver = "live"
      /\ \A m \in Netifs : /\ object'[m].life = object[m].life /\ object'[m].if = object[m].if
                           /\ object'[m].attached = object[m].attached
                           /\ m # app.n => object'[m] = object[m]
  BY <1>1, <1>2 DEF WifiInv, WifiTypeOK, NetifObjects
<1>5. WifiTypeOK'
  BY <1>1, <1>2, <1>4 DEF WifiInv, WifiTypeOK
<1>6. HandlersInOrder'
  BY <1>1, <1>2 DEF WifiInv, HandlersInOrder
<1>7. ObjectsInOrder'
  <2>1. DriversAreKnown'
    <3>1. DriversAreKnown
      BY DEF WifiInv, ObjectsInOrder
    <3>2. ASSUME NEW m \in Netifs
          PROVE  /\ object'[m].life = "new" => object'[m].driver = "none"
                 /\ object'[m].attached => object'[m].driver # "none"
                 /\ object'[m].io => object'[m].driver = "live"
                 /\ object'[m].life = "live" => object'[m].driver # "freed"
                 /\ object'[m].life = "live" /\ ~object'[m].attached => m = app.n
      <4>1. CASE m = app.n
        BY <1>3, <1>4, <4>1
      <4>2. CASE m # app.n
        BY <1>1, <1>4, <3>1, <4>2 DEF DriversAreKnown
      <4> QED
        BY <4>1, <4>2
    <3> QED
      BY <1>2, <3>2 DEF DriversAreKnown
  <2>2. OnePerInterface' /\ NewIsBare'
    BY <1>2, <1>3, <1>4 DEF WifiInv, ObjectsInOrder, OnePerInterface, NewIsBare
  <2> QED
    BY <2>1, <2>2 DEF ObjectsInOrder
<1>8. InSlot' /\ LastOne'
  BY <1>1, <1>2, <1>4 DEF WifiInv, WifiTypeOK, InSlot, LastOne
<1>9. Serving'
  BY <1>1, <1>2, <1>4 DEF WifiInv, WifiTypeOK, Serving
<1>10. Running' /\ Reread'
  BY <1>1, <1>2, <1>4, EvtKinds DEF WifiInv, Running, Reread
<1> QED
  BY <1>5, <1>6, <1>7, <1>8, <1>9, <1>10 DEF WifiInv

(* wifi_driver_start names the interface to the driver. *)
LEMMA PostAttachStep ==
  ASSUME WifiInv, Wifi!PostAttach
  PROVE  WifiInv'
<1>1. /\ UNCHANGED <<slot, wifiHandlers, set, rxnetif, rxcb, evt, overtaken>>
      /\ object' = [object EXCEPT ![app.n].attached = TRUE]
      /\ app.pc = "post"
  BY DEF Wifi!PostAttach
<1>2. /\ app' \in Registering /\ app'.pc = "set" /\ app'.i = 1
      /\ ~Destroying /\ ~Destroying' /\ ~Waiting /\ ~Waiting'
  BY <1>1, LenOrder DEF Wifi!PostAttach, Registering, Destroying, Waiting
<1>3. /\ app.n \in Netifs
      /\ object[app.n].life = "live" /\ object[app.n].driver = "live"
  BY <1>1, AppKinds DEF WifiInv, EndPcs, Ending, ObjectsInOrder, NewIsBare
<1>4. /\ object' \in [Netifs -> NetifObjects]
      /\ object'[app.n].attached
      /\ \A m \in Netifs : /\ object'[m].life = object[m].life /\ object'[m].if = object[m].if
                           /\ object'[m].driver = object[m].driver /\ object'[m].io = object[m].io
                           /\ object[m].attached => object'[m].attached
                           /\ m # app.n => object'[m] = object[m]
  BY <1>1, <1>3 DEF WifiInv, WifiTypeOK, NetifObjects
<1>5. WifiTypeOK'
  BY <1>1, <1>2, <1>4 DEF WifiInv, WifiTypeOK
<1>6. HandlersInOrder'
  BY <1>1, <1>2 DEF WifiInv, HandlersInOrder
<1>7. ObjectsInOrder'
  <2>1. DriversAreKnown'
    <3>1. DriversAreKnown
      BY DEF WifiInv, ObjectsInOrder
    <3>2. ASSUME NEW m \in Netifs
          PROVE  /\ object'[m].life = "new" => object'[m].driver = "none"
                 /\ object'[m].attached => object'[m].driver # "none"
                 /\ object'[m].io => object'[m].driver = "live"
                 /\ object'[m].life = "live" => object'[m].driver # "freed"
                 /\ object'[m].life = "live" => object'[m].attached
      <4>1. CASE m = app.n
        BY <1>3, <1>4, <4>1
      <4>2. CASE m # app.n
        BY <1>1, <1>4, <3>1, <4>2 DEF DriversAreKnown
      <4> QED
        BY <4>1, <4>2
    <3> QED
      BY <1>2, <3>2 DEF DriversAreKnown
  <2>2. OnePerInterface' /\ NewIsBare'
    BY <1>2, <1>3, <1>4 DEF WifiInv, ObjectsInOrder, OnePerInterface, NewIsBare
  <2> QED
    BY <2>1, <2>2 DEF ObjectsInOrder
<1>8. InSlot' /\ LastOne'
  BY <1>1, <1>2, <1>4 DEF WifiInv, WifiTypeOK, InSlot, LastOne
<1>9. Serving'
  BY <1>1, <1>2, <1>4 DEF WifiInv, WifiTypeOK, Serving
<1>10. Running' /\ Reread'
  BY <1>1, <1>2, <1>4, EvtKinds DEF WifiInv, Running, Reread
<1> QED
  BY <1>5, <1>6, <1>7, <1>8, <1>9, <1>10 DEF WifiInv

(* The steps of the application that change neither interface nor table *)
LEMMA TablesStay ==
  ASSUME WifiInv, UNCHANGED <<slot, rxnetif, rxcb, object, evt, overtaken>>,
         ~Destroying, ~Destroying',
         app.pc \notin {"attach", "driver", "post"}, app'.pc \notin {"attach", "driver", "post"}
  PROVE  ObjectsInOrder' /\ InSlot' /\ LastOne' /\ Serving' /\ Running' /\ Reread'
<1>1. ~Waiting /\ ~Waiting' /\ app.pc \notin {"unhook", "rxcb", "freedriver", "destroy"}
  BY DEF Destroying
<1>2. DriversAreKnown'
  BY <1>1 DEF WifiInv, ObjectsInOrder, DriversAreKnown
<1>3. OnePerInterface' /\ NewIsBare'
  <2>1. app'.pc \notin {"rxcb", "freedriver", "destroy"}
    BY DEF Destroying
  <2> QED
    BY <2>1 DEF WifiInv, ObjectsInOrder, OnePerInterface, NewIsBare
<1>4. InSlot' /\ LastOne' /\ Serving'
  BY <1>1 DEF WifiInv, InSlot, LastOne, Serving
<1>5. Running' /\ Reread'
  BY <1>1 DEF WifiInv, Running, Reread
<1> QED
  BY <1>2, <1>3, <1>4, <1>5 DEF ObjectsInOrder

(* Default handlers are requested once more. *)
LEMMA SetSteps ==
  ASSUME WifiInv, Wifi!SetHandlers \/ Wifi!AlreadySet
  PROVE  WifiInv'
<1>1. UNCHANGED <<slot, wifiHandlers, set, rxnetif, rxcb, object, evt, overtaken>>
  BY DEF Wifi!SetHandlers, Wifi!AlreadySet
<1>2. /\ app.pc = "idle" \/ (app.pc = "set" /\ app.i = 1)
      /\ app' = Wifi!Idle \/ (app' \in Registering /\ app'.pc = "set" /\ app'.i = 1)
  BY WifiIdleIs, LenOrder DEF Wifi!SetHandlers, Wifi!AlreadySet, Wifi!Ready, Registering
<1>3. app'.pc \in {"idle", "set"}
  BY <1>2, WifiIdleIs
<1>4. ~Destroying /\ ~Destroying'
  BY <1>2, <1>3 DEF Destroying, Waiting
<1>5. ObjectsInOrder' /\ InSlot' /\ LastOne' /\ Serving' /\ Running' /\ Reread'
  BY <1>1, <1>2, <1>3, <1>4, TablesStay
<1>6. HandlersInOrder'
  BY <1>1, <1>2, <1>3, WifiIdleIs DEF WifiInv, HandlersInOrder
<1> QED
  BY <1>1, <1>2, <1>5, <1>6 DEF WifiInv, WifiTypeOK

(* A default handler is registered, or the registration fails. *)
LEMMA RegisterStep ==
  ASSUME WifiInv, Wifi!RegisterNext
  PROVE  WifiInv'
<1>1. /\ UNCHANGED <<slot, rxnetif, rxcb, object, evt, overtaken>>
      /\ app.pc = "set" /\ app \in Registering /\ app.i \in 1 .. Len(Order)
  BY AppKinds DEF Wifi!RegisterNext, WifiInv, Registering
<1>2. CASE wifiHandlers' = wifiHandlers \cup {Order[app.i]} /\ app.i = Len(Order)
           /\ set' = TRUE /\ app' = Wifi!Idle
  <2>1. wifiHandlers' = Wifi!All
    <3>1. \A j \in 1 .. Len(Order) : Order[j] \in wifiHandlers'
      BY <1>1, <1>2, LenOrder DEF WifiInv, HandlersInOrder
    <3> QED
      BY <1>1, <1>2, <3>1, LenOrder DEF WifiInv, WifiTypeOK, Wifi!All
  <2>2. HandlersInOrder'
    BY <1>2, <2>1, WifiIdleIs DEF HandlersInOrder
  <2>3. ~Destroying /\ ~Destroying'
    BY <1>1, <1>2, WifiIdleIs DEF Destroying, Waiting
  <2>4. ObjectsInOrder' /\ InSlot' /\ LastOne' /\ Serving' /\ Running' /\ Reread'
    BY <1>1, <1>2, <2>3, WifiIdleIs, TablesStay
  <2> QED
    BY <1>1, <1>2, <2>1, <2>2, <2>4 DEF WifiInv, WifiTypeOK
<1>3. CASE wifiHandlers' = wifiHandlers \cup {Order[app.i]} /\ app.i # Len(Order)
           /\ UNCHANGED set /\ app' = [app EXCEPT !.i = @ + 1]
  <2>1. app' \in Registering /\ app'.pc = "set" /\ app'.i = app.i + 1
    BY <1>1, <1>3, LenOrder DEF Registering
  <2>2. ~set
    BY <1>1 DEF Wifi!RegisterNext, WifiInv, HandlersInOrder
  <2>3. \A j \in 1 .. app'.i - 1 : Order[j] \in wifiHandlers'
    BY <1>1, <1>3, <2>1, LenOrder DEF WifiInv, HandlersInOrder
  <2>4. HandlersInOrder'
    BY <1>1, <1>3, <2>1, <2>2, <2>3 DEF HandlersInOrder
  <2>5. wifiHandlers' \in SUBSET Wifi!All
    BY <1>1, <1>3, LenOrder DEF WifiInv, WifiTypeOK, Wifi!All
  <2>6. ~Destroying /\ ~Destroying'
    BY <1>1, <2>1 DEF Destroying, Waiting
  <2>7. ObjectsInOrder' /\ InSlot' /\ LastOne' /\ Serving' /\ Running' /\ Reread'
    BY <1>1, <2>1, <2>6, TablesStay
  <2> QED
    BY <1>1, <1>3, <2>1, <2>4, <2>5, <2>7 DEF WifiInv, WifiTypeOK
<1>4. CASE app' = [pc |-> "clear", i |-> 1, n |-> Wifi!None] /\ UNCHANGED <<wifiHandlers, set>>
  <2>1. app' \in Clearing /\ app'.pc = "clear" /\ app'.i = 1 /\ app'.n = Wifi!None
    BY <1>4, LenOrder DEF Clearing
  <2>2. HandlersInOrder'
    BY <2>1 DEF HandlersInOrder
  <2>3. ~Destroying /\ ~Destroying'
    BY <1>1, <2>1 DEF Destroying, Waiting
  <2>4. ObjectsInOrder' /\ InSlot' /\ LastOne' /\ Serving' /\ Running' /\ Reread'
    BY <1>1, <2>1, <2>3, TablesStay
  <2> QED
    BY <1>1, <1>4, <2>1, <2>2, <2>4 DEF WifiInv, WifiTypeOK
<1> QED
  BY <1>2, <1>3, <1>4 DEF Wifi!RegisterNext

(* esp_netif_destroy_default_wifi forgets the interface; with the last one *)
(* the handlers go next, otherwise those of the interface are overtaken.   *)
LEMMA ClearSlotStep ==
  ASSUME WifiInv, NEW n \in Netifs, Wifi!ClearSlot(n)
  PROVE  WifiInv'
<1>1. /\ UNCHANGED <<wifiHandlers, set, rxnetif, rxcb, object, evt>>
      /\ slot' = [i \in Ifs |-> IF slot[i] = n THEN Wifi!None ELSE slot[i]]
      /\ app.pc = "idle" /\ object[n].life = "live"
      /\ ~Waiting /\ ~Destroying
  BY WifiIdleIs DEF Wifi!ClearSlot, Wifi!Ready, Wifi!Live, Waiting, Destroying
<1>2. /\ slot' \in [Ifs -> Netifs \cup {Wifi!None}]
      /\ \A i \in Ifs : slot'[i] # n /\ (slot'[i] # Wifi!None => slot'[i] = slot[i])
      /\ \A i \in Ifs : slot[i] # n => slot'[i] = slot[i]
  BY <1>1, NoObjectIsNone DEF WifiInv, WifiTypeOK
<1>3. /\ app'.n = n /\ Destroying' /\ app'.pc \in {"clear", "unhook"}
      /\ \/ app' \in Clearing /\ app'.i = 1 /\ Waiting' /\ UNCHANGED overtaken
            /\ \A i \in Ifs : slot'[i] = Wifi!None
         \/ app' \in Ending /\ ~Waiting' /\ app'.pc = "unhook"
            /\ overtaken' = overtaken \cup Wifi!Overtaken(n)
  <2>1. CASE app' = [pc |-> "clear", i |-> 1, n |-> n] /\ UNCHANGED overtaken
             /\ \A i \in Ifs : slot'[i] = Wifi!None
    BY <2>1, LenOrder, NoObjectIsNone DEF Clearing, Waiting, Destroying
  <2>2. CASE app' = [pc |-> "unhook", n |-> n] /\ overtaken' = overtaken \cup Wifi!Overtaken(n)
    BY <2>2 DEF Ending, Waiting, Destroying
  <2> QED
    BY <2>1, <2>2 DEF Wifi!ClearSlot
<1>4. /\ overtaken' \in SUBSET Ifs /\ overtaken \subseteq overtaken'
      /\ evt.pc # "idle" /\ evt.n = n /\ ~Waiting' => evt.on[2] \in overtaken'
  BY <1>3, EvtKinds DEF WifiInv, WifiTypeOK, Wifi!Overtaken
<1>5. WifiTypeOK'
  BY <1>1, <1>2, <1>3, <1>4 DEF WifiInv, WifiTypeOK
<1>6. HandlersInOrder'
  BY <1>1, <1>3 DEF WifiInv, HandlersInOrder
<1>7. \A m \in Netifs : object[m].life = "live" => object[m].attached
  BY <1>1 DEF WifiInv, ObjectsInOrder, DriversAreKnown
<1>8. ObjectsInOrder'
  <2>1. DriversAreKnown'
    BY <1>1, <1>7 DEF WifiInv, ObjectsInOrder, DriversAreKnown
  <2>2. OnePerInterface' /\ NewIsBare'
    BY <1>1, <1>3, <1>7 DEF WifiInv, ObjectsInOrder, OnePerInterface, NewIsBare
  <2> QED
    BY <2>1, <2>2 DEF ObjectsInOrder
<1>9. InSlot' /\ LastOne'
  BY <1>1, <1>2, <1>3 DEF WifiInv, InSlot, LastOne
<1>10. Serving'
  BY <1>1, <1>2, <1>3, <1>4 DEF WifiInv, WifiTypeOK, Serving
<1>11. Running' /\ Reread'
  BY <1>1, <1>2, <1>3, <1>4, EvtKinds DEF WifiInv, Running, Reread
<1> QED
  BY <1>5, <1>6, <1>8, <1>9, <1>10, <1>11 DEF WifiInv

(* A default handler is unregistered. *)
LEMMA ClearNextStep ==
  ASSUME WifiInv, Wifi!ClearNext
  PROVE  WifiInv'
<1>1. /\ UNCHANGED <<slot, rxnetif, rxcb, object, evt, overtaken>>
      /\ wifiHandlers' = wifiHandlers \ {Order[app.i]}
      /\ app.pc = "clear" /\ app \in Clearing
      /\ app.i \in 1 .. Len(Order) /\ app.n \in Netifs \cup {Wifi!None}
      /\ evt.pc = "idle" /\ evt'.pc = "idle"
  BY AppKinds, WifiIdleIs DEF Wifi!ClearNext, WifiInv, Clearing, Wifi!Ready
<1>2. wifiHandlers' \in SUBSET Wifi!All /\ \A j \in 1 .. app.i : Order[j] \notin wifiHandlers'
  BY <1>1, LenOrder DEF WifiInv, WifiTypeOK, HandlersInOrder
<1>3. Running' /\ Reread'
  BY <1>1 DEF Running, Reread
<1>4. ASSUME app.n # Wifi!None, app'.n = app.n, app'.pc \in {"clear", "unhook"}
      PROVE  ObjectsInOrder' /\ InSlot' /\ LastOne' /\ Serving'
  <2>1. /\ Waiting /\ Destroying /\ Destroying'
        /\ Waiting' \/ app'.pc = "unhook"
    BY <1>1, <1>4 DEF Waiting, Destroying
  <2>2. \A i \in Ifs : slot[i] = Wifi!None
    BY <2>1 DEF WifiInv, LastOne
  <2>3. DriversAreKnown'
    BY <1>1, <1>4 DEF WifiInv, ObjectsInOrder, DriversAreKnown
  <2>4. OnePerInterface' /\ NewIsBare'
    BY <1>1, <1>4, <2>1 DEF WifiInv, ObjectsInOrder, OnePerInterface, NewIsBare
  <2>5. InSlot' /\ LastOne'
    BY <1>1, <2>2 DEF InSlot, LastOne
  <2>6. Serving'
    BY <1>1, <1>4, <2>1 DEF WifiInv, WifiTypeOK, Serving
  <2> QED
    BY <2>3, <2>4, <2>5, <2>6 DEF ObjectsInOrder
<1>5. CASE app.i < Len(Order)
  <2>1. app' = [app EXCEPT !.i = @ + 1] /\ UNCHANGED set
    BY <1>5 DEF Wifi!ClearNext
  <2>2. app' \in Clearing /\ app'.pc = "clear" /\ app'.i = app.i + 1 /\ app'.n = app.n
    BY <1>1, <1>5, <2>1, LenOrder DEF Clearing
  <2>3. HandlersInOrder'
    BY <1>1, <1>2, <2>2, LenOrder DEF HandlersInOrder
  <2>4. WifiTypeOK'
    BY <1>1, <1>2, <2>1, <2>2 DEF WifiInv, WifiTypeOK
  <2>5. CASE app.n = Wifi!None
    <3>1. ~Destroying /\ ~Destroying'
      BY <1>1, <2>2, <2>5 DEF Destroying, Waiting
    <3> QED
      BY <1>1, <2>2, <2>3, <2>4, <3>1, TablesStay DEF WifiInv
  <2>6. CASE app.n # Wifi!None
    BY <1>3, <1>4, <2>2, <2>3, <2>4, <2>6 DEF WifiInv
  <2> QED
    BY <2>5, <2>6
<1>6. CASE ~(app.i < Len(Order))
  <2>1. set' = FALSE /\ app' = IF app.n = Wifi!None THEN Wifi!Idle ELSE [pc |-> "unhook", n |-> app.n]
    BY <1>6 DEF Wifi!ClearNext
  <2>2. wifiHandlers' = {}
    BY <1>1, <1>2, <1>6, LenOrder DEF Wifi!All
  <2>3. CASE app.n = Wifi!None
    <3>1. app'.pc = "idle" /\ app' = Wifi!Idle
      BY <2>1, <2>3, WifiIdleIs
    <3>2. HandlersInOrder'
      BY <2>1, <2>2, <3>1 DEF HandlersInOrder
    <3>3. ~Destroying /\ ~Destroying'
      BY <1>1, <2>3, <3>1 DEF Destroying, Waiting
    <3>4. ObjectsInOrder' /\ InSlot' /\ LastOne' /\ Serving' /\ Running' /\ Reread'
      BY <1>1, <3>1, <3>3, TablesStay
    <3> QED
      BY <1>1, <1>2, <2>1, <3>1, <3>2, <3>4 DEF WifiInv, WifiTypeOK
  <2>4. CASE app.n # Wifi!None
    <3>1. app' \in Ending /\ app'.pc = "unhook" /\ app'.n = app.n
      BY <1>1, <2>1, <2>4 DEF Ending
    <3>2. HandlersInOrder'
      BY <2>1, <2>2, <3>1 DEF HandlersInOrder
    <3>3. WifiTypeOK'
      BY <1>1, <1>2, <2>1, <3>1 DEF WifiInv, WifiTypeOK
    <3> QED
      BY <1>3, <1>4, <2>4, <3>1, <3>2, <3>3 DEF WifiInv
  <2> QED
    BY <2>3, <2>4
<1> QED
  BY <1>5, <1>6

(* esp_wifi_destroy_if_driver begins. *)
LEMMA UnhookStep ==
  ASSUME WifiInv, Wifi!Unhook
  PROVE  WifiInv'
<1>1. /\ UNCHANGED <<slot, wifiHandlers, set, rxnetif, rxcb, evt, overtaken>>
      /\ object' = [object EXCEPT ![app.n].io = FALSE]
      /\ app.pc = "unhook"
  BY DEF Wifi!Unhook
<1>2. /\ app' \in Ending /\ app'.pc = "rxcb" /\ app'.n = app.n /\ app.n \in Netifs
      /\ Destroying /\ Destroying' /\ ~Waiting /\ ~Waiting'
  BY AppKinds, GoesOn DEF Wifi!Unhook, WifiInv, EndPcs, Destroying, Waiting
<1>3. /\ object' \in [Netifs -> NetifObjects]
      /\ \A m \in Netifs : /\ object'[m].life = object[m].life /\ object'[m].if = object[m].if
                           /\ object'[m].driver = object[m].driver
                           /\ object'[m].attached = object[m].attached
                           /\ object'[m].io => object[m].io
      /\ ~object'[app.n].io
  BY <1>1, <1>2 DEF WifiInv, WifiTypeOK, NetifObjects
<1>4. HandlersInOrder'
  BY <1>1, <1>2 DEF WifiInv, HandlersInOrder
<1>5. ObjectsInOrder'
  BY <1>1, <1>2, <1>3 DEF WifiInv, ObjectsInOrder, DriversAreKnown, OnePerInterface, NewIsBare
<1>6. InSlot' /\ LastOne'
  BY <1>1, <1>2, <1>3 DEF WifiInv, WifiTypeOK, InSlot, LastOne
<1>7. Serving'
  BY <1>1, <1>2, <1>3 DEF WifiInv, WifiTypeOK, Serving
<1>8. Running' /\ Reread'
  BY <1>1, <1>2, <1>3, EvtKinds DEF WifiInv, Running, Reread
<1> QED
  BY <1>1, <1>2, <1>3, <1>4, <1>5, <1>6, <1>7, <1>8 DEF WifiInv, WifiTypeOK

(* The table of the interface that is destroyed no longer names it, so no  *)
(* handler that is not overtaken has it, and no callback that stays.       *)
LEMMA NobodyHolds ==
  ASSUME WifiInv, app.pc \in {"unhook", "rxcb", "freedriver", "destroy"}
  PROVE  /\ app.n \in Netifs /\ Destroying /\ ~Waiting
         /\ object[app.n].life = "live" /\ object[app.n].if \in Ifs
         /\ slot[object[app.n].if] = Wifi!None
         /\ \A i \in Ifs : slot[i] # app.n
         /\ evt.pc # "idle" /\ evt.n # Wifi!None /\ evt.on[2] \notin overtaken =>
              evt.n # app.n /\ evt.on[2] # object[app.n].if
<1>1. app.n \in Netifs /\ Destroying /\ ~Waiting
  BY AppKinds DEF WifiInv, EndPcs, Ending, Destroying, Waiting
<1>2. object[app.n].life = "live" /\ object[app.n].if \in Ifs
  BY <1>1 DEF WifiInv, ObjectsInOrder, NewIsBare, WifiTypeOK, NetifObjects
<1>3. \A i \in Ifs : slot[i] # app.n
  BY <1>1, NoObjectIsNone DEF WifiInv, InSlot
<1>4. slot[object[app.n].if] = Wifi!None
  BY <1>1, <1>2, <1>3 DEF WifiInv, WifiTypeOK, InSlot, ObjectsInOrder, OnePerInterface
<1>5. evt.pc # "idle" /\ evt.n # Wifi!None /\ evt.on[2] \notin overtaken =>
        evt.n # app.n /\ evt.on[2] # object[app.n].if
  BY <1>1, <1>3, <1>4, EvtKinds DEF WifiInv, Running
<1> QED
  BY <1>1, <1>2, <1>3, <1>4, <1>5

(* The receive callback is unregistered. *)
LEMMA UnregisterStep ==
  ASSUME WifiInv, Wifi!UnregisterRxcb
  PROVE  WifiInv'
<1>1. /\ UNCHANGED <<slot, wifiHandlers, set, rxnetif, object, evt, overtaken>>
      /\ rxcb' = rxcb \ {object[app.n].if}
      /\ app.pc = "rxcb"
  BY DEF Wifi!UnregisterRxcb
<1>2. /\ app' \in Ending /\ app'.pc = "freedriver" /\ app'.n = app.n /\ app.n \in Netifs
      /\ Destroying /\ Destroying' /\ ~Waiting /\ ~Waiting'
  BY AppKinds, GoesOn DEF Wifi!UnregisterRxcb, WifiInv, EndPcs, Destroying, Waiting
<1>3. HandlersInOrder'
  BY <1>1, <1>2 DEF WifiInv, HandlersInOrder
<1>4. ObjectsInOrder'
  BY <1>1, <1>2 DEF WifiInv, ObjectsInOrder, DriversAreKnown, OnePerInterface, NewIsBare
<1>5. InSlot' /\ LastOne'
  BY <1>1, <1>2 DEF WifiInv, InSlot, LastOne
<1>6. Serving'
  BY <1>1, <1>2 DEF WifiInv, WifiTypeOK, Serving
<1>7. Running' /\ Reread'
  BY <1>1, <1>2, EvtKinds DEF WifiInv, Running, Reread
<1> QED
  BY <1>1, <1>2, <1>3, <1>4, <1>5, <1>6, <1>7 DEF WifiInv, WifiTypeOK

(* The driver is freed. *)
LEMMA FreeDriverStep ==
  ASSUME WifiInv, Wifi!FreeDriver
  PROVE  WifiInv'
<1>1. /\ UNCHANGED <<slot, wifiHandlers, set, rxcb, evt, overtaken>>
      /\ object' = [object EXCEPT ![app.n].driver = "freed"]
      /\ rxnetif' = [rxnetif EXCEPT ![object[app.n].if] = Wifi!None]
      /\ app.pc = "freedriver"
  BY DEF Wifi!FreeDriver
<1>2. /\ app' \in Ending /\ app'.pc = "destroy" /\ app'.n = app.n /\ app.n \in Netifs
      /\ Destroying /\ Destroying' /\ ~Waiting /\ ~Waiting'
  BY AppKinds, GoesOn DEF Wifi!FreeDriver, WifiInv, EndPcs, Destroying, Waiting
<1>3. /\ object' \in [Netifs -> NetifObjects] /\ rxnetif' \in [Ifs -> Netifs \cup {Wifi!None}]
      /\ \A i \in Ifs : i # object[app.n].if => rxnetif'[i] = rxnetif[i]
  BY <1>1, <1>2 DEF WifiInv, WifiTypeOK, NetifObjects
<1>4. /\ \A m \in Netifs : /\ object'[m].life = object[m].life /\ object'[m].if = object[m].if
                           /\ object'[m].attached = object[m].attached
                           /\ object'[m].io = object[m].io
                           /\ m # app.n => object'[m].driver = object[m].driver
      /\ object'[app.n].driver = "freed"
      /\ object[app.n].life = "live" /\ ~object[app.n].io
  BY <1>1, <1>2 DEF WifiInv, WifiTypeOK, NetifObjects, ObjectsInOrder, NewIsBare
<1>5. HandlersInOrder'
  BY <1>1, <1>2 DEF WifiInv, HandlersInOrder
<1>6. ObjectsInOrder'
  <2>1. DriversAreKnown'
    BY <1>1, <1>2, <1>4 DEF WifiInv, ObjectsInOrder, DriversAreKnown
  <2>2. OnePerInterface' /\ NewIsBare'
    BY <1>1, <1>2, <1>4 DEF WifiInv, ObjectsInOrder, OnePerInterface, NewIsBare
  <2> QED
    BY <2>1, <2>2 DEF ObjectsInOrder
<1>7. InSlot' /\ LastOne'
  BY <1>1, <1>2, <1>4 DEF WifiInv, WifiTypeOK, InSlot, LastOne
<1>8. Serving'
  <2>1. \A i \in rxcb \ overtaken : slot[i] = rxnetif[i] /\ slot[i] # Wifi!None
    BY <1>1, <1>2 DEF WifiInv, Serving
  <2>2. object[app.n].if \notin rxcb \ overtaken
    BY <1>1, <2>1, NobodyHolds
  <2> QED
    BY <1>1, <1>2, <1>3, <1>4, <2>1, <2>2 DEF WifiInv, WifiTypeOK, Serving
<1>9. Running' /\ Reread'
  <2>1. /\ evt.pc # "idle" /\ evt.n # Wifi!None /\ evt.on[2] \notin overtaken =>
             evt.n # app.n /\ rxnetif'[evt.on[2]] = rxnetif[evt.on[2]]
    BY <1>1, <1>3, NobodyHolds, EvtKinds DEF WifiInv
  <2> QED
    BY <1>1, <1>2, <1>4, <2>1, EvtKinds DEF WifiInv, Running, Reread
<1> QED
  BY <1>1, <1>2, <1>3, <1>5, <1>6, <1>7, <1>8, <1>9 DEF WifiInv, WifiTypeOK

(* The interface is destroyed. *)
LEMMA DestroyStep ==
  ASSUME WifiInv, Wifi!Destroy
  PROVE  WifiInv'
<1>1. /\ UNCHANGED <<slot, wifiHandlers, set, rxnetif, rxcb, evt, overtaken>>
      /\ object' = [object EXCEPT ![app.n].life = "freed"]
      /\ app.pc = "destroy" /\ app' = Wifi!Idle /\ app'.pc = "idle"
  BY WifiIdleIs DEF Wifi!Destroy
<1>2. /\ app.n \in Netifs /\ Destroying /\ ~Waiting /\ ~Destroying' /\ ~Waiting'
      /\ \A i \in Ifs : slot[i] # app.n
      /\ evt.pc # "idle" /\ evt.n # Wifi!None /\ evt.on[2] \notin overtaken => evt.n # app.n
  BY <1>1, NobodyHolds DEF Destroying, Waiting
<1>3. object' \in [Netifs -> NetifObjects]
  BY <1>1, <1>2 DEF WifiInv, WifiTypeOK, NetifObjects
<1>4. /\ \A m \in Netifs : /\ object'[m].if = object[m].if /\ object'[m].driver = object[m].driver
                           /\ object'[m].io = object[m].io /\ object'[m].attached = object[m].attached
                           /\ m # app.n => object'[m].life = object[m].life
      /\ object'[app.n].life = "freed"
  BY <1>1, <1>2 DEF WifiInv, WifiTypeOK, NetifObjects
<1>5. HandlersInOrder'
  BY <1>1 DEF WifiInv, HandlersInOrder
<1>6. ObjectsInOrder'
  <2>1. DriversAreKnown'
    BY <1>1, <1>2, <1>4 DEF WifiInv, ObjectsInOrder, DriversAreKnown
  <2>2. OnePerInterface' /\ NewIsBare'
    BY <1>1, <1>2, <1>4 DEF WifiInv, ObjectsInOrder, OnePerInterface, NewIsBare
  <2> QED
    BY <2>1, <2>2 DEF ObjectsInOrder
<1>7. InSlot' /\ LastOne'
  BY <1>1, <1>2, <1>4 DEF WifiInv, WifiTypeOK, InSlot, LastOne
<1>8. Serving'
  <2>1. \A i \in rxcb \ overtaken : slot[i] = rxnetif[i]
    BY <1>1, <1>2 DEF WifiInv, Serving
  <2> QED
    BY <1>1, <1>2, <1>4, <2>1 DEF WifiInv, WifiTypeOK, Serving
<1>9. Running' /\ Reread'
  BY <1>1, <1>2, <1>4, EvtKinds DEF WifiInv, Running, Reread
<1> QED
  BY <1>1, <1>3, <1>5, <1>6, <1>7, <1>8, <1>9 DEF WifiInv, WifiTypeOK

(* A step of the event task leaves the application and the objects alone. *)
LEMMA OtherFactsStay ==
  ASSUME WifiInv, UNCHANGED <<slot, wifiHandlers, set, object, app, overtaken>>
  PROVE  /\ HandlersInOrder' /\ ObjectsInOrder' /\ InSlot' /\ LastOne'
         /\ UNCHANGED <<Destroying, Waiting>>
BY DEF WifiInv, HandlersInOrder, ObjectsInOrder, DriversAreKnown, OnePerInterface, NewIsBare,
     Destroying, Waiting, InSlot, LastOne

(* The event task calls a default handler. *)
LEMMA DispatchStep ==
  ASSUME WifiInv, NEW h \in Wifi!All, Wifi!Dispatch(h)
  PROVE  WifiInv'
<1>1. /\ UNCHANGED <<slot, wifiHandlers, set, rxnetif, rxcb, object, app, overtaken>>
      /\ slot[h[2]] # Wifi!None
      /\ evt.pc = "idle"
  BY WifiIdleIs DEF Wifi!Dispatch, Wifi!Ready
<1>2. h[2] \in Ifs
  <2>1. \A i \in DOMAIN Order : Order[i] \in {"start", "connected", "stop"} \X Ifs
    BY OrderAssumption
  <2> QED
    BY <2>1 DEF Wifi!All
<1>3. slot[h[2]] \in Netifs
  BY <1>1, <1>2 DEF WifiInv, WifiTypeOK
<1>4. /\ evt' \in Handling /\ evt'.pc \in {"io", "action"}
      /\ evt'.on[2] = h[2] /\ evt'.n = slot[h[2]]
      /\ evt'.early = ~object[slot[h[2]]].attached
  <2>1. evt' = [pc |-> IF h[1] = "stop" THEN "action" ELSE "io", on |-> h, n |-> slot[h[2]],
                early |-> ~object[slot[h[2]]].attached]
    BY DEF Wifi!Dispatch
  <2> QED
    BY <1>3, <2>1 DEF Handling
<1>5. HandlersInOrder' /\ ObjectsInOrder' /\ InSlot' /\ LastOne' /\ UNCHANGED <<Destroying, Waiting>>
  BY <1>1, OtherFactsStay
<1>6. Serving'
  BY <1>1, <1>5 DEF WifiInv, Serving
<1>7. Running' /\ Reread'
  <2>1. object[slot[h[2]]].life = "live" /\ object[slot[h[2]]].if = h[2]
    BY <1>1, <1>2 DEF WifiInv, InSlot
  <2>2. evt'.early \/ object[slot[h[2]]].attached
    BY <1>4
  <2>3. Running'
    BY <1>1, <1>4, <2>1, <2>2 DEF Running
  <2>4. Reread'
    BY <1>1, <1>4 DEF Reread
  <2> QED
    BY <2>3, <2>4
<1> QED
  BY <1>1, <1>4, <1>5, <1>6, <1>7 DEF WifiInv, WifiTypeOK

(* Where a handler goes on *)
LEMMA HandlerGoesOn ==
  ASSUME evt \in Handling, NEW p \in {"io", "rxnetif", "rxcb", "action"}, evt' = [evt EXCEPT !.pc = p]
  PROVE  evt' \in Handling /\ evt'.pc = p /\ evt'.n = evt.n /\ evt'.on = evt.on /\ evt'.early = evt.early
BY DEF Handling

(* A handler that acts keeps its interface, or reads the table again. *)
LEMMA HandlerActs ==
  ASSUME evt \in Handling, evt.on[2] \in Ifs, WifiTypeOK, evt' = Wifi!Acts(evt)
  PROVE  /\ evt' \in Handling /\ evt'.pc = "action" /\ evt'.on = evt.on /\ evt'.early = evt.early
         /\ evt'.n = evt.n \/ (evt.on[1] = "connected" /\ evt'.n = slot[evt.on[2]])
<1>1. slot[evt.on[2]] \in Netifs \cup {Wifi!None}
  BY DEF WifiTypeOK
<1> QED
  BY <1>1 DEF Handling, Wifi!Acts

(* A handler that acts has an interface, or the last one goes. *)
LEMMA ActsKeeps ==
  ASSUME WifiInv, evt.pc \in {"io", "rxcb"}, evt' = Wifi!Acts(evt),
         UNCHANGED <<slot, wifiHandlers, set, rxnetif, object, app, overtaken>>
  PROVE  evt' \in Handling /\ Running' /\ Reread'
<1>1. evt \in Handling /\ evt.on[2] \in Ifs /\ evt.n \in Netifs \cup {Wifi!None}
  BY EvtKinds DEF WifiInv
<1>2. /\ evt' \in Handling /\ evt'.pc = "action" /\ evt'.on = evt.on /\ evt'.early = evt.early
      /\ evt'.n = evt.n \/ (evt.on[1] = "connected" /\ evt'.n = slot[evt.on[2]])
  BY <1>1, HandlerActs DEF WifiInv
<1>3. evt.n # Wifi!None
  BY DEF WifiInv, Reread
<1>4. UNCHANGED Waiting
  BY DEF Waiting
<1>5. Running'
  BY <1>1, <1>2, <1>3, <1>4 DEF WifiInv, Running, LastOne
<1>6. Reread'
  BY <1>1, <1>2, <1>3, <1>4 DEF WifiInv, Running, Reread
<1> QED
  BY <1>2, <1>5, <1>6

(* The handler has a driver, has none, or is done. *)
LEMMA FetchStep ==
  ASSUME WifiInv, Wifi!FetchDriver \/ Wifi!FetchNoDriver \/ Wifi!Action
  PROVE  WifiInv'
<1>1. UNCHANGED <<slot, wifiHandlers, set, rxnetif, rxcb, object, app, overtaken>> /\ evt.pc # "idle"
  BY DEF Wifi!FetchDriver, Wifi!FetchNoDriver, Wifi!Action
<1>2. /\ HandlersInOrder' /\ ObjectsInOrder' /\ InSlot' /\ LastOne'
      /\ UNCHANGED <<Destroying, Waiting>>
  BY <1>1, OtherFactsStay
<1>3. Serving'
  BY <1>1, <1>2 DEF WifiInv, Serving
<1>4. evt \in Handling /\ evt.on[2] \in Ifs /\ evt.n \in Netifs \cup {Wifi!None}
  BY <1>1, EvtKinds DEF WifiInv
<1>5. evt' \in {Wifi!Idle} \cup Handling /\ Running' /\ Reread'
  <2>1. CASE evt' = Wifi!Idle
    BY <2>1, WifiIdleIs DEF Running, Reread
  <2>2. CASE evt.pc = "io" /\ evt' = Wifi!Acts(evt)
    BY <1>1, <2>2, ActsKeeps
  <2>3. CASE evt.pc = "io" /\ object[evt.n].io /\ evt' = [evt EXCEPT !.pc = "rxnetif"]
    <3>1. /\ evt' \in Handling /\ evt'.pc = "rxnetif" /\ evt'.n = evt.n /\ evt'.on = evt.on
          /\ evt'.early = evt.early
      BY <1>4, <2>3, HandlerGoesOn
    <3>2. evt.n \in Netifs
      BY <1>1, <1>4, <2>3 DEF WifiInv, Reread
    <3>3. object[evt.n].driver = "live"
      BY <2>3, <3>2 DEF WifiInv, ObjectsInOrder, DriversAreKnown
    <3> QED
      BY <1>1, <1>2, <2>3, <3>1, <3>2, <3>3 DEF WifiInv, Running, Reread
  <2> QED
    BY <2>1, <2>2, <2>3 DEF Wifi!FetchDriver, Wifi!FetchNoDriver, Wifi!Action
<1> QED
  BY <1>1, <1>2, <1>3, <1>5 DEF WifiInv, WifiTypeOK

(* esp_wifi_register_if_rxcb keeps the interface, or refuses. *)
LEMMA SetRxNetifStep ==
  ASSUME WifiInv, Wifi!SetRxNetif
  PROVE  WifiInv'
<1>1. UNCHANGED <<slot, wifiHandlers, set, rxcb, object, app, overtaken>> /\ evt.pc = "rxnetif"
  BY DEF Wifi!SetRxNetif
<1>2. /\ HandlersInOrder' /\ ObjectsInOrder' /\ InSlot' /\ LastOne'
      /\ UNCHANGED <<Destroying, Waiting>>
  BY <1>1, OtherFactsStay
<1>3. evt \in Handling /\ evt.on[2] \in Ifs /\ evt.n \in Netifs
  BY <1>1, EvtKinds DEF WifiInv, Reread
<1>4. CASE UNCHANGED rxnetif /\ evt' = Wifi!Idle
  <2>1. Serving' /\ Running' /\ Reread'
    BY <1>1, <1>2, <1>4, WifiIdleIs DEF WifiInv, Serving, Running, Reread
  <2> QED
    BY <1>1, <1>2, <1>4, <2>1 DEF WifiInv, WifiTypeOK
<1>5. CASE /\ object[evt.n].attached
           /\ rxnetif' = [rxnetif EXCEPT ![evt.on[2]] = evt.n]
           /\ evt' = [evt EXCEPT !.pc = "rxcb"]
  <2>1. /\ evt' \in Handling /\ evt'.pc = "rxcb" /\ evt'.n = evt.n /\ evt'.on = evt.on
        /\ evt'.early = evt.early
    BY <1>3, <1>5, HandlerGoesOn
  <2>2. /\ rxnetif' \in [Ifs -> Netifs \cup {Wifi!None}] /\ rxnetif'[evt.on[2]] = evt.n
        /\ \A i \in Ifs : i # evt.on[2] => rxnetif'[i] = rxnetif[i]
    BY <1>3, <1>5 DEF WifiInv, WifiTypeOK
  <2>3. evt.n # Wifi!None
    BY <1>3, NoObjectIsNone
  <2>4. Serving'
    BY <1>1, <1>2, <1>3, <1>5, <2>2, <2>3 DEF WifiInv, WifiTypeOK, Serving, Running
  <2>5. Running' /\ Reread'
    BY <1>1, <1>2, <1>3, <1>5, <2>1, <2>2, <2>3 DEF WifiInv, Running, Reread
  <2> QED
    BY <1>1, <1>2, <2>1, <2>2, <2>4, <2>5 DEF WifiInv, WifiTypeOK
<1> QED
  BY <1>4, <1>5 DEF Wifi!SetRxNetif

(* esp_wifi_register_if_rxcb registers the callback. *)
LEMMA SetRxcbStep ==
  ASSUME WifiInv, Wifi!SetRxcb
  PROVE  WifiInv'
<1>1. UNCHANGED <<slot, wifiHandlers, set, rxnetif, object, app, overtaken>> /\ evt.pc = "rxcb"
  BY DEF Wifi!SetRxcb
<1>2. /\ HandlersInOrder' /\ ObjectsInOrder' /\ InSlot' /\ LastOne'
      /\ UNCHANGED <<Destroying, Waiting>>
  BY <1>1, OtherFactsStay
<1>3. evt \in Handling /\ evt.on[2] \in Ifs /\ evt.n \in Netifs
  BY <1>1, EvtKinds DEF WifiInv, Reread
<1>4. evt.n # Wifi!None
  BY <1>3, NoObjectIsNone
<1>5. rxcb' = rxcb \/ rxcb' = rxcb \cup {evt.on[2]}
  BY DEF Wifi!SetRxcb
<1>6. Serving'
  BY <1>1, <1>2, <1>3, <1>4, <1>5 DEF WifiInv, WifiTypeOK, Serving, Running
<1>7. evt' \in {Wifi!Idle} \cup Handling /\ Running' /\ Reread'
  <2>1. CASE evt' = Wifi!Idle
    BY <2>1, WifiIdleIs DEF Running, Reread
  <2>2. CASE evt' = Wifi!Acts(evt)
    BY <1>1, <2>2, ActsKeeps
  <2> QED
    BY <2>1, <2>2 DEF Wifi!SetRxcb
<1> QED
  BY <1>1, <1>2, <1>3, <1>5, <1>6, <1>7 DEF WifiInv, WifiTypeOK

(* Every step keeps the invariant. *)
LEMMA WifiStep ==
  ASSUME WifiInv, [Wifi!Next]_(Wifi!wifiVars)
  PROVE  WifiInv'
<1>1. CASE UNCHANGED <<slot, wifiHandlers, set, rxnetif, rxcb, object, app, evt, overtaken>>
  <2>1. /\ HandlersInOrder' /\ ObjectsInOrder' /\ InSlot' /\ LastOne'
        /\ UNCHANGED <<Destroying, Waiting>>
    BY <1>1, OtherFactsStay
  <2> QED
    BY <1>1, <2>1 DEF WifiInv, WifiTypeOK, Serving, Running, Reread
<1>2. CASE (\E i \in Ifs : Wifi!RxCall(i)) \/ Wifi!RxRead \/ Wifi!RxReceive \/ UNCHANGED Wifi!wifiVars
  BY <1>1, <1>2 DEF Wifi!RxCall, Wifi!RxRead, Wifi!RxReceive, Wifi!wifiVars
<1>3. CASE Wifi!App
  BY <1>3, AttachStep, AttachDriverStep, PostAttachStep, SetSteps, RegisterStep, ClearNextStep,
     UnhookStep, UnregisterStep, FreeDriverStep, DestroyStep DEF Wifi!App
<1>4. CASE Wifi!Event
  BY <1>4, FetchStep, SetRxNetifStep, SetRxcbStep DEF Wifi!Event
<1> QED
  BY <1>2, <1>3, <1>4, CreateNetifStep, ClearSlotStep, SetSteps, DispatchStep DEF Wifi!Next

(* The tables, the objects and the tasks stay consistent. *)
THEOREM WifiInvariant == Wifi!Spec => []WifiInv
<1>1. Wifi!Init => WifiInv
  <2> SUFFICES ASSUME Wifi!Init PROVE WifiInv
    OBVIOUS
  <2>1. app.pc = "idle" /\ evt.pc = "idle" /\ ~Destroying /\ ~Waiting
    BY WifiIdleIs DEF Wifi!Init, Destroying, Waiting
  <2>2. /\ Wifi!Fresh \in NetifObjects /\ Wifi!Fresh.life = "new"
        /\ Wifi!Fresh.driver = "none" /\ Wifi!Fresh.attached = FALSE /\ Wifi!Fresh.io = FALSE
    BY OrderAssumption DEF Wifi!Fresh, NetifObjects
  <2>3. WifiTypeOK
    BY <2>2 DEF Wifi!Init, WifiTypeOK
  <2>4. HandlersInOrder
    BY <2>1 DEF Wifi!Init, HandlersInOrder
  <2>5. \A n \in Netifs : object[n] = Wifi!Fresh
    BY DEF Wifi!Init
  <2>6. ObjectsInOrder
    BY <2>1, <2>2, <2>5 DEF ObjectsInOrder, DriversAreKnown, OnePerInterface, NewIsBare
  <2>7. InSlot /\ LastOne /\ Serving /\ Running /\ Reread
    BY <2>1 DEF Wifi!Init, InSlot, LastOne, Serving, Running, Reread
  <2> QED
    BY <2>3, <2>4, <2>6, <2>7 DEF WifiInv
<1> QED
  BY <1>1, WifiStep, PTL DEF Wifi!Spec

(* A default handler that runs has a live interface and, unless it began   *)
(* while that was still being attached, a live driver; an exception is     *)
(* made for an interface that goes while others keep the handlers.         *)
THEOREM HandlersHaveInterfaces == Wifi!Spec => []HandlerHasInterface
<1>1. WifiInv => HandlerHasInterface
  <2> SUFFICES ASSUME WifiInv, evt # Wifi!Idle, evt.on[2] \notin overtaken
               PROVE  \/ /\ Wifi!Live(evt.n)
                         /\ object[evt.n].driver = "live" \/ (evt.early /\ evt.pc \in {"io", "action"})
                      \/ evt.n = Wifi!None /\ evt.pc = "action" /\ evt.on[1] = "connected" /\ app.pc = "clear"
    BY DEF HandlerHasInterface, Wifi!HandlerHasInterface
  <2>1. /\ evt.pc # "idle" /\ evt.n \in Netifs \cup {Wifi!None} /\ evt.on[2] \in Ifs /\ evt.early \in BOOLEAN
        /\ evt.pc \in {"io", "rxnetif", "rxcb", "action"}
    BY EvtKinds DEF WifiInv, Handling
  <2>2. CASE evt.n = Wifi!None
    BY <2>1, <2>2 DEF WifiInv, Reread, Waiting
  <2>3. CASE evt.n # Wifi!None
    <3>1. /\ object[evt.n].life = "live" /\ object[evt.n].if = evt.on[2]
          /\ slot[evt.on[2]] = evt.n \/ (Waiting /\ app.n = evt.n)
          /\ evt.early \/ object[evt.n].attached
          /\ evt.pc = "rxnetif" => object[evt.n].driver # "none"
          /\ evt.pc = "rxcb" => object[evt.n].attached
      BY <2>1, <2>3 DEF WifiInv, Running
    <3>2. ~(app.pc = "destroy" /\ app.n = evt.n)
      BY <2>1, <2>3, <3>1 DEF WifiInv, InSlot, Destroying, Waiting
    <3>3. /\ object[evt.n].driver \in {"none", "live"}
          /\ object[evt.n].attached => object[evt.n].driver # "none"
      BY <2>1, <2>3, <3>1, <3>2 DEF WifiInv, WifiTypeOK, NetifObjects, ObjectsInOrder, DriversAreKnown
    <3> QED
      BY <2>1, <2>3, <3>1, <3>3 DEF Wifi!Live
  <2> QED
    BY <2>2, <2>3
<1> QED
  BY <1>1, WifiInvariant, PTL

(* Between calls the flag of wifi_default.c says whether the handlers are  *)
(* registered, and the tables of wifi_default.c, wifi_netif.c and of the   *)
(* Wi-Fi driver name the same interfaces.                                  *)
THEOREM WifiTablesAgree == Wifi!Spec => []TablesAgree
<1>1. WifiInv => TablesAgree
  <2> SUFFICES ASSUME WifiInv, app = Wifi!Idle, evt = Wifi!Idle PROVE TablesAgree
    BY DEF TablesAgree, Wifi!TablesAgree, Wifi!Ready
  <2>1. app.pc = "idle" /\ ~Waiting
    BY WifiIdleIs DEF Waiting
  <2>2. wifiHandlers = IF set THEN Wifi!All ELSE {}
    BY <2>1 DEF WifiInv, HandlersInOrder
  <2>3. ASSUME NEW i \in rxcb \ overtaken
        PROVE  rxnetif[i] = slot[i] /\ Wifi!Live(slot[i]) /\ object[slot[i]].driver = "live"
    <3>1. /\ rxnetif[i] = slot[i] /\ slot[i] # Wifi!None
          /\ object[slot[i]].life = "live" /\ object[slot[i]].attached
      BY <2>1, <2>3 DEF WifiInv, Serving
    <3>2. slot[i] \in Netifs
      BY <2>3, <3>1 DEF WifiInv, WifiTypeOK
    <3> QED
      BY <2>1, <3>1, <3>2 DEF WifiInv, WifiTypeOK, NetifObjects, ObjectsInOrder, DriversAreKnown, Wifi!Live
  <2> QED
    BY <2>2, <2>3 DEF TablesAgree, Wifi!TablesAgree
<1> QED
  BY <1>1, WifiInvariant, PTL

-----------------------------------------------------------------------------
(* The SNTP service (Sntp).  The inductive invariant follows the object    *)
(* that esp_netif_sntp_deinit takes down: until the thread has run the     *)
(* stop, a callback or a renewal may hold this object and no other;        *)
(* afterwards nobody holds any.                                            *)

USE StoragesAssumption

Objects == Storages \cup {None}
AppPCs == {"idle", "init", "clear", "uncallback", "stop", "free"}
ThreadPCs == {"idle", "renew", "check", "give", "recheck", "call"}

SntpTypeOK ==
  /\ storage \in Objects
  /\ life \in [Storages -> {"new", "live", "freed"}]
  /\ sntpApp \in [pc : AppPCs, s : Objects]
  /\ waits \in [Waiters -> [pc : {"idle", "take"}, s : Objects]]
  /\ thread \in [pc : ThreadPCs, s : Objects]

(* Where an object is while it is set up and taken down. *)
AppHolds ==
  /\ storage # None => life[storage] = "live"
  /\ sntpApp.pc = "idle" => sntpApp = Idle
  /\ sntpApp.pc # "idle" => sntpApp.s # None /\ life[sntpApp.s] = "live"
  /\ sntpApp.pc \in {"init", "clear"} => storage = sntpApp.s
  /\ sntpApp.pc \in {"uncallback", "stop", "free"} => storage = None

(* What the thread and the waiting tasks hold. *)
OthersHold ==
  /\ thread.s # None => thread.s \in {storage, sntpApp.s} /\ sntpApp.pc # "free"
  /\ thread.pc = "idle" => thread = Idle
  /\ \A t \in Waiters : waits[t].s # None => waits[t].s = storage /\ sntpApp = Idle
  /\ \A t \in Waiters : waits[t].pc = "idle" => waits[t] = Idle

SInv == SntpTypeOK /\ AppHolds /\ OthersHold

(* The initial state has the invariant. *)
LEMMA InitHolds == SntpInit => SInv
BY DEF SntpInit, SInv, SntpTypeOK, AppHolds, OthersHold, Idle, Objects, AppPCs, ThreadPCs

(* Every step keeps the invariant. *)
LEMMA StepHolds == SInv /\ [SntpNext]_sntpVars => SInv'
<1> SUFFICES ASSUME SInv, [SntpNext]_sntpVars
             PROVE  SInv'
  OBVIOUS
<1> USE DEF SInv, SntpTypeOK, AppHolds, OthersHold, Idle, Objects, AppPCs, ThreadPCs
<1>1. ASSUME NEW s \in Storages, InitAlloc(s)
      PROVE  SInv'
  BY <1>1 DEF InitAlloc
<1>2. ASSUME NEW start \in BOOLEAN, ThreadInit(start)
      PROVE  SInv'
  BY <1>2 DEF ThreadInit
<1>3. CASE InitFails
  BY <1>3 DEF InitFails
<1>4. CASE Deinit
  BY <1>4 DEF Deinit
<1>5. CASE DeinitClear
  BY <1>5 DEF DeinitClear
<1>6. CASE DeinitCallback
  BY <1>6 DEF DeinitCallback
<1>7. CASE DeinitStop
  BY <1>7 DEF DeinitStop
<1>8. CASE DeinitFree
  BY <1>8 DEF DeinitFree
<1>9. ASSUME NEW t \in Waiters, SyncWait(t)
      PROVE  SInv'
  BY <1>9 DEF SyncWait
<1>10. ASSUME NEW t \in Waiters, SyncTaken(t)
       PROVE  SInv'
  BY <1>10 DEF SyncTaken
<1>11. ASSUME NEW fn \in Functions, Post(fn) \/ ThreadPosted(fn)
       PROVE  SInv'
  BY <1>11 DEF Post, ThreadPosted
<1>12. CASE RenewServers
  BY <1>12 DEF RenewServers
<1>13. CASE ThreadRenew
  BY <1>13 DEF ThreadRenew
<1>14. CASE ThreadRenewed
  BY <1>14 DEF ThreadRenewed
<1>15. CASE SyncTime
  BY <1>15 DEF SyncTime
<1>16. CASE CallbackCheck
  BY <1>16 DEF CallbackCheck
<1>17. CASE CallbackGive
  BY <1>17 DEF CallbackGive
<1>18. CASE CallbackRecheck
  BY <1>18 DEF CallbackRecheck
<1>19. CASE CallbackCall
  BY <1>19 DEF CallbackCall
<1>20. CASE UNCHANGED sntpVars
  BY <1>20 DEF sntpVars
<1> QED
  BY <1>1, <1>2, <1>3, <1>4, <1>5, <1>6, <1>7, <1>8, <1>9, <1>10, <1>11, <1>12, <1>13,
     <1>14, <1>15, <1>16, <1>17, <1>18, <1>19, <1>20 DEF SntpNext

(* Neither the time callback nor the renewal of servers nor a waiting task *)
(* uses a storage that esp_netif_sntp_deinit has freed.                    *)
THEOREM StorageIsAlive == SntpSpec => []StorageOutlivesUse
<1>1. SInv => StorageOutlivesUse
  BY DEF SInv, SntpTypeOK, AppHolds, OthersHold, StorageOutlivesUse, Idle, Objects
<1> QED
  BY <1>1, InitHolds, StepHolds, PTL DEF SntpSpec

-----------------------------------------------------------------------------
(* The composition *)

(* Every behaviour of the composition is one of each part: only the part   *)
(* that was chosen takes steps.                                            *)
LEMMA PartsAreTheirSpecs ==
  PartsSpec => SntpSpec /\ Tap!Spec /\ List!Spec /\ Default!Spec /\ Wifi!Spec
<1>1. PartsInit => SntpInit /\ Tap!Init /\ List!Init /\ Default!Init /\ Wifi!Init
  BY DEF PartsInit
<1>2. ASSUME [PartsNext]_partVars
      PROVE  /\ [SntpNext]_sntpVars /\ [Tap!Next]_(Tap!tapVars) /\ [List!Next]_(List!listVars)
             /\ [Default!Next]_(Default!defaultVars) /\ [Wifi!Next]_(Wifi!wifiVars)
  <2> USE DEF partVars, tapVars, listVars, defaultVars, wifiVars,
              Tap!tapVars, List!listVars, Default!defaultVars, Wifi!wifiVars
  <2>1. CASE SntpPart
    BY <2>1 DEF SntpPart
  <2>2. CASE TapPart
    BY <2>2 DEF TapPart
  <2>3. CASE WifiPart
    BY <2>3 DEF WifiPart
  <2>4. CASE ListPart
    BY <2>4 DEF ListPart
  <2>5. CASE DefaultPart
    BY <2>5 DEF DefaultPart
  <2>6. CASE UNCHANGED partVars
    BY <2>6
  <2> QED
    BY <1>2, <2>1, <2>2, <2>3, <2>4, <2>5, <2>6 DEF PartsNext
<1> QED
  BY <1>1, <1>2, PTL DEF PartsSpec, SntpSpec, Tap!Spec, List!Spec, Default!Spec, Wifi!Spec

(* Whichever part runs, each of them keeps its promise. *)
THEOREM SharedObjectsAreSafe ==
  PartsSpec => [](/\ StorageOutlivesUse /\ ListIsProtected /\ CallsUseTheLoop
                  /\ HandlerHasInterface /\ TablesAgree
                  /\ QueueOutlivesUse /\ CloseWakesReaders /\ SelectIsTold /\ FramesHaveOneOwner)
BY PartsAreTheirSpecs, StorageIsAlive, ListStaysProtected, DefaultLoopIsUsed,
   HandlersHaveInterfaces, WifiTablesAgree,
   QueuesOutliveUse, ClosesWakeReaders, SelectsAreTold, FramesAreOwned, PTL
=============================================================================
