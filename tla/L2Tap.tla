-------------------------------- MODULE L2Tap --------------------------------
(***************************************************************************)
(* The L2 TAP device of esp_netif (esp_vfs_l2tap.c): file descriptors that *)
(* receive the Ethernet frames of one type.  The task that receives frames *)
(* calls esp_vfs_l2tap_eth_filter, other tasks open, configure, read,      *)
(* select and close; a close is finished by a task of idle priority, which *)
(* runs only while no other task is ready.                                 *)
(***************************************************************************)
EXTENDS Integers, Sequences, FiniteSets

CONSTANTS
  Fds,                \* 0 .. L2TAP_MAX_FDS - 1
  Tapers,             \* tasks that use the device
  Drivers,            \* l2tap_iodriver_handle
  EthTypes,           \* types of frames and filters, among them 0, the filter of open
  MaxLlc,             \* ETH_IEEE802_3_MAX_LEN
  Frames,             \* receive buffers of the drivers
  RX_QUEUE_MAX_SIZE,
  Calls,              \* what each task calls
  NoDriver

VARIABLES
  socks,      \* s_l2tap_sockets
  taps,       \* where each task is: a call and its descriptor
  cleaner,    \* l2tap_clean_task of each descriptor
  rx,         \* the call of esp_vfs_l2tap_eth_filter; early: it found the socket being opened
  allocated,  \* frames that are not freed
  shared      \* a second socket took a frame (history)

tapVars == <<socks, taps, cleaner, rx, allocated, shared>>

Mark == [buff |-> "NULL", len |-> 0]
IdleTap == [pc |-> "idle", fd |-> 0, orig |-> {}, ready |-> {}]
IdleRx == [pc |-> "idle", fd |-> 0, frame |-> "NULL", type |-> 0, driver |-> NoDriver,
           size |-> 0, early |-> FALSE]

Init ==
  /\ socks = [f \in Fds |-> [state |-> "ready", driver |-> NoDriver, filter |-> 0,
                             nonblock |-> FALSE, alive |-> FALSE, queue |-> <<>>]]
  /\ taps = [t \in Tapers |-> IdleTap]
  /\ cleaner = [f \in Fds |-> "none"]
  /\ rx = IdleRx
  /\ allocated = {} /\ shared = FALSE

(* Two filters that let the same frames pass. *)
Overlap(a, b) == a = b \/ (a <= MaxLlc /\ b <= MaxLlc)
Accepts(s, driver, type) == s.driver = driver /\ Overlap(s.filter, type)

(* push_rx_queue: a full queue refuses the entry. *)
Full(f) == Len(socks[f].queue) >= RX_QUEUE_MAX_SIZE
Pushed(s, entry) ==
  IF Len(s.queue) < RX_QUEUE_MAX_SIZE THEN [s EXCEPT !.queue = Append(@, entry)] ELSE s

At(t, pc, f) == taps[t].pc = pc /\ taps[t].fd = f
Goes(t, pc, f) == taps' = [taps EXCEPT ![t].pc = pc, ![t].fd = f]
Return(t) == taps' = [taps EXCEPT ![t] = IdleTap]

(* A task that is in a call and not blocked in a queue, semaphore or select. *)
Ready(t) ==
  CASE taps[t].pc = "idle" -> FALSE
    [] taps[t].pc = "receiving" -> socks[taps[t].fd].nonblock \/ socks[taps[t].fd].queue # <<>>
    [] taps[t].pc = "waiting" -> cleaner[taps[t].fd] = "given"
    [] taps[t].pc = "select" -> taps[t].ready # {}
    [] taps[t].pc \in {"opening", "setting", "remark", "closing"} -> TRUE
IdlePriority == rx.pc = "idle" /\ \A t \in Tapers : ~Ready(t)

(* Calls and frames are followed up to the first frame that a second       *)
(* socket took: its buffer may then be freed twice, and an open socket     *)
(* reads the entry of length 0.                                            *)
May(t, call) == call \in Calls[t] /\ taps[t].pc = "idle" /\ ~shared

-----------------------------------------------------------------------------
(* l2tap_open: the state is taken first, then the queue is made and the    *)
(* configuration reset.                                                    *)
OpenTake(t, f) ==
  /\ May(t, "open") /\ socks[f].state = "ready"
  /\ \A g \in Fds : socks[g].state = "ready" => f <= g
  /\ socks' = [socks EXCEPT ![f].state = "opened"]
  /\ Goes(t, "opening", f)
  /\ UNCHANGED <<cleaner, rx, allocated, shared>>

OpenQueue(t, f) ==
  /\ At(t, "opening", f)
  /\ \/ /\ socks' = [socks EXCEPT ![f].alive = TRUE, ![f].queue = <<>>]
        /\ Goes(t, "setting", f)
     \/ /\ socks' = [socks EXCEPT ![f].state = "ready"]
        /\ Return(t)
  /\ UNCHANGED <<cleaner, rx, allocated, shared>>

OpenSet(t, f, nonblock) ==
  /\ At(t, "setting", f)
  /\ socks' = [socks EXCEPT ![f].filter = 0, ![f].driver = NoDriver, ![f].nonblock = nonblock]
  /\ Return(t)
  /\ UNCHANGED <<cleaner, rx, allocated, shared>>

(* A descriptor that an application holds: open has returned. *)
Opening(f) == \E t \in Tapers : At(t, "opening", f) \/ At(t, "setting", f)
Held(f) == socks[f].state = "opened" /\ ~Opening(f)

(* l2tap_ioctl, L2TAP_S_RCV_FILTER: equal filters of an interface are      *)
(* refused, overlapping ones are not.                                      *)
SetFilter(t, f, type) ==
  /\ May(t, "ioctl") /\ Held(f)
  /\ socks[f].driver # NoDriver
  /\ ~\E g \in Fds : /\ socks[g].state = "opened"
                     /\ socks[g].driver = socks[f].driver /\ socks[g].filter = type
  /\ socks' = [socks EXCEPT ![f].filter = type]
  /\ UNCHANGED <<taps, cleaner, rx, allocated, shared>>

(* L2TAP_S_INTF_DEVICE and L2TAP_S_DEVICE_DRV_HNDL *)
SetDriver(t, f, d) ==
  /\ May(t, "ioctl") /\ Held(f)
  /\ socks' = [socks EXCEPT ![f].driver = d]
  /\ UNCHANGED <<taps, cleaner, rx, allocated, shared>>

Fcntl(t, f) ==
  /\ May(t, "fcntl") /\ Held(f)
  /\ socks' = [socks EXCEPT ![f].nonblock = ~@]
  /\ UNCHANGED <<taps, cleaner, rx, allocated, shared>>

(* l2tap_read and pop_rx_queue *)
Read(t, f) ==
  /\ May(t, "read") /\ Held(f)
  /\ Goes(t, "receiving", f)
  /\ UNCHANGED <<socks, cleaner, rx, allocated, shared>>

Receive(t, f) ==
  /\ At(t, "receiving", f) /\ socks[f].queue # <<>>
  /\ LET entry == Head(socks[f].queue) IN
     /\ socks' = [socks EXCEPT ![f].queue = Tail(@)]
     /\ IF entry.len = 0
        THEN Goes(t, "remark", f) /\ UNCHANGED allocated
        ELSE Return(t) /\ allocated' = allocated \ {entry.buff}
  /\ UNCHANGED <<cleaner, rx, shared>>

ReceiveNothing(t, f) ==
  /\ At(t, "receiving", f) /\ socks[f].queue = <<>> /\ socks[f].nonblock
  /\ Return(t)
  /\ UNCHANGED <<socks, cleaner, rx, allocated, shared>>

Remark_Drops(t, f) ==
  /\ At(t, "remark", f)
  /\ Return(t)
  /\ UNCHANGED <<socks, cleaner, rx, allocated, shared>>

(* Whoever takes the mark puts it back, for the next reader and the cleaner. *)
Remark(t, f) ==
  /\ At(t, "remark", f)
  /\ socks' = [socks EXCEPT ![f] = Pushed(@, Mark)]
  /\ Return(t)
  /\ UNCHANGED <<cleaner, rx, allocated, shared>>

(* l2tap_close; one task closes a descriptor. *)
Close(t, f) ==
  /\ May(t, "close") /\ Held(f)
  /\ socks' = [socks EXCEPT ![f].state = "closing"]
  /\ Goes(t, "closing", f)
  /\ UNCHANGED <<cleaner, rx, allocated, shared>>

CloseTask(t, f) ==
  /\ At(t, "closing", f)
  /\ \/ /\ cleaner' = [cleaner EXCEPT ![f] = "mark"]
        /\ Goes(t, "waiting", f)
     \/ Return(t) /\ UNCHANGED cleaner    \* no semaphore or no task: stays closing
  /\ UNCHANGED <<socks, rx, allocated, shared>>

CloseDone(t, f) ==
  /\ At(t, "waiting", f) /\ cleaner[f] = "given"
  /\ cleaner' = [cleaner EXCEPT ![f] = "none"]
  /\ socks' = [socks EXCEPT ![f].state = "ready"]
  /\ Return(t)
  /\ UNCHANGED <<rx, allocated, shared>>

-----------------------------------------------------------------------------
(* l2tap_clean_task *)
CleanMark(f) ==
  /\ cleaner[f] = "mark"
  /\ socks' = [socks EXCEPT ![f] = Pushed(@, Mark)]
  /\ cleaner' = [cleaner EXCEPT ![f] = "pop"]
  /\ UNCHANGED <<taps, rx, allocated, shared>>

(* pop_rx_queue(socket, NULL, 0): the mark is put back, a frame is freed. *)
CleanPop(f) ==
  /\ cleaner[f] = "pop"
  /\ IF socks[f].queue = <<>>
     THEN socks[f].nonblock /\ UNCHANGED <<socks, allocated>>
     ELSE LET entry == Head(socks[f].queue)
              popped == [socks[f] EXCEPT !.queue = Tail(@)] IN
          IF entry.len = 0
          THEN socks' = [socks EXCEPT ![f] = Pushed(popped, Mark)] /\ UNCHANGED allocated
          ELSE socks' = [socks EXCEPT ![f] = popped] /\ allocated' = allocated \ {entry.buff}
  /\ cleaner' = [cleaner EXCEPT ![f] = "flush"]
  /\ UNCHANGED <<taps, rx, shared>>

CleanFlush_Frames(f) ==
  /\ cleaner[f] = "flush"
  /\ socks' = [socks EXCEPT ![f].queue = <<>>, ![f].alive = FALSE]
  /\ cleaner' = [cleaner EXCEPT ![f] = "given"]
  /\ UNCHANGED <<taps, rx, allocated, shared>>

(* flush_rx_queue, delete_rx_queue and the semaphore *)
CleanFlush(f) ==
  /\ cleaner[f] = "flush"
  /\ allocated' = allocated \ {e.buff : e \in {x \in {socks[f].queue[i] : i \in DOMAIN socks[f].queue} : x.len > 0}}
  /\ socks' = [socks EXCEPT ![f].queue = <<>>, ![f].alive = FALSE]
  /\ cleaner' = [cleaner EXCEPT ![f] = "given"]
  /\ UNCHANGED <<taps, rx, shared>>

Clean_AnyPriority(f) == CleanMark(f) \/ CleanPop(f) \/ CleanFlush(f)

Clean(f) == IdlePriority /\ (CleanMark(f) \/ CleanPop(f) \/ CleanFlush(f))

-----------------------------------------------------------------------------
(* esp_vfs_l2tap_eth_filter, called for each frame that a driver received. *)
Arrive(frame, type, d) ==
  /\ rx.pc = "idle" /\ frame \notin allocated /\ ~shared
  /\ allocated' = allocated \cup {frame}
  /\ rx' = [pc |-> "state", fd |-> 0, frame |-> frame, type |-> type, driver |-> d,
            size |-> 1, early |-> FALSE]
  /\ UNCHANGED <<socks, taps, cleaner, shared>>

(* The next descriptor; a frame that no socket took goes to the IP stack,  *)
(* which frees it.                                                         *)
NextFd(r) ==
  IF r.fd + 1 \in Fds
  THEN rx' = [r EXCEPT !.pc = "state", !.fd = @ + 1, !.early = FALSE] /\ UNCHANGED allocated
  ELSE rx' = IdleRx /\ allocated' = IF r.size > 0 THEN allocated \ {r.frame} ELSE allocated

FilterState ==
  /\ rx.pc = "state"
  /\ IF socks[rx.fd].state = "opened"
     THEN rx' = [rx EXCEPT !.pc = "match", !.early = Opening(rx.fd)] /\ UNCHANGED allocated
     ELSE NextFd(rx)
  /\ UNCHANGED <<socks, taps, cleaner, shared>>

FilterMatch ==
  /\ rx.pc = "match"
  /\ IF Accepts(socks[rx.fd], rx.driver, rx.type)
     THEN rx' = [rx EXCEPT !.pc = "push"] /\ UNCHANGED allocated
     ELSE NextFd(rx)
  /\ UNCHANGED <<socks, taps, cleaner, shared>>

(* A frame that does not fit is freed.  xQueueSend asserts that there is a *)
(* queue: the receiver that came too early goes no further.                *)
FilterPush ==
  /\ rx.pc = "push" /\ socks[rx.fd].alive
  /\ socks' = [socks EXCEPT ![rx.fd] = Pushed(@, [buff |-> rx.frame, len |-> rx.size])]
  /\ allocated' = IF Full(rx.fd) THEN allocated \ {rx.frame} ELSE allocated
  /\ rx' = [rx EXCEPT !.pc = "notify"]
  /\ shared' = (shared \/ rx.size = 0)
  /\ UNCHANGED <<taps, cleaner>>

(* l2tap_select_notify, then the frame counts as taken. *)
FilterNotify ==
  /\ rx.pc = "notify"
  /\ taps' = [t \in Tapers |-> IF taps[t].pc = "select" /\ rx.fd \in taps[t].orig
                               THEN [taps[t] EXCEPT !.ready = @ \cup {rx.fd}] ELSE taps[t]]
  /\ NextFd([rx EXCEPT !.size = 0])
  /\ UNCHANGED <<socks, cleaner, shared>>

-----------------------------------------------------------------------------
StartSelect_Waits(t, fds) ==
  /\ May(t, "select") /\ \A f \in fds : Held(f)
  /\ taps' = [taps EXCEPT ![t] = [pc |-> "select", fd |-> 0, orig |-> fds, ready |-> {}]]
  /\ UNCHANGED <<socks, cleaner, rx, allocated, shared>>

(* l2tap_start_select: what is buffered already is signalled at once. *)
StartSelect(t, fds) ==
  /\ May(t, "select") /\ \A f \in fds : Held(f)
  /\ taps' = [taps EXCEPT ![t] = [pc |-> "select", fd |-> 0, orig |-> fds,
                                  ready |-> {f \in fds : socks[f].queue # <<>>}]]
  /\ UNCHANGED <<socks, cleaner, rx, allocated, shared>>

(* l2tap_end_select, when a descriptor is ready or the time is over *)
EndSelect(t) ==
  /\ taps[t].pc = "select"
  /\ Return(t)
  /\ UNCHANGED <<socks, cleaner, rx, allocated, shared>>

-----------------------------------------------------------------------------
Call(t, f) ==
  \/ OpenTake(t, f) \/ Read(t, f) \/ Close(t, f) \/ Fcntl(t, f)
  \/ \E type \in EthTypes : SetFilter(t, f, type)
  \/ \E d \in Drivers : SetDriver(t, f, d)
  \/ StartSelect(t, {f})

(* A task goes on with the call it is in. *)
Proceed(t, f) ==
  \/ OpenQueue(t, f) \/ \E nb \in BOOLEAN : OpenSet(t, f, nb)
  \/ Receive(t, f) \/ ReceiveNothing(t, f) \/ Remark(t, f)
  \/ CloseTask(t, f) \/ CloseDone(t, f)

Filter == FilterState \/ FilterMatch \/ FilterPush \/ FilterNotify

Next ==
  \/ \E t \in Tapers, f \in Fds : Call(t, f) \/ Proceed(t, f)
  \/ \E b \in Frames, type \in EthTypes, d \in Drivers : Arrive(b, type, d)
  \/ \E t \in Tapers : EndSelect(t)
  \/ \E f \in Fds : Clean(f)
  \/ Filter

Spec == Init /\ [][Next]_tapVars

-----------------------------------------------------------------------------
(* Properties *)

(* Who is about to use a queue: the receiver, a reader, the cleaner. *)
Uses(f) ==
  \/ rx.pc = "push" /\ rx.fd = f
  \/ \E t \in Tapers : At(t, "receiving", f) \/ At(t, "remark", f)
  \/ cleaner[f] \in {"mark", "pop", "flush"}

(* Nobody is about to use a queue that close has deleted, whatever was     *)
(* going on when it was called.  The receiver may find no queue only when  *)
(* it came between the two halves of open, which shows the socket before   *)
(* its queue exists and the old driver before it is reset.                 *)
QueueOutlivesUse ==
  \A f \in Fds : Uses(f) => socks[f].alive \/ (rx.early /\ rx.fd = f)

(* Holders of a frame: queues, and the receiver until a socket took it. *)
Queued(b) == {p \in Fds \X (1 .. RX_QUEUE_MAX_SIZE) :
               p[2] <= Len(socks[p[1]].queue) /\ socks[p[1]].queue[p[2]].buff = b}
Received(b) == rx.frame = b /\ rx.size > 0 /\ rx.pc \in {"state", "match", "push"}

(* As long as no frame was taken by a second socket, every allocated frame *)
(* has one holder and every freed one none: delivery, tail drop, the       *)
(* cleaner and the flush of a close neither leak a frame nor free it       *)
(* twice; and the entry of length 0 is in the queue of a closing socket    *)
(* only, so that a read of an open one fails for no other reason.          *)
FramesHaveOneOwner ==
  ~shared =>
    /\ \A b \in Frames :
         Cardinality(Queued(b)) + (IF Received(b) THEN 1 ELSE 0) =
           IF b \in allocated THEN 1 ELSE 0
    /\ \A f \in Fds : \A i \in DOMAIN socks[f].queue :
         socks[f].queue[i] = Mark => socks[f].state = "closing"

(* A select that waits for a descriptor is told of a frame in its queue,   *)
(* whether it came before, during or after the start of the select.        *)
SelectIsTold ==
  \A t \in Tapers : \A f \in taps[t].orig :
    /\ socks[f].state = "opened" /\ ~(rx.pc = "notify" /\ rx.fd = f)
    /\ \E i \in DOMAIN socks[f].queue : socks[f].queue[i].len > 0
    => f \in taps[t].ready

(* While a close is being finished, readers that are blocked in the        *)
(* descriptor find something in its queue, and so does the cleaner, which  *)
(* waits for an entry itself: or one of them is about to put the mark      *)
(* back.  Nobody sleeps for ever in a descriptor that is being closed.     *)
CloseWakesReaders ==
  \A f \in Fds :
    /\ cleaner[f] \in {"pop", "flush"} /\ socks[f].queue = <<>>
    /\ ~\E t \in Tapers : At(t, "remark", f)
    => /\ ~\E t \in Tapers : At(t, "receiving", f)
       /\ cleaner[f] = "pop" => socks[f].nonblock
=============================================================================
