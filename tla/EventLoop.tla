----------------------------- MODULE EventLoop -----------------------------
(***************************************************************************)
(* One event loop of esp_event.c as its tasks see it: the bounded queue of *)
(* posts, the recursive mutex that serialises dispatch with registration,  *)
(* running_task, and the heap copy of the event data that travels from the *)
(* poster through the queue to the dispatcher.                             *)
(*                                                                         *)
(* The registry is abstracted to the sequence of registrations that the    *)
(* posted events match, in dispatch order; HandlerRegistry has its nodes.  *)
(* Code between two accesses to shared state is one step.  A critical      *)
(* section that only touches data the mutex protects is one action enabled *)
(* when the mutex can be taken.                                            *)
(*                                                                         *)
(* An operator named Action_Word is a wrong variant of Action that Next    *)
(* does not use: the properties are validated by putting it in the place   *)
(* of Action, where one of them must fail.                                 *)
(***************************************************************************)
EXTENDS Naturals, Sequences

CONSTANTS
  Tasks,      \* application tasks that call the API
  LoopTask,   \* the task that esp_event_loop_create starts
  Dedicated,  \* whether the loop has one (event_loop_args->task_name # NULL)
  Posts,      \* identities of esp_event_post_instance_t values
  Handlers,   \* handler instances that match the events posted
  QueueSize,  \* event_loop_args->queue_size
  TaskWaits,  \* the ticks_to_wait that callers pass
  DataKinds,  \* whether their events carry data to copy
  NoTask, NoPost

ASSUME TasksAssumption ==
  /\ LoopTask \notin Tasks
  /\ NoTask \notin Tasks \cup {LoopTask}
  /\ Dedicated \in BOOLEAN
ASSUME PostsAssumption == NoPost \notin Posts
ASSUME QueueAssumption == QueueSize \in Nat \ {0}
ASSUME CallsAssumption ==
  TaskWaits \subseteq {"finite", "forever"} /\ DataKinds \subseteq {"heap", "inline"}

Threads == Tasks \cup {LoopTask}

(* A wait of 0 ticks, of a finite number of ticks, or portMAX_DELAY.  A    *)
(* finite wait may end whenever the call could not proceed, so it stands   *)
(* for every finite number, 0 included; "none" is the 0 that post_to       *)
(* itself passes to the queue.                                             *)
Waits == {"none", "finite", "forever"}

VARIABLES
  alive,         \* the loop object exists
  queue,         \* loop->queue
  holder, depth, \* loop->mutex: its owner and recursion count
  running_task,  \* loop->running_task
  handlers,      \* registrations in dispatch order
  pc,            \* where each thread is
  post,          \* the post that esp_event_loop_run unqueued
  todo,          \* handlers the current dispatch has still to leave
  budget,        \* ticks_to_run
  out,           \* the post that esp_event_post_to is sending
  asked,         \* its ticks_to_wait
  wait,          \* the wait it passes to the queue
  status,        \* what a post carries: "free" when it does not exist
  lost           \* posts unqueued but never dispatched (history)

loopVars == <<alive, queue, holder, depth, running_task, handlers>>
runVars  == <<post, todo, budget>>
postVars == <<out, asked, wait>>
vars     == <<loopVars, pc, runVars, postVars, status, lost>>

RangeOf(s) == {s[i] : i \in DOMAIN s}

DispatchPCs == {"dispatch", "handler"}
PostPCs     == {"post_lock", "post_check", "sending"}
RunPCs      == {"receive", "locking"} \cup DispatchPCs

TypeOK ==
  /\ alive \in BOOLEAN
  /\ queue \in Seq(Posts) /\ Len(queue) <= QueueSize
  /\ holder \in Threads \cup {NoTask}
  /\ depth \in 0..2
  /\ running_task \in Threads \cup {NoTask}
  /\ handlers \in Seq(Handlers)
  /\ pc \in [Threads -> {"idle", "deleted"} \cup PostPCs \cup RunPCs]
  /\ post \in [Threads -> Posts \cup {NoPost}]
  /\ todo \in [Threads -> Seq(Handlers)]
  /\ budget \in [Threads -> {"finite", "forever"}]
  /\ out \in [Threads -> Posts \cup {NoPost}]
  /\ asked \in [Threads -> Waits]
  /\ wait \in [Threads -> Waits]
  /\ status \in [Posts -> {"free", "heap", "inline"}]
  /\ lost \in SUBSET Posts

Init ==
  /\ alive = FALSE
  /\ queue = <<>>
  /\ holder = NoTask /\ depth = 0
  /\ running_task = NoTask
  /\ handlers = <<>>
  /\ pc = [t \in Threads |-> IF t = LoopTask THEN "deleted" ELSE "idle"]
  /\ post = [t \in Threads |-> NoPost]
  /\ todo = [t \in Threads |-> <<>>]
  /\ budget = [t \in Threads |-> "forever"]
  /\ out = [t \in Threads |-> NoPost]
  /\ asked = [t \in Threads |-> "forever"]
  /\ wait = [t \in Threads |-> "forever"]
  /\ status = [p \in Posts |-> "free"]
  /\ lost = {}

-----------------------------------------------------------------------------
(* The recursive mutex of FreeRTOS. *)

CanTake_NoMutex(t) == t \in Threads

CanTake(t) == holder \in {NoTask, t}

Take(t) ==
  /\ CanTake(t)
  /\ holder' = t
  /\ depth' = depth + 1

Give(t) ==
  /\ depth' = depth - 1
  /\ holder' = IF depth = 1 THEN NoTask ELSE holder

(* Handlers run inside esp_event_loop_run, so a thread that is in a call   *)
(* to esp_event_post_to returns to the handler or to its own code.         *)
Returned(t) == IF post[t] # NoPost THEN "handler" ELSE "idle"

-----------------------------------------------------------------------------
(* esp_event_loop_create: the handle is published only once the object is  *)
(* complete, and the queue is still empty when the new task first runs.    *)
Create ==
  /\ ~alive
  /\ alive' = TRUE
  /\ pc' = [pc EXCEPT ![LoopTask] = IF Dedicated THEN "receive" ELSE "deleted"]
  /\ budget' = [budget EXCEPT ![LoopTask] = "forever"]
  /\ UNCHANGED <<queue, holder, depth, running_task, handlers, post, todo,
                 postVars, status, lost>>

(* esp_event_loop_delete, by a caller that made sure no application task   *)
(* is inside a call on the loop.  The dedicated task is deleted wherever   *)
(* it is outside the mutex, be it between unqueueing a post and taking     *)
(* the mutex; the posts that are still queued are released.                *)
Delete(t) ==
  /\ alive /\ CanTake(t)
  /\ \A u \in Tasks : pc[u] = "idle"
  /\ alive' = FALSE
  /\ queue' = <<>> /\ handlers' = <<>> /\ running_task' = NoTask
  /\ pc' = [pc EXCEPT ![LoopTask] = "deleted"]
  /\ status' = [p \in Posts |-> IF p \in RangeOf(queue) THEN "free" ELSE status[p]]
  /\ lost' = lost \cup ({post[LoopTask]} \ {NoPost})
  /\ post' = [post EXCEPT ![LoopTask] = NoPost]
  /\ UNCHANGED <<holder, depth, todo, budget, postVars>>

-----------------------------------------------------------------------------
(* esp_event_post_to, called by an idle task or from inside a handler: the *)
(* event data is copied first (or there is none), then a loop without a    *)
(* task has to find out who runs it.                                       *)
PostBegin(t, p, w, s) ==
  /\ alive /\ pc[t] \in {"idle", "handler"}
  /\ status[p] = "free"
  /\ status' = [status EXCEPT ![p] = s]
  /\ out' = [out EXCEPT ![t] = p]
  /\ asked' = [asked EXCEPT ![t] = w]
  /\ wait' = [wait EXCEPT ![t] = IF Dedicated /\ t = LoopTask THEN "none" ELSE w]
  /\ pc' = [pc EXCEPT ![t] = IF Dedicated THEN "sending" ELSE "post_lock"]
  /\ UNCHANGED <<loopVars, runVars, lost>>

PostLock(t) ==
  /\ pc[t] = "post_lock"
  /\ Take(t)
  /\ pc' = [pc EXCEPT ![t] = "post_check"]
  /\ UNCHANGED <<alive, queue, running_task, handlers, runVars, postVars,
                 status, lost>>

PostCheck(t) ==
  /\ pc[t] = "post_check"
  /\ wait' = [wait EXCEPT ![t] = IF running_task = t THEN "none" ELSE asked[t]]
  /\ Give(t)
  /\ pc' = [pc EXCEPT ![t] = "sending"]
  /\ UNCHANGED <<alive, queue, running_task, handlers, runVars, out, asked,
                 status, lost>>

PostSend_ToFront(t) ==
  /\ pc[t] = "sending"
  /\ Len(queue) < QueueSize
  /\ queue' = <<out[t]>> \o queue
  /\ out' = [out EXCEPT ![t] = NoPost]
  /\ pc' = [pc EXCEPT ![t] = Returned(t)]
  /\ UNCHANGED <<alive, holder, depth, running_task, handlers, runVars, asked,
                 wait, status, lost>>

PostSend_ByPriority(t) ==
  /\ pc[t] = "sending"
  /\ t = CHOOSE u \in Threads : pc[u] = "sending"
  /\ Len(queue) < QueueSize
  /\ queue' = Append(queue, out[t])
  /\ out' = [out EXCEPT ![t] = NoPost]
  /\ pc' = [pc EXCEPT ![t] = Returned(t)]
  /\ UNCHANGED <<alive, holder, depth, running_task, handlers, runVars, asked,
                 wait, status, lost>>

PostSend(t) ==
  /\ pc[t] = "sending"
  /\ Len(queue) < QueueSize
  /\ queue' = Append(queue, out[t])
  /\ out' = [out EXCEPT ![t] = NoPost]
  /\ pc' = [pc EXCEPT ![t] = Returned(t)]
  /\ UNCHANGED <<alive, holder, depth, running_task, handlers, runVars, asked,
                 wait, status, lost>>

PostTimeout_Leaks(t) ==
  /\ \/ pc[t] = "post_lock" /\ ~CanTake(t) /\ asked[t] # "forever"
     \/ pc[t] = "sending" /\ Len(queue) = QueueSize /\ wait[t] # "forever"
  /\ out' = [out EXCEPT ![t] = NoPost]
  /\ pc' = [pc EXCEPT ![t] = Returned(t)]
  /\ UNCHANGED <<loopVars, runVars, asked, wait, status, lost>>

(* The wait for the mutex or for a slot ends: ESP_ERR_TIMEOUT, and the     *)
(* copy is freed.                                                          *)
PostTimeout(t) ==
  /\ \/ pc[t] = "post_lock" /\ ~CanTake(t) /\ asked[t] # "forever"
     \/ pc[t] = "sending" /\ Len(queue) = QueueSize /\ wait[t] # "forever"
  /\ status' = [status EXCEPT ![out[t]] = "free"]
  /\ out' = [out EXCEPT ![t] = NoPost]
  /\ pc' = [pc EXCEPT ![t] = Returned(t)]
  /\ UNCHANGED <<loopVars, runVars, asked, wait, lost>>

(* esp_event_isr_post_to: the data travels inside the post. *)
IsrPost(p) ==
  /\ alive /\ status[p] = "free"
  /\ Len(queue) < QueueSize
  /\ queue' = Append(queue, p)
  /\ status' = [status EXCEPT ![p] = "inline"]
  /\ UNCHANGED <<alive, holder, depth, running_task, handlers, pc, runVars,
                 postVars, lost>>

-----------------------------------------------------------------------------
(* esp_event_handler_register_with and ..._unregister_with from a task.    *)
Register(t, h) ==
  /\ alive /\ pc[t] = "idle" /\ CanTake(t)
  /\ h \notin RangeOf(handlers)
  /\ handlers' = Append(handlers, h)
  /\ UNCHANGED <<alive, queue, holder, depth, running_task, pc, runVars,
                 postVars, status, lost>>

Unregister(t, h) ==
  /\ alive /\ pc[t] = "idle" /\ CanTake(t)
  /\ \E i \in DOMAIN handlers :
       /\ handlers[i] = h
       /\ handlers' = SubSeq(handlers, 1, i-1) \o SubSeq(handlers, i+1, Len(handlers))
  /\ UNCHANGED <<alive, queue, holder, depth, running_task, pc, runVars,
                 postVars, status, lost>>

-----------------------------------------------------------------------------
(* esp_event_loop_run, by the dedicated task for ever or by an application *)
(* task for a time.                                                        *)
RunBegin(t, b) ==
  /\ alive /\ ~Dedicated /\ pc[t] = "idle"
  /\ pc' = [pc EXCEPT ![t] = "receive"]
  /\ budget' = [budget EXCEPT ![t] = b]
  /\ UNCHANGED <<loopVars, post, todo, postVars, status, lost>>

Receive_SkipsUnhandled(t) ==
  /\ pc[t] = "receive"
  /\ queue # <<>>
  /\ queue' = Tail(queue)
  /\ IF handlers = <<>>
     THEN /\ status' = [status EXCEPT ![Head(queue)] = "free"]
          /\ UNCHANGED <<post, pc>>
     ELSE /\ post' = [post EXCEPT ![t] = Head(queue)]
          /\ pc' = [pc EXCEPT ![t] = "locking"]
          /\ UNCHANGED status
  /\ UNCHANGED <<alive, holder, depth, running_task, handlers, todo, budget,
                 postVars, lost>>

Receive(t) ==
  /\ pc[t] = "receive"
  /\ queue # <<>>
  /\ post' = [post EXCEPT ![t] = Head(queue)]
  /\ queue' = Tail(queue)
  /\ pc' = [pc EXCEPT ![t] = "locking"]
  /\ UNCHANGED <<alive, holder, depth, running_task, handlers, todo, budget,
                 postVars, status, lost>>

ReceiveTimeout(t) ==
  /\ pc[t] = "receive"
  /\ queue = <<>> /\ budget[t] = "finite"
  /\ pc' = [pc EXCEPT ![t] = "idle"]
  /\ UNCHANGED <<loopVars, runVars, postVars, status, lost>>

Lock(t) ==
  /\ pc[t] = "locking"
  /\ Take(t)
  /\ running_task' = t
  /\ todo' = [todo EXCEPT ![t] = handlers]
  /\ pc' = [pc EXCEPT ![t] = "dispatch"]
  /\ UNCHANGED <<alive, queue, handlers, post, budget, postVars, status, lost>>

Invoke(t) ==
  /\ pc[t] = "dispatch" /\ todo[t] # <<>>
  /\ pc' = [pc EXCEPT ![t] = "handler"]
  /\ UNCHANGED <<loopVars, runVars, postVars, status, lost>>

HandlerReturns(t) ==
  /\ pc[t] = "handler"
  /\ todo' = [todo EXCEPT ![t] = Tail(@)]
  /\ pc' = [pc EXCEPT ![t] = "dispatch"]
  /\ UNCHANGED <<loopVars, post, budget, postVars, status, lost>>

(* A handler registers another one: the mutex is recursive.  Whether this  *)
(* dispatch still reaches the new registration depends on the list it is   *)
(* appended to.                                                            *)
HandlerRegisters(t, h) ==
  /\ pc[t] = "handler"
  /\ h \notin RangeOf(handlers)
  /\ handlers' = Append(handlers, h)
  /\ todo' \in {todo, [todo EXCEPT ![t] = Append(@, h)]}
  /\ UNCHANGED <<alive, queue, holder, depth, running_task, pc, post, budget,
                 postVars, status, lost>>

Finish(t) ==
  /\ pc[t] = "dispatch" /\ todo[t] = <<>>
  /\ status' = [status EXCEPT ![post[t]] = "free"]
  /\ post' = [post EXCEPT ![t] = NoPost]
  /\ Give(t)
  /\ UNCHANGED <<alive, queue, handlers, todo, budget, postVars, lost>>

Continue(t) ==
  /\ Finish(t)
  /\ running_task' = NoTask
  /\ pc' = [pc EXCEPT ![t] = "receive"]

(* The ticks to run have expired: the loop is left from inside the while,  *)
(* past the assignment that clears running_task.                           *)
Expire(t) ==
  /\ Finish(t) /\ budget[t] = "finite"
  /\ running_task' = running_task
  /\ pc' = [pc EXCEPT ![t] = "idle"]

-----------------------------------------------------------------------------
Next ==
  \/ Create
  \/ \E t \in Tasks : Delete(t)
  \/ \E t \in Threads, p \in Posts, w \in TaskWaits, s \in DataKinds : PostBegin(t, p, w, s)
  \/ \E p \in Posts : IsrPost(p)
  \/ \E t \in Tasks, h \in Handlers : Register(t, h) \/ Unregister(t, h)
  \/ \E t \in Tasks, b \in {"finite", "forever"} : RunBegin(t, b)
  \/ \E t \in Threads, h \in Handlers : HandlerRegisters(t, h)
  \/ \E t \in Threads :
       \/ PostLock(t) \/ PostCheck(t) \/ PostSend(t) \/ PostTimeout(t)
       \/ Receive(t) \/ ReceiveTimeout(t) \/ Lock(t)
       \/ Invoke(t) \/ HandlerReturns(t) \/ Continue(t) \/ Expire(t)

Spec == Init /\ [][Next]_vars

(* What the scheduler and the handlers owe a loop with its own task: that  *)
(* task runs when it is ready; a handler returns, however often it posts;  *)
(* its posts do not wait and so return too; a waiter for a queue slot is   *)
(* served, since FreeRTOS wakes waiters of equal priority in the order     *)
(* they came.                                                              *)
LoopTaskStep ==
  \/ Receive(LoopTask) \/ Lock(LoopTask)
  \/ Invoke(LoopTask) \/ Continue(LoopTask)

Fairness ==
  /\ WF_vars(LoopTaskStep)
  /\ SF_vars(HandlerReturns(LoopTask))
  /\ WF_vars(PostSend(LoopTask) \/ PostTimeout(LoopTask))
  /\ \A t \in Tasks : SF_vars(PostSend(t))

FairSpec == Spec /\ Fairness

-----------------------------------------------------------------------------
(* Properties *)

Dispatching(t) == post[t] # NoPost /\ pc[t] # "locking"

(* The copy of the event data has one owner at a time, from the allocation *)
(* in esp_event_post_to to its release after dispatch, on timeout or on    *)
(* deletion of the loop: nobody frees it twice, reads it after it was      *)
(* freed, or forgets it.                                                   *)
NoSharedCopy ==
  /\ \A i, j \in DOMAIN queue : queue[i] = queue[j] => i = j
  /\ \A t, u \in Threads : out[t] = out[u] /\ out[t] # NoPost => t = u
  /\ \A t, u \in Threads : post[t] = post[u] /\ post[t] # NoPost => t = u
  /\ \A t, u \in Threads : out[t] = post[u] => out[t] = NoPost
  /\ \A t \in Threads, i \in DOMAIN queue : queue[i] \notin {out[t], post[t]}

InUse(p) ==
  \/ \E i \in DOMAIN queue : queue[i] = p
  \/ \E t \in Threads : p \in {out[t], post[t]}

CopyOwned ==
  /\ NoSharedCopy
  /\ \A p \in Posts : InUse(p) => p \notin lost
  /\ \A p \in Posts : status[p] # "free" <=> InUse(p) \/ p \in lost

(* Handlers run one dispatch at a time, under the mutex, and whoever looks *)
(* at running_task under the mutex sees the task that dispatches.          *)
DispatchExclusive ==
  \A t \in Threads : Dispatching(t) => holder = t /\ running_task = t

(* A handler that posts to its own loop never waits for the loop to make   *)
(* room: it is the loop.                                                   *)
HandlerPostNeverBlocks ==
  \A t \in Threads : Dispatching(t) /\ pc[t] = "sending" => wait[t] = "none"

(* Once a task has unregistered a handler, no dispatch calls it any more,  *)
(* not even one that began before.                                         *)
NoCallAfterUnregister ==
  \A t \in Threads : Dispatching(t) => RangeOf(todo[t]) \subseteq RangeOf(handlers)

(* esp_event.h:97, "Once an event has been unqueued, however, it is        *)
(* guaranteed to be dispatched."                                           *)
UnqueuedIsDispatched == lost = {}

(* An accepted event is dispatched unless its loop is deleted.             *)
AcceptedIsDispatched ==
  \A p \in Posts :
    (\E i \in DOMAIN queue : queue[i] = p)
      ~> (~alive \/ \E t \in Threads : post[t] = p /\ Dispatching(t))

(* A task that waits for ever for room in the queue gets it.               *)
BlockedPosterIsServed ==
  \A t \in Tasks : pc[t] = "sending" ~> pc[t] # "sending"

(* A loop with its own task implements the abstract service: the post that *)
(* has been unqueued and waits for the mutex is the first one pending.     *)
Pending ==
  (IF pc[LoopTask] = "locking" THEN <<post[LoopTask]>> ELSE <<>>) \o queue

Service == INSTANCE EventService WITH
  Capacity <- QueueSize + 1,
  pending <- Pending,
  current <- IF Dispatching(LoopTask) THEN post[LoopTask] ELSE NoPost

ImplementsService == Service!Spec
=============================================================================
