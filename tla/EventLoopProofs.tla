--------------------------- MODULE EventLoopProofs ---------------------------
(***************************************************************************)
(* Proofs about EventLoop for every set of tasks, posts and handlers and   *)
(* every queue size, with and without a dedicated task.                    *)
(***************************************************************************)
EXTENDS EventLoop, SequenceTheorems, TLAPS

(* Where a thread is tells which local variables of the two functions it   *)
(* may be inside are in use, and which threads exist.                      *)
PcInv ==
  /\ \A t \in Threads :
       /\ out[t] # NoPost <=> pc[t] \in PostPCs
       /\ pc[t] \in {"locking"} \cup DispatchPCs => post[t] # NoPost
       /\ pc[t] \in {"idle", "receive", "deleted"} => post[t] = NoPost
       /\ Dispatching(t) /\ pc[t] # "dispatch" => todo[t] # <<>>
  /\ \A t \in Tasks : pc[t] # "deleted"
  /\ Dedicated => \A t \in Tasks : pc[t] \in {"idle", "sending"} /\ post[t] = NoPost
  /\ pc[LoopTask] # "idle" /\ budget[LoopTask] = "forever"
  /\ pc[LoopTask] \in PostPCs => post[LoopTask] # NoPost
  /\ ~Dedicated \/ ~alive => pc[LoopTask] = "deleted"

(* The mutex is held exactly by a dispatch or by the look at running_task  *)
(* in esp_event_post_to, and is counted twice when that look is taken from *)
(* inside a handler.                                                       *)
MutexInv ==
  /\ \A t \in Threads : Dispatching(t) \/ pc[t] = "post_check" <=> holder = t
  /\ holder = NoTask <=> depth = 0
  /\ holder # NoTask =>
       (depth = 2 <=> Dispatching(holder) /\ pc[holder] = "post_check")
  /\ \A t \in Threads : Dispatching(t) => running_task = t
  /\ HandlerPostNeverBlocks

LockInv == TypeOK /\ PcInv /\ MutexInv

-----------------------------------------------------------------------------
USE TasksAssumption, PostsAssumption, QueueAssumption, CallsAssumption

(* A dispatch is serialised by the mutex: LockInv is inductive.            *)
LEMMA LockInvInit == Init => LockInv
<1> SUFFICES ASSUME Init PROVE LockInv
  OBVIOUS
<1> USE DEF Init, PostPCs, RunPCs, DispatchPCs, Threads
<1>1. TypeOK
  <2>1. /\ queue \in Seq(Posts) /\ Len(queue) <= QueueSize
        /\ handlers \in Seq(Handlers)
        /\ todo \in [Threads -> Seq(Handlers)]
    BY EmptySeq
  <2>2. depth \in 0..2 /\ pc \in [Threads -> {"idle", "deleted"} \cup PostPCs \cup RunPCs]
    OBVIOUS
  <2> QED
    BY <2>1, <2>2 DEF TypeOK, Waits
<1>2. PcInv
  BY DEF PcInv, Dispatching
<1>3. MutexInv
  BY DEF MutexInv, Dispatching, HandlerPostNeverBlocks
<1> QED
  BY <1>1, <1>2, <1>3 DEF LockInv

(* Every step keeps it, one step of the proof per action. *)
LEMMA LockInvNext == LockInv /\ [Next]_vars => LockInv'
<1> SUFFICES ASSUME LockInv, [Next]_vars PROVE LockInv'
  OBVIOUS
<1> USE DEF LockInv, TypeOK, PcInv, MutexInv, Dispatching, Threads, Waits,
            HandlerPostNeverBlocks, PostPCs, RunPCs, DispatchPCs, Take, Give,
            CanTake, Returned, loopVars, runVars, postVars
<1>1. CASE Create
  BY <1>1 DEF Create
<1>2. ASSUME NEW t \in Tasks, Delete(t) PROVE LockInv'
  <2> USE <1>2 DEF Delete
  <2>1. holder = NoTask /\ \A u \in Tasks : ~Dispatching(u)
    OBVIOUS
  <2>2. TypeOK'
    <3>1. queue' \in Seq(Posts) /\ Len(queue') <= QueueSize /\ handlers' \in Seq(Handlers)
      BY EmptySeq
    <3>2. lost' \in SUBSET Posts /\ status' \in [Posts -> {"free", "heap", "inline"}]
      OBVIOUS
    <3> QED
      BY <3>1, <3>2
  <2>3. PcInv'
    OBVIOUS
  <2>4. MutexInv'
    BY <2>1
  <2> QED
    BY <2>2, <2>3, <2>4
<1>3. ASSUME NEW t \in Threads, NEW p \in Posts, NEW w \in TaskWaits,
             NEW s \in DataKinds, PostBegin(t, p, w, s)
      PROVE LockInv'
  BY <1>3 DEF PostBegin
<1>4. ASSUME NEW p \in Posts, IsrPost(p) PROVE LockInv'
  BY <1>4 DEF IsrPost
<1>5. ASSUME NEW t \in Tasks, NEW h \in Handlers, Register(t, h) PROVE LockInv'
  BY <1>5 DEF Register
<1>6. ASSUME NEW t \in Tasks, NEW h \in Handlers, Unregister(t, h) PROVE LockInv'
  <2> USE <1>6 DEF Unregister
  <2>1. handlers' \in Seq(Handlers)
    <3>1. handlers \in Seq(Handlers)
      OBVIOUS
    <3>2. PICK i \in DOMAIN handlers :
            handlers' = SubSeq(handlers, 1, i-1) \o SubSeq(handlers, i+1, Len(handlers))
      OBVIOUS
    <3>3. i \in 1..Len(handlers)
      BY ONLY <3>1, <3>2, LenProperties
    <3> QED
      BY ONLY <3>1, <3>2, <3>3
  <2>2. TypeOK'
    BY <2>1
  <2>3. PcInv' /\ MutexInv'
    OBVIOUS
  <2> QED
    BY <2>2, <2>3
<1>7. ASSUME NEW t \in Tasks, NEW b \in {"finite", "forever"}, RunBegin(t, b)
      PROVE LockInv'
  BY <1>7 DEF RunBegin
<1>8. ASSUME NEW t \in Threads, NEW h \in Handlers, HandlerRegisters(t, h)
      PROVE LockInv'
  <2> USE <1>8 DEF HandlerRegisters
  <2>1. /\ handlers' \in Seq(Handlers)
        /\ todo' \in [Threads -> Seq(Handlers)]
        /\ \A u \in Threads : todo[u] # <<>> => todo'[u] # <<>>
    <3>. todo[t] \in Seq(Handlers)
      OBVIOUS
    <3>1. /\ Append(todo[t], h) \in Seq(Handlers) /\ Append(todo[t], h) # <<>>
          /\ Append(handlers, h) \in Seq(Handlers)
      BY ONLY handlers \in Seq(Handlers), todo[t] \in Seq(Handlers),
              h \in Handlers, AppendProperties
    <3>2. CASE todo' = todo
      BY <3>1, <3>2
    <3>3. CASE todo' = [todo EXCEPT ![t] = Append(@, h)]
      BY <3>1, <3>3
    <3> QED
      BY <3>2, <3>3
  <2>2. PcInv'
    BY <2>1
  <2>3. MutexInv'
    OBVIOUS
  <2> QED
    BY <2>1, <2>2, <2>3
<1>9. ASSUME NEW t \in Threads, PostLock(t) PROVE LockInv'
  BY <1>9 DEF PostLock
<1>10. ASSUME NEW t \in Threads, PostCheck(t) PROVE LockInv'
  BY <1>10 DEF PostCheck
<1>11. ASSUME NEW t \in Threads, PostSend(t) PROVE LockInv'
  BY <1>11 DEF PostSend
<1>12. ASSUME NEW t \in Threads, PostTimeout(t) PROVE LockInv'
  BY <1>12 DEF PostTimeout
<1>13. ASSUME NEW t \in Threads, Receive(t) PROVE LockInv'
  BY <1>13 DEF Receive
<1>14. ASSUME NEW t \in Threads, ReceiveTimeout(t) PROVE LockInv'
  BY <1>14 DEF ReceiveTimeout
<1>15. ASSUME NEW t \in Threads, Lock(t) PROVE LockInv'
  BY <1>15 DEF Lock
<1>16. ASSUME NEW t \in Threads, Invoke(t) PROVE LockInv'
  BY <1>16 DEF Invoke
<1>17. ASSUME NEW t \in Threads, HandlerReturns(t) PROVE LockInv'
  BY <1>17 DEF HandlerReturns
<1>18. ASSUME NEW t \in Threads, Continue(t) PROVE LockInv'
  BY <1>18 DEF Continue, Finish
<1>19. ASSUME NEW t \in Threads, Expire(t) PROVE LockInv'
  <2> USE <1>19 DEF Expire, Finish
  <2>1. t \in Tasks
    OBVIOUS
  <2>2. TypeOK'
    OBVIOUS
  <2>3. PcInv'
    BY <2>1
  <2>4. MutexInv'
    BY <2>1
  <2> QED
    BY <2>2, <2>3, <2>4
<1>20. CASE UNCHANGED vars
  BY <1>20 DEF vars
<1> HIDE DEF LockInv
<1> QED
  BY <1>1, <1>2, <1>3, <1>4, <1>5, <1>6, <1>7, <1>8, <1>9, <1>10, <1>11,
     <1>12, <1>13, <1>14, <1>15, <1>16, <1>17, <1>18, <1>19, <1>20 DEF Next

(* TypeOK: every variable keeps its type; in particular the queue never    *)
(* holds more than QueueSize posts and the mutex is never taken more than  *)
(* twice, for every number of tasks, posts and handlers.                   *)
THEOREM LockInvariant == Spec => []LockInv
BY LockInvInit, LockInvNext, PTL DEF Spec

(* The variables of the loop and of its tasks keep their types. *)
THEOREM TypeCorrect == Spec => []TypeOK
BY LockInvariant, PTL DEF LockInv

(* DispatchExclusive and HandlerPostNeverBlocks: handlers run one dispatch *)
(* at a time, under the mutex, with running_task naming their thread, and  *)
(* a post from a handler to its own loop is sent without waiting.          *)
THEOREM DispatchIsExclusive == Spec => [](DispatchExclusive /\ HandlerPostNeverBlocks)
<1>1. LockInv => DispatchExclusive /\ HandlerPostNeverBlocks
  BY DEF LockInv, MutexInv, DispatchExclusive
<1> QED
  BY <1>1, LockInvariant, PTL

-----------------------------------------------------------------------------
(* The copy of the event data has one owner at a time.                     *)
LEMMA CopyOwnedInit == Init => CopyOwned
BY DEF Init, CopyOwned, NoSharedCopy, InUse

Queued(q) == \E i \in DOMAIN queue : queue[i] = q
Named(q)  == \E t \in Threads : q \in {out[t], post[t]}

(* What Append does to the queue, index by index. *)
IsAppended(p) ==
  /\ DOMAIN queue' = 1..(Len(queue) + 1)
  /\ \A i \in DOMAIN queue : queue'[i] = queue[i]
  /\ queue'[Len(queue) + 1] = p

(* xQueueSendToBack leaves what was queued in its place. *)
LEMMA AppendedQueue ==
  ASSUME NEW p \in Posts, queue \in Seq(Posts), queue' = Append(queue, p)
  PROVE  /\ IsAppended(p)
         /\ \A q : Queued(q)' <=> Queued(q) \/ q = p
<1>1. IsAppended(p)
  BY AppendProperties, LenProperties DEF IsAppended
<1>2. DOMAIN queue = 1..Len(queue) /\ Len(queue) \in Nat
  BY LenProperties
<1>3. ASSUME NEW q, Queued(q)' PROVE Queued(q) \/ q = p
  BY <1>1, <1>2, <1>3 DEF Queued, IsAppended
<1>4. ASSUME NEW q, Queued(q) PROVE Queued(q)'
  BY <1>1, <1>2, <1>4 DEF Queued, IsAppended
<1>5. Queued(p)'
  BY <1>1, <1>2 DEF Queued, IsAppended
<1> QED
  BY <1>1, <1>3, <1>4, <1>5

(* Every step keeps the ownership of the copies. *)
LEMMA CopyOwnedNext == LockInv /\ CopyOwned /\ [Next]_vars => CopyOwned'
<1> SUFFICES ASSUME LockInv, CopyOwned, [Next]_vars PROVE CopyOwned'
  OBVIOUS
<1> USE DEF CopyOwned, NoSharedCopy, InUse, loopVars, runVars, postVars
<1>0. /\ queue \in Seq(Posts) /\ DOMAIN queue = 1..Len(queue) /\ Len(queue) \in Nat
      /\ post \in [Threads -> Posts \cup {NoPost}]
      /\ out \in [Threads -> Posts \cup {NoPost}]
      /\ status \in [Posts -> {"free", "heap", "inline"}]
      /\ \A t \in Threads : out[t] # NoPost <=> pc[t] \in PostPCs
      /\ \A i \in DOMAIN queue : queue[i] \in Posts
  BY LenProperties, ElementOfSeq DEF LockInv, TypeOK, PcInv
<1>1. CASE Create
  BY <1>1 DEF Create
<1>2. ASSUME NEW t \in Tasks, Delete(t) PROVE CopyOwned'
  BY <1>0, <1>2 DEF Delete, RangeOf, Threads
<1>3. ASSUME NEW t \in Threads, NEW p \in Posts, NEW w \in TaskWaits,
             NEW s \in DataKinds, PostBegin(t, p, w, s)
      PROVE CopyOwned'
  <2> USE <1>0, <1>3 DEF PostBegin, PostPCs
  <2>1. ~InUse(p) /\ p \notin lost /\ out[t] = NoPost
    OBVIOUS
  <2>2. NoSharedCopy'
    BY <2>1
  <2>3. \A q \in Posts : InUse(q)' <=> InUse(q) \/ q = p
    BY <2>1
  <2> QED
    BY <2>1, <2>2, <2>3
<1>4. ASSUME NEW p \in Posts, IsrPost(p) PROVE CopyOwned'
  <2> USE <1>0, <1>4 DEF IsrPost
  <2>1. ~InUse(p) /\ p \notin lost
    OBVIOUS
  <2>2. IsAppended(p) /\ \A q : Queued(q)' <=> Queued(q) \/ q = p
    BY AppendedQueue
  <2>3. NoSharedCopy'
    BY <2>1, <2>2 DEF IsAppended
  <2>4. \A q \in Posts : InUse(q)' <=> InUse(q) \/ q = p
    BY <2>2 DEF Queued
  <2> QED
    BY <2>1, <2>3, <2>4
<1>5. ASSUME NEW t \in Tasks, NEW h \in Handlers, Register(t, h) \/ Unregister(t, h)
      PROVE CopyOwned'
  <2>1. UNCHANGED <<queue, out, post, status, lost>>
    BY <1>5 DEF Register, Unregister
  <2> QED
    BY <2>1
<1>6. ASSUME NEW t \in Tasks, NEW b \in {"finite", "forever"}, RunBegin(t, b)
      PROVE CopyOwned'
  BY <1>0, <1>6 DEF RunBegin
<1>7. ASSUME NEW t \in Threads, NEW h \in Handlers, HandlerRegisters(t, h)
      PROVE CopyOwned'
  BY <1>0, <1>7 DEF HandlerRegisters
<1>8. ASSUME NEW t \in Threads, PostLock(t) \/ PostCheck(t) PROVE CopyOwned'
  <2>1. UNCHANGED <<queue, out, post, status, lost>>
    BY <1>8 DEF PostLock, PostCheck
  <2> QED
    BY <2>1
<1>9. ASSUME NEW t \in Threads, PostSend(t) PROVE CopyOwned'
  <2> USE <1>0, <1>9 DEF PostSend, PostPCs
  <2>1. out[t] \in Posts /\ InUse(out[t])
    OBVIOUS
  <2>2. IsAppended(out[t]) /\ \A q : Queued(q)' <=> Queued(q) \/ q = out[t]
    BY <2>1, AppendedQueue
  <2>3. NoSharedCopy'
    BY <2>1, <2>2 DEF IsAppended
  <2>4. \A q \in Posts : InUse(q)' <=> InUse(q)
    <3>1. ASSUME NEW q \in Posts PROVE Named(q)' \/ q = out[t] <=> Named(q)
      BY <2>1, <3>1 DEF Named
    <3> QED
      BY <2>2, <3>1 DEF Queued, Named
  <2> QED
    BY <2>3, <2>4
<1>10. ASSUME NEW t \in Threads, PostTimeout(t) PROVE CopyOwned'
  <2> USE <1>0
  <2>0. /\ pc[t] \in PostPCs
        /\ status' = [status EXCEPT ![out[t]] = "free"]
        /\ out' = [out EXCEPT ![t] = NoPost]
        /\ UNCHANGED <<queue, post, lost>>
    BY <1>10 DEF PostTimeout, PostPCs
  <2>1. out[t] \in Posts /\ InUse(out[t])
    BY <2>0
  <2>2. NoSharedCopy'
    BY <2>0
  <2>3. \A q \in Posts : InUse(q)' <=> InUse(q) /\ q # out[t]
    BY <2>0, <2>1
  <2> QED
    BY <2>0, <2>1, <2>2, <2>3
<1>11. ASSUME NEW t \in Threads, Receive(t) PROVE CopyOwned'
  <2> USE <1>0, <1>11 DEF Receive
  <2>1. /\ Len(queue) >= 1 /\ post'[t] = queue[1] /\ queue[1] \in Posts
        /\ DOMAIN queue' = 1..(Len(queue) - 1)
        /\ \A i \in DOMAIN queue' : queue'[i] = queue[i+1]
    BY HeadTailProperties, EmptySeq
  <2>2. post[t] = NoPost
    BY DEF LockInv, PcInv
  <2>3. NoSharedCopy'
    BY <2>1, <2>2
  <2>4. \A q \in Posts : InUse(q)' <=> InUse(q)
    <3>1. \A i \in DOMAIN queue : i = 1 \/ (i-1 \in DOMAIN queue' /\ queue'[i-1] = queue[i])
      BY <2>1
    <3>2. ASSUME NEW q \in Posts PROVE Queued(q)' \/ q = queue[1] <=> Queued(q)
      <4>1. ASSUME Queued(q)' PROVE Queued(q)
        <5>1. PICK i \in DOMAIN queue' : queue'[i] = q
          BY <4>1 DEF Queued
        <5> QED
          BY <2>1, <5>1 DEF Queued
      <4>2. ASSUME Queued(q) PROVE Queued(q)' \/ q = queue[1]
        <5>1. PICK i \in DOMAIN queue : queue[i] = q
          BY <4>2 DEF Queued
        <5>2. i = 1 \/ (i-1 \in DOMAIN queue' /\ queue'[i-1] = q)
          BY <3>1, <5>1
        <5> QED
          BY <5>1, <5>2 DEF Queued
      <4>3. Queued(queue[1])
        BY <2>1 DEF Queued
      <4> QED
        BY <4>1, <4>2, <4>3
    <3>3. ASSUME NEW q \in Posts PROVE Named(q)' <=> Named(q) \/ q = queue[1]
      BY <2>1, <2>2, <3>3 DEF Named
    <3> QED
      BY <3>2, <3>3 DEF Queued, Named
  <2> QED
    BY <2>3, <2>4
<1>12. ASSUME NEW t \in Threads,
              ReceiveTimeout(t) \/ Lock(t) \/ Invoke(t) \/ HandlerReturns(t)
       PROVE CopyOwned'
  <2>1. UNCHANGED <<queue, out, post, status, lost>>
    BY <1>12 DEF ReceiveTimeout, Lock, Invoke, HandlerReturns
  <2> QED
    BY <2>1
<1>13. ASSUME NEW t \in Threads, Finish(t) PROVE CopyOwned'
  BY <1>0, <1>13 DEF Finish
<1>14. CASE UNCHANGED vars
  BY <1>14 DEF vars
<1> HIDE DEF CopyOwned
<1> QED
  BY <1>1, <1>2, <1>3, <1>4, <1>5, <1>6, <1>7, <1>8, <1>9, <1>10, <1>11,
     <1>12, <1>13, <1>14 DEF Next, Continue, Expire

(* CopyOwned: no copy of event data is ever freed twice, used after it was *)
(* freed, or forgotten, other than by deleting the loop between unqueueing *)
(* and dispatch.                                                           *)
THEOREM CopiesAreOwned == Spec => []CopyOwned
BY LockInvariant, CopyOwnedInit, CopyOwnedNext, PTL DEF Spec

-----------------------------------------------------------------------------
(* NoCallAfterUnregister: a dispatch only has handlers left to call that   *)
(* are still registered, because unregistering waits for the mutex.        *)
LEMMA RangeFacts ==
  ASSUME NEW S, NEW s \in Seq(S)
  PROVE  /\ RangeOf(<<>>) = {}
         /\ s # <<>> => RangeOf(Tail(s)) \subseteq RangeOf(s)
         /\ \A e \in S : RangeOf(Append(s, e)) = RangeOf(s) \cup {e}
<1>1. RangeOf(<<>>) = {}
  BY DEF RangeOf
<1>2. ASSUME s # <<>> PROVE RangeOf(Tail(s)) \subseteq RangeOf(s)
  <2>1. /\ DOMAIN Tail(s) = 1..(Len(s) - 1) /\ DOMAIN s = 1..Len(s)
        /\ Len(s) \in Nat
        /\ \A i \in 1..(Len(s) - 1) : Tail(s)[i] = s[i+1]
    BY <1>2, HeadTailProperties, LenProperties
  <2> QED
    BY <2>1 DEF RangeOf
<1>3. ASSUME NEW e \in S PROVE RangeOf(Append(s, e)) = RangeOf(s) \cup {e}
  <2>1. /\ DOMAIN Append(s, e) = 1..(Len(s) + 1) /\ DOMAIN s = 1..Len(s)
        /\ Len(s) \in Nat
        /\ \A i \in 1..Len(s) : Append(s, e)[i] = s[i]
        /\ Append(s, e)[Len(s) + 1] = e
    BY AppendProperties, LenProperties
  <2> QED
    BY <2>1 DEF RangeOf
<1> QED
  BY <1>1, <1>2, <1>3

(* A handler that esp_event_handler_unregister removed is not called       *)
(* again, for every number of tasks and handlers.                          *)
THEOREM UnregisteredIsNotCalled == Spec => []NoCallAfterUnregister
<1>1. Init => NoCallAfterUnregister
  BY DEF Init, NoCallAfterUnregister, Dispatching
<1>2. LockInv /\ LockInv' /\ NoCallAfterUnregister /\ [Next]_vars
        => NoCallAfterUnregister'
  <2> SUFFICES ASSUME LockInv, LockInv', NoCallAfterUnregister, [Next]_vars,
                      NEW t \in Threads, Dispatching(t)'
               PROVE  RangeOf(todo'[t]) \subseteq RangeOf(handlers')
    BY DEF NoCallAfterUnregister
  <2>0. /\ handlers \in Seq(Handlers)
        /\ \A u \in Threads : todo[u] \in Seq(Handlers)
        /\ Dispatching(t) => RangeOf(todo[t]) \subseteq RangeOf(handlers)
        /\ holder' = t
    BY DEF LockInv, TypeOK, MutexInv, NoCallAfterUnregister
  <2>1. CASE UNCHANGED <<handlers, todo>> /\ Dispatching(t)
    BY <2>0, <2>1
  <2>2. ASSUME NEW u \in Threads, Lock(u)
        PROVE  RangeOf(todo'[t]) \subseteq RangeOf(handlers')
    BY <2>0, <2>2 DEF Lock, Take, LockInv, TypeOK
  <2>3. ASSUME NEW u \in Threads, HandlerReturns(u)
        PROVE  RangeOf(todo'[t]) \subseteq RangeOf(handlers')
    <3>1. u = t /\ todo[t] # <<>> /\ Dispatching(t)
      BY <2>0, <2>3 DEF HandlerReturns, LockInv, TypeOK, PcInv, MutexInv,
                        Dispatching, DispatchPCs, loopVars
    <3> QED
      BY <2>0, <2>3, <3>1, RangeFacts DEF HandlerReturns, LockInv, TypeOK, loopVars
  <2>4. ASSUME NEW u \in Threads, NEW h \in Handlers, HandlerRegisters(u, h)
        PROVE  RangeOf(todo'[t]) \subseteq RangeOf(handlers')
    <3>1. u = t /\ Dispatching(t)
      BY <2>0, <2>4 DEF HandlerRegisters, LockInv, PcInv, MutexInv, Dispatching,
                        DispatchPCs
    <3>2. /\ RangeOf(handlers') = RangeOf(handlers) \cup {h}
          /\ RangeOf(Append(todo[t], h)) = RangeOf(todo[t]) \cup {h}
      BY <2>0, <2>4, RangeFacts DEF HandlerRegisters
    <3>3. todo'[t] \in {todo[t], Append(todo[t], h)}
      BY <2>4, <3>1 DEF HandlerRegisters, LockInv, TypeOK
    <3> QED
      BY <2>0, <3>1, <3>2, <3>3
  <2>5. ASSUME NEW u \in Tasks, NEW h \in Handlers,
               Register(u, h) \/ Unregister(u, h)
        PROVE  FALSE
    BY <2>0, <2>5 DEF Register, Unregister, CanTake, LockInv, PcInv,
                      MutexInv, TypeOK, Dispatching, Threads, postVars, runVars
  <2>13. ASSUME NEW u \in Tasks, Delete(u) PROVE FALSE
    BY <2>0, <2>13 DEF Delete, CanTake, LockInv, PcInv, MutexInv, TypeOK,
                       Dispatching, Threads, postVars
  <2> DEFINE Same == UNCHANGED <<handlers, todo>> /\ Dispatching(t)
  <2>6. ASSUME Create \/ UNCHANGED vars PROVE Same
    BY <2>6 DEF Create, vars, loopVars, runVars, postVars, LockInv, TypeOK,
                PcInv, Dispatching
  <2>7. ASSUME NEW u \in Threads, NEW p \in Posts, NEW w \in TaskWaits,
               NEW s \in DataKinds, PostBegin(u, p, w, s)
        PROVE  Same
    BY <2>7 DEF PostBegin, loopVars, runVars, LockInv, TypeOK, PcInv, Dispatching
  <2>8. ASSUME NEW p \in Posts, IsrPost(p) PROVE Same
    BY <2>8 DEF IsrPost, runVars, Dispatching
  <2>9. ASSUME NEW u \in Tasks, NEW b \in {"finite", "forever"}, RunBegin(u, b)
        PROVE  Same
    BY <2>9 DEF RunBegin, loopVars, LockInv, TypeOK, PcInv, Dispatching, Threads
  <2>10. ASSUME NEW u \in Threads,
                PostLock(u) \/ PostCheck(u) \/ PostSend(u) \/ PostTimeout(u)
         PROVE  Same
    <3>1. pc[u] \in PostPCs /\ UNCHANGED <<handlers, todo, post>>
          /\ \A v \in Threads \ {u} : pc'[v] = pc[v]
      BY <2>10 DEF PostLock, PostCheck, PostSend, PostTimeout, PostPCs, loopVars,
                   runVars, LockInv, TypeOK
    <3> QED
      BY <3>1 DEF Dispatching, PostPCs
  <2>11. ASSUME NEW u \in Threads, Receive(u) \/ ReceiveTimeout(u) \/ Invoke(u)
         PROVE  Same
    BY <2>11 DEF Receive, ReceiveTimeout, Invoke, loopVars, runVars, LockInv,
                 TypeOK, PcInv, Dispatching
  <2>12. ASSUME NEW u \in Threads, Continue(u) \/ Expire(u) PROVE Same
    BY <2>12 DEF Continue, Expire, Finish, LockInv, TypeOK, Dispatching
  <2> QED
    BY <2>1, <2>2, <2>3, <2>4, <2>5, <2>6, <2>7, <2>8, <2>9, <2>10, <2>11,
       <2>12, <2>13 DEF Next
<1> QED
  BY <1>1, <1>2, LockInvariant, PTL DEF Spec

-----------------------------------------------------------------------------
(* A loop with its own task implements EventService: events are dispatched *)
(* in the order in which they were accepted, one at a time, none is left   *)
(* out, and at most QueueSize + 1 of them are pending.                     *)
Current == IF Dispatching(LoopTask) THEN post[LoopTask] ELSE NoPost

(* What an event in front of a sequence of events changes *)
LEMMA ConsFacts ==
  ASSUME NEW S, NEW s \in Seq(S), NEW e \in S
  PROVE  /\ <<e>> \o s \in Seq(S)
         /\ <<e>> \o s # <<>>
         /\ Head(<<e>> \o s) = e /\ Tail(<<e>> \o s) = s
         /\ Len(<<e>> \o s) = Len(s) + 1
         /\ \A x \in S : Append(<<e>> \o s, x) = <<e>> \o Append(s, x)
         /\ \A i \in DOMAIN (<<e>> \o s) :
              (<<e>> \o s)[i] = e \/ \E j \in DOMAIN s : (<<e>> \o s)[i] = s[j]
<1> DEFINE c == <<e>> \o s
<1>1. /\ <<e>> \in Seq(S) /\ Len(<<e>>) = 1 /\ <<e>>[1] = e
  OBVIOUS
<1>2. /\ c \in Seq(S) /\ Len(c) = Len(s) + 1 /\ Len(s) \in Nat
      /\ \A i \in 1..(Len(s) + 1) : c[i] = IF i <= 1 THEN e ELSE s[i-1]
  BY <1>1, ConcatProperties, LenProperties
<1> HIDE DEF c
<1>3. c # <<>> /\ Head(c) = e
  BY <1>2, EmptySeq
<1>4. Tail(c) = s
  <2>1. /\ Tail(c) \in Seq(S) /\ Len(Tail(c)) = Len(s)
        /\ \A i \in 1..Len(s) : Tail(c)[i] = s[i]
    BY <1>2, <1>3, HeadTailProperties
  <2> QED
    BY <2>1, SeqEqual
<1>5. ASSUME NEW x \in S PROVE Append(c, x) = <<e>> \o Append(s, x)
  <2>1. /\ Append(c, x) = c \o <<x>> /\ Append(s, x) = s \o <<x>> /\ <<x>> \in Seq(S)
    BY <1>2, AppendIsConcat
  <2> QED
    BY <1>1, <2>1, ConcatAssociative DEF c
<1>6. \A i \in DOMAIN c : c[i] = e \/ \E j \in DOMAIN s : c[i] = s[j]
  BY <1>2, LenProperties
<1> QED
  BY <1>2, <1>3, <1>4, <1>5, <1>6 DEF c

(* A loop that was created is a service without events. *)
LEMMA ServiceInit == Init => Service!Init
BY DEF Init, Service!Init, Pending, Dispatching, Threads

(* Every step of a loop with its own task is one of the service or leaves  *)
(* it alone.                                                               *)
LEMMA ServiceStep ==
  ASSUME Dedicated, LockInv, CopyOwned, LockInv', [Next]_vars
  PROVE  [Service!Next]_<<Pending, Current>>
<1> DEFINE Stutter == UNCHANGED <<Pending, Current>>
<1>0. /\ queue \in Seq(Posts) /\ Len(queue) <= QueueSize
      /\ pc \in [Threads -> {"idle", "deleted"} \cup PostPCs \cup RunPCs]
      /\ post \in [Threads -> Posts \cup {NoPost}]
      /\ out \in [Threads -> Posts \cup {NoPost}]
      /\ LoopTask \in Threads /\ LoopTask \notin Tasks
      /\ \A t \in Tasks : pc[t] \in {"idle", "sending"}
      /\ pc[LoopTask] = "locking" => post[LoopTask] \in Posts
      /\ pc[LoopTask] \in {"receive", "deleted"} => post[LoopTask] = NoPost
      /\ pc[LoopTask] \in DispatchPCs => post[LoopTask] \in Posts
  <2>1. /\ queue \in Seq(Posts) /\ Len(queue) <= QueueSize
        /\ pc \in [Threads -> {"idle", "deleted"} \cup PostPCs \cup RunPCs]
        /\ post \in [Threads -> Posts \cup {NoPost}]
        /\ out \in [Threads -> Posts \cup {NoPost}]
    BY DEF LockInv, TypeOK
  <2>2. LoopTask \in Threads /\ LoopTask \notin Tasks
    BY DEF Threads
  <2>3. /\ \A t \in Tasks : pc[t] \in {"idle", "sending"}
        /\ pc[LoopTask] \in {"locking"} \cup DispatchPCs => post[LoopTask] # NoPost
        /\ pc[LoopTask] \in {"idle", "receive", "deleted"} => post[LoopTask] = NoPost
    BY <2>2 DEF LockInv, PcInv
  <2>4. post[LoopTask] \in Posts \cup {NoPost}
    BY <2>1, <2>2
  <2> QED
    BY <2>1, <2>2, <2>3, <2>4
<1>1. ASSUME NEW p \in Posts, queue' = Append(queue, p), Len(queue) < QueueSize,
             p # post[LoopTask], \A i \in DOMAIN queue : queue[i] # p,
             Current' = Current, post'[LoopTask] = post[LoopTask],
             pc'[LoopTask] = "locking" <=> pc[LoopTask] = "locking"
      PROVE  Service!Next
  <2>1. Service!Accept(p)
    <3>1. CASE pc[LoopTask] = "locking"
      <4> DEFINE e == post[LoopTask]
      <4>1. e \in Posts /\ Pending = <<e>> \o queue /\ Pending' = <<e>> \o queue'
        BY <1>0, <1>1, <3>1 DEF Pending
      <4>2. /\ Append(<<e>> \o queue, p) = <<e>> \o queue'
            /\ Len(<<e>> \o queue) = Len(queue) + 1
            /\ \A i \in DOMAIN (<<e>> \o queue) : (<<e>> \o queue)[i] # p
        <5>1. e \in Posts /\ queue \in Seq(Posts) /\ p \in Posts
          BY <1>0, <4>1
        <5>2. Append(<<e>> \o queue, p) = <<e>> \o Append(queue, p)
          BY <5>1, ConsFacts
        <5>3. Len(<<e>> \o queue) = Len(queue) + 1
          BY <5>1, ConsFacts
        <5>4. \A i \in DOMAIN (<<e>> \o queue) :
                (<<e>> \o queue)[i] = e \/ \E j \in DOMAIN queue : (<<e>> \o queue)[i] = queue[j]
          BY <5>1, ConsFacts
        <5> QED
          BY <1>1, <5>2, <5>3, <5>4
      <4>3. Current = NoPost
        BY <3>1 DEF Current, Dispatching
      <4>4. Len(queue) + 1 < QueueSize + 1
        BY <1>0, <1>1, LenProperties
      <4> QED
        BY <1>1, <4>1, <4>2, <4>3, <4>4 DEF Service!Accept, Current
    <3>2. CASE pc[LoopTask] # "locking"
      <4>1. Pending = queue /\ Pending' = queue'
        BY <1>0, <1>1, <3>2, ConcatEmptySeq DEF Pending
      <4> QED
        BY <1>0, <1>1, <3>2, <4>1 DEF Service!Accept, Current
    <3> QED
      BY <3>1, <3>2
  <2> QED
    BY <2>1 DEF Service!Next
<1>2. ASSUME NEW t \in Threads, PostSend(t) PROVE Service!Next
  <2>1. out[t] \in Posts /\ out[t] # post[LoopTask]
        /\ \A i \in DOMAIN queue : queue[i] # out[t]
    BY <1>0, <1>2 DEF PostSend, LockInv, PcInv, PostPCs, CopyOwned, NoSharedCopy
  <2> QED
    BY <1>0, <1>1, <1>2, <2>1 DEF PostSend, Returned, Current, Dispatching, runVars
<1>3. ASSUME NEW p \in Posts, IsrPost(p) PROVE Service!Next
  <2>1. p # post[LoopTask] /\ \A i \in DOMAIN queue : queue[i] # p
    BY <1>0, <1>3 DEF IsrPost, CopyOwned, InUse
  <2> QED
    BY <1>1, <1>3, <2>1 DEF IsrPost, Current, Dispatching, runVars
<1>4. ASSUME NEW t \in Threads, Receive(t) PROVE Stutter
  <2>1. t = LoopTask
    BY <1>0, <1>4 DEF Receive, Threads
  <2>2. <<Head(queue)>> \o Tail(queue) = queue
    BY <1>0, <1>4, HeadTailProperties, ConcatProperties DEF Receive
  <2>3. Pending = queue /\ Pending' = <<Head(queue)>> \o Tail(queue)
    BY <1>0, <1>4, <2>1, ConcatEmptySeq DEF Receive, Pending
  <2> QED
    BY <1>0, <1>4, <2>1, <2>2, <2>3 DEF Receive, Current, Dispatching
<1>5. ASSUME NEW t \in Threads, Lock(t) PROVE Service!Next
  <2>1. t = LoopTask
    BY <1>0, <1>5 DEF Lock, Threads
  <2>2. Service!Start
    <3> DEFINE e == post[LoopTask]
    <3>1. e \in Posts /\ Pending = <<e>> \o queue /\ Pending' = queue
      BY <1>0, <1>5, <2>1, ConcatEmptySeq DEF Lock, Pending
    <3>2. Current = NoPost /\ Current' = e
      BY <1>0, <1>5, <2>1 DEF Lock, Current, Dispatching
    <3>3. Pending # <<>> /\ Head(Pending) = e /\ Tail(Pending) = queue
      <4>1. e \in Posts /\ queue \in Seq(Posts)
        BY <1>0, <3>1
      <4>2. /\ <<e>> \o queue # <<>>
            /\ Head(<<e>> \o queue) = e /\ Tail(<<e>> \o queue) = queue
        BY <4>1, ConsFacts
      <4> QED
        BY <3>1, <4>2
    <3> QED
      BY <3>1, <3>2, <3>3 DEF Service!Start, Current
  <2> QED
    BY <2>2 DEF Service!Next
<1>6. ASSUME NEW t \in Threads, Continue(t) \/ Expire(t) PROVE Service!Next
  <2>1. t = LoopTask
    BY <1>0, <1>6 DEF Continue, Expire, Finish, Threads
  <2>2. Service!Finish
    BY <1>0, <1>6, <2>1, ConcatEmptySeq
       DEF Continue, Expire, Finish, Service!Finish, Pending, Current, Dispatching,
           DispatchPCs, LockInv, PcInv
  <2> QED
    BY <2>2 DEF Service!Next
<1>7. ASSUME NEW t \in Tasks, Delete(t) PROVE Service!Next
  <2>1. Service!Discard
    <3>1. holder # LoopTask
      BY <1>0, <1>7, TasksAssumption DEF Delete, CanTake
    <3>2. Current = NoPost /\ Current' = NoPost
      BY <1>0, <1>7, <3>1 DEF Delete, Current, Dispatching, LockInv, MutexInv
    <3>3. Pending' = <<>>
      BY <1>0, <1>7, ConcatEmptySeq, EmptySeq DEF Delete, Pending
    <3> QED
      BY <3>2, <3>3 DEF Service!Discard, Current
  <2> QED
    BY <2>1 DEF Service!Next
<1>8. ASSUME Create PROVE Stutter
  BY <1>0, <1>8, ConcatEmptySeq DEF Create, Pending, Current, Dispatching, LockInv, PcInv
<1>9. ASSUME NEW t \in Threads, NEW p \in Posts, NEW w \in TaskWaits,
             NEW s \in DataKinds, PostBegin(t, p, w, s)
      PROVE  Stutter
  BY <1>0, <1>9 DEF PostBegin, Pending, Current, Dispatching, loopVars, runVars
<1>10. ASSUME NEW t \in Threads,
              \/ PostLock(t) \/ PostCheck(t) \/ PostTimeout(t)
              \/ ReceiveTimeout(t) \/ Invoke(t) \/ HandlerReturns(t)
       PROVE  Stutter
  BY <1>0, <1>10 DEF PostLock, PostCheck, PostTimeout, ReceiveTimeout, Invoke,
                     HandlerReturns, Pending, Current, Dispatching, Returned,
                     loopVars, runVars
<1>11. ASSUME NEW t \in Threads, NEW h \in Handlers,
              HandlerRegisters(t, h) \/ (t \in Tasks /\ (Register(t, h) \/ Unregister(t, h)))
       PROVE  Stutter
  BY <1>11 DEF HandlerRegisters, Register, Unregister, Pending, Current, Dispatching, runVars
<1>12. ASSUME NEW t \in Tasks, NEW b \in {"finite", "forever"}, RunBegin(t, b)
       PROVE  FALSE
  BY <1>12 DEF RunBegin
<1>13. ASSUME UNCHANGED vars PROVE Stutter
  BY <1>13 DEF vars, Pending, Current, Dispatching, loopVars, runVars
<1> HIDE DEF Stutter
<1>14. Service!Next \/ Stutter
  BY <1>2, <1>3, <1>4, <1>5, <1>6, <1>7, <1>8, <1>9, <1>10, <1>11, <1>12, <1>13
     DEF Next, Threads
<1> QED
  BY <1>14 DEF Stutter

(* A loop with its own task implements EventService, for every number of   *)
(* tasks and posts and every length of the queue.                          *)
THEOREM LoopImplementsService ==
  ASSUME Dedicated
  PROVE  Spec => ImplementsService
<1>1. Init => Service!Init
  BY ServiceInit
<1>2. LockInv /\ CopyOwned /\ LockInv' /\ [Next]_vars => [Service!Next]_Service!vars
  BY ServiceStep DEF Service!vars, Current
<1> QED
  BY <1>1, <1>2, LockInvariant, CopiesAreOwned, PTL DEF Spec, ImplementsService, Service!Spec
=============================================================================
