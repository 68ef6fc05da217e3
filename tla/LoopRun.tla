------------------------------ MODULE LoopRun ------------------------------
(***************************************************************************)
(* How long esp_event_loop_run(loop, ticks_to_run) runs when ticks_to_run  *)
(* is not portMAX_DELAY.  Times are ticks since the call began; events     *)
(* arrive at any of them.  A dispatch includes the wait for the mutex and  *)
(* the handlers of the event.                                              *)
(***************************************************************************)
EXTENDS Integers

CONSTANTS
  TicksToRun,   \* ticks_to_run
  MaxDispatch,  \* ticks that one dispatch takes at most
  Wrap          \* TickType_t counts modulo Wrap

ASSUME TicksAssumption ==
  /\ TicksToRun \in Nat /\ MaxDispatch \in Nat /\ Wrap \in Nat
  /\ TicksToRun + MaxDispatch < Wrap

VARIABLES
  now,
  pc,
  marker,     \* marker
  remaining,  \* remaining_ticks, a signed type wider than TickType_t
  waiting,    \* when xQueueReceive was called last
  unqueued    \* when an event was unqueued last (history)

vars == <<now, pc, marker, remaining, waiting, unqueued>>

(* Subtraction of two readings of xTaskGetTickCount. *)
Elapsed(from, to) == (to - from) % Wrap

Init ==
  /\ now = 0 /\ pc = "receive"
  /\ marker = 0 /\ remaining = TicksToRun
  /\ waiting = 0 /\ unqueued = 0

Receive ==
  /\ pc = "receive"
  /\ pc' = "dispatch"
  /\ unqueued' = now
  /\ UNCHANGED <<now, marker, remaining, waiting>>

ReceiveTimeout ==
  /\ pc = "receive" /\ now = waiting + TicksToRun
  /\ pc' = "returned"
  /\ UNCHANGED <<now, marker, remaining, waiting, unqueued>>

Finish_AtZero ==
  /\ pc = "dispatch"
  /\ remaining' = remaining - Elapsed(marker, now)
  /\ marker' = now
  /\ pc' = IF remaining' < 0 THEN "returned" ELSE "receive"
  /\ waiting' = now
  /\ UNCHANGED <<now, unqueued>>

Finish ==
  /\ pc = "dispatch"
  /\ remaining' = remaining - Elapsed(marker, now)
  /\ IF remaining' <= 0
     THEN pc' = "returned" /\ UNCHANGED <<marker, waiting>>
     ELSE pc' = "receive" /\ marker' = now /\ waiting' = now
  /\ UNCHANGED <<now, unqueued>>

(* The queue waits for the full ticks_to_run again, whatever remains. *)
Tick ==
  /\ \/ pc = "receive" /\ now < waiting + TicksToRun
     \/ pc = "dispatch" /\ now < unqueued + MaxDispatch
  /\ now' = now + 1
  /\ UNCHANGED <<pc, marker, remaining, waiting, unqueued>>

Next == Receive \/ ReceiveTimeout \/ Finish \/ Tick

Spec == Init /\ [][Next]_vars

-----------------------------------------------------------------------------
(* Properties *)

TypeOK ==
  /\ now \in Nat /\ marker \in Nat /\ waiting \in Nat /\ unqueued \in Nat
  /\ pc \in {"receive", "dispatch", "returned"}
  /\ remaining \in Int

(* The last tick at which an event may still be unqueued. *)
Limit == IF TicksToRun = 0 THEN 0 ELSE 2 * TicksToRun - 1

(* A run lasts at least ticks_to_run, and stops to unqueue events one tick *)
(* before it would have taken that time twice, wrapped counter or not.     *)
RunsItsTime == pc = "returned" => now >= TicksToRun
StopsInTime ==
  /\ unqueued <= Limit
  /\ pc = "receive" => now <= Limit
  /\ now <= Limit + MaxDispatch

(* Both bounds. *)
RunIsTimed == RunsItsTime /\ StopsInTime
=============================================================================
