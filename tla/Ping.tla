-------------------------------- MODULE Ping ---------------------------------
(***************************************************************************)
(* Ping sessions (ping_sock.c) as the older interface uses them (ping.c    *)
(* and esp_ping.c): a task per session that sends and waits for answers,   *)
(* callbacks that add to one global result, and application tasks that     *)
(* start, stop and delete.  The flags of a session are read, changed and   *)
(* written without a lock, in two steps here.  The result and the object   *)
(* of the options exist once: a second session at the same time would add  *)
(* to the result of the first, so that one session at a time is followed.  *)
(***************************************************************************)
EXTENDS Integers, FiniteSets

CONSTANTS
  Sessions,  \* esp_ping_t objects that may exist at once: one, as the result needs it
  Pingers,   \* application tasks
  Counts,    \* values of count, 0 without limit
  Wrap       \* width of seqno (2^16) and, here, of the counters (2^32)

VARIABLES
  session,    \* the objects and their tasks
  rmw,        \* who is between reading and writing flags
  res_fn,     \* ping_option_info->ping_res_fn is set
  result,     \* ping_option_info->ping_res
  untold,     \* the counts of batches that ended without a result function (history)
  lost        \* sessions whose flags were written with a stale value (history)

pingVars == <<session, rmw, res_fn, result, untold, lost>>

Actors == Pingers \cup Sessions
Idle == [on |-> "none"]
NoResult == [send_count |-> 0, recv_count |-> 0, timeout_count |-> 0]
NoSession == [pc |-> "none", flags |-> {}, notified |-> FALSE, count |-> 0,
              seqno |-> 0, received |-> 0, deleted |-> FALSE, given |-> FALSE]

Init ==
  /\ session = [s \in Sessions |-> NoSession]
  /\ rmw = [a \in Actors |-> Idle]
  /\ res_fn = FALSE
  /\ result = NoResult
  /\ untold = NoResult
  /\ lost = {}

Inc(n) == (n + 1) % Wrap
Exists(s) == session[s].pc # "none"

-----------------------------------------------------------------------------
(* esp_ping_set_target: the result function is set once and for all, as    *)
(* NULL is refused; the application clears the result between two batches. *)
SetResFn ==
  /\ ~res_fn
  /\ res_fn' = TRUE
  /\ UNCHANGED <<session, rmw, result, untold, lost>>

ResReset ==
  /\ \A s \in Sessions : session[s].pc \in {"none", "take"}
  /\ result' = NoResult
  /\ untold' = NoResult
  /\ UNCHANGED <<session, rmw, res_fn, lost>>

-----------------------------------------------------------------------------
(* esp_ping_new_session: the task exists before the handle is given to the *)
(* caller; a step that fails takes everything back.                        *)
NewSession(s, count) ==
  /\ ~Exists(s)
  /\ session' = [session EXCEPT ![s] =
       [NoSession EXCEPT !.pc = "take", !.flags = {"INIT"}, !.count = count]]
  /\ lost' = lost \ {s}
  /\ UNCHANGED <<rmw, res_fn, result, untold>>

NewSessionDone(s) ==
  /\ Exists(s) /\ ~session[s].given
  /\ session' = [session EXCEPT ![s].given = TRUE]
  /\ UNCHANGED <<rmw, res_fn, result, untold, lost>>

NewSessionFails(s) ==
  /\ Exists(s) /\ ~session[s].given
  /\ session' = [session EXCEPT ![s] = NoSession]
  /\ UNCHANGED <<rmw, res_fn, result, untold, lost>>

(* esp_ping_start, esp_ping_stop and esp_ping_delete_session read the flags *)
(* and write them back; a start also notifies the task.                    *)
Change(flags, op) ==
  CASE op = "start" -> flags \cup {"START"}
    [] op = "stop" -> flags \ {"START"}
    [] op = "delete" -> flags \ {"INIT"}

Changing(s) == \E a \in Actors : rmw[a] # Idle /\ rmw[a].on = s

(* The application uses a handle until it or the end of a batch deletes it. *)
ReadFlags(a, s, op) ==
  /\ rmw[a] = Idle
  /\ session[s].given /\ ~session[s].deleted
  /\ rmw' = [rmw EXCEPT ![a] = [on |-> s, op |-> op, read |-> session[s].flags]]
  /\ UNCHANGED <<session, res_fn, result, untold, lost>>

Written(x, flags, op) ==
  [x EXCEPT !.flags = flags, !.deleted = @ \/ op = "delete", !.notified = @ \/ op = "start"]

WriteFlags(a) ==
  /\ rmw[a] # Idle
  /\ LET s == rmw[a].on IN
     /\ session' = [session EXCEPT ![s] =
          [Written(session[s], Change(rmw[a].read, rmw[a].op), rmw[a].op) EXCEPT
             !.pc = IF a = s THEN "take" ELSE @]]
     /\ lost' = IF rmw[a].read # session[s].flags THEN lost \cup {s} ELSE lost
  /\ rmw' = [rmw EXCEPT ![a] = Idle]
  /\ UNCHANGED <<res_fn, result, untold>>

-----------------------------------------------------------------------------
Take_Keeps(s) ==
  /\ session[s].pc = "take" /\ session[s].notified
  /\ session' = [session EXCEPT ![s] =
       [@ EXCEPT !.pc = "loop", !.seqno = 0, !.received = 0]]
  /\ UNCHANGED <<rmw, res_fn, result, untold, lost>>

(* esp_ping_thread *)
Take(s) ==
  /\ session[s].pc = "take" /\ session[s].notified
  /\ session' = [session EXCEPT ![s] =
       [@ EXCEPT !.pc = "loop", !.notified = FALSE, !.seqno = 0, !.received = 0]]
  /\ UNCHANGED <<rmw, res_fn, result, untold, lost>>

(* Nothing for PING_CHECK_START_TIMEOUT_MS: a deleted session is freed.    *)
(* The calls that change flags last much less than that.                   *)
TakeTimeout(s) ==
  /\ session[s].pc = "take" /\ ~session[s].notified
  /\ "INIT" \notin session[s].flags /\ ~Changing(s)
  /\ session' = [session EXCEPT ![s] = NoSession]
  /\ UNCHANGED <<rmw, res_fn, result, untold, lost>>

Goes(s) == "START" \in session[s].flags /\ (session[s].count = 0 \/ session[s].seqno < session[s].count)

Send(s) ==
  /\ session[s].pc = "loop" /\ Goes(s)
  /\ session' = [session EXCEPT ![s].pc = "receive", ![s].seqno = Inc(@)]
  /\ UNCHANGED <<rmw, res_fn, result, untold, lost>>

(* esp_ping_result for an answer (on_ping_success) or a timeout *)
Reported(r, answered) ==
  [r EXCEPT !.send_count = Inc(@),
            !.recv_count = IF answered THEN Inc(@) ELSE @,
            !.timeout_count = IF answered THEN @ ELSE Inc(@)]

(* esp_ping_receive: an answer to this seqno, or SO_RCVTIMEO *)
Receive(s) ==
  /\ session[s].pc = "receive"
  /\ \E answered \in BOOLEAN :
       /\ session' = [session EXCEPT ![s].pc = "loop",
                                     ![s].received = IF answered THEN Inc(@) ELSE @]
       /\ result' = Reported(result, answered)
  /\ UNCHANGED <<rmw, res_fn, untold, lost>>

BatchEnds(s) ==
  /\ session[s].pc = "loop" /\ ~Goes(s)
  /\ session' = [session EXCEPT ![s].pc = "finish"]
  /\ UNCHANGED <<rmw, res_fn, result, untold, lost>>

(* What one batch adds to the counters, when its last request is over, *)
(* and the counters of two, as wide as they are.                         *)
Batch(x) == [send_count |-> x.seqno, recv_count |-> x.received,
             timeout_count |-> (x.seqno - x.received) % Wrap]
Sum(r, u) == [c \in DOMAIN r |-> (r[c] + u[c]) % Wrap]

(* The end of a batch is told to the result function if there is one. *)
Told(s) == untold' = IF res_fn THEN NoResult ELSE Sum(untold, Batch(session[s]))

Finish_KeepsResult(s) ==
  /\ session[s].pc = "finish"
  /\ Told(s)
  /\ rmw' = [rmw EXCEPT ![s] = [on |-> s, op |-> "delete", read |-> session[s].flags]]
  /\ session' = [session EXCEPT ![s].pc = "deleting"]
  /\ UNCHANGED <<res_fn, result, lost>>

(* on_ping_end: PING_RES_FINISH resets the result once it was reported to *)
(* the application, which takes a result function; the session is deleted. *)
Finish(s) ==
  /\ session[s].pc = "finish"
  /\ result' = IF res_fn THEN NoResult ELSE result
  /\ Told(s)
  /\ rmw' = [rmw EXCEPT ![s] = [on |-> s, op |-> "delete", read |-> session[s].flags]]
  /\ session' = [session EXCEPT ![s].pc = "deleting"]
  /\ UNCHANGED <<res_fn, lost>>

-----------------------------------------------------------------------------
Thread(s) == Take(s) \/ TakeTimeout(s) \/ Send(s) \/ Receive(s) \/ BatchEnds(s) \/ Finish(s)

Next ==
  \/ \E s \in Sessions :
       \/ \E count \in Counts : NewSession(s, count)
       \/ NewSessionDone(s) \/ NewSessionFails(s)
       \/ \E a \in Pingers, op \in {"start", "stop", "delete"} : ReadFlags(a, s, op)
       \/ Thread(s)
  \/ \E a \in Actors : WriteFlags(a)
  \/ SetResFn \/ ResReset

Spec == Init /\ [][Next]_pingVars

Fairness ==
  /\ \A s \in Sessions : WF_pingVars(Thread(s))
  /\ \A a \in Actors : WF_pingVars(WriteFlags(a))

-----------------------------------------------------------------------------
(* Properties *)

(* A session that goes on by itself: no limit and not stopped, or a limit  *)
(* that its sequence number cannot reach.                                  *)
Endless(s) ==
  /\ "START" \in session[s].flags
  /\ session[s].count = 0 \/ session[s].count >= Wrap

(* A session that was deleted, by the application or at the end of its     *)
(* batch, is freed, even when it was started again in the meantime; unless *)
(* it pings without end, or a flag was lost because two tasks changed the  *)
(* flags at the same time.                                                 *)
DeletedSessionIsFreed ==
  \A s \in Sessions :
    session[s].deleted ~> (~Exists(s) \/ Endless(s) \/ s \in lost)

(* When a batch is over, the result adds up to the answers and requests of *)
(* this batch, and of the batches before it that no result function was    *)
(* told, of no other, however batches were stopped, started again or       *)
(* deleted: with a result function from the start it is the batch's alone. *)
ResultIsOfBatch ==
  \A s \in Sessions :
    session[s].pc = "finish" => result = Sum(untold, Batch(session[s]))
=============================================================================
