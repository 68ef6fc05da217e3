---------------------------- MODULE EventService ----------------------------
(***************************************************************************)
(* What an event loop with its own task promises its users: every event    *)
(* that was accepted is dispatched, one at a time and in the order of      *)
(* acceptance, and a bounded number of them is pending.  Only deleting the *)
(* loop discards events, and no dispatch is then under way.                *)
(***************************************************************************)
EXTENDS Naturals, Sequences

CONSTANTS Posts, NoPost, Capacity

VARIABLES pending,  \* accepted events that no handler has seen yet
          current   \* the event being dispatched

vars == <<pending, current>>

Init == pending = <<>> /\ current = NoPost

Accept(p) ==
  /\ Len(pending) < Capacity
  /\ p # current /\ \A i \in DOMAIN pending : pending[i] # p
  /\ pending' = Append(pending, p)
  /\ UNCHANGED current

Start ==
  /\ current = NoPost /\ pending # <<>>
  /\ current' = Head(pending)
  /\ pending' = Tail(pending)

Finish ==
  /\ current # NoPost
  /\ current' = NoPost
  /\ UNCHANGED pending

Discard ==
  /\ current = NoPost
  /\ pending' = <<>>
  /\ UNCHANGED current

Next == (\E p \in Posts : Accept(p)) \/ Start \/ Finish \/ Discard

Spec == Init /\ [][Next]_vars
=============================================================================
