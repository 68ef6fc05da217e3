--------------------------- MODULE EventHandlers ---------------------------
(***************************************************************************)
(* What the registration API of esp_event promises, without its lists: for *)
(* every event there is the list of the registrations that match it, in    *)
(* the order in which they were made, whatever was registered or           *)
(* unregistered in between, for whichever key.                             *)
(***************************************************************************)
EXTENDS SequencesExt

CONSTANTS Contexts, Bases, Ids, ANY

VARIABLES
  held,   \* registrations in force: context and the key it was made for
  calls   \* what the dispatch of each event calls

vars == <<held, calls>>

Events == Bases \X Ids
Keys   == Events \cup (Bases \X {ANY}) \cup {<<ANY, ANY>>}

Matches(key, event) == \A k \in 1..2 : key[k] \in {ANY, event[k]}

Init ==
  /\ held = {}
  /\ calls = [event \in Events |-> <<>>]

With(h) ==
  [event \in Events |->
     calls[event] \o IF Matches(h.key, event) THEN <<h.ctx>> ELSE <<>>]

Without(h) ==
  [event \in Events |->
     IF Matches(h.key, event) THEN RemoveFirst(calls[event], h.ctx) ELSE calls[event]]

Register(h) ==
  /\ h.ctx \notin {g.ctx : g \in held}
  /\ held' = held \cup {h}
  /\ calls' = With(h)

Unregister(h) ==
  /\ held' = held \ {h}
  /\ calls' = Without(h)

Clear ==
  /\ held' = {}
  /\ calls' = [event \in Events |-> <<>>]

Next ==
  \/ \E h \in [ctx : Contexts, key : Keys] : Register(h)
  \/ \E h \in held : Unregister(h)
  \/ Clear

Spec == Init /\ [][Next]_vars
=============================================================================
