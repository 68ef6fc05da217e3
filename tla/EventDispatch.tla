--------------------------- MODULE EventDispatch ---------------------------
(***************************************************************************)
(* The dispatch of one event by esp_event_loop_run: three nested           *)
(* SLIST_FOREACH_SAFE walks over the registry, whose cursors stay where    *)
(* they are while a handler runs.  The mutex is recursive, so the handler  *)
(* can register handlers and unregister itself, and a node that a cursor   *)
(* points to may be freed.  What the program then does is undefined: the   *)
(* walk goes no further.                                                   *)
(*                                                                         *)
(* Contexts bounds the registrations of a behaviour, and an address is not *)
(* reused.  A step of the walk is the code between two reads of a node.    *)
(***************************************************************************)
EXTENDS HandlerRegistry

CONSTANTS
  SelfLevels,  \* levels whose handlers may unregister themselves when called
  NULL

ASSUME SelfLevelsAssumption == SelfLevels \subseteq {"loop", "base", "id"}
ASSUME TracesAssumption == Traced /\ NULL \notin Contexts \cup {ANY}

VARIABLES
  pc,           \* "idle", the node to visit next, or "calling" a handler
  event,        \* the event being dispatched
  loop_node, temp_node, base_node, temp_base, handler, temp_handler,
  list,         \* the level whose handlers are being walked
  born,         \* contexts that were ever allocated
  due, called   \* what this dispatch has to call, and has called (history)

cursors == <<loop_node, temp_node, base_node, temp_base, handler, temp_handler, list>>
dispatchVars == <<vars, pc, event, cursors, born, due, called>>

DispatchInit ==
  /\ Init
  /\ pc = "idle" /\ list = "loop"
  /\ event \in Events
  /\ loop_node = NULL /\ temp_node = NULL
  /\ base_node = NULL /\ temp_base = NULL
  /\ handler = NULL /\ temp_handler = NULL
  /\ born = {}
  /\ due = <<>> /\ called = <<>>

-----------------------------------------------------------------------------
(* Reading the lists through pointers *)

AllBases == UNION {Range(n.bases) : n \in Range(loop_nodes)}

Lists ==
  UNION {{n.handlers : n \in Range(loop_nodes)},
         {b.handlers : b \in AllBases},
         UNION {{i.handlers : i \in Range(b.ids)} : b \in AllBases}}

LiveLoop(p) == p \in {n.at : n \in Range(loop_nodes)}
LiveBase(p) == p \in {b.at : b \in AllBases}
LiveHandler(p) == p \in {e.ctx : e \in AllEntries}

LoopAt(p) == CHOOSE n \in Range(loop_nodes) : n.at = p
BaseAt(p) == CHOOSE b \in AllBases : b.at = p

FirstNode(nodes) == IF nodes = <<>> THEN NULL ELSE nodes[1].at
NextNode(nodes, p) ==
  LET k == CHOOSE k \in DOMAIN nodes : nodes[k].at = p
  IN  IF k = Len(nodes) THEN NULL ELSE nodes[k + 1].at

FirstHandler(handlers) == IF handlers = <<>> THEN NULL ELSE handlers[1].ctx
NextHandler(p) ==
  LET l == CHOOSE l \in Lists : p \in {e.ctx : e \in Range(l)}
      k == CHOOSE k \in DOMAIN l : l[k].ctx = p
  IN  IF k = Len(l) THEN NULL ELSE l[k + 1].ctx

ContextsOf(entries) == [k \in DOMAIN entries |-> entries[k].ctx]

-----------------------------------------------------------------------------
(* The walk *)

Dispatch(e) ==
  /\ pc = "idle"
  /\ pc' = "loop"
  /\ event' = e
  /\ loop_node' = FirstNode(loop_nodes)
  /\ due' = ContextsOf(Plan(e))
  /\ called' = <<>>
  /\ UNCHANGED <<vars, temp_node, base_node, temp_base, handler, temp_handler,
                 list, born>>

VisitLoop ==
  /\ pc = "loop" /\ LiveLoop(loop_node)
  /\ temp_node' = NextNode(loop_nodes, loop_node)
  /\ handler' = FirstHandler(LoopAt(loop_node).handlers)
  /\ list' = "loop"
  /\ pc' = "handlers"
  /\ UNCHANGED <<vars, event, loop_node, base_node, temp_base, temp_handler,
                 born, due, called>>

VisitBase_OneNodePerBase ==
  /\ pc = "base" /\ LiveBase(base_node)
  /\ LET mine == BaseAt(base_node).base = event[1]
         next == NextNode(LoopAt(loop_node).bases, base_node)
     IN  /\ temp_base' = IF mine THEN NULL ELSE next
         /\ handler' = IF mine THEN FirstHandler(BaseAt(base_node).handlers) ELSE NULL
         /\ list' = IF mine THEN "base" ELSE "id"
  /\ pc' = "handlers"
  /\ UNCHANGED <<vars, event, loop_node, temp_node, base_node, temp_handler,
                 born, due, called>>

(* A node of another base is left as if all its handlers had been called.  *)
VisitBase ==
  /\ pc = "base" /\ LiveBase(base_node)
  /\ temp_base' = NextNode(LoopAt(loop_node).bases, base_node)
  /\ LET mine == BaseAt(base_node).base = event[1]
     IN  /\ handler' = IF mine THEN FirstHandler(BaseAt(base_node).handlers) ELSE NULL
         /\ list' = IF mine THEN "base" ELSE "id"
  /\ pc' = "handlers"
  /\ UNCHANGED <<vars, event, loop_node, temp_node, base_node, temp_handler,
                 born, due, called>>

(* handler_execute, after the next handler has been remembered. *)
Call ==
  /\ pc = "handlers" /\ LiveHandler(handler)
  /\ temp_handler' = NextHandler(handler)
  /\ called' = Append(called, handler)
  /\ pc' = "calling"
  /\ UNCHANGED <<vars, event, loop_node, temp_node, base_node, temp_base,
                 handler, list, born, due>>

Return_ReadsNext ==
  /\ pc = "calling"
  /\ handler' = IF LiveHandler(handler) THEN NextHandler(handler) ELSE handler
  /\ pc' = "handlers"
  /\ UNCHANGED <<vars, event, loop_node, temp_node, base_node, temp_base,
                 temp_handler, list, born, due, called>>

Return ==
  /\ pc = "calling"
  /\ handler' = temp_handler
  /\ pc' = "handlers"
  /\ UNCHANGED <<vars, event, loop_node, temp_node, base_node, temp_base,
                 temp_handler, list, born, due, called>>

(* The handlers of a loop node have been called: on to its base nodes. *)
LeaveLoopList ==
  /\ pc = "handlers" /\ handler = NULL /\ list = "loop"
  /\ LiveLoop(loop_node)
  /\ base_node' = FirstNode(LoopAt(loop_node).bases)
  /\ pc' = "base"
  /\ UNCHANGED <<vars, event, loop_node, temp_node, temp_base, handler,
                 temp_handler, list, born, due, called>>

(* Those of a base node: on to the id node of the event, if there is one. *)
LeaveBaseList ==
  /\ pc = "handlers" /\ handler = NULL /\ list = "base"
  /\ LiveBase(base_node)
  /\ LET ids == BaseAt(base_node).ids
         mine == Positions(ids, LAMBDA n : n.id = event[2])
     IN  handler' = IF mine = {} THEN NULL ELSE FirstHandler(ids[Min(mine)].handlers)
  /\ list' = "id"
  /\ UNCHANGED <<vars, pc, event, loop_node, temp_node, base_node, temp_base,
                 temp_handler, born, due, called>>

(* Those of an id node: nothing of its base node is read any more. *)
LeaveIdList ==
  /\ pc = "handlers" /\ handler = NULL /\ list = "id"
  /\ base_node' = temp_base
  /\ pc' = "base"
  /\ UNCHANGED <<vars, event, loop_node, temp_node, temp_base, handler,
                 temp_handler, list, born, due, called>>

LeaveLoop ==
  /\ pc = "base" /\ base_node = NULL
  /\ loop_node' = temp_node
  /\ pc' = "loop"
  /\ UNCHANGED <<vars, event, temp_node, base_node, temp_base, handler,
                 temp_handler, list, born, due, called>>

Done ==
  /\ pc = "loop" /\ loop_node = NULL
  /\ pc' = "idle"
  /\ UNCHANGED <<vars, event, cursors, born, due, called>>

-----------------------------------------------------------------------------
(* Calls of the registration API, from a task between dispatches or from   *)
(* the handler that runs.                                                  *)
RegisterNew(key) ==
  /\ pc \in {"idle", "calling"}
  /\ born # Contexts
  /\ \E f \in Callbacks, a \in Args : InstanceRegister(key, f, a)
  /\ \E h \in held' \ held :
       /\ h.ctx = CHOOSE c \in Contexts : c \notin born
       /\ born' = born \cup {h.ctx}
  /\ UNCHANGED <<pc, event, cursors, due, called>>

Level(key) == IF key[1] = ANY THEN "loop" ELSE IF key[2] = ANY THEN "base" ELSE "id"

UnregisterHeld(h) ==
  /\ \/ pc = "idle"
     \/ pc = "calling" /\ h.ctx = handler /\ Level(h.key) \in SelfLevels
  /\ InstanceUnregister(h, h.key)
  /\ UNCHANGED <<pc, event, cursors, born, due, called>>

WalkStep ==
  \/ \E e \in Events : Dispatch(e)
  \/ VisitLoop \/ VisitBase \/ Call \/ Return
  \/ LeaveLoopList \/ LeaveBaseList \/ LeaveIdList \/ LeaveLoop \/ Done

DispatchNext ==
  \/ WalkStep
  \/ \E key \in Keys : RegisterNew(key)
  \/ \E h \in held : UnregisterHeld(h)

DispatchSpec == DispatchInit /\ [][DispatchNext]_dispatchVars

-----------------------------------------------------------------------------
(* Properties *)

(* Wherever the walk reads a node or a handler, it has not been freed.     *)
(* test_event.c:934, "this test aims to verify that handlers can           *)
(* unregister themselves".                                                 *)
NoUseAfterFree ==
  /\ pc = "loop" => loop_node = NULL \/ LiveLoop(loop_node)
  /\ pc = "base" => base_node = NULL \/ (LiveBase(base_node) /\ LiveLoop(loop_node))
  /\ pc = "handlers" =>
       \/ handler # NULL /\ LiveHandler(handler)
       \/ handler = NULL /\ list = "loop" /\ LiveLoop(loop_node)
       \/ handler = NULL /\ list = "base" /\ LiveBase(base_node)
       \/ handler = NULL /\ list = "id"

(* Handlers that were registered when the dispatch began are called once   *)
(* each and in order, whatever the handlers register meanwhile and when    *)
(* they unregister themselves; nothing is called twice.                    *)
EachDueCalledOnce ==
  pc = "loop" /\ loop_node = NULL =>
    /\ \A i, j \in DOMAIN called : called[i] = called[j] => i = j
    /\ \A i \in DOMAIN due : \E k \in DOMAIN called : called[k] = due[i]
    /\ \A i, j \in DOMAIN due : \A k, l \in DOMAIN called :
         i < j /\ called[k] = due[i] /\ called[l] = due[j] => k < l
=============================================================================
