-------------------------- MODULE HandlerRegistry --------------------------
(***************************************************************************)
(* The registry of one event loop: loop nodes, in them base nodes, in them *)
(* id nodes, and at each level a list of handlers.  A node is a record and *)
(* a singly linked list a sequence, so the operators below return what the *)
(* functions of the same purpose leave behind.  The loop's mutex makes     *)
(* every call atomic (EventLoop); registration from inside a handler,      *)
(* while a dispatch walks the lists, is the subject of EventDispatch.      *)
(* A call that fails, for want of memory or because it asks for any base   *)
(* with one id, frees what it allocated and changes nothing: it is a       *)
(* stuttering step.                                                        *)
(***************************************************************************)
EXTENDS SequencesExt

CONSTANTS
  Bases, Ids, ANY,  \* event bases and ids; ESP_EVENT_ANY_BASE and _ANY_ID
  Callbacks, Args,  \* handler functions and the arguments they are given
  Contexts,         \* addresses that calloc can return
  Apis,             \* which of the two registration APIs callers use
  Traced            \* whether nodes are told apart by their addresses

ASSUME AnyAssumption == ANY \notin Bases \cup Ids
ASSUME ApisAssumption == Apis \subseteq {"instance", "legacy"}
ASSUME TracedAssumption == Traced \in BOOLEAN

VARIABLES
  loop_nodes,  \* loop->loop_nodes
  held         \* handles that callers got and have not given back

vars == <<loop_nodes, held>>

Events == Bases \X Ids
Keys   == Events \cup (Bases \X {ANY}) \cup {<<ANY, ANY>>}

Entries  == [ctx : Contexts, function : Callbacks, arg : Args]
IdNodes  == [id : Ids, handlers : Seq(Entries)]
BaseNodes == [at : Contexts \cup {ANY}, base : Bases, handlers : Seq(Entries), ids : Seq(IdNodes)]
LoopNodes == [at : Contexts \cup {ANY}, handlers : Seq(Entries), bases : Seq(BaseNodes)]

TypeOK ==
  /\ loop_nodes \in Seq(LoopNodes)
  /\ held \subseteq [ctx : Contexts, key : Keys]

Init == loop_nodes = <<>> /\ held = {}

-----------------------------------------------------------------------------
(* Registration *)

Positions(list, Test(_)) == {k \in DOMAIN list : Test(list[k])}

(* The legacy API overwrites the first registration of the same function. *)
HandlersAdd(list, entry, legacy) ==
  LET same == Positions(list, LAMBDA e : e.function = entry.function)
  IN  IF legacy /\ same # {}
      THEN [list EXCEPT ![Min(same)].arg = entry.arg]
      ELSE Append(list, entry)

BaseAdd(node, id, entry, legacy) ==
  LET same == Positions(node.ids, LAMBDA n : n.id = id)
  IN  CASE id = ANY -> [node EXCEPT !.handlers = HandlersAdd(@, entry, legacy)]
        [] id # ANY /\ same = {} ->
             [node EXCEPT !.ids = Append(@, [id |-> id, handlers |-> <<entry>>])]
        [] OTHER -> [node EXCEPT !.ids[Max(same)].handlers =
                                   HandlersAdd(@, entry, legacy)]

(* A new node.  Only pointers into the lists tell nodes of equal contents  *)
(* apart (EventDispatch): then the address of a node is the context that   *)
(* was allocated together with it.                                         *)
At(entry) == IF Traced THEN entry.ctx ELSE ANY
NewBase(base, entry) ==
  [at |-> At(entry), base |-> base, handlers |-> <<>>, ids |-> <<>>]
NewLoop(entry) == [at |-> At(entry), handlers |-> <<>>, bases |-> <<>>]

LoopAdd_OneNodePerBase(node, key, entry, legacy) ==
  LET same == Positions(node.bases, LAMBDA n : n.base = key[1])
  IN  CASE key[1] = ANY -> [node EXCEPT !.handlers = HandlersAdd(@, entry, legacy)]
        [] key[1] # ANY /\ same = {} ->
             [node EXCEPT !.bases =
                Append(@, BaseAdd(NewBase(key[1], entry), key[2], entry, legacy))]
        [] OTHER -> [node EXCEPT !.bases[Max(same)] =
                                   BaseAdd(@, key[2], entry, legacy)]

(* A registration for all events of a base comes after the base's event    *)
(* handlers, so it needs another node when there are some, and it also     *)
(* gets one when the last node is of another base and has some.            *)
LoopAdd(node, key, entry, legacy) ==
  LET same  == Positions(node.bases, LAMBDA n : n.base = key[1])
      fresh == \/ same = {}
               \/ /\ key[2] = ANY
                  /\ \/ node.bases[Max(same)].ids # <<>>
                     \/ /\ Last(node.bases).base # key[1]
                        /\ Last(node.bases).ids # <<>>
  IN  CASE key[1] = ANY -> [node EXCEPT !.handlers = HandlersAdd(@, entry, legacy)]
        [] key[1] # ANY /\ fresh ->
             [node EXCEPT !.bases =
                Append(@, BaseAdd(NewBase(key[1], entry), key[2], entry, legacy))]
        [] OTHER -> [node EXCEPT !.bases[Max(same)] =
                                   BaseAdd(@, key[2], entry, legacy)]

Added(nodes, key, entry, legacy) ==
  IF nodes = <<>> \/ (key[1] = ANY /\ Last(nodes).bases # <<>>)
  THEN Append(nodes, LoopAdd(NewLoop(entry), key, entry, legacy))
  ELSE [nodes EXCEPT ![Len(nodes)] = LoopAdd(@, key, entry, legacy)]

-----------------------------------------------------------------------------
(* Removal, of entries that match.  Each level visits the nodes of its     *)
(* list and removes from each; it only stops, and only reports success, at *)
(* the first node that this emptied, which it takes off the list.          *)
Empty(node) == \A f \in DOMAIN node \cap {"handlers", "ids", "bases"} : node[f] = <<>>

Walk(list, after) ==
  LET emptied == {k \in DOMAIN list : after[k].ok /\ Empty(after[k].node)}
  IN  IF emptied = {}
      THEN [ok |-> FALSE, list |-> [k \in DOMAIN list |-> after[k].node]]
      ELSE [ok |-> TRUE,
            list |-> RemoveAt([k \in DOMAIN list |->
                       IF k <= Min(emptied) THEN after[k].node ELSE list[k]],
                       Min(emptied))]

HandlersRemove(node, match) ==
  LET found == Positions(node.handlers, LAMBDA e : e \in match)
  IN  [ok |-> found # {},
       node |-> IF found = {} THEN node
                ELSE [node EXCEPT !.handlers = RemoveAt(@, Min(found))]]

IdRemove(node, id, match) ==
  IF node.id = id THEN HandlersRemove(node, match) ELSE [ok |-> FALSE, node |-> node]

IdsRemove(node, id, match) ==
  LET sub == Walk(node.ids, [k \in DOMAIN node.ids |-> IdRemove(node.ids[k], id, match)])
  IN  [ok |-> sub.ok, node |-> [node EXCEPT !.ids = sub.list]]

BaseRemove_WildcardTakesAll(node, id, match) ==
  IF id = ANY /\ HandlersRemove(node, match).ok
  THEN HandlersRemove(node, match)
  ELSE IdsRemove(node, IF id = ANY /\ node.ids # <<>> THEN node.ids[1].id ELSE id, match)

BaseRemove(node, id, match) ==
  IF id = ANY THEN HandlersRemove(node, match) ELSE IdsRemove(node, id, match)

BasesRemove(node, key, match) ==
  LET sub == Walk(node.bases, [k \in DOMAIN node.bases |->
                    IF node.bases[k].base = key[1]
                    THEN BaseRemove(node.bases[k], key[2], match)
                    ELSE [ok |-> FALSE, node |-> node.bases[k]]])
  IN  [ok |-> sub.ok, node |-> [node EXCEPT !.bases = sub.list]]

LoopRemove(node, key, match) ==
  IF key[1] = ANY THEN HandlersRemove(node, match) ELSE BasesRemove(node, key, match)

Removed(nodes, key, match) ==
  Walk(nodes, [k \in DOMAIN nodes |-> LoopRemove(nodes[k], key, match)]).list

-----------------------------------------------------------------------------
(* What a dispatch calls: the handlers of every loop node and, in its      *)
(* nodes of the event's base, those of the base and then of the id.        *)
Plan(event) ==
  LET InBase(n) ==
        IF n.base # event[1] THEN <<>>
        ELSE n.handlers \o FlattenSeq([k \in DOMAIN n.ids |->
               IF n.ids[k].id = event[2] THEN n.ids[k].handlers ELSE <<>>])
      InLoop(n) ==
        n.handlers \o FlattenSeq([k \in DOMAIN n.bases |-> InBase(n.bases[k])])
  IN  FlattenSeq([k \in DOMAIN loop_nodes |-> InLoop(loop_nodes[k])])

(* The registrations made for exactly this key. *)
RegisteredAt(key) ==
  LET OfIds(n)  == {n.ids[k] : k \in DOMAIN n.ids}
      OfBase(n) == IF key[2] = ANY THEN Range(n.handlers)
                   ELSE UNION {Range(i.handlers) : i \in {j \in OfIds(n) : j.id = key[2]}}
      OfLoop(n) == IF key[1] = ANY THEN Range(n.handlers)
                   ELSE UNION {OfBase(b) : b \in {c \in Range(n.bases) : c.base = key[1]}}
  IN  UNION {OfLoop(n) : n \in Range(loop_nodes)}

AllEntries == UNION {RegisteredAt(key) : key \in Keys}

-----------------------------------------------------------------------------
(* esp_event_handler_instance_register_with: the caller keeps the context. *)
InstanceRegister(key, f, a) ==
  \E c \in Contexts \ {e.ctx : e \in AllEntries} :
    /\ loop_nodes' = Added(loop_nodes, key, [ctx |-> c, function |-> f, arg |-> a], FALSE)
    /\ held' = held \cup {[ctx |-> c, key |-> key]}

(* esp_event_handler_instance_unregister_with, with the handle and the key *)
(* it was registered for, or with another key.                             *)
InstanceUnregister(h, key) ==
  /\ loop_nodes' = Removed(loop_nodes, key, {e \in AllEntries : e.ctx = h.ctx})
  /\ held' = IF key = h.key THEN held \ {h} ELSE held

(* esp_event_handler_register_with, the legacy API. *)
LegacyRegister(key, f, a) ==
  \E c \in Contexts \ {e.ctx : e \in AllEntries} :
    /\ loop_nodes' = Added(loop_nodes, key, [ctx |-> c, function |-> f, arg |-> a], TRUE)
    /\ UNCHANGED held

LegacyUnregister(key, f) ==
  /\ loop_nodes' = Removed(loop_nodes, key, {e \in AllEntries : e.function = f})
  /\ UNCHANGED held

(* esp_event_loop_delete *)
RemoveAll ==
  /\ loop_nodes' = <<>>
  /\ held' = {}

Next ==
  \/ "instance" \in Apis /\
       \/ \E key \in Keys, f \in Callbacks, a \in Args : InstanceRegister(key, f, a)
       \/ \E h \in held, key \in Keys : InstanceUnregister(h, key)
  \/ "legacy" \in Apis /\
       \/ \E key \in Keys, f \in Callbacks, a \in Args : LegacyRegister(key, f, a)
       \/ \E key \in Keys, f \in Callbacks : LegacyUnregister(key, f)
  \/ RemoveAll

Spec == Init /\ [][Next]_vars
=============================================================================
