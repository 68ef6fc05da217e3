------------------------ MODULE EventDispatchProofs ------------------------
(***************************************************************************)
(* Where the cursors of a dispatch point (EventDispatch), and what it has  *)
(* called when it ends, for any number of nodes, handlers, bases and ids.  *)
(* The registry is one in which every context is in one list and every     *)
(* address is that of one node; the cursors are in the lists they walk,    *)
(* and what they remember for later is not below the handler that runs, so *)
(* that it outlives what the handler can free by unregistering itself.     *)
(* The second half puts the contexts in the order of their birth: lists,   *)
(* calls and cursors are in it, and what is due is called or to come.      *)
(***************************************************************************)
EXTENDS EventDispatch, RegistryProofs

-----------------------------------------------------------------------------
(* The registry.  A context is in one list, at one place, and an address   *)
(* is that of one node.                                                    *)

IdsCtxs(ids) == UNION {Ctxs(ids[k].handlers) : k \in DOMAIN ids}
BaseCtxs(n) == Ctxs(n.handlers) \cup IdsCtxs(n.ids)
BasesCtxs(bs) == UNION {BaseCtxs(bs[k]) : k \in DOMAIN bs}
LoopCtxs(n) == Ctxs(n.handlers) \cup BasesCtxs(n.bases)
BaseAts(bs) == {bs[k].at : k \in DOMAIN bs}

Once(l) == \A j, k \in DOMAIN l : l[j].ctx = l[k].ctx => j = k
IdsOK(ids) ==
  /\ \A k \in DOMAIN ids : Once(ids[k].handlers)
  /\ \A j, k \in DOMAIN ids : j # k =>
       ids[j].id # ids[k].id /\ Ctxs(ids[j].handlers) \cap Ctxs(ids[k].handlers) = {}
BaseOK(n) ==
  /\ Once(n.handlers) /\ IdsOK(n.ids)
  /\ Ctxs(n.handlers) \cap IdsCtxs(n.ids) = {}
BasesOK(bs) ==
  /\ \A k \in DOMAIN bs : BaseOK(bs[k])
  /\ \A j, k \in DOMAIN bs : j # k =>
       bs[j].at # bs[k].at /\ BaseCtxs(bs[j]) \cap BaseCtxs(bs[k]) = {}
LoopOK(n) ==
  /\ Once(n.handlers) /\ BasesOK(n.bases)
  /\ Ctxs(n.handlers) \cap BasesCtxs(n.bases) = {}
NodesOK(nodes) ==
  /\ \A k \in DOMAIN nodes : LoopOK(nodes[k])
  /\ \A j, k \in DOMAIN nodes : j # k =>
       /\ nodes[j].at # nodes[k].at
       /\ LoopCtxs(nodes[j]) \cap LoopCtxs(nodes[k]) = {}
       /\ BaseAts(nodes[j].bases) \cap BaseAts(nodes[k].bases) = {}
AllBorn(nodes) ==
  \A k \in DOMAIN nodes : {nodes[k].at} \cup LoopCtxs(nodes[k]) \cup BaseAts(nodes[k].bases) \subseteq born

RegistryInOrder ==
  /\ loop_nodes \in Seq(LoopNodes) /\ born \subseteq Contexts
  /\ NodesOK(loop_nodes) /\ AllBorn(loop_nodes)

-----------------------------------------------------------------------------
(* Where things are *)

AtLoop(ln) == \E k \in DOMAIN loop_nodes : loop_nodes[k].at = ln
AtBase(b, ln) ==
  \E k \in DOMAIN loop_nodes : /\ loop_nodes[k].at = ln
                               /\ \E m \in DOMAIN loop_nodes[k].bases : loop_nodes[k].bases[m].at = b
InLoopList(x, ln) ==
  \E k \in DOMAIN loop_nodes : loop_nodes[k].at = ln /\ x \in Ctxs(loop_nodes[k].handlers)
InBaseList(x, b, ln) ==
  \E k \in DOMAIN loop_nodes :
    /\ loop_nodes[k].at = ln
    /\ \E m \in DOMAIN loop_nodes[k].bases :
         loop_nodes[k].bases[m].at = b /\ x \in Ctxs(loop_nodes[k].bases[m].handlers)
InIdList(x, b, ln) ==
  \E k \in DOMAIN loop_nodes :
    /\ loop_nodes[k].at = ln
    /\ \E m \in DOMAIN loop_nodes[k].bases :
         loop_nodes[k].bases[m].at = b /\ x \in IdsCtxs(loop_nodes[k].bases[m].ids)
UnderLoop(x, ln) ==
  \E k \in DOMAIN loop_nodes : loop_nodes[k].at = ln /\ x \in LoopCtxs(loop_nodes[k])
UnderBase(x, b) ==
  \E k \in DOMAIN loop_nodes : \E m \in DOMAIN loop_nodes[k].bases :
    loop_nodes[k].bases[m].at = b /\ x \in BaseCtxs(loop_nodes[k].bases[m])

Here(x) ==
  \/ list = "loop" /\ InLoopList(x, loop_node)
  \/ list = "base" /\ InBaseList(x, base_node, loop_node)
  \/ list = "id" /\ InIdList(x, base_node, loop_node)

(* The cursors *)
InList == pc \in {"handlers", "calling"}
CursorsOnNodes ==
  /\ pc \in {"idle", "loop", "base", "handlers", "calling"} /\ list \in {"loop", "base", "id"}
  /\ pc = "loop" => loop_node = NULL \/ AtLoop(loop_node)
  /\ (pc = "base" \/ InList) => temp_node = NULL \/ (AtLoop(temp_node) /\ temp_node # loop_node)
  /\ pc = "base" => base_node = NULL \/ AtBase(base_node, loop_node)
  /\ InList /\ list = "loop" => AtLoop(loop_node)
  /\ InList /\ list = "base" => AtBase(base_node, loop_node)
  /\ InList /\ list # "loop" =>
       temp_base = NULL \/ (AtBase(temp_base, loop_node) /\ temp_base # base_node)
CursorsInList ==
  /\ pc = "handlers" => handler = NULL \/ Here(handler)
  /\ pc = "calling" =>
       /\ handler \in born
       /\ temp_handler = NULL \/ (Here(temp_handler) /\ temp_handler # handler)
       /\ list # "id" => Here(handler)
       /\ \A ln : UnderLoop(handler, ln) => ln = loop_node
       /\ list # "loop" => \A b : UnderBase(handler, b) => b = base_node

WalkInv == RegistryInOrder /\ CursorsOnNodes /\ CursorsInList

-----------------------------------------------------------------------------
(* Removal *)

(* What a removal of c leaves of a list *)
ListLeft(l, old, c) ==
  /\ Ctxs(old) \ {c} \subseteq Ctxs(l) /\ Ctxs(l) \subseteq Ctxs(old)
  /\ Once(old) => Once(l)

(* handler_instances_remove: at most one entry is taken out of a list. *)
LEMMA HandlersLeft ==
  ASSUME NEW c, NEW match, \A e \in match : e.ctx = c,
         NEW node, node.handlers \in Seq(Entries)
  PROVE  LET r == HandlersRemove(node, match)
         IN  /\ r.node = node \/ \E l \in Seq(Entries) :
                  r.node = [node EXCEPT !.handlers = l] /\ ListLeft(l, node.handlers, c)
             /\ r.ok => c \in Ctxs(node.handlers)
<1> DEFINE l == node.handlers
           found == {k \in DOMAIN l : l[k] \in match}
           r == HandlersRemove(node, match)
<1>1. Len(l) \in Nat /\ DOMAIN l = 1 .. Len(l)
  BY LenProperties
<1>2. /\ r.ok = (found # {})
      /\ r.node = IF found = {} THEN node ELSE [node EXCEPT !.handlers = RemoveAt(l, Min(found))]
  BY DEF HandlersRemove, Positions
<1>3. CASE found = {}
  BY <1>2, <1>3
<1>4. CASE found # {}
  <2> DEFINE m == Min(found)
             t == RemoveAt(l, m)
  <2>1. m \in found
    BY <1>1, <1>4, MinMaxArePositions
  <2>2. m \in 1 .. Len(l) /\ l[m].ctx = c
    BY <1>1, <2>1
  <2> HIDE DEF m, l
  <2>3. /\ t \in Seq(Entries) /\ Len(t) = Len(l) - 1
        /\ \A j \in 1 .. Len(l) - 1 : t[j] = IF j < m THEN l[j] ELSE l[j + 1]
    BY <2>2, RemoveAtIs DEF l
  <2> HIDE DEF t, found
  <2>4. DOMAIN t = 1 .. Len(l) - 1
    BY <2>3, LenProperties
  <2>5. ASSUME NEW j \in 1 .. Len(l) - 1
         PROVE  \E a \in 1 .. Len(l) : t[j] = l[a] /\ a = IF j < m THEN j ELSE j + 1
    <3>1. CASE j < m
      <4>1. j \in 1 .. Len(l) /\ t[j] = l[j]
        BY <1>1, <2>2, <2>3, <3>1
      <4> QED
        BY <3>1, <4>1
    <3>2. CASE ~(j < m)
      <4>1. j + 1 \in 1 .. Len(l) /\ t[j] = l[j + 1]
        BY <1>1, <2>2, <2>3, <3>2
      <4> QED
        BY <3>2, <4>1
    <3> QED
      BY <3>1, <3>2
  <2>6. Ctxs(t) \subseteq Ctxs(l)
    BY <1>1, <2>4, <2>5 DEF Ctxs
  <2>7. Ctxs(l) \ {c} \subseteq Ctxs(t)
    <3> SUFFICES ASSUME NEW k \in 1 .. Len(l), l[k].ctx # c PROVE \E j \in 1 .. Len(l) - 1 : t[j] = l[k]
      BY <1>1, <2>4 DEF Ctxs
    <3>1. CASE k < m
      <4>1. k \in 1 .. Len(l) - 1 /\ t[k] = l[k]
        BY <1>1, <2>2, <2>3, <3>1
      <4> QED
        BY <4>1
    <3>2. CASE k > m
      <4>1. k - 1 \in 1 .. Len(l) - 1 /\ t[k - 1] = l[k]
        BY <1>1, <2>2, <2>3, <3>2
      <4> QED
        BY <4>1
    <3>3. k # m
      BY <2>2
    <3> QED
      BY <1>1, <2>2, <3>1, <3>2, <3>3
  <2>8. Once(l) => Once(t)
    <3> SUFFICES ASSUME Once(l), NEW j \in 1 .. Len(l) - 1, NEW k \in 1 .. Len(l) - 1, t[j].ctx = t[k].ctx
                 PROVE  j = k
      BY <2>4 DEF Once
    <3>1. PICK a \in 1 .. Len(l) : t[j] = l[a] /\ a = IF j < m THEN j ELSE j + 1
      BY <2>5
    <3>2. PICK b \in 1 .. Len(l) : t[k] = l[b] /\ b = IF k < m THEN k ELSE k + 1
      BY <2>5
    <3>3. a = b
      BY <1>1, <3>1, <3>2 DEF Once
    <3> QED
      BY <1>1, <2>2, <3>1, <3>2, <3>3
  <2>9. ListLeft(t, l, c)
    BY <2>6, <2>7, <2>8 DEF ListLeft
  <2>10. c \in Ctxs(l)
    BY <1>1, <2>2 DEF Ctxs
  <2>11. r.node = [node EXCEPT !.handlers = t]
    BY <1>2, <1>4 DEF t, m, found
  <2> QED
    BY <2>3, <2>9, <2>10, <2>11 DEF l
<1> QED
  BY <1>3, <1>4

(* A walk succeeds when a removal below it did. *)
LEMMA WalkSucceeds ==
  ASSUME NEW list0, NEW after, Walk(list0, after).ok
  PROVE  \E k \in DOMAIN list0 : after[k].ok
BY DEF Walk

(* A list that is left alone is one that a removal leaves. *)
LEMMA ListStays == \A l, c : ListLeft(l, l, c)
BY DEF ListLeft

(* Nothing is in an empty list. *)
LEMMA NothingIn == Ctxs(<<>>) = {} /\ IdsCtxs(<<>>) = {} /\ BasesCtxs(<<>>) = {} /\ Once(<<>>)
BY DEF Ctxs, IdsCtxs, BasesCtxs, Once

(* What a removal leaves of an id node, of the id nodes of a base ... *)
IdLeft(n, old, c) == n \in IdNodes /\ n.id = old.id /\ ListLeft(n.handlers, old.handlers, c)
IdsLeft(ids, old, c) ==
  /\ ids \in Seq(IdNodes)
  /\ IdsCtxs(old) \ {c} \subseteq IdsCtxs(ids) /\ IdsCtxs(ids) \subseteq IdsCtxs(old)
  /\ IdsOK(old) => IdsOK(ids)

(* IdRemove takes at most c's entry out of an id node. *)
LEMMA IdRemoveLeaves ==
  ASSUME NEW c, NEW match, \A e \in match : e.ctx = c, NEW node \in IdNodes, NEW id
  PROVE  LET r == IdRemove(node, id, match)
         IN  IdLeft(r.node, node, c) /\ (r.ok => c \in Ctxs(node.handlers))
<1> DEFINE r == IdRemove(node, id, match)
<1>1. CASE node.id = id
  <2>1. node.handlers \in Seq(Entries)
    BY DEF IdNodes
  <2>2. r = HandlersRemove(node, match)
    BY <1>1 DEF IdRemove
  <2> HIDE DEF r
  <2>3. /\ r.node = node \/ \E l \in Seq(Entries) :
             r.node = [node EXCEPT !.handlers = l] /\ ListLeft(l, node.handlers, c)
        /\ r.ok => c \in Ctxs(node.handlers)
    BY <2>1, <2>2, HandlersLeft
  <2>4. IdLeft(r.node, node, c)
    BY <2>3, ListStays DEF IdLeft, IdNodes
  <2> QED
    BY <2>3, <2>4 DEF r
<1>2. CASE node.id # id
  BY <1>2, ListStays DEF IdRemove, IdLeft
<1> QED
  BY <1>1, <1>2

(* IdsRemove takes c out of the id nodes of a base node and of nothing     *)
(* else, and says it did only if c was there.                              *)
LEMMA IdsRemoveLeaves ==
  ASSUME NEW c, NEW match, \A e \in match : e.ctx = c, NEW node \in BaseNodes, NEW id
  PROVE  LET r == IdsRemove(node, id, match)
         IN  /\ \E ids : r.node = [node EXCEPT !.ids = ids] /\ IdsLeft(ids, node.ids, c)
             /\ r.ok => c \in IdsCtxs(node.ids)
<1> DEFINE old == node.ids
           after == [k \in DOMAIN old |-> IdRemove(old[k], id, match)]
           ids == Walk(old, after).list
           r == IdsRemove(node, id, match)
<1>1. r.node = [node EXCEPT !.ids = ids] /\ r.ok = Walk(old, after).ok
  BY DEF IdsRemove
<1>2. old \in Seq(IdNodes) /\ DOMAIN old = 1 .. Len(old)
  BY LenProperties DEF BaseNodes
<1> HIDE DEF old
<1>3. \A k \in 1 .. Len(old) : old[k] \in IdNodes
  BY <1>2, ElementOfSeq
<1>4. \A k \in 1 .. Len(old) :
        IdLeft(after[k].node, old[k], c) /\ (after[k].ok => c \in Ctxs(old[k].handlers))
  BY <1>2, <1>3, IdRemoveLeaves
<1> HIDE DEF after, ids
<1>5. ids \in Seq(IdNodes) /\ WalkLeaves(ids, old, after)
  <2>1. \A k \in 1 .. Len(old) : after[k].node \in IdNodes
    BY <1>4 DEF IdLeft
  <2> QED
    BY <1>2, <2>1, WalkIs DEF ids
<1>6. PICK from \in [1 .. Len(ids) -> 1 .. Len(old)] :
        /\ \A j, k \in 1 .. Len(ids) : from[j] = from[k] => j = k
        /\ \A k \in 1 .. Len(ids) : ids[k] = old[from[k]] \/ ids[k] = after[from[k]].node
        /\ \A k \in 1 .. Len(old) :
             \/ after[k].ok /\ Empty(after[k].node)
             \/ \E j \in 1 .. Len(ids) : from[j] = k
  BY <1>5 DEF WalkLeaves
<1>7. DOMAIN ids = 1 .. Len(ids)
  BY <1>5, LenProperties
<1>8. \A k \in 1 .. Len(ids) :
        ids[k].id = old[from[k]].id /\ ListLeft(ids[k].handlers, old[from[k]].handlers, c)
  BY <1>4, <1>6, ListStays DEF IdLeft
<1>9. IdsCtxs(ids) \subseteq IdsCtxs(old)
  <2> SUFFICES ASSUME NEW k \in 1 .. Len(ids), NEW x \in Ctxs(ids[k].handlers) PROVE x \in IdsCtxs(old)
    BY <1>5, <1>7 DEF IdsCtxs
  <2>1. x \in Ctxs(old[from[k]].handlers) /\ from[k] \in DOMAIN old
    BY <1>2, <1>6, <1>8 DEF ListLeft
  <2> QED
    BY <2>1 DEF IdsCtxs
<1>10. IdsCtxs(old) \ {c} \subseteq IdsCtxs(ids)
  <2> SUFFICES ASSUME NEW k \in 1 .. Len(old), NEW x \in Ctxs(old[k].handlers), x # c PROVE x \in IdsCtxs(ids)
    BY <1>2 DEF IdsCtxs
  <2>1. x \in Ctxs(after[k].node.handlers) /\ after[k].node \in IdNodes
    BY <1>4 DEF IdLeft, ListLeft
  <2>2. PICK j \in 1 .. Len(ids) : from[j] = k
    BY <1>6, <2>1, EmptyIs, NothingIn
  <2>3. x \in Ctxs(ids[j].handlers)
    BY <1>8, <2>2 DEF ListLeft
  <2> QED
    BY <1>5, <1>7, <2>3 DEF IdsCtxs
<1>11. ASSUME IdsOK(old) PROVE IdsOK(ids)
  <2>1. \A k \in 1 .. Len(ids) : Once(ids[k].handlers)
    BY <1>2, <1>6, <1>8, <1>11 DEF IdsOK, ListLeft
  <2>2. ASSUME NEW j \in 1 .. Len(ids), NEW k \in 1 .. Len(ids), j # k
        PROVE  ids[j].id # ids[k].id /\ Ctxs(ids[j].handlers) \cap Ctxs(ids[k].handlers) = {}
    <3>1. from[j] # from[k] /\ from[j] \in DOMAIN old /\ from[k] \in DOMAIN old
      BY <1>2, <1>6, <2>2
    <3>2. /\ old[from[j]].id # old[from[k]].id
          /\ Ctxs(old[from[j]].handlers) \cap Ctxs(old[from[k]].handlers) = {}
      BY <1>11, <3>1 DEF IdsOK
    <3>3. /\ Ctxs(ids[j].handlers) \subseteq Ctxs(old[from[j]].handlers)
          /\ Ctxs(ids[k].handlers) \subseteq Ctxs(old[from[k]].handlers)
      BY <1>8 DEF ListLeft
    <3> QED
      BY <1>8, <3>2, <3>3
  <2> QED
    BY <1>5, <1>7, <2>1, <2>2 DEF IdsOK
<1>12. r.ok => c \in IdsCtxs(old)
  <2> SUFFICES ASSUME r.ok PROVE c \in IdsCtxs(old)
    OBVIOUS
  <2>1. PICK k \in DOMAIN old : after[k].ok
    BY <1>1, WalkSucceeds
  <2> QED
    BY <1>2, <1>4, <2>1 DEF IdsCtxs
<1>13. IdsLeft(ids, old, c)
  BY <1>5, <1>7, <1>9, <1>10, <1>11 DEF IdsLeft
<1> QED
  BY <1>1, <1>12, <1>13 DEF old

(* The nodes of a list stay in their order. *)
AtsKept(new, old) ==
  \A i, j \in DOMAIN new : i < j =>
    \E k, l \in DOMAIN old : k < l /\ new[i].at = old[k].at /\ new[j].at = old[l].at

(* ... of a base node, whose own handlers stay when keep holds ... *)
BaseLeft(n, old, c, keep) ==
  /\ n \in BaseNodes /\ n.at = old.at /\ n.base = old.base
  /\ ListLeft(n.handlers, old.handlers, c) /\ (keep => n.handlers = old.handlers)
  /\ IdsLeft(n.ids, old.ids, c)
BasesLeft(bs, old, c, keep) ==
  /\ bs \in Seq(BaseNodes)
  /\ \A j \in DOMAIN bs : \E k \in DOMAIN old : BaseLeft(bs[j], old[k], c, keep)
  /\ \A k \in DOMAIN old : \E n :
       /\ BaseLeft(n, old[k], c, keep)
       /\ \/ \E j \in DOMAIN bs : bs[j] = n
          \/ n.handlers = <<>> /\ n.ids = <<>> /\ c \in BaseCtxs(old[k])
  /\ AtsKept(bs, old) /\ (BasesOK(old) => BasesOK(bs))

(* A base node that is not touched is one that a removal leaves. *)
LEMMA BaseStays == ASSUME NEW n \in BaseNodes, NEW c, NEW keep PROVE BaseLeft(n, n, c, keep)
<1>1. n.ids \in Seq(IdNodes)
  BY DEF BaseNodes
<1>2. IdsLeft(n.ids, n.ids, c)
  BY <1>1 DEF IdsLeft
<1> QED
  BY <1>2, ListStays DEF BaseLeft

(* What a removal leaves of a base node holds its contexts but for c, and  *)
(* is in order if the node was.                                            *)
LEMMA BaseLeftIs ==
  ASSUME NEW n, NEW old, NEW c, NEW keep, BaseLeft(n, old, c, keep)
  PROVE  /\ BaseCtxs(n) \subseteq BaseCtxs(old) /\ BaseCtxs(old) \ {c} \subseteq BaseCtxs(n)
         /\ BaseOK(old) => BaseOK(n)
<1>1. /\ Ctxs(n.handlers) \subseteq Ctxs(old.handlers) /\ Ctxs(old.handlers) \ {c} \subseteq Ctxs(n.handlers)
      /\ Once(old.handlers) => Once(n.handlers)
  BY DEF BaseLeft, ListLeft
<1>2. /\ IdsCtxs(n.ids) \subseteq IdsCtxs(old.ids) /\ IdsCtxs(old.ids) \ {c} \subseteq IdsCtxs(n.ids)
      /\ IdsOK(old.ids) => IdsOK(n.ids)
  BY DEF BaseLeft, IdsLeft
<1>3. BaseOK(old) => BaseOK(n)
  BY <1>1, <1>2 DEF BaseOK
<1> QED
  BY <1>1, <1>2, <1>3 DEF BaseCtxs

(* BaseRemove, for one event, leaves the base node's own handlers alone. *)
LEMMA BaseRemoveLeaves ==
  ASSUME NEW c, NEW match, \A e \in match : e.ctx = c, NEW node \in BaseNodes, NEW id
  PROVE  LET r == BaseRemove(node, id, match)
         IN  BaseLeft(r.node, node, c, id # ANY) /\ (r.ok => c \in BaseCtxs(node))
<1> DEFINE r == BaseRemove(node, id, match)
<1>1. /\ node.handlers \in Seq(Entries) /\ node.ids \in Seq(IdNodes)
      /\ BaseLeft(node, node, c, id # ANY)
  BY BaseStays DEF BaseNodes
<1>2. CASE id = ANY
  <2>1. r = HandlersRemove(node, match)
    BY <1>2 DEF BaseRemove
  <2> HIDE DEF r
  <2>2. /\ r.node = node \/ \E l \in Seq(Entries) :
             r.node = [node EXCEPT !.handlers = l] /\ ListLeft(l, node.handlers, c)
        /\ r.ok => c \in Ctxs(node.handlers)
    BY <1>1, <2>1, HandlersLeft
  <2>3. ASSUME NEW l \in Seq(Entries), r.node = [node EXCEPT !.handlers = l], ListLeft(l, node.handlers, c)
        PROVE  BaseLeft(r.node, node, c, id # ANY)
    <3>1. /\ r.node \in BaseNodes /\ r.node.at = node.at /\ r.node.base = node.base
          /\ r.node.handlers = l /\ r.node.ids = node.ids
      BY <2>3 DEF BaseNodes
    <3> QED
      BY <1>1, <1>2, <2>3, <3>1 DEF BaseLeft
  <2>4. BaseLeft(r.node, node, c, id # ANY)
    BY <1>1, <2>2, <2>3
  <2> QED
    BY <2>2, <2>4 DEF r, BaseCtxs
<1>3. CASE id # ANY
  <2>1. r = IdsRemove(node, id, match)
    BY <1>3 DEF BaseRemove
  <2> HIDE DEF r
  <2>2. PICK ids : r.node = [node EXCEPT !.ids = ids] /\ IdsLeft(ids, node.ids, c)
    BY <2>1, IdsRemoveLeaves
  <2>3. r.ok => c \in IdsCtxs(node.ids)
    BY <2>1, IdsRemoveLeaves
  <2>4. ids \in Seq(IdNodes)
    BY <2>2 DEF IdsLeft
  <2>5. /\ r.node \in BaseNodes /\ r.node.at = node.at /\ r.node.base = node.base
        /\ r.node.handlers = node.handlers /\ r.node.ids = ids
    BY <2>2, <2>4 DEF BaseNodes
  <2>6. BaseLeft(r.node, node, c, id # ANY)
    BY <1>1, <2>2, <2>5 DEF BaseLeft
  <2> QED
    BY <2>3, <2>6 DEF r, BaseCtxs
<1> QED
  BY <1>2, <1>3

(* A loop node that differs from node in its base nodes alone. *)
HasBases(n, node, bs) ==
  n \in LoopNodes /\ n.at = node.at /\ n.handlers = node.handlers /\ n.bases = bs

(* ... and of the base nodes of a loop node. *)
LEMMA BasesRemoveLeaves ==
  ASSUME NEW c, NEW match, \A e \in match : e.ctx = c, NEW node \in LoopNodes, NEW key
  PROVE  LET r == BasesRemove(node, key, match)
         IN  /\ \E bs : HasBases(r.node, node, bs) /\ BasesLeft(bs, node.bases, c, key[2] # ANY)
             /\ r.ok => c \in BasesCtxs(node.bases)
<1> DEFINE old == node.bases
           keep == key[2] # ANY
           after == [k \in DOMAIN old |-> IF old[k].base = key[1]
                                          THEN BaseRemove(old[k], key[2], match)
                                          ELSE [ok |-> FALSE, node |-> old[k]]]
           bs == Walk(old, after).list
           r == BasesRemove(node, key, match)
<1>1. r.node = [node EXCEPT !.bases = bs] /\ r.ok = Walk(old, after).ok
  BY DEF BasesRemove
<1>2. old \in Seq(BaseNodes) /\ DOMAIN old = 1 .. Len(old)
  BY LenProperties DEF LoopNodes
<1> HIDE DEF old
<1>3. \A k \in 1 .. Len(old) : old[k] \in BaseNodes
  BY <1>2, ElementOfSeq
<1>4. ASSUME NEW k \in 1 .. Len(old)
      PROVE  BaseLeft(after[k].node, old[k], c, keep) /\ (after[k].ok => c \in BaseCtxs(old[k]))
  <2>1. CASE old[k].base = key[1]
    <3>1. after[k] = BaseRemove(old[k], key[2], match)
      BY <1>2, <2>1
    <3> QED
      BY <1>3, <3>1, BaseRemoveLeaves
  <2>2. CASE old[k].base # key[1]
    <3>1. after[k] = [ok |-> FALSE, node |-> old[k]]
      BY <1>2, <2>2
    <3> HIDE DEF after
    <3> QED
      BY <1>3, <3>1, BaseStays
  <2> QED
    BY <2>1, <2>2
<1> HIDE DEF after, bs, keep
<1>5. bs \in Seq(BaseNodes) /\ WalkLeaves(bs, old, after)
  <2>1. \A k \in 1 .. Len(old) : after[k].node \in BaseNodes
    BY <1>4 DEF BaseLeft
  <2> QED
    BY <1>2, <2>1, WalkIs DEF bs
<1>6. PICK from \in [1 .. Len(bs) -> 1 .. Len(old)] :
        /\ \A j, k \in 1 .. Len(bs) : from[j] = from[k] => j = k
        /\ \A j, k \in 1 .. Len(bs) : j < k => from[j] < from[k]
        /\ \A k \in 1 .. Len(bs) : bs[k] = old[from[k]] \/ bs[k] = after[from[k]].node
        /\ \A k \in 1 .. Len(old) :
             \/ after[k].ok /\ Empty(after[k].node)
             \/ \E j \in 1 .. Len(bs) : from[j] = k
  BY <1>5 DEF WalkLeaves
<1>7. DOMAIN bs = 1 .. Len(bs)
  BY <1>5, LenProperties
<1>8. \A j \in 1 .. Len(bs) : BaseLeft(bs[j], old[from[j]], c, keep)
  BY <1>3, <1>4, <1>6, BaseStays
<1>9. ASSUME NEW k \in 1 .. Len(old)
      PROVE  \E n : /\ BaseLeft(n, old[k], c, keep)
                    /\ \/ \E j \in DOMAIN bs : bs[j] = n
                       \/ n.handlers = <<>> /\ n.ids = <<>> /\ c \in BaseCtxs(old[k])
  <2>1. CASE \E j \in 1 .. Len(bs) : from[j] = k
    BY <1>7, <1>8, <2>1
  <2>2. CASE after[k].ok /\ Empty(after[k].node)
    <3>1. after[k].node \in BaseNodes
      BY <1>4 DEF BaseLeft
    <3> QED
      BY <1>4, <2>2, <3>1, EmptyIs
  <2> QED
    BY <1>6, <2>1, <2>2
<1>10. ASSUME BasesOK(old) PROVE BasesOK(bs)
  <2>1. \A k \in 1 .. Len(bs) : BaseOK(bs[k])
    BY <1>2, <1>6, <1>8, <1>10, BaseLeftIs DEF BasesOK
  <2>2. ASSUME NEW j \in 1 .. Len(bs), NEW k \in 1 .. Len(bs), j # k
        PROVE  bs[j].at # bs[k].at /\ BaseCtxs(bs[j]) \cap BaseCtxs(bs[k]) = {}
    <3>1. from[j] # from[k] /\ from[j] \in DOMAIN old /\ from[k] \in DOMAIN old
      BY <1>2, <1>6, <2>2
    <3>2. /\ old[from[j]].at # old[from[k]].at
          /\ BaseCtxs(old[from[j]]) \cap BaseCtxs(old[from[k]]) = {}
      BY <1>10, <3>1 DEF BasesOK
    <3>3. /\ BaseCtxs(bs[j]) \subseteq BaseCtxs(old[from[j]]) /\ BaseCtxs(bs[k]) \subseteq BaseCtxs(old[from[k]])
      BY <1>8, BaseLeftIs
    <3>4. bs[j].at = old[from[j]].at /\ bs[k].at = old[from[k]].at
      BY <1>8 DEF BaseLeft
    <3> QED
      BY <3>2, <3>3, <3>4
  <2> QED
    BY <1>7, <2>1, <2>2 DEF BasesOK
<1>11. r.ok => c \in BasesCtxs(old)
  <2> SUFFICES ASSUME r.ok PROVE c \in BasesCtxs(old)
    OBVIOUS
  <2>1. PICK k \in DOMAIN old : after[k].ok
    BY <1>1, WalkSucceeds
  <2> QED
    BY <1>2, <1>4, <2>1 DEF BasesCtxs
<1>12. BasesLeft(bs, old, c, keep)
  <2>1. \A j \in DOMAIN bs : \E k \in DOMAIN old : BaseLeft(bs[j], old[k], c, keep)
    BY <1>2, <1>6, <1>7, <1>8
  <2>2. \A k \in DOMAIN old : \E n :
          /\ BaseLeft(n, old[k], c, keep)
          /\ \/ \E j \in DOMAIN bs : bs[j] = n
             \/ n.handlers = <<>> /\ n.ids = <<>> /\ c \in BaseCtxs(old[k])
    BY <1>2, <1>9
  <2>3. \A j \in DOMAIN bs : from[j] \in DOMAIN old /\ bs[j].at = old[from[j]].at
    BY <1>2, <1>6, <1>7, <1>8 DEF BaseLeft
  <2>4. AtsKept(bs, old)
    BY <1>6, <1>7, <2>3 DEF AtsKept
  <2> QED
    BY <1>5, <1>10, <2>1, <2>2, <2>4 DEF BasesLeft
<1>13. HasBases(r.node, node, bs)
  BY <1>1, <1>5 DEF HasBases, LoopNodes
<1> QED
  BY <1>11, <1>12, <1>13 DEF old, keep

(* The same of a loop node and of the registry. *)
LoopLeft(n, old, c, keep) ==
  /\ n \in LoopNodes /\ n.at = old.at
  /\ ListLeft(n.handlers, old.handlers, c) /\ (keep => n.handlers = old.handlers)
  /\ BasesLeft(n.bases, old.bases, c, keep)
NodesLeft(nodes, old, c, keep) ==
  /\ nodes \in Seq(LoopNodes)
  /\ \A j \in DOMAIN nodes : \E k \in DOMAIN old : LoopLeft(nodes[j], old[k], c, keep)
  /\ \A k \in DOMAIN old : \E n :
       /\ LoopLeft(n, old[k], c, keep)
       /\ \/ \E j \in DOMAIN nodes : nodes[j] = n
          \/ n.handlers = <<>> /\ n.bases = <<>> /\ c \in LoopCtxs(old[k])
  /\ AtsKept(nodes, old) /\ (NodesOK(old) => NodesOK(nodes))

(* A loop node that is not touched is one that a removal leaves. *)
LEMMA LoopStays == ASSUME NEW n \in LoopNodes, NEW c, NEW keep PROVE LoopLeft(n, n, c, keep)
<1>1. n.bases \in Seq(BaseNodes) /\ DOMAIN n.bases = 1 .. Len(n.bases)
  BY LenProperties DEF LoopNodes
<1>2. \A k \in DOMAIN n.bases : BaseLeft(n.bases[k], n.bases[k], c, keep)
  BY <1>1, ElementOfSeq, BaseStays
<1>3. BasesLeft(n.bases, n.bases, c, keep)
  BY <1>1, <1>2 DEF BasesLeft, AtsKept
<1> QED
  BY <1>3, ListStays DEF LoopLeft

(* What a removal leaves of a list of base nodes holds its contexts but    *)
(* for c, at the addresses they had.                                       *)
LEMMA BasesLeftIs ==
  ASSUME NEW bs, NEW old, NEW c, NEW keep, BasesLeft(bs, old, c, keep)
  PROVE  /\ BasesCtxs(bs) \subseteq BasesCtxs(old) /\ BasesCtxs(old) \ {c} \subseteq BasesCtxs(bs)
         /\ BaseAts(bs) \subseteq BaseAts(old)
<1>1. ASSUME NEW j \in DOMAIN bs PROVE BaseCtxs(bs[j]) \subseteq BasesCtxs(old) /\ bs[j].at \in BaseAts(old)
  <2>1. PICK k \in DOMAIN old : BaseLeft(bs[j], old[k], c, keep)
    BY DEF BasesLeft
  <2>2. BaseCtxs(bs[j]) \subseteq BaseCtxs(old[k]) /\ bs[j].at = old[k].at
    BY <2>1, BaseLeftIs DEF BaseLeft
  <2> QED
    BY <2>2 DEF BasesCtxs, BaseAts
<1>2. ASSUME NEW k \in DOMAIN old, NEW x \in BaseCtxs(old[k]), x # c PROVE x \in BasesCtxs(bs)
  <2>1. PICK n : /\ BaseLeft(n, old[k], c, keep)
                 /\ (\E j \in DOMAIN bs : bs[j] = n) \/ (n.handlers = <<>> /\ n.ids = <<>>)
    BY DEF BasesLeft
  <2>2. x \in BaseCtxs(n)
    BY <1>2, <2>1, BaseLeftIs
  <2>3. PICK j \in DOMAIN bs : bs[j] = n
    BY <2>1, <2>2, NothingIn DEF BaseCtxs
  <2> QED
    BY <2>2, <2>3 DEF BasesCtxs
<1> QED
  BY <1>1, <1>2 DEF BasesCtxs, BaseAts

(* The same of a loop node. *)
LEMMA LoopLeftIs ==
  ASSUME NEW n, NEW old, NEW c, NEW keep, LoopLeft(n, old, c, keep)
  PROVE  /\ LoopCtxs(n) \subseteq LoopCtxs(old) /\ LoopCtxs(old) \ {c} \subseteq LoopCtxs(n)
         /\ BaseAts(n.bases) \subseteq BaseAts(old.bases)
         /\ LoopOK(old) => LoopOK(n)
<1>1. /\ Ctxs(n.handlers) \subseteq Ctxs(old.handlers) /\ Ctxs(old.handlers) \ {c} \subseteq Ctxs(n.handlers)
      /\ Once(old.handlers) => Once(n.handlers)
  BY DEF LoopLeft, ListLeft
<1>2. /\ BasesCtxs(n.bases) \subseteq BasesCtxs(old.bases) /\ BasesCtxs(old.bases) \ {c} \subseteq BasesCtxs(n.bases)
      /\ BaseAts(n.bases) \subseteq BaseAts(old.bases)
  BY BasesLeftIs DEF LoopLeft
<1>3. BasesOK(old.bases) => BasesOK(n.bases)
  BY DEF LoopLeft, BasesLeft
<1>4. LoopOK(old) => LoopOK(n)
  BY <1>1, <1>2, <1>3 DEF LoopOK
<1> QED
  BY <1>1, <1>2, <1>4 DEF LoopCtxs

(* A loop node whose own list lost a handler is such a loop node. *)
LEMMA LoopLeftHandlers ==
  ASSUME NEW c, NEW keep, NEW node \in LoopNodes, LoopLeft(node, node, c, keep), ~keep,
         NEW l \in Seq(Entries), ListLeft(l, node.handlers, c),
         NEW n, n = [node EXCEPT !.handlers = l]
  PROVE  LoopLeft(n, node, c, keep)
<1>1. n \in LoopNodes /\ n.at = node.at /\ n.handlers = l /\ n.bases = node.bases
  BY DEF LoopNodes
<1> QED
  BY <1>1 DEF LoopLeft

(* LoopRemove, for one event, leaves the loop node's own handlers alone    *)
(* and those of its base nodes.                                            *)
LEMMA LoopRemoveLeaves ==
  ASSUME NEW c, NEW match, \A e \in match : e.ctx = c, NEW node \in LoopNodes, NEW key
  PROVE  LET r == LoopRemove(node, key, match)
         IN  LoopLeft(r.node, node, c, key[1] # ANY /\ key[2] # ANY) /\ (r.ok => c \in LoopCtxs(node))
<1> DEFINE r == LoopRemove(node, key, match)
           keep == key[1] # ANY /\ key[2] # ANY
<1>1. /\ node.handlers \in Seq(Entries) /\ node.bases \in Seq(BaseNodes)
      /\ LoopLeft(node, node, c, keep)
  BY LoopStays DEF LoopNodes
<1>2. CASE key[1] = ANY
  <2>1. r = HandlersRemove(node, match)
    BY <1>2 DEF LoopRemove
  <2> HIDE DEF r
  <2>2. /\ r.node = node \/ \E l \in Seq(Entries) :
             r.node = [node EXCEPT !.handlers = l] /\ ListLeft(l, node.handlers, c)
        /\ r.ok => c \in Ctxs(node.handlers)
    <3>1. PICK h : h = HandlersRemove(node, match)
      OBVIOUS
    <3>2. node.handlers \in Seq(Entries) /\ \A e \in match : e.ctx = c
      BY <1>1
    <3>3. /\ h.node = node \/ \E l \in Seq(Entries) :
               h.node = [node EXCEPT !.handlers = l] /\ ListLeft(l, node.handlers, c)
          /\ h.ok => c \in Ctxs(node.handlers)
      BY <3>1, <3>2, HandlersLeft
    <3> QED
      BY <2>1, <3>1, <3>3
  <2>3. ASSUME NEW l \in Seq(Entries), r.node = [node EXCEPT !.handlers = l], ListLeft(l, node.handlers, c)
        PROVE  LoopLeft(r.node, node, c, keep)
    BY <1>1, <1>2, <2>3, LoopLeftHandlers
  <2>4. LoopLeft(r.node, node, c, keep)
    BY <1>1, <2>2, <2>3
  <2> QED
    BY <2>2, <2>4 DEF r, LoopCtxs
<1>3. CASE key[1] # ANY
  <2>1. r = BasesRemove(node, key, match)
    BY <1>3 DEF LoopRemove
  <2> HIDE DEF r
  <2>2. PICK bs : HasBases(r.node, node, bs) /\ BasesLeft(bs, node.bases, c, key[2] # ANY)
    BY <2>1, BasesRemoveLeaves
  <2>3. r.ok => c \in BasesCtxs(node.bases)
    BY <2>1, BasesRemoveLeaves
  <2>5. r.node \in LoopNodes /\ r.node.at = node.at /\ r.node.handlers = node.handlers /\ r.node.bases = bs
    BY <2>2 DEF HasBases
  <2>6. keep = (key[2] # ANY)
    BY <1>3
  <2>7. BasesLeft(bs, node.bases, c, keep)
    BY <2>2, <2>6
  <2>8. LoopLeft(r.node, node, c, keep)
    BY <1>1, <2>5, <2>7 DEF LoopLeft
  <2> QED
    BY <2>3, <2>8 DEF r, LoopCtxs
<1> QED
  BY <1>2, <1>3

(* loop_node_remove_handler over all loop nodes, in these terms. *)
LEMMA RemovedLeaves ==
  ASSUME NEW c, NEW match, \A e \in match : e.ctx = c, NEW nodes \in Seq(LoopNodes), NEW key
  PROVE  NodesLeft(Removed(nodes, key, match), nodes, c, key[1] # ANY /\ key[2] # ANY)
<1> DEFINE old == nodes
           keep == key[1] # ANY /\ key[2] # ANY
           after == [k \in DOMAIN old |-> LoopRemove(old[k], key, match)]
           left == Removed(nodes, key, match)
<1>1. left = Walk(old, after).list
  BY DEF Removed
<1>2. old \in Seq(LoopNodes) /\ DOMAIN old = 1 .. Len(old)
  BY LenProperties
<1> HIDE DEF old
<1>3. \A k \in 1 .. Len(old) : old[k] \in LoopNodes
  BY <1>2, ElementOfSeq
<1>4. ASSUME NEW k \in 1 .. Len(old)
      PROVE  LoopLeft(after[k].node, old[k], c, keep) /\ (after[k].ok => c \in LoopCtxs(old[k]))
  <2>1. after[k] = LoopRemove(old[k], key, match)
    BY <1>2
  <2> HIDE DEF after
  <2>2. PICK n \in LoopNodes : n = old[k]
    BY <1>3
  <2>3. PICK r : r = LoopRemove(n, key, match)
    OBVIOUS
  <2>4. LoopLeft(r.node, n, c, key[1] # ANY /\ key[2] # ANY) /\ (r.ok => c \in LoopCtxs(n))
    BY <2>3, LoopRemoveLeaves
  <2> QED
    BY <2>1, <2>2, <2>3, <2>4
<1> HIDE DEF after, left, keep
<1>5. left \in Seq(LoopNodes) /\ WalkLeaves(left, old, after)
  <2>1. \A k \in 1 .. Len(old) : after[k].node \in LoopNodes
    BY <1>4 DEF LoopLeft
  <2> QED
    BY <1>1, <1>2, <2>1, WalkIs
<1>6. PICK from \in [1 .. Len(left) -> 1 .. Len(old)] :
        /\ \A j, k \in 1 .. Len(left) : from[j] = from[k] => j = k
        /\ \A j, k \in 1 .. Len(left) : j < k => from[j] < from[k]
        /\ \A k \in 1 .. Len(left) : left[k] = old[from[k]] \/ left[k] = after[from[k]].node
        /\ \A k \in 1 .. Len(old) :
             \/ after[k].ok /\ Empty(after[k].node)
             \/ \E j \in 1 .. Len(left) : from[j] = k
  BY <1>5 DEF WalkLeaves
<1>7. DOMAIN left = 1 .. Len(left)
  BY <1>5, LenProperties
<1>8. \A j \in 1 .. Len(left) : LoopLeft(left[j], old[from[j]], c, keep)
  BY <1>3, <1>4, <1>6, LoopStays
<1>9. ASSUME NEW k \in 1 .. Len(old)
      PROVE  \E n : /\ LoopLeft(n, old[k], c, keep)
                    /\ \/ \E j \in DOMAIN left : left[j] = n
                       \/ n.handlers = <<>> /\ n.bases = <<>> /\ c \in LoopCtxs(old[k])
  <2>1. CASE \E j \in 1 .. Len(left) : from[j] = k
    BY <1>7, <1>8, <2>1
  <2>2. CASE after[k].ok /\ Empty(after[k].node)
    <3>1. after[k].node \in LoopNodes
      BY <1>4 DEF LoopLeft
    <3> QED
      BY <1>4, <2>2, <3>1, EmptyIs
  <2> QED
    BY <1>6, <2>1, <2>2
<1>10. ASSUME NodesOK(old) PROVE NodesOK(left)
  <2>1. \A k \in 1 .. Len(left) : LoopOK(left[k])
    BY <1>2, <1>6, <1>8, <1>10, LoopLeftIs DEF NodesOK
  <2>2. ASSUME NEW j \in 1 .. Len(left), NEW k \in 1 .. Len(left), j # k
        PROVE  /\ left[j].at # left[k].at
               /\ LoopCtxs(left[j]) \cap LoopCtxs(left[k]) = {}
               /\ BaseAts(left[j].bases) \cap BaseAts(left[k].bases) = {}
    <3>1. from[j] # from[k] /\ from[j] \in DOMAIN old /\ from[k] \in DOMAIN old
      BY <1>2, <1>6, <2>2
    <3>2. /\ old[from[j]].at # old[from[k]].at
          /\ LoopCtxs(old[from[j]]) \cap LoopCtxs(old[from[k]]) = {}
          /\ BaseAts(old[from[j]].bases) \cap BaseAts(old[from[k]].bases) = {}
      BY <1>10, <3>1 DEF NodesOK
    <3>3. /\ LoopCtxs(left[j]) \subseteq LoopCtxs(old[from[j]]) /\ LoopCtxs(left[k]) \subseteq LoopCtxs(old[from[k]])
          /\ BaseAts(left[j].bases) \subseteq BaseAts(old[from[j]].bases)
          /\ BaseAts(left[k].bases) \subseteq BaseAts(old[from[k]].bases)
      BY <1>8, LoopLeftIs
    <3>4. left[j].at = old[from[j]].at /\ left[k].at = old[from[k]].at
      BY <1>8 DEF LoopLeft
    <3> QED
      BY <3>2, <3>3, <3>4
  <2> QED
    BY <1>7, <2>1, <2>2 DEF NodesOK
<1>11. NodesLeft(left, old, c, keep)
  <2>1. \A j \in DOMAIN left : \E k \in DOMAIN old : LoopLeft(left[j], old[k], c, keep)
    BY <1>2, <1>6, <1>7, <1>8
  <2>2. \A k \in DOMAIN old : \E n :
          /\ LoopLeft(n, old[k], c, keep)
          /\ \/ \E j \in DOMAIN left : left[j] = n
             \/ n.handlers = <<>> /\ n.bases = <<>> /\ c \in LoopCtxs(old[k])
    BY <1>2, <1>9
  <2>3. \A j \in DOMAIN left : from[j] \in DOMAIN old /\ left[j].at = old[from[j]].at
    BY <1>2, <1>6, <1>7, <1>8 DEF LoopLeft
  <2>4. AtsKept(left, old)
    BY <1>6, <1>7, <2>3 DEF AtsKept
  <2> QED
    BY <1>5, <1>10, <2>1, <2>2, <2>4 DEF NodesLeft
<1> QED
  BY <1>11 DEF left, old, keep

-----------------------------------------------------------------------------
(* What a removal of c leaves where it was *)

HasBase(nodes, ln, n) ==
  \E j \in DOMAIN nodes : nodes[j].at = ln /\ \E i \in DOMAIN nodes[j].bases : nodes[j].bases[i] = n

(* Nodes stay unless c was below them, lists stay but for c, and with keep *)
(* those of loop and base nodes stay as they are.                          *)
LEMMA RemovalKeeps ==
  ASSUME NEW c, NEW keep, NodesLeft(loop_nodes', loop_nodes, c, keep)
  PROVE  /\ \A ln : AtLoop(ln) => AtLoop(ln)' \/ UnderLoop(c, ln)
         /\ \A b, ln : AtBase(b, ln) => AtBase(b, ln)' \/ UnderBase(c, b)
         /\ \A x, ln : InLoopList(x, ln) /\ (x # c \/ keep) => InLoopList(x, ln)'
         /\ \A x, b, ln : InBaseList(x, b, ln) /\ (x # c \/ keep) => InBaseList(x, b, ln)'
         /\ \A x, b, ln : InIdList(x, b, ln) /\ x # c => InIdList(x, b, ln)'
<1> DEFINE new == loop_nodes'
<1>1. ASSUME NEW k \in DOMAIN loop_nodes
      PROVE  \E n : /\ LoopLeft(n, loop_nodes[k], c, keep)
                    /\ \/ \E j \in DOMAIN new : new[j] = n
                       \/ n.handlers = <<>> /\ n.bases = <<>> /\ c \in LoopCtxs(loop_nodes[k])
  BY DEF NodesLeft
<1>2. ASSUME NEW ln, AtLoop(ln) PROVE AtLoop(ln)' \/ UnderLoop(c, ln)
  <2>1. PICK k \in DOMAIN loop_nodes : loop_nodes[k].at = ln
    BY <1>2 DEF AtLoop
  <2>2. PICK n : /\ LoopLeft(n, loop_nodes[k], c, keep)
                 /\ (\E j \in DOMAIN new : new[j] = n) \/ c \in LoopCtxs(loop_nodes[k])
    BY <1>1
  <2>3. n.at = ln
    BY <2>1, <2>2 DEF LoopLeft
  <2> QED
    BY <2>1, <2>2, <2>3 DEF AtLoop, UnderLoop
<1>3. ASSUME NEW x, NEW ln, InLoopList(x, ln), x # c \/ keep PROVE InLoopList(x, ln)'
  <2>1. PICK k \in DOMAIN loop_nodes : loop_nodes[k].at = ln /\ x \in Ctxs(loop_nodes[k].handlers)
    BY <1>3 DEF InLoopList
  <2>2. PICK n : /\ LoopLeft(n, loop_nodes[k], c, keep)
                 /\ (\E j \in DOMAIN new : new[j] = n) \/ n.handlers = <<>>
    BY <1>1
  <2>3. n.at = ln /\ x \in Ctxs(n.handlers)
    BY <1>3, <2>1, <2>2 DEF LoopLeft, ListLeft
  <2>4. PICK j \in DOMAIN new : new[j] = n
    BY <2>2, <2>3, NothingIn
  <2> QED
    BY <2>3, <2>4 DEF InLoopList
(* A base node that stays is in a loop node that stays. *)
<1>4. ASSUME NEW b, NEW ln, NEW k \in DOMAIN loop_nodes, loop_nodes[k].at = ln,
             NEW m \in DOMAIN loop_nodes[k].bases, loop_nodes[k].bases[m].at = b
      PROVE  \E n : /\ BaseLeft(n, loop_nodes[k].bases[m], c, keep)
                    /\ \/ n.handlers = <<>> /\ n.ids = <<>> /\ c \in BaseCtxs(loop_nodes[k].bases[m])
                       \/ HasBase(loop_nodes', ln, n)
  <2>1. PICK l : /\ LoopLeft(l, loop_nodes[k], c, keep)
                 /\ (\E j \in DOMAIN new : new[j] = l) \/ l.bases = <<>>
    BY <1>1
  <2>2. PICK n : /\ BaseLeft(n, loop_nodes[k].bases[m], c, keep)
                 /\ \/ \E i \in DOMAIN l.bases : l.bases[i] = n
                    \/ n.handlers = <<>> /\ n.ids = <<>> /\ c \in BaseCtxs(loop_nodes[k].bases[m])
    BY <1>4, <2>1 DEF LoopLeft, BasesLeft
  <2>3. CASE \E i \in DOMAIN l.bases : l.bases[i] = n
    <3>1. PICK j \in DOMAIN new : new[j] = l
      BY <2>1, <2>3
    <3>2. new[j].at = ln
      BY <1>4, <2>1, <3>1 DEF LoopLeft
    <3>3. HasBase(loop_nodes', ln, n)
      BY <2>3, <3>1, <3>2 DEF HasBase
    <3> QED
      BY <2>2, <3>3
  <2> QED
    BY <2>2, <2>3
<1>5. ASSUME NEW b, NEW ln, AtBase(b, ln) PROVE AtBase(b, ln)' \/ UnderBase(c, b)
  <2>1. PICK k \in DOMAIN loop_nodes : loop_nodes[k].at = ln
                 /\ \E m \in DOMAIN loop_nodes[k].bases : loop_nodes[k].bases[m].at = b
    BY <1>5 DEF AtBase
  <2>2. PICK m \in DOMAIN loop_nodes[k].bases : loop_nodes[k].bases[m].at = b
    BY <2>1
  <2>3. PICK n : /\ BaseLeft(n, loop_nodes[k].bases[m], c, keep)
                 /\ \/ n.handlers = <<>> /\ n.ids = <<>> /\ c \in BaseCtxs(loop_nodes[k].bases[m])
                    \/ HasBase(loop_nodes', ln, n)
    BY <1>4, <2>1, <2>2
  <2>4. n.at = b
    BY <2>2, <2>3 DEF BaseLeft
  <2> QED
    BY <2>2, <2>3, <2>4 DEF AtBase, HasBase, UnderBase
<1>6. ASSUME NEW x, NEW b, NEW ln, InBaseList(x, b, ln), x # c \/ keep PROVE InBaseList(x, b, ln)'
  <2>1. PICK k \in DOMAIN loop_nodes : /\ loop_nodes[k].at = ln
                 /\ \E m \in DOMAIN loop_nodes[k].bases :
                      loop_nodes[k].bases[m].at = b /\ x \in Ctxs(loop_nodes[k].bases[m].handlers)
    BY <1>6 DEF InBaseList
  <2>2. PICK m \in DOMAIN loop_nodes[k].bases :
          loop_nodes[k].bases[m].at = b /\ x \in Ctxs(loop_nodes[k].bases[m].handlers)
    BY <2>1
  <2>3. PICK n : /\ BaseLeft(n, loop_nodes[k].bases[m], c, keep)
                 /\ \/ n.handlers = <<>>
                    \/ HasBase(loop_nodes', ln, n)
    BY <1>4, <2>1, <2>2
  <2>4. n.at = b /\ x \in Ctxs(n.handlers)
    BY <1>6, <2>2, <2>3 DEF BaseLeft, ListLeft
  <2>5. HasBase(loop_nodes', ln, n)
    BY <2>3, <2>4, NothingIn
  <2> QED
    BY <2>4, <2>5 DEF InBaseList, HasBase
<1>7. ASSUME NEW x, NEW b, NEW ln, InIdList(x, b, ln), x # c PROVE InIdList(x, b, ln)'
  <2>1. PICK k \in DOMAIN loop_nodes : /\ loop_nodes[k].at = ln
                 /\ \E m \in DOMAIN loop_nodes[k].bases :
                      loop_nodes[k].bases[m].at = b /\ x \in IdsCtxs(loop_nodes[k].bases[m].ids)
    BY <1>7 DEF InIdList
  <2>2. PICK m \in DOMAIN loop_nodes[k].bases :
          loop_nodes[k].bases[m].at = b /\ x \in IdsCtxs(loop_nodes[k].bases[m].ids)
    BY <2>1
  <2>3. PICK n : /\ BaseLeft(n, loop_nodes[k].bases[m], c, keep)
                 /\ \/ n.ids = <<>>
                    \/ HasBase(loop_nodes', ln, n)
    BY <1>4, <2>1, <2>2
  <2>4. n.at = b /\ x \in IdsCtxs(n.ids)
    BY <1>7, <2>2, <2>3 DEF BaseLeft, IdsLeft
  <2>5. HasBase(loop_nodes', ln, n)
    BY <2>3, <2>4, NothingIn
  <2> QED
    BY <2>4, <2>5 DEF InIdList, HasBase
<1> QED
  BY <1>2, <1>3, <1>5, <1>6, <1>7

(* Nothing gets anywhere, and the registry stays in order. *)
LEMMA RemovalAddsNothing ==
  ASSUME NEW c, NEW keep, NodesLeft(loop_nodes', loop_nodes, c, keep),
         RegistryInOrder, born' = born
  PROVE  /\ RegistryInOrder'
         /\ \A x, ln : UnderLoop(x, ln)' => UnderLoop(x, ln)
         /\ \A x, b : UnderBase(x, b)' => UnderBase(x, b)
<1> DEFINE new == loop_nodes'
<1>1. ASSUME NEW j \in DOMAIN new
      PROVE  \E k \in DOMAIN loop_nodes :
               /\ new[j].at = loop_nodes[k].at
               /\ LoopCtxs(new[j]) \subseteq LoopCtxs(loop_nodes[k])
               /\ BaseAts(new[j].bases) \subseteq BaseAts(loop_nodes[k].bases)
               /\ BasesLeft(new[j].bases, loop_nodes[k].bases, c, keep)
  <2>1. PICK k \in DOMAIN loop_nodes : LoopLeft(new[j], loop_nodes[k], c, keep)
    BY DEF NodesLeft
  <2> QED
    BY <2>1, LoopLeftIs DEF LoopLeft
<1>2. ASSUME NEW j \in DOMAIN new
      PROVE  {new[j].at} \cup LoopCtxs(new[j]) \cup BaseAts(new[j].bases) \subseteq born
  <2>1. PICK k \in DOMAIN loop_nodes :
               /\ new[j].at = loop_nodes[k].at
               /\ LoopCtxs(new[j]) \subseteq LoopCtxs(loop_nodes[k])
               /\ BaseAts(new[j].bases) \subseteq BaseAts(loop_nodes[k].bases)
    BY <1>1
  <2>2. {loop_nodes[k].at} \cup LoopCtxs(loop_nodes[k]) \cup BaseAts(loop_nodes[k].bases) \subseteq born
    BY DEF RegistryInOrder, AllBorn
  <2> QED
    BY <2>1, <2>2
<1>3. RegistryInOrder'
  <2>1. AllBorn(loop_nodes)'
    BY <1>2 DEF AllBorn
  <2>2. NodesOK(loop_nodes)'
    BY DEF RegistryInOrder, NodesLeft
  <2> QED
    BY <2>1, <2>2 DEF RegistryInOrder, NodesLeft
<1>4. ASSUME NEW x, NEW ln, UnderLoop(x, ln)' PROVE UnderLoop(x, ln)
  BY <1>1, <1>4 DEF UnderLoop
<1>5. ASSUME NEW x, NEW b, UnderBase(x, b)' PROVE UnderBase(x, b)
  <2>1. PICK j \in DOMAIN new : \E m \in DOMAIN new[j].bases :
          new[j].bases[m].at = b /\ x \in BaseCtxs(new[j].bases[m])
    BY <1>5 DEF UnderBase
  <2>2. PICK m \in DOMAIN new[j].bases : new[j].bases[m].at = b /\ x \in BaseCtxs(new[j].bases[m])
    BY <2>1
  <2>3. PICK k \in DOMAIN loop_nodes : BasesLeft(new[j].bases, loop_nodes[k].bases, c, keep)
    BY <1>1
  <2>4. PICK i \in DOMAIN loop_nodes[k].bases : BaseLeft(new[j].bases[m], loop_nodes[k].bases[i], c, keep)
    BY <2>3 DEF BasesLeft
  <2>5. BaseCtxs(new[j].bases[m]) \subseteq BaseCtxs(loop_nodes[k].bases[i])
    BY <2>4, BaseLeftIs
  <2>6. loop_nodes[k].bases[i].at = b
    BY <2>2, <2>4 DEF BaseLeft
  <2> QED
    BY <2>2, <2>5, <2>6 DEF UnderBase
<1> QED
  BY <1>3, <1>4, <1>5

-----------------------------------------------------------------------------
(* Registration *)

(* What a registration of c makes of a list ... *)
ListGrown(l, old, c) ==
  /\ l \in Seq(Entries)
  /\ Ctxs(old) \subseteq Ctxs(l) /\ Ctxs(l) \subseteq Ctxs(old) \cup {c}
  /\ Once(old) /\ c \notin Ctxs(old) => Once(l)

(* handler_instances_add puts the new entry at the end of the list. *)
LEMMA HandlersAddGrows ==
  ASSUME NEW entry \in Entries, NEW l \in Seq(Entries)
  PROVE  ListGrown(HandlersAdd(l, entry, FALSE), l, entry.ctx)
<1> DEFINE r == Append(l, entry)
           c == entry.ctx
<1>1. HandlersAdd(l, entry, FALSE) = r
  BY DEF HandlersAdd
<1>2. PICK p : p \notin DOMAIN l /\ OneSet(r, l, p, entry)
  BY AppendSets
<1>3. r \in Seq(Entries)
  BY AppendSets
<1> HIDE DEF r
<1>4. Ctxs(l) \subseteq Ctxs(r) /\ Ctxs(r) \subseteq Ctxs(l) \cup {c}
  BY <1>2 DEF OneSet, Ctxs
<1>5. Once(l) /\ c \notin Ctxs(l) => Once(r)
  BY <1>2 DEF OneSet, Ctxs, Once
<1> QED
  BY <1>1, <1>3, <1>4, <1>5 DEF ListGrown

(* ... of the id nodes of a base ... *)
IdsGrown(ids, old, c) ==
  /\ ids \in Seq(IdNodes)
  /\ IdsCtxs(old) \subseteq IdsCtxs(ids) /\ IdsCtxs(ids) \subseteq IdsCtxs(old) \cup {c}
  /\ IdsOK(old) /\ c \notin IdsCtxs(old) => IdsOK(ids)

(* A list of id nodes of which one has grown, or is new, has grown by c. *)
LEMMA IdsGrow ==
  ASSUME NEW ids \in Seq(IdNodes), NEW old, NEW c, NEW p, NEW n, OneSet(ids, old, p, n),
         \/ p \in DOMAIN old /\ n.id = old[p].id /\ ListGrown(n.handlers, old[p].handlers, c)
         \/ /\ p \notin DOMAIN old /\ ListGrown(n.handlers, <<>>, c)
            /\ \A k \in DOMAIN old : old[k].id # n.id
  PROVE  IdsGrown(ids, old, c)
<1>1. /\ p \in DOMAIN old => Ctxs(old[p].handlers) \subseteq Ctxs(n.handlers)
      /\ \A x \in Ctxs(n.handlers) : x = c \/ (p \in DOMAIN old /\ x \in Ctxs(old[p].handlers))
  BY NothingIn DEF ListGrown
<1>2. IdsCtxs(old) \subseteq IdsCtxs(ids)
  BY <1>1 DEF OneSet, IdsCtxs
<1>3. IdsCtxs(ids) \subseteq IdsCtxs(old) \cup {c}
  BY <1>1 DEF OneSet, IdsCtxs
<1>4. ASSUME IdsOK(old), c \notin IdsCtxs(old) PROVE IdsOK(ids)
  <2>1. \A k \in DOMAIN old : c \notin Ctxs(old[k].handlers)
    BY <1>4 DEF IdsCtxs
  <2>2. Once(n.handlers)
    BY <1>4, <2>1, NothingIn DEF ListGrown, IdsOK
  <2>3. ASSUME NEW k \in DOMAIN ids, k # p
        PROVE  ids[k].id # ids[p].id /\ Ctxs(ids[k].handlers) \cap Ctxs(ids[p].handlers) = {}
    <3>1. k \in DOMAIN old /\ ids[k] = old[k] /\ ids[p] = n
      BY <2>3 DEF OneSet
    <3>2. p \in DOMAIN old =>
            old[k].id # old[p].id /\ Ctxs(old[k].handlers) \cap Ctxs(old[p].handlers) = {}
      BY <1>4, <2>3, <3>1 DEF IdsOK
    <3> QED
      BY <1>1, <2>1, <3>1, <3>2
  <2>4. ASSUME NEW k \in DOMAIN ids PROVE Once(ids[k].handlers)
    <3>1. CASE k = p
      BY <2>2, <3>1 DEF OneSet
    <3>2. CASE k # p
      <4>1. k \in DOMAIN old /\ ids[k] = old[k]
        BY <3>2 DEF OneSet
      <4> QED
        BY <1>4, <4>1 DEF IdsOK
    <3> QED
      BY <3>1, <3>2
  <2>5. ASSUME NEW j \in DOMAIN ids, NEW k \in DOMAIN ids, j # k
        PROVE  ids[j].id # ids[k].id /\ Ctxs(ids[j].handlers) \cap Ctxs(ids[k].handlers) = {}
    <3>1. CASE j = p
      BY <2>3, <2>5, <3>1
    <3>2. CASE k = p
      BY <2>3, <2>5, <3>2
    <3>3. CASE j # p /\ k # p
      <4>1. j \in DOMAIN old /\ ids[j] = old[j] /\ k \in DOMAIN old /\ ids[k] = old[k]
        BY <3>3 DEF OneSet
      <4> QED
        BY <1>4, <2>5, <4>1 DEF IdsOK
    <3> QED
      BY <3>1, <3>2, <3>3
  <2> QED
    BY <2>4, <2>5 DEF IdsOK
<1> QED
  BY <1>2, <1>3, <1>4 DEF IdsGrown

(* ... of a base node ... *)
BaseGrown(n, old, c) ==
  /\ n \in BaseNodes /\ n.at = old.at /\ n.base = old.base
  /\ \/ ListGrown(n.handlers, old.handlers, c) /\ n.ids = old.ids
     \/ n.handlers = old.handlers /\ IdsGrown(n.ids, old.ids, c)

(* What a registration makes of a base node holds c and what it held, and  *)
(* is in order if c was not in it.                                         *)
LEMMA BaseGrownIs ==
  ASSUME NEW n, NEW old, NEW c, BaseGrown(n, old, c)
  PROVE  /\ BaseCtxs(old) \subseteq BaseCtxs(n) /\ BaseCtxs(n) \subseteq BaseCtxs(old) \cup {c}
         /\ Ctxs(old.handlers) \subseteq Ctxs(n.handlers) /\ IdsCtxs(old.ids) \subseteq IdsCtxs(n.ids)
         /\ BaseOK(old) /\ c \notin BaseCtxs(old) => BaseOK(n)
<1>1. CASE ListGrown(n.handlers, old.handlers, c) /\ n.ids = old.ids
  BY <1>1 DEF ListGrown, BaseCtxs, BaseOK
<1>2. CASE n.handlers = old.handlers /\ IdsGrown(n.ids, old.ids, c)
  BY <1>2 DEF IdsGrown, BaseCtxs, BaseOK
<1> QED
  BY <1>1, <1>2 DEF BaseGrown

(* base_node_add_handler adds the new entry to the base node's handlers or *)
(* to one id node.                                                         *)
LEMMA BaseAddGrows ==
  ASSUME NEW entry \in Entries, NEW node \in BaseNodes, NEW id \in Ids \cup {ANY}
  PROVE  BaseGrown(BaseAdd(node, id, entry, FALSE), node, entry.ctx)
<1> DEFINE c == entry.ctx
           r == BaseAdd(node, id, entry, FALSE)
           same == Positions(node.ids, LAMBDA n : n.id = id)
<1>1. node.handlers \in Seq(Entries) /\ node.ids \in Seq(IdNodes)
  BY DEF BaseNodes
<1>2. CASE id = ANY
  <2>1. r = [node EXCEPT !.handlers = HandlersAdd(node.handlers, entry, FALSE)]
    BY <1>2 DEF BaseAdd
  <2>2. ListGrown(HandlersAdd(node.handlers, entry, FALSE), node.handlers, c)
    BY <1>1, HandlersAddGrows
  <2>3. HandlersAdd(node.handlers, entry, FALSE) \in Seq(Entries)
    BY <2>2 DEF ListGrown
  <2> HIDE DEF r
  <2>4. /\ r \in BaseNodes /\ r.at = node.at /\ r.base = node.base /\ r.ids = node.ids
        /\ r.handlers = HandlersAdd(node.handlers, entry, FALSE)
    BY <2>1, <2>3 DEF BaseNodes
  <2> QED
    BY <2>2, <2>4 DEF BaseGrown, r
<1>3. CASE id # ANY /\ same = {}
  <2> DEFINE new == [id |-> id, handlers |-> <<entry>>]
             ids == Append(node.ids, new)
  <2>1. r = [node EXCEPT !.ids = ids]
    BY <1>3 DEF BaseAdd
  <2>2. new \in IdNodes
    BY <1>3 DEF IdNodes
  <2>3. ListGrown(new.handlers, <<>>, c)
    BY DEF ListGrown, Ctxs, Once
  <2>4. new.handlers = <<entry>> /\ \A k \in DOMAIN node.ids : node.ids[k].id # new.id
    BY <1>3 DEF Positions
  <2> HIDE DEF new
  <2>5. ids \in Seq(IdNodes) /\ \E p : p \notin DOMAIN node.ids /\ OneSet(ids, node.ids, p, new)
    BY <1>1, <2>2, AppendSets
  <2> HIDE DEF ids
  <2>6. IdsGrown(ids, node.ids, c)
    BY <2>3, <2>4, <2>5, IdsGrow
  <2> HIDE DEF r
  <2>7. /\ r \in BaseNodes /\ r.at = node.at /\ r.base = node.base
        /\ r.handlers = node.handlers /\ r.ids = ids
    BY <2>1, <2>5 DEF BaseNodes
  <2> QED
    BY <2>6, <2>7 DEF BaseGrown, r
<1>4. CASE id # ANY /\ same # {}
  <2> DEFINE m == Max(same)
             l == HandlersAdd(node.ids[m].handlers, entry, FALSE)
             new == [node.ids[m] EXCEPT !.handlers = l]
             ids == [node.ids EXCEPT ![m] = new]
  <2>1. m \in DOMAIN node.ids
    <3>1. same \subseteq DOMAIN node.ids /\ DOMAIN node.ids = 1 .. Len(node.ids) /\ Len(node.ids) \in Nat
      BY <1>1, LenProperties DEF Positions
    <3> HIDE DEF same
    <3> QED
      BY <1>4, <3>1, MinMaxArePositions
  <2>2. r = [node EXCEPT !.ids = ids]
    BY <1>4 DEF BaseAdd
  <2> HIDE DEF m, r, same
  <2>3. node.ids[m] \in IdNodes
    BY <1>1, <2>1, ElementOfSeq, LenProperties
  <2>4. node.ids[m].handlers \in Seq(Entries)
    BY <2>3 DEF IdNodes
  <2>5. ListGrown(l, node.ids[m].handlers, c)
    BY <2>4, HandlersAddGrows
  <2>6. l \in Seq(Entries)
    BY <2>5 DEF ListGrown
  <2> HIDE DEF l
  <2>7. new \in IdNodes /\ new.handlers = l /\ new.id = node.ids[m].id
    BY <2>3, <2>6 DEF IdNodes
  <2> HIDE DEF new
  <2>8. ids \in Seq(IdNodes) /\ OneSet(ids, node.ids, m, new)
    BY <1>1, <2>1, <2>7, ExceptSets
  <2> HIDE DEF ids
  <2>9. IdsGrown(ids, node.ids, c)
    BY <2>1, <2>5, <2>7, <2>8, IdsGrow
  <2>10. /\ r \in BaseNodes /\ r.at = node.at /\ r.base = node.base
         /\ r.handlers = node.handlers /\ r.ids = ids
    BY <2>2, <2>8 DEF BaseNodes
  <2> QED
    BY <2>9, <2>10 DEF BaseGrown, r
<1> QED
  BY <1>2, <1>3, <1>4

(* ... of the base nodes of a loop node, one of which may be new ... *)
BasesGrown(bs, old, c) ==
  /\ bs \in Seq(BaseNodes)
  /\ \E p : /\ OneSet(bs, old, p, bs[p])
            /\ p \in DOMAIN old => BaseGrown(bs[p], old[p], c)
            /\ p \notin DOMAIN old => bs[p].at = c /\ BaseCtxs(bs[p]) \subseteq {c} /\ BaseOK(bs[p])

(* Base nodes keep their places, addresses and contexts when one of them   *)
(* grows or a new one comes.                                               *)
LEMMA BasesGrownIs ==
  ASSUME NEW bs, NEW old \in Seq(BaseNodes), NEW c, BasesGrown(bs, old, c)
  PROVE  /\ \A k \in DOMAIN old :
              /\ k \in DOMAIN bs /\ bs[k].at = old[k].at
              /\ Ctxs(old[k].handlers) \subseteq Ctxs(bs[k].handlers)
              /\ IdsCtxs(old[k].ids) \subseteq IdsCtxs(bs[k].ids)
         /\ \A k \in DOMAIN bs :
              \/ k \in DOMAIN old /\ bs[k].at = old[k].at /\ BaseCtxs(bs[k]) \subseteq BaseCtxs(old[k]) \cup {c}
              \/ bs[k].at = c /\ BaseCtxs(bs[k]) \subseteq {c}
         /\ BasesCtxs(bs) \subseteq BasesCtxs(old) \cup {c}
         /\ BaseAts(bs) \subseteq BaseAts(old) \cup {c}
         /\ BasesOK(old) /\ c \notin BasesCtxs(old) \cup BaseAts(old) => BasesOK(bs)
<1>1. PICK p : /\ OneSet(bs, old, p, bs[p])
               /\ p \in DOMAIN old => BaseGrown(bs[p], old[p], c)
               /\ p \notin DOMAIN old => bs[p].at = c /\ BaseCtxs(bs[p]) \subseteq {c} /\ BaseOK(bs[p])
  BY DEF BasesGrown
<1>2. ASSUME NEW k \in DOMAIN old
      PROVE  /\ k \in DOMAIN bs /\ bs[k].at = old[k].at
             /\ Ctxs(old[k].handlers) \subseteq Ctxs(bs[k].handlers)
             /\ IdsCtxs(old[k].ids) \subseteq IdsCtxs(bs[k].ids)
             /\ BaseCtxs(bs[k]) \subseteq BaseCtxs(old[k]) \cup {c}
             /\ BaseOK(old[k]) /\ c \notin BaseCtxs(old[k]) => BaseOK(bs[k])
  <2>1. k \in DOMAIN bs /\ (k = p \/ bs[k] = old[k])
    BY <1>1 DEF OneSet
  <2>2. CASE k = p
    <3>1. BaseGrown(bs[k], old[k], c)
      BY <1>1, <2>2
    <3>2. bs[k].at = old[k].at
      BY <3>1 DEF BaseGrown
    <3> QED
      BY <2>1, <3>1, <3>2, BaseGrownIs
  <2>3. CASE bs[k] = old[k]
    BY <2>1, <2>3
  <2> QED
    BY <2>1, <2>2, <2>3
<1>3. ASSUME NEW k \in DOMAIN bs, k \notin DOMAIN old
      PROVE  k = p /\ bs[k].at = c /\ BaseCtxs(bs[k]) \subseteq {c} /\ BaseOK(bs[k])
  BY <1>1, <1>3 DEF OneSet
<1>4. BasesCtxs(bs) \subseteq BasesCtxs(old) \cup {c}
  <2> SUFFICES ASSUME NEW k \in DOMAIN bs, NEW x \in BaseCtxs(bs[k]) PROVE x = c \/ x \in BasesCtxs(old)
    BY DEF BasesCtxs
  <2>1. x = c \/ (k \in DOMAIN old /\ x \in BaseCtxs(old[k]))
    BY <1>2, <1>3
  <2> QED
    BY <2>1 DEF BasesCtxs
<1>5. BaseAts(bs) \subseteq BaseAts(old) \cup {c}
  BY <1>2, <1>3 DEF BaseAts
<1>6. ASSUME BasesOK(old), c \notin BasesCtxs(old) \cup BaseAts(old) PROVE BasesOK(bs)
  <2>1. ASSUME NEW k \in DOMAIN old PROVE c \notin BaseCtxs(old[k]) /\ c # old[k].at
    BY <1>6 DEF BasesCtxs, BaseAts
  <2>2. ASSUME NEW k \in DOMAIN bs PROVE BaseOK(bs[k])
    BY <1>2, <1>3, <1>6, <2>1 DEF BasesOK
  <2>3. ASSUME NEW k \in DOMAIN bs, k # p
        PROVE  bs[k].at # bs[p].at /\ BaseCtxs(bs[k]) \cap BaseCtxs(bs[p]) = {}
    <3>1. k \in DOMAIN old /\ bs[k] = old[k] /\ p \in DOMAIN bs
      BY <1>1, <2>3 DEF OneSet
    <3>2. CASE p \in DOMAIN old
      <4>1. old[k].at # old[p].at /\ BaseCtxs(old[k]) \cap BaseCtxs(old[p]) = {}
        BY <1>6, <2>3, <3>1, <3>2 DEF BasesOK
      <4>2. bs[p].at = old[p].at /\ BaseCtxs(bs[p]) \subseteq BaseCtxs(old[p]) \cup {c}
        BY <1>2, <3>2
      <4> QED
        BY <2>1, <3>1, <4>1, <4>2
    <3>3. CASE p \notin DOMAIN old
      <4>1. bs[p].at = c /\ BaseCtxs(bs[p]) \subseteq {c}
        BY <1>3, <3>1, <3>3
      <4> QED
        BY <2>1, <3>1, <4>1
    <3> QED
      BY <3>2, <3>3
  <2>4. ASSUME NEW j \in DOMAIN bs, NEW k \in DOMAIN bs, j # k
        PROVE  bs[j].at # bs[k].at /\ BaseCtxs(bs[j]) \cap BaseCtxs(bs[k]) = {}
    <3>1. CASE j = p \/ k = p
      BY <2>3, <2>4, <3>1
    <3>2. CASE j # p /\ k # p
      <4>1. /\ j \in DOMAIN old /\ bs[j] = old[j]
            /\ k \in DOMAIN old /\ bs[k] = old[k]
        BY <1>1, <3>2 DEF OneSet
      <4> QED
        BY <1>6, <2>4, <4>1 DEF BasesOK
    <3> QED
      BY <3>1, <3>2
  <2> QED
    BY <2>2, <2>4 DEF BasesOK
<1>7. ASSUME NEW k \in DOMAIN bs
      PROVE  \/ k \in DOMAIN old /\ bs[k].at = old[k].at /\ BaseCtxs(bs[k]) \subseteq BaseCtxs(old[k]) \cup {c}
             \/ bs[k].at = c /\ BaseCtxs(bs[k]) \subseteq {c}
  BY <1>2, <1>3
<1> QED
  BY <1>2, <1>4, <1>5, <1>6, <1>7

(* ... of a loop node ... *)
LoopGrown(n, old, c) ==
  /\ n \in LoopNodes /\ n.at = old.at
  /\ \/ ListGrown(n.handlers, old.handlers, c) /\ n.bases = old.bases
     \/ n.handlers = old.handlers /\ BasesGrown(n.bases, old.bases, c)

(* The same of what a loop node holds. *)
LEMMA LoopGrownIs ==
  ASSUME NEW n, NEW old \in LoopNodes, NEW c, LoopGrown(n, old, c)
  PROVE  /\ Ctxs(old.handlers) \subseteq Ctxs(n.handlers)
         /\ LoopCtxs(n) \subseteq LoopCtxs(old) \cup {c}
         /\ BaseAts(n.bases) \subseteq BaseAts(old.bases) \cup {c}
         /\ LoopOK(old) /\ c \notin LoopCtxs(old) \cup BaseAts(old.bases) => LoopOK(n)
<1>1. CASE ListGrown(n.handlers, old.handlers, c) /\ n.bases = old.bases
  BY <1>1 DEF ListGrown, LoopCtxs, LoopOK
<1>2. CASE n.handlers = old.handlers /\ BasesGrown(n.bases, old.bases, c)
  <2>1. old.bases \in Seq(BaseNodes)
    BY DEF LoopNodes
  <2>2. /\ BasesCtxs(n.bases) \subseteq BasesCtxs(old.bases) \cup {c}
        /\ BaseAts(n.bases) \subseteq BaseAts(old.bases) \cup {c}
        /\ BasesOK(old.bases) /\ c \notin BasesCtxs(old.bases) \cup BaseAts(old.bases) => BasesOK(n.bases)
    BY <1>2, <2>1, BasesGrownIs
  <2> QED
    BY <1>2, <2>2 DEF LoopCtxs, LoopOK
<1> QED
  BY <1>1, <1>2 DEF LoopGrown

(* A key has a base or any base, and an id or any id. *)
LEMMA KeyIs ==
  ASSUME NEW key \in Keys
  PROVE  key[1] \in Bases \cup {ANY} /\ key[2] \in Ids \cup {ANY}
BY DEF Keys, Events

(* loop_node_add_handler adds the new entry to the loop node's handlers,   *)
(* to one base node or in a new one.                                       *)
LEMMA LoopAddGrows ==
  ASSUME NEW entry \in Entries, NEW node \in LoopNodes, NEW key \in Keys
  PROVE  LoopGrown(LoopAdd(node, key, entry, FALSE), node, entry.ctx)
<1> DEFINE c == entry.ctx
           r == LoopAdd(node, key, entry, FALSE)
           same == Positions(node.bases, LAMBDA n : n.base = key[1])
<1>1. node.handlers \in Seq(Entries) /\ node.bases \in Seq(BaseNodes)
  BY DEF LoopNodes
<1>2. CASE key[1] = ANY
  <2>1. r = [node EXCEPT !.handlers = HandlersAdd(node.handlers, entry, FALSE)]
    BY <1>2 DEF LoopAdd
  <2>2. ListGrown(HandlersAdd(node.handlers, entry, FALSE), node.handlers, c)
    BY <1>1, HandlersAddGrows
  <2>3. HandlersAdd(node.handlers, entry, FALSE) \in Seq(Entries)
    BY <2>2 DEF ListGrown
  <2> HIDE DEF r
  <2>4. /\ r \in LoopNodes /\ r.at = node.at /\ r.bases = node.bases
        /\ r.handlers = HandlersAdd(node.handlers, entry, FALSE)
    BY <2>1, <2>3 DEF LoopNodes
  <2> QED
    BY <2>2, <2>4 DEF LoopGrown, r
<1>3. ASSUME key[1] # ANY, NEW new, new = BaseAdd(NewBase(key[1], entry), key[2], entry, FALSE),
             r = [node EXCEPT !.bases = Append(node.bases, new)]
      PROVE  LoopGrown(r, node, c)
  <2> DEFINE fresh == NewBase(key[1], entry)
             bases == Append(node.bases, new)
  <2>1. c \in Contexts /\ key[1] \in Bases /\ key[2] \in Ids \cup {ANY}
    BY <1>3, KeyIs DEF Entries
  <2>2. /\ fresh \in BaseNodes /\ fresh.at = c /\ fresh.handlers = <<>> /\ fresh.ids = <<>>
    BY <2>1, TracesAssumption DEF NewBase, At, BaseNodes
  <2> HIDE DEF fresh, r
  <2>3. BaseGrown(new, fresh, c)
    BY <1>3, <2>1, <2>2, BaseAddGrows DEF fresh
  <2>4. BaseCtxs(fresh) = {} /\ BaseOK(fresh)
    BY <2>2, NothingIn DEF BaseCtxs, BaseOK, IdsOK
  <2>5. new \in BaseNodes /\ new.at = c /\ BaseCtxs(new) \subseteq {c} /\ BaseOK(new)
    BY <2>2, <2>3, <2>4, BaseGrownIs DEF BaseGrown
  <2>6. bases \in Seq(BaseNodes) /\ \E p : p \notin DOMAIN node.bases /\ OneSet(bases, node.bases, p, new)
    BY <1>1, <2>5, AppendSets
  <2> HIDE DEF bases
  <2>7. BasesGrown(bases, node.bases, c)
    <3>1. PICK p : p \notin DOMAIN node.bases /\ OneSet(bases, node.bases, p, new)
      BY <2>6
    <3>2. bases[p] = new
      BY <3>1 DEF OneSet
    <3> QED
      BY <2>5, <2>6, <3>1, <3>2 DEF BasesGrown
  <2>8. r \in LoopNodes /\ r.at = node.at /\ r.handlers = node.handlers /\ r.bases = bases
    BY <1>3, <2>6 DEF LoopNodes, bases
  <2> QED
    BY <2>7, <2>8 DEF LoopGrown
<1>4. ASSUME key[1] # ANY, same # {}, NEW new, new = BaseAdd(node.bases[Max(same)], key[2], entry, FALSE),
             r = [node EXCEPT !.bases = [node.bases EXCEPT ![Max(same)] = new]]
      PROVE  LoopGrown(r, node, c)
  <2> DEFINE m == Max(same)
             bases == [node.bases EXCEPT ![m] = new]
  <2>1. m \in DOMAIN node.bases
    <3>1. same \subseteq DOMAIN node.bases /\ DOMAIN node.bases = 1 .. Len(node.bases) /\ Len(node.bases) \in Nat
      BY <1>1, LenProperties DEF Positions
    <3> HIDE DEF same
    <3> QED
      BY <1>4, <3>1, MinMaxArePositions
  <2> HIDE DEF m, r, same
  <2>2. node.bases[m] \in BaseNodes /\ key[2] \in Ids \cup {ANY}
    BY <1>1, <2>1, ElementOfSeq, LenProperties, KeyIs
  <2>3. BaseGrown(new, node.bases[m], c)
    BY <1>4, <2>2, BaseAddGrows DEF m
  <2>4. new \in BaseNodes
    BY <2>3 DEF BaseGrown
  <2>5. bases \in Seq(BaseNodes) /\ OneSet(bases, node.bases, m, new)
    BY <1>1, <2>1, <2>4, ExceptSets
  <2>6. r = [node EXCEPT !.bases = bases]
    BY <1>4 DEF m
  <2> HIDE DEF bases
  <2>7. BasesGrown(bases, node.bases, c)
    <3>1. bases[m] = new
      BY <2>5 DEF OneSet
    <3> QED
      BY <2>1, <2>3, <2>5, <3>1 DEF BasesGrown
  <2>8. r \in LoopNodes /\ r.at = node.at /\ r.handlers = node.handlers /\ r.bases = bases
    BY <2>5, <2>6 DEF LoopNodes
  <2> QED
    BY <2>7, <2>8 DEF LoopGrown
<1>5. CASE key[1] # ANY
  <2>1. \/ r = [node EXCEPT !.bases = Append(node.bases, BaseAdd(NewBase(key[1], entry), key[2], entry, FALSE))]
        \/ /\ same # {}
           /\ r = [node EXCEPT !.bases = [node.bases EXCEPT ![Max(same)] =
                                            BaseAdd(node.bases[Max(same)], key[2], entry, FALSE)]]
    BY <1>5 DEF LoopAdd
  <2>2. CASE r = [node EXCEPT !.bases = Append(node.bases, BaseAdd(NewBase(key[1], entry), key[2], entry, FALSE))]
    BY ONLY <1>3, <1>5, <2>2
  <2>3. CASE /\ same # {}
             /\ r = [node EXCEPT !.bases = [node.bases EXCEPT ![Max(same)] =
                                              BaseAdd(node.bases[Max(same)], key[2], entry, FALSE)]]
    BY ONLY <1>4, <1>5, <2>3
  <2> QED
    BY <2>1, <2>2, <2>3
<1> QED
  BY <1>2, <1>5

(* ... and of the registry. *)
NodesGrown(nodes, old, c) ==
  /\ nodes \in Seq(LoopNodes)
  /\ \E p : /\ OneSet(nodes, old, p, nodes[p])
            /\ p \in DOMAIN old => LoopGrown(nodes[p], old[p], c)
            /\ p \notin DOMAIN old =>
                 /\ nodes[p].at = c /\ LoopCtxs(nodes[p]) \subseteq {c}
                 /\ BaseAts(nodes[p].bases) \subseteq {c} /\ LoopOK(nodes[p])

(* A registration adds the new entry to the last loop node or in a new     *)
(* one.                                                                    *)
LEMMA AddedGrows ==
  ASSUME NEW entry \in Entries, NEW nodes \in Seq(LoopNodes), NEW key \in Keys
  PROVE  NodesGrown(Added(nodes, key, entry, FALSE), nodes, entry.ctx)
<1> DEFINE c == entry.ctx
           r == Added(nodes, key, entry, FALSE)
           fresh == NewLoop(entry)
           m == Len(nodes)
<1>1. \/ r = Append(nodes, LoopAdd(fresh, key, entry, FALSE))
      \/ nodes # <<>> /\ r = [nodes EXCEPT ![m] = LoopAdd(nodes[m], key, entry, FALSE)]
  BY DEF Added
<1>2. c \in Contexts
  BY DEF Entries
<1>3. fresh \in LoopNodes /\ fresh.at = c /\ fresh.handlers = <<>> /\ fresh.bases = <<>>
  BY <1>2, TracesAssumption DEF NewLoop, At, LoopNodes
<1> HIDE DEF fresh, r
<1>4. CASE r = Append(nodes, LoopAdd(fresh, key, entry, FALSE))
  <2> DEFINE new == LoopAdd(fresh, key, entry, FALSE)
  <2>1. LoopGrown(new, fresh, c)
    BY <1>3, LoopAddGrows
  <2> HIDE DEF new
  <2>2. /\ LoopCtxs(fresh) = {} /\ BaseAts(fresh.bases) = {} /\ LoopOK(fresh)
    BY <1>3, NothingIn DEF LoopCtxs, BaseAts, LoopOK, BasesOK
  <2>3. /\ new \in LoopNodes /\ new.at = c /\ LoopCtxs(new) \subseteq {c}
        /\ BaseAts(new.bases) \subseteq {c} /\ LoopOK(new)
    BY <1>3, <2>1, <2>2, LoopGrownIs DEF LoopGrown
  <2>4. r \in Seq(LoopNodes) /\ \E p : p \notin DOMAIN nodes /\ OneSet(r, nodes, p, new)
    BY <1>4, <2>3, AppendSets DEF new
  <2>5. PICK p : p \notin DOMAIN nodes /\ OneSet(r, nodes, p, new)
    BY <2>4
  <2>6. r[p] = new
    BY <2>5 DEF OneSet
  <2>7. NodesGrown(r, nodes, c)
    BY <2>3, <2>4, <2>5, <2>6 DEF NodesGrown
  <2> QED
    BY <2>7 DEF r
<1>5. CASE nodes # <<>> /\ r = [nodes EXCEPT ![m] = LoopAdd(nodes[m], key, entry, FALSE)]
  <2> DEFINE new == LoopAdd(nodes[m], key, entry, FALSE)
  <2>1. m \in DOMAIN nodes
    BY <1>5, EmptySeq, LenProperties
  <2>2. nodes[m] \in LoopNodes
    BY <2>1, ElementOfSeq, LenProperties
  <2> HIDE DEF m
  <2>3. LoopGrown(new, nodes[m], c)
    BY <2>2, LoopAddGrows
  <2> HIDE DEF new
  <2>4. new \in LoopNodes
    BY <2>3 DEF LoopGrown
  <2>5. r \in Seq(LoopNodes) /\ OneSet(r, nodes, m, new)
    BY <1>5, <2>1, <2>4, ExceptSets DEF new
  <2>6. r[m] = new
    BY <2>5 DEF OneSet
  <2>7. NodesGrown(r, nodes, c)
    BY <2>1, <2>3, <2>5, <2>6 DEF NodesGrown
  <2> QED
    BY <2>7 DEF r
<1> QED
  BY <1>1, <1>4, <1>5

(* Loop nodes keep their places, addresses and contexts when one of them   *)
(* grows or a new one comes.                                               *)
LEMMA NodesGrownIs ==
  ASSUME NEW nodes, NEW old \in Seq(LoopNodes), NEW c, NodesGrown(nodes, old, c)
  PROVE  /\ \A k \in DOMAIN old :
              /\ k \in DOMAIN nodes /\ nodes[k].at = old[k].at
              /\ Ctxs(old[k].handlers) \subseteq Ctxs(nodes[k].handlers)
              /\ nodes[k].bases = old[k].bases \/ BasesGrown(nodes[k].bases, old[k].bases, c)
         /\ \A k \in DOMAIN nodes :
              \/ /\ k \in DOMAIN old /\ nodes[k].at = old[k].at
                 /\ LoopCtxs(nodes[k]) \subseteq LoopCtxs(old[k]) \cup {c}
                 /\ BaseAts(nodes[k].bases) \subseteq BaseAts(old[k].bases) \cup {c}
              \/ /\ k \notin DOMAIN old /\ nodes[k].at = c /\ LoopCtxs(nodes[k]) \subseteq {c}
                 /\ BaseAts(nodes[k].bases) \subseteq {c}
         /\ NodesOK(old) /\ (\A k \in DOMAIN old :
                c \notin {old[k].at} \cup LoopCtxs(old[k]) \cup BaseAts(old[k].bases)) => NodesOK(nodes)
<1>1. PICK p : /\ OneSet(nodes, old, p, nodes[p])
               /\ p \in DOMAIN old => LoopGrown(nodes[p], old[p], c)
               /\ p \notin DOMAIN old =>
                    /\ nodes[p].at = c /\ LoopCtxs(nodes[p]) \subseteq {c}
                    /\ BaseAts(nodes[p].bases) \subseteq {c} /\ LoopOK(nodes[p])
  BY DEF NodesGrown
<1>2. ASSUME NEW k \in DOMAIN old
      PROVE  /\ k \in DOMAIN nodes /\ nodes[k].at = old[k].at
             /\ Ctxs(old[k].handlers) \subseteq Ctxs(nodes[k].handlers)
             /\ nodes[k].bases = old[k].bases \/ BasesGrown(nodes[k].bases, old[k].bases, c)
             /\ LoopCtxs(nodes[k]) \subseteq LoopCtxs(old[k]) \cup {c}
             /\ BaseAts(nodes[k].bases) \subseteq BaseAts(old[k].bases) \cup {c}
             /\ LoopOK(old[k]) /\ c \notin LoopCtxs(old[k]) \cup BaseAts(old[k].bases) => LoopOK(nodes[k])
  <2>1. k \in DOMAIN nodes /\ (k = p \/ nodes[k] = old[k])
    BY <1>1 DEF OneSet
  <2>2. CASE k = p
    <3>1. LoopGrown(nodes[k], old[k], c)
      BY <1>1, <2>2
    <3>2. /\ nodes[k].at = old[k].at
          /\ nodes[k].bases = old[k].bases \/ BasesGrown(nodes[k].bases, old[k].bases, c)
      BY <3>1 DEF LoopGrown
    <3>3. old[k] \in LoopNodes
      BY ElementOfSeq, LenProperties
    <3> QED
      BY <2>1, <3>1, <3>2, <3>3, LoopGrownIs
  <2>3. CASE nodes[k] = old[k]
    BY <2>1, <2>3
  <2> QED
    BY <2>1, <2>2, <2>3
<1>3. ASSUME NEW k \in DOMAIN nodes, k \notin DOMAIN old
      PROVE  /\ k = p /\ nodes[k].at = c /\ LoopCtxs(nodes[k]) \subseteq {c}
             /\ BaseAts(nodes[k].bases) \subseteq {c} /\ LoopOK(nodes[k])
  BY <1>1, <1>3 DEF OneSet
<1>4. ASSUME NodesOK(old),
             \A k \in DOMAIN old : c \notin {old[k].at} \cup LoopCtxs(old[k]) \cup BaseAts(old[k].bases)
      PROVE  NodesOK(nodes)
  <2>1. ASSUME NEW k \in DOMAIN nodes PROVE LoopOK(nodes[k])
    BY <1>2, <1>3, <1>4 DEF NodesOK
  <2>2. ASSUME NEW k \in DOMAIN nodes, k # p
        PROVE  /\ nodes[k].at # nodes[p].at
               /\ LoopCtxs(nodes[k]) \cap LoopCtxs(nodes[p]) = {}
               /\ BaseAts(nodes[k].bases) \cap BaseAts(nodes[p].bases) = {}
    <3>1. k \in DOMAIN old /\ nodes[k] = old[k] /\ p \in DOMAIN nodes
      BY <1>1, <2>2 DEF OneSet
    <3>2. CASE p \in DOMAIN old
      <4>1. /\ old[k].at # old[p].at
            /\ LoopCtxs(old[k]) \cap LoopCtxs(old[p]) = {}
            /\ BaseAts(old[k].bases) \cap BaseAts(old[p].bases) = {}
        BY <1>4, <2>2, <3>1, <3>2 DEF NodesOK
      <4>2. /\ nodes[p].at = old[p].at /\ LoopCtxs(nodes[p]) \subseteq LoopCtxs(old[p]) \cup {c}
            /\ BaseAts(nodes[p].bases) \subseteq BaseAts(old[p].bases) \cup {c}
        BY <1>2, <3>2
      <4> QED
        BY <1>4, <3>1, <4>1, <4>2
    <3>3. CASE p \notin DOMAIN old
      <4>1. /\ nodes[p].at = c /\ LoopCtxs(nodes[p]) \subseteq {c}
            /\ BaseAts(nodes[p].bases) \subseteq {c}
        BY <1>3, <3>1, <3>3
      <4> QED
        BY <1>4, <3>1, <4>1
    <3> QED
      BY <3>2, <3>3
  <2>3. ASSUME NEW j \in DOMAIN nodes, NEW k \in DOMAIN nodes, j # k
        PROVE  /\ nodes[j].at # nodes[k].at
               /\ LoopCtxs(nodes[j]) \cap LoopCtxs(nodes[k]) = {}
               /\ BaseAts(nodes[j].bases) \cap BaseAts(nodes[k].bases) = {}
    <3>1. CASE j = p \/ k = p
      BY <2>2, <2>3, <3>1
    <3>2. CASE j # p /\ k # p
      <4>1. /\ j \in DOMAIN old /\ nodes[j] = old[j]
            /\ k \in DOMAIN old /\ nodes[k] = old[k]
        BY <1>1, <3>2 DEF OneSet
      <4> QED
        BY <1>4, <2>3, <4>1 DEF NodesOK
    <3> QED
      BY <3>1, <3>2
  <2> QED
    BY <2>1, <2>3 DEF NodesOK
<1>5. ASSUME NEW k \in DOMAIN nodes
      PROVE  \/ /\ k \in DOMAIN old /\ nodes[k].at = old[k].at
                /\ LoopCtxs(nodes[k]) \subseteq LoopCtxs(old[k]) \cup {c}
                /\ BaseAts(nodes[k].bases) \subseteq BaseAts(old[k].bases) \cup {c}
             \/ /\ k \notin DOMAIN old /\ nodes[k].at = c /\ LoopCtxs(nodes[k]) \subseteq {c}
                /\ BaseAts(nodes[k].bases) \subseteq {c}
  BY <1>2, <1>3
<1> QED
  BY <1>2, <1>4, <1>5

(* A registration moves nothing, and puts only what is new anywhere.       *)
LEMMA RegistrationKeeps ==
  ASSUME NEW c, NodesGrown(loop_nodes', loop_nodes, c), RegistryInOrder, c \in Contexts \ born
  PROVE  /\ born' = born \cup {c} => RegistryInOrder'
         /\ \A ln : AtLoop(ln) => AtLoop(ln)'
         /\ \A b, ln : AtBase(b, ln) => AtBase(b, ln)'
         /\ \A x, ln : InLoopList(x, ln) => InLoopList(x, ln)'
         /\ \A x, b, ln : InBaseList(x, b, ln) => InBaseList(x, b, ln)'
         /\ \A x, b, ln : InIdList(x, b, ln) => InIdList(x, b, ln)'
         /\ \A x, ln : UnderLoop(x, ln)' /\ x # c => UnderLoop(x, ln)
         /\ \A x, b : UnderBase(x, b)' /\ x # c => UnderBase(x, b)
<1> DEFINE new == loop_nodes'
<1>1. loop_nodes \in Seq(LoopNodes) /\ new \in Seq(LoopNodes)
  BY DEF RegistryInOrder, NodesGrown
<1>2. ASSUME NEW k \in DOMAIN loop_nodes
      PROVE  /\ k \in DOMAIN new /\ new[k].at = loop_nodes[k].at
             /\ Ctxs(loop_nodes[k].handlers) \subseteq Ctxs(new[k].handlers)
             /\ new[k].bases = loop_nodes[k].bases \/ BasesGrown(new[k].bases, loop_nodes[k].bases, c)
  BY <1>1, NodesGrownIs
<1>3. ASSUME NEW k \in DOMAIN new
      PROVE  \/ /\ k \in DOMAIN loop_nodes /\ new[k].at = loop_nodes[k].at
                /\ LoopCtxs(new[k]) \subseteq LoopCtxs(loop_nodes[k]) \cup {c}
                /\ BaseAts(new[k].bases) \subseteq BaseAts(loop_nodes[k].bases) \cup {c}
             \/ /\ k \notin DOMAIN loop_nodes /\ new[k].at = c /\ LoopCtxs(new[k]) \subseteq {c}
                /\ BaseAts(new[k].bases) \subseteq {c}
  BY <1>1, NodesGrownIs
<1>4. ASSUME NEW k \in DOMAIN loop_nodes
      PROVE  {loop_nodes[k].at} \cup LoopCtxs(loop_nodes[k]) \cup BaseAts(loop_nodes[k].bases) \subseteq born
  BY DEF RegistryInOrder, AllBorn
<1>5. ASSUME NEW k \in DOMAIN loop_nodes, NEW m \in DOMAIN loop_nodes[k].bases
      PROVE  /\ m \in DOMAIN new[k].bases /\ new[k].bases[m].at = loop_nodes[k].bases[m].at
             /\ Ctxs(loop_nodes[k].bases[m].handlers) \subseteq Ctxs(new[k].bases[m].handlers)
             /\ IdsCtxs(loop_nodes[k].bases[m].ids) \subseteq IdsCtxs(new[k].bases[m].ids)
  <2>1. CASE new[k].bases = loop_nodes[k].bases
    BY <2>1
  <2>2. CASE BasesGrown(new[k].bases, loop_nodes[k].bases, c)
    <3>1. loop_nodes[k] \in LoopNodes
      BY <1>1, ElementOfSeq, LenProperties
    <3>2. loop_nodes[k].bases \in Seq(BaseNodes)
      BY <3>1 DEF LoopNodes
    <3> QED
      BY <2>2, <3>2, BasesGrownIs
  <2> QED
    BY <1>2, <2>1, <2>2
<1>6. ASSUME born' = born \cup {c} PROVE RegistryInOrder'
  <2>1. NodesOK(loop_nodes)'
    <3>1. NodesOK(loop_nodes)
      BY DEF RegistryInOrder
    <3>2. \A k \in DOMAIN loop_nodes :
            c \notin {loop_nodes[k].at} \cup LoopCtxs(loop_nodes[k]) \cup BaseAts(loop_nodes[k].bases)
      BY <1>4
    <3> QED
      BY <1>1, <3>1, <3>2, NodesGrownIs
  <2>2. AllBorn(loop_nodes)'
    <3>1. ASSUME NEW k \in DOMAIN new
          PROVE  {new[k].at} \cup LoopCtxs(new[k]) \cup BaseAts(new[k].bases) \subseteq born'
      BY <1>3, <1>4, <1>6
    <3> QED
      BY <3>1 DEF AllBorn
  <2>3. born' \subseteq Contexts
    BY <1>6 DEF RegistryInOrder
  <2> QED
    BY <1>1, <2>1, <2>2, <2>3 DEF RegistryInOrder
<1>7. \A ln : AtLoop(ln) => AtLoop(ln)'
  BY <1>2 DEF AtLoop
<1>8. ASSUME NEW b, NEW ln, AtBase(b, ln) PROVE AtBase(b, ln)'
  <2>1. PICK k \in DOMAIN loop_nodes :
          /\ loop_nodes[k].at = ln
          /\ \E m \in DOMAIN loop_nodes[k].bases : loop_nodes[k].bases[m].at = b
    BY <1>8 DEF AtBase
  <2>2. PICK m \in DOMAIN loop_nodes[k].bases : loop_nodes[k].bases[m].at = b
    BY <2>1
  <2>3. m \in DOMAIN new[k].bases /\ new[k].bases[m].at = b
    BY <1>5, <2>2
  <2> QED
    BY <1>2, <2>1, <2>3 DEF AtBase
<1>9. \A x, ln : InLoopList(x, ln) => InLoopList(x, ln)'
  BY <1>2 DEF InLoopList
<1>10. ASSUME NEW x, NEW b, NEW ln, InBaseList(x, b, ln) PROVE InBaseList(x, b, ln)'
  <2>1. PICK k \in DOMAIN loop_nodes :
          /\ loop_nodes[k].at = ln
          /\ \E m \in DOMAIN loop_nodes[k].bases :
               loop_nodes[k].bases[m].at = b /\ x \in Ctxs(loop_nodes[k].bases[m].handlers)
    BY <1>10 DEF InBaseList
  <2>2. PICK m \in DOMAIN loop_nodes[k].bases :
          loop_nodes[k].bases[m].at = b /\ x \in Ctxs(loop_nodes[k].bases[m].handlers)
    BY <2>1
  <2>3. m \in DOMAIN new[k].bases /\ new[k].bases[m].at = b /\ x \in Ctxs(new[k].bases[m].handlers)
    BY <1>5, <2>2
  <2> QED
    BY <1>2, <2>1, <2>3 DEF InBaseList
<1>11. ASSUME NEW x, NEW b, NEW ln, InIdList(x, b, ln) PROVE InIdList(x, b, ln)'
  <2>1. PICK k \in DOMAIN loop_nodes :
          /\ loop_nodes[k].at = ln
          /\ \E m \in DOMAIN loop_nodes[k].bases :
               loop_nodes[k].bases[m].at = b /\ x \in IdsCtxs(loop_nodes[k].bases[m].ids)
    BY <1>11 DEF InIdList
  <2>2. PICK m \in DOMAIN loop_nodes[k].bases :
          loop_nodes[k].bases[m].at = b /\ x \in IdsCtxs(loop_nodes[k].bases[m].ids)
    BY <2>1
  <2>3. m \in DOMAIN new[k].bases /\ new[k].bases[m].at = b /\ x \in IdsCtxs(new[k].bases[m].ids)
    BY <1>5, <2>2
  <2> QED
    BY <1>2, <2>1, <2>3 DEF InIdList
<1>12. ASSUME NEW x, NEW ln, UnderLoop(x, ln)', x # c PROVE UnderLoop(x, ln)
  <2>1. PICK k \in DOMAIN new : new[k].at = ln /\ x \in LoopCtxs(new[k])
    BY <1>12 DEF UnderLoop
  <2>2. k \in DOMAIN loop_nodes /\ loop_nodes[k].at = ln /\ x \in LoopCtxs(loop_nodes[k])
    BY <1>3, <1>12, <2>1
  <2> QED
    BY <2>2 DEF UnderLoop
<1>13. ASSUME NEW x, NEW b, UnderBase(x, b)', x # c PROVE UnderBase(x, b)
  <2>1. PICK k \in DOMAIN new : \E m \in DOMAIN new[k].bases :
          new[k].bases[m].at = b /\ x \in BaseCtxs(new[k].bases[m])
    BY <1>13 DEF UnderBase
  <2>2. PICK m \in DOMAIN new[k].bases : new[k].bases[m].at = b /\ x \in BaseCtxs(new[k].bases[m])
    BY <2>1
  <2>3. x \in LoopCtxs(new[k])
    BY <2>2 DEF LoopCtxs, BasesCtxs
  <2>4. k \in DOMAIN loop_nodes
    BY <1>3, <1>13, <2>3
  <2>5. CASE new[k].bases = loop_nodes[k].bases
    BY <2>2, <2>4, <2>5 DEF UnderBase
  <2>6. CASE BasesGrown(new[k].bases, loop_nodes[k].bases, c)
    <3>1. loop_nodes[k] \in LoopNodes
      BY <1>1, <2>4, ElementOfSeq, LenProperties
    <3>2. loop_nodes[k].bases \in Seq(BaseNodes)
      BY <3>1 DEF LoopNodes
    <3>3. /\ m \in DOMAIN loop_nodes[k].bases /\ loop_nodes[k].bases[m].at = b
          /\ x \in BaseCtxs(loop_nodes[k].bases[m])
      BY <1>13, <2>2, <2>6, <3>2, BasesGrownIs
    <3> QED
      BY <2>4, <3>3 DEF UnderBase
  <2> QED
    BY <1>2, <2>4, <2>5, <2>6
<1> QED
  BY <1>6, <1>7, <1>8, <1>9, <1>10, <1>11, <1>12, <1>13

-----------------------------------------------------------------------------
(* Reading the lists *)

(* What is in the registry is of its type. *)
LEMMA NodesTyped ==
  ASSUME RegistryInOrder, NEW k \in DOMAIN loop_nodes
  PROVE  /\ loop_nodes[k] \in LoopNodes
         /\ loop_nodes[k].handlers \in Seq(Entries) /\ loop_nodes[k].bases \in Seq(BaseNodes)
         /\ \A m \in DOMAIN loop_nodes[k].bases :
              /\ loop_nodes[k].bases[m] \in BaseNodes
              /\ loop_nodes[k].bases[m].handlers \in Seq(Entries)
              /\ loop_nodes[k].bases[m].ids \in Seq(IdNodes)
              /\ \A i \in DOMAIN loop_nodes[k].bases[m].ids :
                   /\ loop_nodes[k].bases[m].ids[i] \in IdNodes
                   /\ loop_nodes[k].bases[m].ids[i].handlers \in Seq(Entries)
<1>1. loop_nodes[k] \in LoopNodes
  BY ElementOfSeq, LenProperties DEF RegistryInOrder
<1>2. loop_nodes[k].handlers \in Seq(Entries) /\ loop_nodes[k].bases \in Seq(BaseNodes)
  BY <1>1 DEF LoopNodes
<1>3. ASSUME NEW m \in DOMAIN loop_nodes[k].bases
      PROVE  /\ loop_nodes[k].bases[m] \in BaseNodes
             /\ loop_nodes[k].bases[m].handlers \in Seq(Entries)
             /\ loop_nodes[k].bases[m].ids \in Seq(IdNodes)
  <2>1. loop_nodes[k].bases[m] \in BaseNodes
    BY <1>2, ElementOfSeq, LenProperties
  <2> QED
    BY <2>1 DEF BaseNodes
<1>4. ASSUME NEW m \in DOMAIN loop_nodes[k].bases, NEW i \in DOMAIN loop_nodes[k].bases[m].ids
      PROVE  /\ loop_nodes[k].bases[m].ids[i] \in IdNodes
             /\ loop_nodes[k].bases[m].ids[i].handlers \in Seq(Entries)
  <2>1. loop_nodes[k].bases[m].ids[i] \in IdNodes
    BY <1>3, ElementOfSeq, LenProperties
  <2> QED
    BY <2>1 DEF IdNodes
<1> QED
  BY <1>1, <1>2, <1>3, <1>4

(* The base nodes of the registry, by their places. *)
LEMMA AllBasesAre ==
  \A b : b \in AllBases <=>
    \E k \in DOMAIN loop_nodes : \E m \in DOMAIN loop_nodes[k].bases : b = loop_nodes[k].bases[m]
BY DEF AllBases, Range

(* A list of the registry is that of a loop, base or id node ... *)
LEMMA ListsAre ==
  ASSUME NEW l \in Lists
  PROVE  \E k \in DOMAIN loop_nodes :
           \/ l = loop_nodes[k].handlers
           \/ \E m \in DOMAIN loop_nodes[k].bases :
                \/ l = loop_nodes[k].bases[m].handlers
                \/ \E i \in DOMAIN loop_nodes[k].bases[m].ids : l = loop_nodes[k].bases[m].ids[i].handlers
<1>1. CASE \E n \in Range(loop_nodes) : l = n.handlers
  BY <1>1 DEF Range
<1>2. CASE \E b \in AllBases : l = b.handlers
  BY <1>2, AllBasesAre
<1>3. CASE \E b \in AllBases : \E i \in Range(b.ids) : l = i.handlers
  <2>1. PICK b \in AllBases : \E i \in DOMAIN b.ids : l = b.ids[i].handlers
    BY <1>3 DEF Range
  <2> QED
    BY <2>1, AllBasesAre
<1> QED
  BY <1>1, <1>2, <1>3 DEF Lists

(* ... and those lists are all of the registry. *)
LEMMA ListsHold ==
  ASSUME NEW k \in DOMAIN loop_nodes
  PROVE  /\ loop_nodes[k].handlers \in Lists
         /\ \A m \in DOMAIN loop_nodes[k].bases :
              /\ loop_nodes[k].bases[m].handlers \in Lists
              /\ \A i \in DOMAIN loop_nodes[k].bases[m].ids : loop_nodes[k].bases[m].ids[i].handlers \in Lists
<1>1. loop_nodes[k].handlers \in Lists
  BY DEF Lists, Range
<1>2. ASSUME NEW m \in DOMAIN loop_nodes[k].bases PROVE loop_nodes[k].bases[m].handlers \in Lists
  BY AllBasesAre DEF Lists
<1>3. ASSUME NEW m \in DOMAIN loop_nodes[k].bases, NEW i \in DOMAIN loop_nodes[k].bases[m].ids
      PROVE  loop_nodes[k].bases[m].ids[i].handlers \in Lists
  <2>1. loop_nodes[k].bases[m] \in AllBases
    BY AllBasesAre
  <2>2. loop_nodes[k].bases[m].ids[i] \in Range(loop_nodes[k].bases[m].ids)
    BY DEF Range
  <2> QED
    BY <2>1, <2>2 DEF Lists
<1> QED
  BY <1>1, <1>2, <1>3

(* A pointer to a node finds it. *)
LEMMA LoopAtIs ==
  ASSUME NEW ln, AtLoop(ln)
  PROVE  LiveLoop(ln) /\ \E k \in DOMAIN loop_nodes : loop_nodes[k].at = ln /\ LoopAt(ln) = loop_nodes[k]
<1>1. PICK k \in DOMAIN loop_nodes : loop_nodes[k].at = ln
  BY DEF AtLoop
<1>2. loop_nodes[k] \in Range(loop_nodes)
  BY DEF Range
<1>3. LoopAt(ln) \in Range(loop_nodes) /\ LoopAt(ln).at = ln
  BY <1>1, <1>2 DEF LoopAt
<1> QED
  BY <1>1, <1>2, <1>3 DEF Range, LiveLoop

(* A pointer to a base node finds it, and the pointer to its loop node the *)
(* one it is in.                                                           *)
LEMMA BaseAtIs ==
  ASSUME RegistryInOrder, NEW ln, NEW b, AtBase(b, ln)
  PROVE  /\ AtLoop(ln) /\ LiveBase(b)
         /\ \E k \in DOMAIN loop_nodes :
              /\ loop_nodes[k].at = ln /\ LoopAt(ln) = loop_nodes[k]
              /\ \E m \in DOMAIN loop_nodes[k].bases :
                   loop_nodes[k].bases[m].at = b /\ BaseAt(b) = loop_nodes[k].bases[m]
<1>1. PICK k \in DOMAIN loop_nodes :
        loop_nodes[k].at = ln /\ \E m \in DOMAIN loop_nodes[k].bases : loop_nodes[k].bases[m].at = b
  BY DEF AtBase
<1>2. PICK m \in DOMAIN loop_nodes[k].bases : loop_nodes[k].bases[m].at = b
  BY <1>1
<1>3. AtLoop(ln)
  BY <1>1 DEF AtLoop
<1>4. PICK j \in DOMAIN loop_nodes : loop_nodes[j].at = ln /\ LoopAt(ln) = loop_nodes[j]
  BY <1>3, LoopAtIs
<1>5. j = k
  BY <1>1, <1>4 DEF RegistryInOrder, NodesOK
<1>6. BaseAt(b) \in AllBases /\ BaseAt(b).at = b /\ LiveBase(b)
  BY <1>2, AllBasesAre DEF BaseAt, LiveBase
<1>7. PICK i \in DOMAIN loop_nodes : \E n \in DOMAIN loop_nodes[i].bases : BaseAt(b) = loop_nodes[i].bases[n]
  BY <1>6, AllBasesAre
<1>8. PICK n \in DOMAIN loop_nodes[i].bases : BaseAt(b) = loop_nodes[i].bases[n]
  BY <1>7
<1>9. i = k
  <2>1. b \in BaseAts(loop_nodes[i].bases) /\ b \in BaseAts(loop_nodes[k].bases)
    BY <1>2, <1>6, <1>8 DEF BaseAts
  <2> QED
    BY <2>1 DEF RegistryInOrder, NodesOK
<1> QED
  BY <1>1, <1>3, <1>4, <1>5, <1>6, <1>8, <1>9

(* SLIST_FIRST of a list of nodes is one of them. *)
LEMMA FirstNodeIs ==
  ASSUME NEW S, NEW nodes \in Seq(S), FirstNode(nodes) # NULL
  PROVE  \E k \in DOMAIN nodes : nodes[k].at = FirstNode(nodes)
<1>1. nodes # <<>> /\ FirstNode(nodes) = nodes[1].at
  BY DEF FirstNode
<1>2. 1 \in DOMAIN nodes
  BY <1>1, EmptySeq, LenProperties
<1> QED
  BY <1>1, <1>2

(* SLIST_NEXT of a node is another node of the list. *)
LEMMA NextNodeIs ==
  ASSUME NEW S, NEW nodes \in Seq(S), NEW p, \E k \in DOMAIN nodes : nodes[k].at = p,
         \A j, k \in DOMAIN nodes : j # k => nodes[j].at # nodes[k].at,
         NextNode(nodes, p) # NULL
  PROVE  NextNode(nodes, p) # p /\ \E k \in DOMAIN nodes : nodes[k].at = NextNode(nodes, p)
<1> DEFINE k == CHOOSE k \in DOMAIN nodes : nodes[k].at = p
<1>1. k \in DOMAIN nodes /\ nodes[k].at = p
  OBVIOUS
<1>2. k # Len(nodes) /\ NextNode(nodes, p) = nodes[k + 1].at
  BY DEF NextNode
<1> HIDE DEF k
<1>3. DOMAIN nodes = 1 .. Len(nodes) /\ Len(nodes) \in Nat
  BY LenProperties
<1>4. k + 1 \in DOMAIN nodes /\ k + 1 # k
  BY <1>1, <1>2, <1>3
<1> QED
  BY <1>1, <1>2, <1>4

(* SLIST_FIRST of a list of handlers is one of them. *)
LEMMA FirstHandlerIs ==
  ASSUME NEW l \in Seq(Entries), FirstHandler(l) # NULL
  PROVE  FirstHandler(l) \in Ctxs(l)
<1>1. l # <<>> /\ FirstHandler(l) = l[1].ctx
  BY DEF FirstHandler
<1>2. 1 \in DOMAIN l
  BY <1>1, EmptySeq, LenProperties
<1> QED
  BY <1>1, <1>2 DEF Ctxs

(* A context is in one place only. *)
LEMMA InLoopListIs ==
  ASSUME RegistryInOrder, NEW x, NEW ln, InLoopList(x, ln),
         NEW k \in DOMAIN loop_nodes, x \in LoopCtxs(loop_nodes[k])
  PROVE  /\ loop_nodes[k].at = ln /\ x \in Ctxs(loop_nodes[k].handlers)
         /\ x \notin BasesCtxs(loop_nodes[k].bases)
<1>1. PICK j \in DOMAIN loop_nodes : loop_nodes[j].at = ln /\ x \in Ctxs(loop_nodes[j].handlers)
  BY DEF InLoopList
<1>2. x \in LoopCtxs(loop_nodes[j])
  BY <1>1 DEF LoopCtxs
<1>3. j = k
  BY <1>2 DEF RegistryInOrder, NodesOK
<1>4. LoopOK(loop_nodes[k])
  BY DEF RegistryInOrder, NodesOK
<1> QED
  BY <1>1, <1>3, <1>4 DEF LoopOK

(* A handler of a base node is in that list and nowhere else. *)
LEMMA InBaseListIs ==
  ASSUME RegistryInOrder, NEW x, NEW b, NEW ln, InBaseList(x, b, ln),
         NEW k \in DOMAIN loop_nodes, x \in LoopCtxs(loop_nodes[k])
  PROVE  /\ loop_nodes[k].at = ln /\ x \notin Ctxs(loop_nodes[k].handlers)
         /\ \A m \in DOMAIN loop_nodes[k].bases : x \in BaseCtxs(loop_nodes[k].bases[m]) =>
              /\ loop_nodes[k].bases[m].at = b /\ x \in Ctxs(loop_nodes[k].bases[m].handlers)
              /\ x \notin IdsCtxs(loop_nodes[k].bases[m].ids)
<1>1. PICK j \in DOMAIN loop_nodes :
        /\ loop_nodes[j].at = ln
        /\ \E m \in DOMAIN loop_nodes[j].bases :
             loop_nodes[j].bases[m].at = b /\ x \in Ctxs(loop_nodes[j].bases[m].handlers)
  BY DEF InBaseList
<1>2. PICK n \in DOMAIN loop_nodes[j].bases :
        loop_nodes[j].bases[n].at = b /\ x \in Ctxs(loop_nodes[j].bases[n].handlers)
  BY <1>1
<1>3. x \in BaseCtxs(loop_nodes[j].bases[n])
  BY <1>2 DEF BaseCtxs
<1>4. x \in BasesCtxs(loop_nodes[j].bases)
  BY <1>3 DEF BasesCtxs
<1>5. j = k
  BY <1>4 DEF LoopCtxs, RegistryInOrder, NodesOK
<1>6. LoopOK(loop_nodes[k])
  BY DEF RegistryInOrder, NodesOK
<1>7. x \notin Ctxs(loop_nodes[k].handlers) /\ BasesOK(loop_nodes[k].bases)
  BY <1>4, <1>5, <1>6 DEF LoopOK
<1>8. ASSUME NEW m \in DOMAIN loop_nodes[k].bases, x \in BaseCtxs(loop_nodes[k].bases[m])
      PROVE  m = n /\ BaseOK(loop_nodes[k].bases[m])
  BY <1>3, <1>5, <1>7, <1>8 DEF BasesOK
<1> QED
  BY <1>1, <1>2, <1>5, <1>7, <1>8 DEF BaseOK

(* A handler of an id node is below one base node and nowhere else. *)
LEMMA InIdListIs ==
  ASSUME RegistryInOrder, NEW x, NEW b, NEW ln, InIdList(x, b, ln),
         NEW k \in DOMAIN loop_nodes, x \in LoopCtxs(loop_nodes[k])
  PROVE  /\ loop_nodes[k].at = ln /\ x \notin Ctxs(loop_nodes[k].handlers)
         /\ \A m \in DOMAIN loop_nodes[k].bases : x \in BaseCtxs(loop_nodes[k].bases[m]) =>
              /\ loop_nodes[k].bases[m].at = b /\ x \in IdsCtxs(loop_nodes[k].bases[m].ids)
              /\ x \notin Ctxs(loop_nodes[k].bases[m].handlers)
<1>1. PICK j \in DOMAIN loop_nodes :
        /\ loop_nodes[j].at = ln
        /\ \E m \in DOMAIN loop_nodes[j].bases :
             loop_nodes[j].bases[m].at = b /\ x \in IdsCtxs(loop_nodes[j].bases[m].ids)
  BY DEF InIdList
<1>2. PICK n \in DOMAIN loop_nodes[j].bases :
        loop_nodes[j].bases[n].at = b /\ x \in IdsCtxs(loop_nodes[j].bases[n].ids)
  BY <1>1
<1>3. x \in BaseCtxs(loop_nodes[j].bases[n])
  BY <1>2 DEF BaseCtxs
<1>4. x \in BasesCtxs(loop_nodes[j].bases)
  BY <1>3 DEF BasesCtxs
<1>5. j = k
  BY <1>4 DEF LoopCtxs, RegistryInOrder, NodesOK
<1>6. LoopOK(loop_nodes[k])
  BY DEF RegistryInOrder, NodesOK
<1>7. x \notin Ctxs(loop_nodes[k].handlers) /\ BasesOK(loop_nodes[k].bases)
  BY <1>4, <1>5, <1>6 DEF LoopOK
<1>8. ASSUME NEW m \in DOMAIN loop_nodes[k].bases, x \in BaseCtxs(loop_nodes[k].bases[m])
      PROVE  m = n /\ BaseOK(loop_nodes[k].bases[m])
  BY <1>3, <1>5, <1>7, <1>8 DEF BasesOK
<1> QED
  BY <1>1, <1>2, <1>5, <1>7, <1>8 DEF BaseOK

(* The entries of every list are among those of the registry. *)
LEMMA EntriesOfLists ==
  ASSUME RegistryInOrder, NEW k \in DOMAIN loop_nodes
  PROVE  /\ Range(loop_nodes[k].handlers) \subseteq AllEntries
         /\ \A m \in DOMAIN loop_nodes[k].bases :
              /\ Range(loop_nodes[k].bases[m].handlers) \subseteq AllEntries
              /\ \A i \in DOMAIN loop_nodes[k].bases[m].ids :
                   Range(loop_nodes[k].bases[m].ids[i].handlers) \subseteq AllEntries
<1> DEFINE n == loop_nodes[k]
<1>1. n \in Range(loop_nodes)
  BY DEF Range
<1>2. Range(n.handlers) \subseteq AllEntries
  <2>1. Range(n.handlers) \subseteq RegisteredAt(<<ANY, ANY>>)
    BY <1>1 DEF RegisteredAt
  <2>2. <<ANY, ANY>> \in Keys
    BY DEF Keys
  <2> QED
    BY <2>1, <2>2 DEF AllEntries
<1>3. ASSUME NEW m \in DOMAIN n.bases
      PROVE  /\ Range(n.bases[m].handlers) \subseteq AllEntries
             /\ \A i \in DOMAIN n.bases[m].ids : Range(n.bases[m].ids[i].handlers) \subseteq AllEntries
  <2> DEFINE b == n.bases[m]
             key == <<b.base, ANY>>
  <2>1. b \in Range(n.bases) /\ b \in BaseNodes
    BY NodesTyped DEF Range
  <2>2. b.base \in Bases /\ b.base # ANY
    BY <2>1, AnyAssumption DEF BaseNodes
  <2>3. Range(b.handlers) \subseteq AllEntries
    <3>1. key[1] = b.base /\ key[2] = ANY /\ key \in Keys
      BY <2>2 DEF Keys
    <3> HIDE DEF key
    <3>2. Range(b.handlers) \subseteq RegisteredAt(key)
      BY <1>1, <2>1, <2>2, <3>1 DEF RegisteredAt
    <3> QED
      BY <3>1, <3>2 DEF AllEntries
  <2>4. ASSUME NEW i \in DOMAIN b.ids PROVE Range(b.ids[i].handlers) \subseteq AllEntries
    <3> DEFINE of == <<b.base, b.ids[i].id>>
    <3>1. b.ids[i] \in IdNodes
      BY NodesTyped
    <3>2. b.ids[i].id \in Ids /\ b.ids[i].id # ANY
      BY <3>1, AnyAssumption DEF IdNodes
    <3>3. of[1] = b.base /\ of[2] = b.ids[i].id /\ of \in Keys
      BY <2>2, <3>2 DEF Keys, Events
    <3> HIDE DEF of
    <3>4. b.ids[i] \in {j \in {b.ids[h] : h \in DOMAIN b.ids} : j.id = of[2]}
      BY <3>3
    <3>5. b \in {c \in Range(n.bases) : c.base = of[1]}
      BY <2>1, <3>3
    <3> HIDE DEF b, n
    <3>6. Range(b.ids[i].handlers) \subseteq RegisteredAt(of)
      BY <1>1, <2>2, <3>2, <3>3, <3>4, <3>5 DEF RegisteredAt
    <3> QED
      BY <3>3, <3>6 DEF AllEntries
  <2> QED
    BY <2>3, <2>4
<1> QED
  BY <1>2, <1>3

(* The list a context is in, and what that says of it. *)
LEMMA HereIs ==
  ASSUME RegistryInOrder, NEW x, Here(x)
  PROVE  \E l \in Lists : /\ l \in Seq(Entries) /\ x \in Ctxs(l)
                          /\ Range(l) \subseteq AllEntries
                          /\ \E k \in DOMAIN loop_nodes : Ctxs(l) \subseteq LoopCtxs(loop_nodes[k])
<1>1. CASE InLoopList(x, loop_node)
  <2>1. PICK k \in DOMAIN loop_nodes : x \in Ctxs(loop_nodes[k].handlers)
    BY <1>1 DEF InLoopList
  <2>2. Ctxs(loop_nodes[k].handlers) \subseteq LoopCtxs(loop_nodes[k])
    BY DEF LoopCtxs
  <2> QED
    BY <2>1, <2>2, ListsHold, NodesTyped, EntriesOfLists
<1>2. CASE InBaseList(x, base_node, loop_node)
  <2>1. PICK k \in DOMAIN loop_nodes : \E m \in DOMAIN loop_nodes[k].bases :
          x \in Ctxs(loop_nodes[k].bases[m].handlers)
    BY <1>2 DEF InBaseList
  <2>2. PICK m \in DOMAIN loop_nodes[k].bases : x \in Ctxs(loop_nodes[k].bases[m].handlers)
    BY <2>1
  <2>3. Ctxs(loop_nodes[k].bases[m].handlers) \subseteq LoopCtxs(loop_nodes[k])
    BY DEF LoopCtxs, BasesCtxs, BaseCtxs
  <2> QED
    BY <2>2, <2>3, ListsHold, NodesTyped, EntriesOfLists
<1>3. CASE InIdList(x, base_node, loop_node)
  <2>1. PICK k \in DOMAIN loop_nodes : \E m \in DOMAIN loop_nodes[k].bases :
          x \in IdsCtxs(loop_nodes[k].bases[m].ids)
    BY <1>3 DEF InIdList
  <2>2. PICK m \in DOMAIN loop_nodes[k].bases : x \in IdsCtxs(loop_nodes[k].bases[m].ids)
    BY <2>1
  <2>3. PICK i \in DOMAIN loop_nodes[k].bases[m].ids : x \in Ctxs(loop_nodes[k].bases[m].ids[i].handlers)
    BY <2>2 DEF IdsCtxs
  <2>4. Ctxs(loop_nodes[k].bases[m].ids[i].handlers) \subseteq LoopCtxs(loop_nodes[k])
    BY DEF LoopCtxs, BasesCtxs, BaseCtxs, IdsCtxs
  <2> QED
    BY <2>3, <2>4, ListsHold, NodesTyped, EntriesOfLists
<1> QED
  BY <1>1, <1>2, <1>3 DEF Here

(* A handler of the list that is walked has not been freed. *)
LEMMA HereIsLive ==
  ASSUME RegistryInOrder, NEW x, Here(x)
  PROVE  LiveHandler(x) /\ x \in born /\ x # NULL
<1>1. PICK l \in Lists : /\ l \in Seq(Entries) /\ x \in Ctxs(l)
                         /\ Range(l) \subseteq AllEntries
                         /\ \E k \in DOMAIN loop_nodes : Ctxs(l) \subseteq LoopCtxs(loop_nodes[k])
  BY HereIs
<1>2. LiveHandler(x)
  BY <1>1 DEF LiveHandler, Ctxs, Range
<1>3. x \in born
  BY <1>1 DEF RegistryInOrder, AllBorn
<1>4. x \in Contexts
  BY <1>3 DEF RegistryInOrder
<1> QED
  BY <1>2, <1>3, <1>4, TracesAssumption

(* It is below the loop node and the base node that are visited, and no    *)
(* other.                                                                  *)
LEMMA HereOnly ==
  ASSUME RegistryInOrder, NEW x, Here(x)
  PROVE  /\ \A ln : UnderLoop(x, ln) => ln = loop_node
         /\ list # "loop" => \A b : UnderBase(x, b) => b = base_node
<1>1. ASSUME NEW ln, UnderLoop(x, ln) PROVE ln = loop_node
  <2>1. PICK k \in DOMAIN loop_nodes : loop_nodes[k].at = ln /\ x \in LoopCtxs(loop_nodes[k])
    BY <1>1 DEF UnderLoop
  <2> QED
    BY <2>1, InLoopListIs, InBaseListIs, InIdListIs DEF Here
<1>2. ASSUME list # "loop", NEW b, UnderBase(x, b) PROVE b = base_node
  <2>1. PICK k \in DOMAIN loop_nodes : \E m \in DOMAIN loop_nodes[k].bases :
          loop_nodes[k].bases[m].at = b /\ x \in BaseCtxs(loop_nodes[k].bases[m])
    BY <1>2 DEF UnderBase
  <2>2. PICK m \in DOMAIN loop_nodes[k].bases :
          loop_nodes[k].bases[m].at = b /\ x \in BaseCtxs(loop_nodes[k].bases[m])
    BY <2>1
  <2>3. x \in LoopCtxs(loop_nodes[k])
    BY <2>2 DEF LoopCtxs, BasesCtxs
  <2> QED
    BY <1>2, <2>2, <2>3, InBaseListIs, InIdListIs DEF Here
<1> QED
  BY <1>1, <1>2

(* A list that holds a context of the one walked is the one walked. *)
LEMMA ListHere ==
  ASSUME RegistryInOrder, NEW x, Here(x), NEW l \in Lists, x \in Ctxs(l)
  PROVE  l \in Seq(Entries) /\ Once(l) /\ \A y \in Ctxs(l) : Here(y)
<1>1. PICK k \in DOMAIN loop_nodes :
        \/ l = loop_nodes[k].handlers
        \/ \E m \in DOMAIN loop_nodes[k].bases :
             \/ l = loop_nodes[k].bases[m].handlers
             \/ \E i \in DOMAIN loop_nodes[k].bases[m].ids : l = loop_nodes[k].bases[m].ids[i].handlers
  BY ListsAre
<1>2. LoopOK(loop_nodes[k])
  BY DEF RegistryInOrder, NodesOK
<1>3. CASE l = loop_nodes[k].handlers
  <2>1. x \in LoopCtxs(loop_nodes[k])
    BY <1>3 DEF LoopCtxs
  <2>2. list = "loop" /\ InLoopList(x, loop_node)
    BY <1>3, <2>1, InBaseListIs, InIdListIs DEF Here
  <2>3. loop_nodes[k].at = loop_node
    BY <2>1, <2>2, InLoopListIs
  <2> QED
    BY <1>2, <1>3, <2>2, <2>3, NodesTyped DEF LoopOK, Here, InLoopList
<1>4. ASSUME NEW m \in DOMAIN loop_nodes[k].bases, l = loop_nodes[k].bases[m].handlers
      PROVE  l \in Seq(Entries) /\ Once(l) /\ \A y \in Ctxs(l) : Here(y)
  <2>1. x \in BaseCtxs(loop_nodes[k].bases[m])
    BY <1>4 DEF BaseCtxs
  <2>2. x \in BasesCtxs(loop_nodes[k].bases) /\ x \in LoopCtxs(loop_nodes[k])
    BY <2>1 DEF BasesCtxs, LoopCtxs
  <2>3. list = "base" /\ InBaseList(x, base_node, loop_node)
    BY <1>4, <2>1, <2>2, InLoopListIs, InIdListIs DEF Here
  <2>4. loop_nodes[k].at = loop_node /\ loop_nodes[k].bases[m].at = base_node
    BY <2>1, <2>2, <2>3, InBaseListIs
  <2>5. BaseOK(loop_nodes[k].bases[m])
    BY <1>2 DEF LoopOK, BasesOK
  <2> QED
    BY <1>4, <2>3, <2>4, <2>5, NodesTyped DEF BaseOK, Here, InBaseList
<1>5. ASSUME NEW m \in DOMAIN loop_nodes[k].bases, NEW i \in DOMAIN loop_nodes[k].bases[m].ids,
             l = loop_nodes[k].bases[m].ids[i].handlers
      PROVE  l \in Seq(Entries) /\ Once(l) /\ \A y \in Ctxs(l) : Here(y)
  <2>1. Ctxs(l) \subseteq IdsCtxs(loop_nodes[k].bases[m].ids)
    BY <1>5 DEF IdsCtxs
  <2>2. x \in BaseCtxs(loop_nodes[k].bases[m])
    BY <2>1 DEF BaseCtxs
  <2>3. x \in BasesCtxs(loop_nodes[k].bases) /\ x \in LoopCtxs(loop_nodes[k])
    BY <2>2 DEF BasesCtxs, LoopCtxs
  <2>4. list = "id" /\ InIdList(x, base_node, loop_node)
    BY <2>1, <2>2, <2>3, InLoopListIs, InBaseListIs DEF Here
  <2>5. loop_nodes[k].at = loop_node /\ loop_nodes[k].bases[m].at = base_node
    BY <2>2, <2>3, <2>4, InIdListIs
  <2>6. BaseOK(loop_nodes[k].bases[m])
    BY <1>2 DEF LoopOK, BasesOK
  <2>7. Once(l)
    BY <1>5, <2>6 DEF BaseOK, IdsOK
  <2>8. \A y \in Ctxs(l) : InIdList(y, base_node, loop_node)
    BY <2>1, <2>5 DEF InIdList
  <2> QED
    BY <1>5, <2>4, <2>7, <2>8, NodesTyped DEF Here
<1> QED
  BY <1>1, <1>3, <1>4, <1>5

(* SLIST_NEXT of a handler of the list that is walked is another handler   *)
(* of it.                                                                  *)
LEMMA NextHandlerIs ==
  ASSUME RegistryInOrder, NEW x, Here(x), NextHandler(x) # NULL
  PROVE  Here(NextHandler(x)) /\ NextHandler(x) # x
<1> DEFINE l == CHOOSE l \in Lists : x \in {e.ctx : e \in Range(l)}
           k == CHOOSE k \in DOMAIN l : l[k].ctx = x
<1>1. \A s : Ctxs(s) = {e.ctx : e \in Range(s)}
  BY DEF Ctxs, Range
<1>2. \E s \in Lists : x \in {e.ctx : e \in Range(s)}
  BY <1>1, HereIs
<1>3. l \in Lists /\ x \in Ctxs(l)
  <2>1. l \in Lists /\ x \in {e.ctx : e \in Range(l)}
    BY <1>2, Zenon
  <2> HIDE DEF l
  <2> QED
    BY <1>1, <2>1
<1>4. NextHandler(x) = IF k = Len(l) THEN NULL ELSE l[k + 1].ctx
  BY DEF NextHandler
<1> HIDE DEF l
<1>5. l \in Seq(Entries) /\ Once(l) /\ \A y \in Ctxs(l) : Here(y)
  BY <1>3, ListHere
<1>6. DOMAIN l = 1 .. Len(l) /\ Len(l) \in Nat
  BY <1>5, LenProperties
<1>7. k \in DOMAIN l /\ l[k].ctx = x
  BY <1>3 DEF Ctxs
<1> HIDE DEF k
<1>8. NextHandler(x) = l[k + 1].ctx /\ k # Len(l)
  BY <1>4
<1>9. k + 1 \in DOMAIN l /\ k + 1 # k
  BY <1>6, <1>7, <1>8
<1>10. NextHandler(x) \in Ctxs(l)
  BY <1>8, <1>9 DEF Ctxs
<1>11. NextHandler(x) # x
  BY <1>5, <1>7, <1>8, <1>9 DEF Once
<1> QED
  BY <1>5, <1>10, <1>11

-----------------------------------------------------------------------------
(* The walk *)

(* A step that leaves the registry alone leaves everything where it is. *)
LEMMA RegistryStays ==
  ASSUME RegistryInOrder, UNCHANGED <<loop_nodes, born>>
  PROVE  /\ RegistryInOrder'
         /\ \A ln : AtLoop(ln) <=> AtLoop(ln)'
         /\ \A b, ln : AtBase(b, ln) <=> AtBase(b, ln)'
         /\ \A x, ln : InLoopList(x, ln) <=> InLoopList(x, ln)'
         /\ \A x, b, ln : InBaseList(x, b, ln) <=> InBaseList(x, b, ln)'
         /\ \A x, b, ln : InIdList(x, b, ln) <=> InIdList(x, b, ln)'
         /\ \A x, ln : UnderLoop(x, ln) <=> UnderLoop(x, ln)'
         /\ \A x, b : UnderBase(x, b) <=> UnderBase(x, b)'
<1>1. RegistryInOrder'
  BY DEF RegistryInOrder, AllBorn
<1>2. /\ \A ln : AtLoop(ln) <=> AtLoop(ln)'
      /\ \A b, ln : AtBase(b, ln) <=> AtBase(b, ln)'
  BY DEF AtLoop, AtBase
<1>3. /\ \A x, ln : InLoopList(x, ln) <=> InLoopList(x, ln)'
      /\ \A x, b, ln : InBaseList(x, b, ln) <=> InBaseList(x, b, ln)'
      /\ \A x, b, ln : InIdList(x, b, ln) <=> InIdList(x, b, ln)'
  BY DEF InLoopList, InBaseList, InIdList
<1>4. /\ \A x, ln : UnderLoop(x, ln) <=> UnderLoop(x, ln)'
      /\ \A x, b : UnderBase(x, b) <=> UnderBase(x, b)'
  BY DEF UnderLoop, UnderBase
<1> QED
  BY <1>1, <1>2, <1>3, <1>4

(* A dispatch begins at the first loop node. *)
LEMMA DispatchKeeps == ASSUME WalkInv, NEW e, Dispatch(e) PROVE WalkInv'
<1>1. UNCHANGED <<loop_nodes, born>>
  BY DEF Dispatch, vars
<1>2. FirstNode(loop_nodes) = NULL \/ AtLoop(FirstNode(loop_nodes))
  BY FirstNodeIs DEF WalkInv, RegistryInOrder, AtLoop
<1>3. loop_node' = NULL \/ AtLoop(loop_node)'
  BY <1>1, <1>2, RegistryStays DEF WalkInv, Dispatch
<1>4. pc' = "loop" /\ list' = list
  BY DEF Dispatch
<1>5. CursorsOnNodes' /\ CursorsInList'
  BY <1>3, <1>4 DEF WalkInv, CursorsOnNodes, CursorsInList, InList
<1> QED
  BY <1>1, <1>5, RegistryStays DEF WalkInv

(* A loop node is visited: the next one is remembered and its handlers     *)
(* come first.                                                             *)
LEMMA VisitLoopKeeps == ASSUME WalkInv, VisitLoop PROVE WalkInv'
<1>1. UNCHANGED <<loop_nodes, born>>
  BY DEF VisitLoop, vars
<1>2. AtLoop(loop_node)
  <2>1. \E n \in Range(loop_nodes) : n.at = loop_node
    BY DEF VisitLoop, LiveLoop
  <2> QED
    BY <2>1 DEF Range, AtLoop
<1>3. temp_node' = NULL \/ (AtLoop(temp_node') /\ temp_node' # loop_node)
  <2>1. loop_nodes \in Seq(LoopNodes) /\ \E k \in DOMAIN loop_nodes : loop_nodes[k].at = loop_node
    BY <1>2 DEF WalkInv, RegistryInOrder, AtLoop
  <2>2. \A j, k \in DOMAIN loop_nodes : j # k => loop_nodes[j].at # loop_nodes[k].at
    BY DEF WalkInv, RegistryInOrder, NodesOK
  <2>3. temp_node' = NextNode(loop_nodes, loop_node)
    BY DEF VisitLoop
  <2>4. ASSUME NextNode(loop_nodes, loop_node) # NULL
        PROVE  AtLoop(NextNode(loop_nodes, loop_node)) /\ NextNode(loop_nodes, loop_node) # loop_node
    BY <2>1, <2>2, <2>4, NextNodeIs DEF AtLoop
  <2> QED
    BY <2>3, <2>4
<1>4. handler' = NULL \/ InLoopList(handler', loop_node)
  <2>1. PICK k \in DOMAIN loop_nodes : loop_nodes[k].at = loop_node /\ LoopAt(loop_node) = loop_nodes[k]
    BY <1>2, LoopAtIs
  <2>2. loop_nodes[k].handlers \in Seq(Entries)
    BY NodesTyped DEF WalkInv
  <2>3. handler' = FirstHandler(loop_nodes[k].handlers)
    BY <2>1 DEF VisitLoop
  <2> QED
    BY <2>1, <2>2, <2>3, FirstHandlerIs DEF InLoopList
<1>5. /\ pc' = "handlers" /\ list' = "loop" /\ loop_node' = loop_node
  BY DEF VisitLoop
<1>6. /\ temp_node' = NULL \/ (AtLoop(temp_node)' /\ temp_node' # loop_node)
      /\ handler' = NULL \/ InLoopList(handler, loop_node)'
      /\ AtLoop(loop_node)' /\ RegistryInOrder'
  BY <1>1, <1>2, <1>3, <1>4, <1>5, RegistryStays DEF WalkInv
<1>7. CursorsOnNodes'
  BY <1>5, <1>6 DEF CursorsOnNodes, InList
<1>8. CursorsInList'
  BY <1>5, <1>6 DEF CursorsInList, Here
<1> QED
  BY <1>6, <1>7, <1>8 DEF WalkInv

(* A base node is visited: the next one of its loop node is remembered. *)
LEMMA VisitBaseKeeps == ASSUME WalkInv, VisitBase PROVE WalkInv'
<1>1. UNCHANGED <<loop_nodes, born>> /\ RegistryInOrder
  BY DEF VisitBase, vars, WalkInv
<1>2. AtBase(base_node, loop_node)
  <2>1. PICK b \in AllBases : b.at = base_node
    BY DEF VisitBase, LiveBase
  <2>2. PICK k \in DOMAIN loop_nodes : \E m \in DOMAIN loop_nodes[k].bases : b = loop_nodes[k].bases[m]
    BY AllBasesAre
  <2>3. base_node # NULL
    BY <1>1, <2>1, <2>2, NodesTyped, TracesAssumption DEF BaseNodes
  <2> QED
    BY <2>3 DEF WalkInv, CursorsOnNodes, VisitBase
<1>3. PICK k \in DOMAIN loop_nodes :
        /\ loop_nodes[k].at = loop_node /\ LoopAt(loop_node) = loop_nodes[k]
        /\ \E m \in DOMAIN loop_nodes[k].bases :
             loop_nodes[k].bases[m].at = base_node /\ BaseAt(base_node) = loop_nodes[k].bases[m]
  BY <1>1, <1>2, BaseAtIs
<1>4. PICK m \in DOMAIN loop_nodes[k].bases :
        loop_nodes[k].bases[m].at = base_node /\ BaseAt(base_node) = loop_nodes[k].bases[m]
  BY <1>3
<1>5. temp_base' = NULL \/ (AtBase(temp_base', loop_node) /\ temp_base' # base_node)
  <2> DEFINE bs == loop_nodes[k].bases
  <2>1. bs \in Seq(BaseNodes) /\ \E j \in DOMAIN bs : bs[j].at = base_node
    BY <1>1, <1>4, NodesTyped
  <2>2. \A i, j \in DOMAIN bs : i # j => bs[i].at # bs[j].at
    BY <1>1 DEF RegistryInOrder, NodesOK, LoopOK, BasesOK
  <2>3. temp_base' = NextNode(bs, base_node)
    BY <1>3 DEF VisitBase
  <2>4. ASSUME NextNode(bs, base_node) # NULL
        PROVE  NextNode(bs, base_node) # base_node /\ \E j \in DOMAIN bs : bs[j].at = NextNode(bs, base_node)
    <3> HIDE DEF bs
    <3> QED
      BY <2>1, <2>2, <2>4, NextNodeIs
  <2> QED
    BY <1>3, <2>3, <2>4 DEF AtBase
<1>6. \/ handler' = NULL /\ list' = "id"
      \/ handler' = NULL /\ list' = "base"
      \/ InBaseList(handler', base_node, loop_node) /\ list' = "base"
  <2>1. loop_nodes[k].bases[m].handlers \in Seq(Entries)
    BY <1>1, NodesTyped
  <2>2. \/ handler' = NULL /\ list' = "id"
        \/ handler' = FirstHandler(loop_nodes[k].bases[m].handlers) /\ list' = "base"
    BY <1>4 DEF VisitBase
  <2> QED
    BY <1>3, <1>4, <2>1, <2>2, FirstHandlerIs DEF InBaseList
<1>7. pc = "base" /\ pc' = "handlers" /\ UNCHANGED <<loop_node, temp_node, base_node>>
  BY DEF VisitBase
<1>8. temp_node = NULL \/ (AtLoop(temp_node) /\ temp_node # loop_node)
  BY <1>7 DEF WalkInv, CursorsOnNodes
<1>9. /\ temp_node' = NULL \/ (AtLoop(temp_node)' /\ temp_node' # loop_node')
      /\ temp_base' = NULL \/ (AtBase(temp_base, loop_node)' /\ temp_base' # base_node')
      /\ AtBase(base_node, loop_node)'
      /\ \/ handler' = NULL /\ list' = "id"
         \/ handler' = NULL /\ list' = "base"
         \/ InBaseList(handler, base_node, loop_node)' /\ list' = "base"
      /\ RegistryInOrder'
  BY <1>1, <1>2, <1>5, <1>6, <1>7, <1>8, RegistryStays
<1>10. CursorsOnNodes'
  BY <1>7, <1>9 DEF CursorsOnNodes, InList
<1>11. CursorsInList'
  BY <1>7, <1>9 DEF CursorsInList, Here
<1> QED
  BY <1>9, <1>10, <1>11 DEF WalkInv

(* The registrations that the registry holds are entries, so NULL is none  *)
(* of them.                                                                *)
LEMMA AllEntriesTyped == ASSUME RegistryInOrder PROVE AllEntries \subseteq Entries
<1>1. ASSUME NEW key \in Keys PROVE RegisteredAt(key) \subseteq Entries
  <2>1. ASSUME NEW n \in Range(loop_nodes) PROVE Range(n.handlers) \subseteq Entries
    <3>1. PICK k \in DOMAIN loop_nodes : n = loop_nodes[k]
      BY DEF Range
    <3>2. n.handlers \in Seq(Entries)
      BY <3>1, NodesTyped
    <3> QED
      BY <3>2, ElementOfSeq, LenProperties DEF Range
  <2>2. ASSUME NEW n \in Range(loop_nodes), NEW b \in Range(n.bases)
        PROVE  Range(b.handlers) \subseteq Entries
    <3>1. PICK k \in DOMAIN loop_nodes : n = loop_nodes[k]
      BY DEF Range
    <3>2. PICK m \in DOMAIN n.bases : b = n.bases[m]
      BY DEF Range
    <3>3. b.handlers \in Seq(Entries)
      BY <3>1, <3>2, NodesTyped
    <3> QED
      BY <3>3, ElementOfSeq, LenProperties DEF Range
  <2>3. ASSUME NEW n \in Range(loop_nodes), NEW b \in Range(n.bases), NEW i \in {b.ids[j] : j \in DOMAIN b.ids}
        PROVE  Range(i.handlers) \subseteq Entries
    <3>1. PICK k \in DOMAIN loop_nodes : n = loop_nodes[k]
      BY DEF Range
    <3>2. PICK m \in DOMAIN n.bases : b = n.bases[m]
      BY DEF Range
    <3>3. PICK j \in DOMAIN b.ids : i = b.ids[j]
      OBVIOUS
    <3>4. i.handlers \in Seq(Entries)
      BY <3>1, <3>2, <3>3, NodesTyped
    <3> QED
      BY <3>4, ElementOfSeq, LenProperties DEF Range
  <2> QED
    BY <2>1, <2>2, <2>3 DEF RegisteredAt
<1> QED
  BY <1>1 DEF AllEntries

(* A handler is called: the next one of its list is remembered. *)
LEMMA CallKeeps == ASSUME WalkInv, Call PROVE WalkInv'
<1>1. UNCHANGED <<loop_nodes, born>> /\ RegistryInOrder
  BY DEF Call, vars, WalkInv
<1>2. Here(handler)
  <2>1. handler # NULL
    <3>1. PICK e \in AllEntries : e.ctx = handler
      BY DEF Call, LiveHandler
    <3>2. AllEntries \subseteq Entries
      BY <1>1, AllEntriesTyped
    <3> QED
      BY <3>1, <3>2, TracesAssumption DEF Entries
  <2> QED
    BY <2>1 DEF WalkInv, CursorsInList, Call
<1>3. temp_handler' = NULL \/ (Here(temp_handler') /\ temp_handler' # handler)
  BY <1>1, <1>2, NextHandlerIs DEF Call
<1>4. /\ handler \in born
      /\ \A ln : UnderLoop(handler, ln) => ln = loop_node
      /\ list # "loop" => \A b : UnderBase(handler, b) => b = base_node
  BY <1>1, <1>2, HereIsLive, HereOnly
<1>5. /\ pc = "handlers" /\ pc' = "calling"
      /\ UNCHANGED <<loop_node, temp_node, base_node, temp_base, handler, list>>
  BY DEF Call
<1>6. CursorsOnNodes'
  BY <1>1, <1>5, RegistryStays DEF WalkInv, CursorsOnNodes, InList
<1>7. temp_handler' = NULL \/ (Here(temp_handler)' /\ temp_handler' # handler')
  BY <1>1, <1>3, <1>5, RegistryStays DEF Here
<1>8. Here(handler)'
  BY <1>1, <1>2, <1>5, RegistryStays DEF Here
<1>9. /\ \A ln : UnderLoop(handler, ln)' => ln = loop_node'
      /\ list' # "loop" => \A b : UnderBase(handler, b)' => b = base_node'
  BY <1>1, <1>4, <1>5, RegistryStays
<1>10. CursorsInList'
  BY <1>1, <1>4, <1>5, <1>7, <1>8, <1>9 DEF CursorsInList
<1> QED
  BY <1>1, <1>6, <1>10, RegistryStays DEF WalkInv

(* A handler returns: the walk goes on to the one it remembered. *)
LEMMA ReturnKeeps == ASSUME WalkInv, Return PROVE WalkInv'
<1>1. UNCHANGED <<loop_nodes, born>> /\ RegistryInOrder
  BY DEF Return, vars, WalkInv
<1>2. /\ pc = "calling" /\ pc' = "handlers" /\ handler' = temp_handler
      /\ UNCHANGED <<loop_node, temp_node, base_node, temp_base, list>>
  BY DEF Return
<1>3. temp_handler = NULL \/ Here(temp_handler)
  BY <1>2 DEF WalkInv, CursorsInList
<1>4. CursorsOnNodes'
  BY <1>1, <1>2, RegistryStays DEF WalkInv, CursorsOnNodes, InList
<1>5. handler' = NULL \/ Here(handler)'
  BY <1>1, <1>2, <1>3, RegistryStays DEF Here
<1>6. CursorsInList'
  BY <1>2, <1>5 DEF CursorsInList
<1> QED
  BY <1>1, <1>4, <1>6, RegistryStays DEF WalkInv

(* The handlers of a loop node are done: its base nodes are next. *)
LEMMA LeaveLoopListKeeps == ASSUME WalkInv, LeaveLoopList PROVE WalkInv'
<1>1. UNCHANGED <<loop_nodes, born>> /\ RegistryInOrder
  BY DEF LeaveLoopList, vars, WalkInv
<1>2. /\ pc = "handlers" /\ pc' = "base" /\ list = "loop"
      /\ UNCHANGED <<loop_node, temp_node, temp_base, handler, list>>
  BY DEF LeaveLoopList
<1>3. AtLoop(loop_node) /\ (temp_node = NULL \/ (AtLoop(temp_node) /\ temp_node # loop_node))
  BY <1>2 DEF WalkInv, CursorsOnNodes, InList
<1>4. base_node' = NULL \/ AtBase(base_node', loop_node)
  <2>1. PICK k \in DOMAIN loop_nodes : loop_nodes[k].at = loop_node /\ LoopAt(loop_node) = loop_nodes[k]
    BY <1>3, LoopAtIs
  <2>2. loop_nodes[k].bases \in Seq(BaseNodes)
    BY <1>1, NodesTyped
  <2>3. base_node' = FirstNode(loop_nodes[k].bases)
    BY <2>1 DEF LeaveLoopList
  <2> QED
    BY <2>1, <2>2, <2>3, FirstNodeIs DEF AtBase
<1>5. /\ temp_node' = NULL \/ (AtLoop(temp_node)' /\ temp_node' # loop_node')
      /\ base_node' = NULL \/ AtBase(base_node, loop_node)'
      /\ RegistryInOrder'
  BY <1>1, <1>2, <1>3, <1>4, RegistryStays
<1>6. CursorsOnNodes' /\ CursorsInList'
  BY <1>2, <1>5 DEF CursorsOnNodes, CursorsInList, InList
<1> QED
  BY <1>5, <1>6 DEF WalkInv

(* The handlers of a base node are done: those of the event's id node are  *)
(* next.                                                                   *)
LEMMA LeaveBaseListKeeps == ASSUME WalkInv, LeaveBaseList PROVE WalkInv'
<1>1. UNCHANGED <<loop_nodes, born>> /\ RegistryInOrder
  BY DEF LeaveBaseList, vars, WalkInv
<1>2. /\ pc = "handlers" /\ pc' = "handlers" /\ list = "base" /\ list' = "id"
      /\ UNCHANGED <<loop_node, temp_node, base_node, temp_base>>
  BY DEF LeaveBaseList
<1>3. /\ AtBase(base_node, loop_node)
      /\ temp_node = NULL \/ (AtLoop(temp_node) /\ temp_node # loop_node)
      /\ temp_base = NULL \/ (AtBase(temp_base, loop_node) /\ temp_base # base_node)
  BY <1>2 DEF WalkInv, CursorsOnNodes, InList
<1>4. handler' = NULL \/ InIdList(handler', base_node, loop_node)
  <2>1. PICK k \in DOMAIN loop_nodes :
          /\ loop_nodes[k].at = loop_node
          /\ \E m \in DOMAIN loop_nodes[k].bases :
               loop_nodes[k].bases[m].at = base_node /\ BaseAt(base_node) = loop_nodes[k].bases[m]
    BY <1>1, <1>3, BaseAtIs
  <2>2. PICK m \in DOMAIN loop_nodes[k].bases :
          loop_nodes[k].bases[m].at = base_node /\ BaseAt(base_node) = loop_nodes[k].bases[m]
    BY <2>1
  <2> DEFINE ids == loop_nodes[k].bases[m].ids
             mine == Positions(ids, LAMBDA n : n.id = event[2])
  <2>3. handler' = IF mine = {} THEN NULL ELSE FirstHandler(ids[Min(mine)].handlers)
    BY <2>2 DEF LeaveBaseList
  <2>4. ASSUME mine # {} PROVE Min(mine) \in DOMAIN ids
    <3>1. ids \in Seq(IdNodes)
      BY <1>1, NodesTyped
    <3> HIDE DEF ids
    <3>2. mine \subseteq DOMAIN ids /\ DOMAIN ids = 1 .. Len(ids) /\ Len(ids) \in Nat
      BY <3>1, LenProperties DEF Positions
    <3> HIDE DEF mine
    <3> QED
      BY <2>4, <3>2, MinMaxArePositions
  <2> HIDE DEF mine
  <2>5. ASSUME mine # {}, handler' # NULL PROVE handler' \in IdsCtxs(ids)
    <3>1. ids[Min(mine)].handlers \in Seq(Entries)
      BY <1>1, <2>4, <2>5, NodesTyped
    <3>2. handler' \in Ctxs(ids[Min(mine)].handlers)
      BY <2>3, <2>5, <3>1, FirstHandlerIs
    <3> QED
      BY <2>4, <2>5, <3>2 DEF IdsCtxs
  <2> QED
    BY <2>1, <2>2, <2>3, <2>5 DEF InIdList
<1>5. /\ temp_node' = NULL \/ (AtLoop(temp_node)' /\ temp_node' # loop_node')
      /\ temp_base' = NULL \/ (AtBase(temp_base, loop_node)' /\ temp_base' # base_node')
      /\ handler' = NULL \/ InIdList(handler, base_node, loop_node)'
      /\ RegistryInOrder'
  BY <1>1, <1>2, <1>3, <1>4, RegistryStays
<1>6. CursorsOnNodes'
  BY <1>2, <1>5 DEF CursorsOnNodes, InList
<1>7. CursorsInList'
  BY <1>2, <1>5 DEF CursorsInList, Here
<1> QED
  BY <1>5, <1>6, <1>7 DEF WalkInv

(* The handlers of an id node, the base nodes of a loop node, or the loop  *)
(* nodes are done.                                                         *)
LEMMA LeavesKeep == ASSUME WalkInv, LeaveIdList \/ LeaveLoop \/ Done PROVE WalkInv'
<1>1. UNCHANGED <<loop_nodes, born>> /\ RegistryInOrder
  BY DEF LeaveIdList, LeaveLoop, Done, vars, WalkInv
<1>2. CASE LeaveIdList
  <2>1. /\ pc = "handlers" /\ pc' = "base" /\ list = "id" /\ base_node' = temp_base
        /\ UNCHANGED <<loop_node, temp_node, list>>
    BY <1>2 DEF LeaveIdList
  <2>2. /\ temp_node = NULL \/ (AtLoop(temp_node) /\ temp_node # loop_node)
        /\ temp_base = NULL \/ AtBase(temp_base, loop_node)
    BY <2>1 DEF WalkInv, CursorsOnNodes, InList
  <2>3. /\ temp_node' = NULL \/ (AtLoop(temp_node)' /\ temp_node' # loop_node')
        /\ base_node' = NULL \/ AtBase(base_node, loop_node)'
        /\ RegistryInOrder'
    BY <1>1, <2>1, <2>2, RegistryStays
  <2>4. CursorsOnNodes' /\ CursorsInList'
    BY <2>1, <2>3 DEF CursorsOnNodes, CursorsInList, InList
  <2> QED
    BY <2>3, <2>4 DEF WalkInv
<1>3. CASE LeaveLoop
  <2>1. pc = "base" /\ pc' = "loop" /\ loop_node' = temp_node /\ list' = list
    BY <1>3 DEF LeaveLoop
  <2>2. (temp_node = NULL \/ AtLoop(temp_node)) /\ list \in {"loop", "base", "id"}
    BY <2>1 DEF WalkInv, CursorsOnNodes
  <2>3. (loop_node' = NULL \/ AtLoop(loop_node)') /\ RegistryInOrder'
    BY <1>1, <2>1, <2>2, RegistryStays
  <2>4. CursorsOnNodes' /\ CursorsInList'
    BY <2>1, <2>2, <2>3 DEF CursorsOnNodes, CursorsInList, InList
  <2> QED
    BY <2>3, <2>4 DEF WalkInv
<1>4. CASE Done
  <2>1. pc' = "idle" /\ list' = list
    BY <1>4 DEF Done, cursors
  <2>2. CursorsOnNodes' /\ CursorsInList'
    BY <2>1 DEF WalkInv, CursorsOnNodes, CursorsInList, InList
  <2> QED
    BY <1>1, <2>2, RegistryStays DEF WalkInv
<1> QED
  BY <1>2, <1>3, <1>4

(* A registration by the handler that runs, or between dispatches. *)
LEMMA RegisterKeeps == ASSUME WalkInv, NEW key \in Keys, RegisterNew(key) PROVE WalkInv'
<1>1. PICK c \in Contexts, f \in Callbacks, a \in Args :
        /\ loop_nodes' = Added(loop_nodes, key, [ctx |-> c, function |-> f, arg |-> a], FALSE)
        /\ held' = held \cup {[ctx |-> c, key |-> key]}
  BY DEF RegisterNew, InstanceRegister
<1>2. PICK h \in held' \ held : h.ctx = (CHOOSE x \in Contexts : x \notin born) /\ born' = born \cup {h.ctx}
  BY DEF RegisterNew
<1>3. h.ctx = c
  BY <1>1, <1>2
<1>4. c \in Contexts \ born /\ born' = born \cup {c}
  <2>1. \E x \in Contexts : x \notin born
    BY DEF WalkInv, RegistryInOrder, RegisterNew
  <2> QED
    BY <1>2, <1>3, <2>1
<1>5. RegistryInOrder
  BY DEF WalkInv
<1>6. NodesGrown(loop_nodes', loop_nodes, c)
  <2> DEFINE entry == [ctx |-> c, function |-> f, arg |-> a]
  <2>1. entry \in Entries /\ entry.ctx = c
    BY DEF Entries
  <2> HIDE DEF entry
  <2>2. NodesGrown(Added(loop_nodes, key, entry, FALSE), loop_nodes, c)
    BY <1>5, <2>1, AddedGrows DEF RegistryInOrder
  <2> QED
    BY <1>1, <2>2 DEF entry
<1>7. /\ RegistryInOrder'
      /\ \A ln : AtLoop(ln) => AtLoop(ln)'
      /\ \A b, ln : AtBase(b, ln) => AtBase(b, ln)'
      /\ \A x, ln : InLoopList(x, ln) => InLoopList(x, ln)'
      /\ \A x, b, ln : InBaseList(x, b, ln) => InBaseList(x, b, ln)'
      /\ \A x, b, ln : InIdList(x, b, ln) => InIdList(x, b, ln)'
      /\ \A x, ln : UnderLoop(x, ln)' /\ x # c => UnderLoop(x, ln)
      /\ \A x, b : UnderBase(x, b)' /\ x # c => UnderBase(x, b)
  BY <1>4, <1>5, <1>6, RegistrationKeeps
<1>8. /\ pc \in {"idle", "calling"}
      /\ UNCHANGED <<pc, loop_node, temp_node, base_node, temp_base, handler, temp_handler, list>>
  BY DEF RegisterNew, cursors
<1>9. CursorsOnNodes'
  BY <1>7, <1>8 DEF WalkInv, CursorsOnNodes, InList
<1>10. \A x : Here(x) => Here(x)'
  BY <1>7, <1>8 DEF Here
<1>11. pc = "calling" => handler # c
  BY <1>4 DEF WalkInv, CursorsInList
<1>12. CursorsInList'
  BY <1>4, <1>7, <1>8, <1>10, <1>11 DEF WalkInv, CursorsInList
<1> QED
  BY <1>7, <1>9, <1>12 DEF WalkInv

(* An unregistration: between dispatches of any handler, in a dispatch of  *)
(* the one that runs, when it is one of an event.                          *)
LEMMA UnregisterKeeps ==
  ASSUME SelfLevels \subseteq {"id"}, WalkInv, NEW h \in held, UnregisterHeld(h)
  PROVE  WalkInv'
<1> DEFINE c == h.ctx
           keep == h.key[1] # ANY /\ h.key[2] # ANY
<1>1. RegistryInOrder /\ born' = born
  BY DEF WalkInv, UnregisterHeld
<1>2. NodesLeft(loop_nodes', loop_nodes, c, keep)
  <2> DEFINE match == {e \in AllEntries : e.ctx = c}
  <2>1. loop_nodes' = Removed(loop_nodes, h.key, match)
    BY DEF UnregisterHeld, InstanceUnregister
  <2>2. \A e \in match : e.ctx = c
    OBVIOUS
  <2> HIDE DEF match
  <2> QED
    BY <1>1, <2>1, <2>2, RemovedLeaves DEF RegistryInOrder
<1> HIDE DEF keep
<1>3. /\ RegistryInOrder'
      /\ \A x, ln : UnderLoop(x, ln)' => UnderLoop(x, ln)
      /\ \A x, b : UnderBase(x, b)' => UnderBase(x, b)
  BY <1>1, <1>2, RemovalAddsNothing
<1>4. UNCHANGED <<pc, loop_node, temp_node, base_node, temp_base, handler, temp_handler, list>>
  BY DEF UnregisterHeld, cursors
<1>5. CASE pc = "idle"
  <2>1. CursorsOnNodes' /\ CursorsInList'
    BY <1>4, <1>5 DEF WalkInv, CursorsOnNodes, CursorsInList, InList
  <2> QED
    BY <1>3, <2>1 DEF WalkInv
<1>6. CASE pc = "calling" /\ c = handler /\ Level(h.key) \in SelfLevels
  <2>1. keep
    BY <1>6 DEF Level, keep
  <2>2. /\ \A ln : AtLoop(ln) => AtLoop(ln)' \/ UnderLoop(handler, ln)
        /\ \A b, ln : AtBase(b, ln) => AtBase(b, ln)' \/ UnderBase(handler, b)
        /\ \A x, ln : InLoopList(x, ln) => InLoopList(x, ln)'
        /\ \A x, b, ln : InBaseList(x, b, ln) => InBaseList(x, b, ln)'
        /\ \A x, b, ln : InIdList(x, b, ln) /\ x # handler => InIdList(x, b, ln)'
    BY <1>2, <1>6, <2>1, RemovalKeeps
  <2>3. /\ temp_handler = NULL \/ (Here(temp_handler) /\ temp_handler # handler)
        /\ list # "id" => Here(handler)
        /\ \A ln : UnderLoop(handler, ln) => ln = loop_node
        /\ list # "loop" => \A b : UnderBase(handler, b) => b = base_node
        /\ handler \in born
    BY <1>6 DEF WalkInv, CursorsInList
  <2>4. list # "id" => Here(handler)'
    BY <1>4, <2>2, <2>3 DEF Here
  <2>5. temp_handler' = NULL \/ (Here(temp_handler)' /\ temp_handler' # handler')
    BY <1>4, <2>2, <2>3 DEF Here
  <2>6. /\ \A ln : UnderLoop(handler, ln)' => ln = loop_node'
        /\ list' # "loop" => \A b : UnderBase(handler, b)' => b = base_node'
    BY <1>3, <1>4, <2>3
  <2>7. CursorsInList'
    BY <1>1, <1>4, <1>6, <2>3, <2>4, <2>5, <2>6 DEF CursorsInList
  <2>8. /\ list = "loop" => AtLoop(loop_node)'
        /\ list = "base" => AtBase(base_node, loop_node)'
    <3>1. list = "loop" => InLoopList(handler, loop_node)'
      BY <2>2, <2>3, <1>4 DEF Here
    <3>2. list = "base" => InBaseList(handler, base_node, loop_node)'
      BY <2>2, <2>3, <1>4 DEF Here
    <3>3. InLoopList(handler, loop_node)' => AtLoop(loop_node)'
      BY DEF InLoopList, AtLoop
    <3>4. InBaseList(handler, base_node, loop_node)' => AtBase(base_node, loop_node)'
      BY DEF InBaseList, AtBase
    <3> QED
      BY <3>1, <3>2, <3>3, <3>4
  <2>9. temp_node' = NULL \/ (AtLoop(temp_node)' /\ temp_node' # loop_node')
    BY <1>4, <1>6, <2>2, <2>3 DEF WalkInv, CursorsOnNodes, InList
  <2>10. list # "loop" =>
           temp_base' = NULL \/ (AtBase(temp_base, loop_node)' /\ temp_base' # base_node')
    BY <1>4, <1>6, <2>2, <2>3 DEF WalkInv, CursorsOnNodes, InList
  <2>11. list \in {"loop", "base", "id"}
    BY DEF WalkInv, CursorsOnNodes
  <2>12. CursorsOnNodes'
    BY <1>4, <1>6, <2>8, <2>9, <2>10, <2>11 DEF CursorsOnNodes, InList
  <2> QED
    BY <1>3, <2>7, <2>12 DEF WalkInv
<1> QED
  BY <1>5, <1>6 DEF UnregisterHeld

(* Cursors that are in the registry point to what has not been freed. *)
LEMMA WalkSafe == WalkInv => NoUseAfterFree
<1> SUFFICES ASSUME WalkInv PROVE NoUseAfterFree
  OBVIOUS
<1>1. RegistryInOrder
  BY DEF WalkInv
<1>2. pc = "loop" => loop_node = NULL \/ LiveLoop(loop_node)
  BY LoopAtIs DEF WalkInv, CursorsOnNodes
<1>3. pc = "base" => base_node = NULL \/ (LiveBase(base_node) /\ LiveLoop(loop_node))
  BY <1>1, BaseAtIs, LoopAtIs DEF WalkInv, CursorsOnNodes
<1>4. ASSUME pc = "handlers"
      PROVE  \/ handler # NULL /\ LiveHandler(handler)
             \/ handler = NULL /\ list = "loop" /\ LiveLoop(loop_node)
             \/ handler = NULL /\ list = "base" /\ LiveBase(base_node)
             \/ handler = NULL /\ list = "id"
  <2>1. handler # NULL => LiveHandler(handler)
    BY <1>1, <1>4, HereIsLive DEF WalkInv, CursorsInList
  <2>2. list = "loop" => LiveLoop(loop_node)
    BY <1>4, LoopAtIs DEF WalkInv, CursorsOnNodes, InList
  <2>3. list = "base" => LiveBase(base_node)
    BY <1>1, <1>4, BaseAtIs DEF WalkInv, CursorsOnNodes, InList
  <2> QED
    BY <2>1, <2>2, <2>3 DEF WalkInv, CursorsOnNodes
<1> QED
  BY <1>2, <1>3, <1>4 DEF NoUseAfterFree

(* No cursor points anywhere at first, and none moves while nothing does.  *)
LEMMA WalkBegins == DispatchInit => WalkInv
<1> SUFFICES ASSUME DispatchInit PROVE WalkInv
  OBVIOUS
<1>1. RegistryInOrder
  BY DEF DispatchInit, Init, RegistryInOrder, NodesOK, AllBorn
<1>2. CursorsOnNodes /\ CursorsInList
  BY DEF DispatchInit, CursorsOnNodes, CursorsInList, InList
<1> QED
  BY <1>1, <1>2 DEF WalkInv

LEMMA WalkRests == ASSUME WalkInv, UNCHANGED dispatchVars PROVE WalkInv'
<1>1. UNCHANGED <<loop_nodes, born, pc, loop_node, temp_node, base_node, temp_base,
                  handler, temp_handler, list>> /\ RegistryInOrder
  BY DEF dispatchVars, vars, cursors, WalkInv
<1>2. CursorsOnNodes'
  BY <1>1, RegistryStays DEF WalkInv, CursorsOnNodes, InList
<1>3. CursorsInList'
  BY <1>1, RegistryStays DEF WalkInv, CursorsInList, Here
<1> QED
  BY <1>1, <1>2, <1>3, RegistryStays DEF WalkInv

(* Handlers of one event may unregister themselves, and every handler may  *)
(* register others, while a dispatch calls them: what the cursors of the   *)
(* walk in esp_event_loop_run point to when they are read has not been     *)
(* freed.                                                                  *)
THEOREM WalkReadsWhatIsThere ==
  ASSUME SelfLevels \subseteq {"id"} PROVE DispatchSpec => []NoUseAfterFree
<1>1. DispatchInit => WalkInv
  BY WalkBegins
<1>2. WalkInv /\ [DispatchNext]_dispatchVars => WalkInv'
  <2> SUFFICES ASSUME WalkInv, [DispatchNext]_dispatchVars PROVE WalkInv'
    OBVIOUS
  <2>1. CASE WalkStep
    BY <2>1, DispatchKeeps, VisitLoopKeeps, VisitBaseKeeps, CallKeeps, ReturnKeeps,
       LeaveLoopListKeeps, LeaveBaseListKeeps, LeavesKeep DEF WalkStep
  <2>2. CASE \E key \in Keys : RegisterNew(key)
    BY <2>2, RegisterKeeps
  <2>3. CASE \E h \in held : UnregisterHeld(h)
    BY <2>3, UnregisterKeeps
  <2>4. CASE UNCHANGED dispatchVars
    BY <2>4, WalkRests
  <2> QED
    BY <2>1, <2>2, <2>3, <2>4 DEF DispatchNext
<1>3. WalkInv => NoUseAfterFree
  BY WalkSafe
<1> QED
  BY <1>1, <1>2, <1>3, PTL DEF DispatchSpec
-----------------------------------------------------------------------------
(* The order in which a dispatch calls.  R is the order of birth of the    *)
(* contexts: lists and nodes come in it, because new ones are put at the   *)
(* end, and so do the calls of every event.                                *)

Later(R, x, y) == <<x, y>> \in R
Strict(R) ==
  /\ \A x : ~Later(R, x, x)
  /\ \A x, y, z : Later(R, x, y) /\ Later(R, y, z) => Later(R, x, z)
From(R, p, x) == p # NULL /\ (x = p \/ Later(R, p, x))

Rising(R, s) == \A i, j \in DOMAIN s : i < j => Later(R, s[i], s[j])
ListRising(R, l) == \A i, j \in DOMAIN l : i < j => Later(R, l[i].ctx, l[j].ctx)
AtsRising(R, l) == \A i, j \in DOMAIN l : i < j => Later(R, l[i].at, l[j].at)
Before(R, C, D) == \A x \in C, y \in D : Later(R, x, y)

(* What two lists hold that are joined, and in which order. *)
LEMMA CtxsJoin ==
  ASSUME NEW a \in Seq(Entries), NEW b \in Seq(Entries)
  PROVE  Ctxs(a \o b) = Ctxs(a) \cup Ctxs(b)
<1> DEFINE c == a \o b
           m == Len(a)
           n == Len(b)
<1>1. /\ m \in Nat /\ DOMAIN a = 1 .. m /\ n \in Nat /\ DOMAIN b = 1 .. n
      /\ c \in Seq(Entries) /\ Len(c) = m + n
      /\ \A i \in 1 .. m + n : c[i] = IF i <= m THEN a[i] ELSE b[i - m]
  BY LenProperties, JoinElements
<1>2. DOMAIN c = 1 .. m + n
  BY <1>1, LenProperties
<1> HIDE DEF c, m, n
<1>3. \A i \in DOMAIN a : i \in DOMAIN c /\ c[i] = a[i]
  BY <1>1, <1>2
<1>4. \A i \in DOMAIN b : m + i \in DOMAIN c /\ c[m + i] = b[i]
  BY <1>1, <1>2
<1>5. \A i \in DOMAIN c : (i \in DOMAIN a /\ c[i] = a[i]) \/ (i - m \in DOMAIN b /\ c[i] = b[i - m])
  BY <1>1, <1>2
<1>6. Ctxs(a) \subseteq Ctxs(c) /\ Ctxs(b) \subseteq Ctxs(c)
  BY <1>3, <1>4 DEF Ctxs
<1>7. Ctxs(c) \subseteq Ctxs(a) \cup Ctxs(b)
  BY <1>5 DEF Ctxs
<1> QED
  BY <1>6, <1>7 DEF c

LEMMA RisingJoin ==
  ASSUME NEW R, NEW a \in Seq(Entries), NEW b \in Seq(Entries)
  PROVE  ListRising(R, a \o b) <=> ListRising(R, a) /\ ListRising(R, b) /\ Before(R, Ctxs(a), Ctxs(b))
<1> DEFINE c == a \o b
           m == Len(a)
           n == Len(b)
<1>1. /\ m \in Nat /\ DOMAIN a = 1 .. m /\ n \in Nat /\ DOMAIN b = 1 .. n
      /\ c \in Seq(Entries) /\ Len(c) = m + n
      /\ \A i \in 1 .. m + n : c[i] = IF i <= m THEN a[i] ELSE b[i - m]
  BY LenProperties, JoinElements
<1>2. DOMAIN c = 1 .. m + n
  BY <1>1, LenProperties
<1> HIDE DEF c, m, n
<1>3. \A i \in 1 .. m : i \in 1 .. m + n /\ c[i] = a[i]
  BY <1>1
<1>4. \A i \in 1 .. n : m + i \in 1 .. m + n /\ c[m + i] = b[i]
  BY <1>1
<1>5. ASSUME NEW i \in 1 .. m + n PROVE (i \in 1 .. m /\ c[i] = a[i]) \/ (i - m \in 1 .. n /\ c[i] = b[i - m])
  <2>1. CASE i <= m
    BY <1>1, <2>1
  <2>2. CASE ~(i <= m)
    <3>1. i - m \in 1 .. n
      BY <1>1, <2>2
    <3> QED
      BY <1>1, <2>2, <3>1
  <2> QED
    BY <2>1, <2>2
<1>6. ASSUME ListRising(R, c) PROVE ListRising(R, a) /\ ListRising(R, b) /\ Before(R, Ctxs(a), Ctxs(b))
  <2>1. ListRising(R, a)
    BY <1>1, <1>2, <1>3, <1>6 DEF ListRising
  <2>2. ListRising(R, b)
    <3> SUFFICES ASSUME NEW i \in 1 .. n, NEW j \in 1 .. n, i < j PROVE Later(R, b[i].ctx, b[j].ctx)
      BY <1>1 DEF ListRising
    <3>1. m + i \in DOMAIN c /\ m + j \in DOMAIN c /\ m + i < m + j
      BY <1>1, <1>2, <1>4
    <3>2. Later(R, c[m + i].ctx, c[m + j].ctx)
      BY <1>6, <3>1 DEF ListRising
    <3> QED
      BY <1>4, <3>2
  <2>3. ASSUME NEW i \in 1 .. m, NEW j \in 1 .. n PROVE Later(R, a[i].ctx, b[j].ctx)
    <3>1. i \in DOMAIN c /\ m + j \in DOMAIN c /\ i < m + j
      BY <1>1, <1>2, <1>3, <1>4
    <3>2. Later(R, c[i].ctx, c[m + j].ctx)
      BY <1>6, <3>1 DEF ListRising
    <3> QED
      BY <1>3, <1>4, <3>2
  <2>4. Before(R, Ctxs(a), Ctxs(b))
    BY <1>1, <2>3 DEF Before, Ctxs
  <2> QED
    BY <2>1, <2>2, <2>4
<1>7. ASSUME ListRising(R, a), ListRising(R, b), Before(R, Ctxs(a), Ctxs(b)) PROVE ListRising(R, c)
  <2> SUFFICES ASSUME NEW i \in 1 .. m + n, NEW j \in 1 .. m + n, i < j PROVE Later(R, c[i].ctx, c[j].ctx)
    BY <1>2 DEF ListRising
  <2>1. CASE i \in 1 .. m /\ j \in 1 .. m
    <3>1. Later(R, a[i].ctx, a[j].ctx)
      BY <1>1, <1>7, <2>1 DEF ListRising
    <3> QED
      BY <1>3, <2>1, <3>1
  <2>2. CASE i \in 1 .. m /\ j \notin 1 .. m
    <3>1. j - m \in 1 .. n /\ c[j] = b[j - m] /\ c[i] = a[i]
      BY <1>3, <1>5, <2>2
    <3>2. a[i].ctx \in Ctxs(a) /\ b[j - m].ctx \in Ctxs(b)
      BY <1>1, <2>2, <3>1 DEF Ctxs
    <3> QED
      BY <1>7, <3>1, <3>2 DEF Before
  <2>3. CASE i \notin 1 .. m
    <3>1. i - m \in 1 .. n /\ c[i] = b[i - m]
      BY <1>5, <2>3
    <3>2. j - m \in 1 .. n /\ c[j] = b[j - m] /\ i - m < j - m
      BY <1>1, <1>5, <2>3, <3>1
    <3>3. Later(R, b[i - m].ctx, b[j - m].ctx)
      BY <1>1, <1>7, <3>1, <3>2 DEF ListRising
    <3> QED
      BY <3>1, <3>2, <3>3
  <2> QED
    BY <2>1, <2>2, <2>3
<1> QED
  BY <1>6, <1>7 DEF c

(* The lists before and behind one part of a joined list *)
Parts(f, s, k, T, a, b) ==
  /\ a \in Seq(T) /\ b \in Seq(T)
  /\ DOMAIN a = 1 .. k - 1 /\ \A j \in 1 .. k - 1 : a[j] = s[j]
  /\ Cat(f, a) \in Seq(Entries) /\ Cat(f, b) \in Seq(Entries) /\ f[s[k]] \in Seq(Entries)
  /\ Cat(f, s) = Join(Join(Cat(f, a), f[s[k]]), Cat(f, b))

LEMMA CatSplit ==
  ASSUME NEW T, NEW f, Maps(f, T, Seq(Entries)), NEW s \in Seq(T), NEW k \in DOMAIN s
  PROVE  \E a, b : Parts(f, s, k, T, a, b)
<1>1. PICK x \in T : x = s[k]
  BY ElementOfSeq, LenProperties
<1>2. PICK a, b : Split(s, k, T, a, b)
  BY SplitAt
<1> DEFINE y == <<x>>
<1>3. y \in Seq(T) /\ Cat(f, y) = f[x]
  BY CatOne
<1>4. s = [s EXCEPT ![k] = x]
  BY <1>1, LenProperties
<1>5. /\ a \in Seq(T) /\ b \in Seq(T) /\ s = (a \o y) \o b
      /\ Len(a) = k - 1 /\ \A j \in 1 .. k - 1 : a[j] = s[j]
  BY <1>2, <1>4 DEF Split
<1> HIDE DEF y
<1>6. PICK w : w = a \o y
  OBVIOUS
<1>7. w \in Seq(T) /\ s = w \o b
  BY <1>3, <1>5, <1>6, JoinElements
<1>8. Cat(f, s) = Cat(f, w) \o Cat(f, b)
  BY <1>5, <1>7, CatJoins
<1>9. Cat(f, w) = Cat(f, a) \o Cat(f, y)
  <2>1. a \in Seq(T) /\ y \in Seq(T)
    BY <1>3, <1>5
  <2>2. Cat(f, a \o y) = Cat(f, a) \o Cat(f, y)
    BY <2>1, CatJoins
  <2> QED
    BY <1>6, <2>2
<1>10. Cat(f, s) = Join(Join(Cat(f, a), f[s[k]]), Cat(f, b))
  BY <1>1, <1>3, <1>8, <1>9 DEF Join
<1>11. Cat(f, a) \in Seq(Entries) /\ Cat(f, b) \in Seq(Entries)
  BY <1>5, CatMaps
<1>12. f[s[k]] \in Seq(Entries)
  BY <1>1 DEF Maps
<1>13. DOMAIN a = 1 .. k - 1
  BY <1>5, LenProperties
<1> QED
  BY <1>5, <1>10, <1>11, <1>12, <1>13 DEF Parts

(* What three lists hold that are joined, and in which order. *)
LEMMA ThreeJoined ==
  ASSUME NEW a \in Seq(Entries), NEW b \in Seq(Entries), NEW c \in Seq(Entries)
  PROVE  /\ Ctxs(Join(Join(a, b), c)) = Ctxs(a) \cup Ctxs(b) \cup Ctxs(c)
         /\ \A R : ListRising(R, Join(Join(a, b), c)) => ListRising(R, b) /\ Before(R, Ctxs(a), Ctxs(b))
<1>1. PICK w : w = a \o b
  OBVIOUS
<1>2. w \in Seq(Entries)
  BY <1>1, JoinElements
<1>3. Join(Join(a, b), c) = w \o c
  BY <1>1 DEF Join
<1>4. Ctxs(w \o c) = Ctxs(w) \cup Ctxs(c) /\ \A R : ListRising(R, w \o c) => ListRising(R, w)
  BY <1>2, CtxsJoin, RisingJoin
<1>5. Ctxs(w) = Ctxs(a) \cup Ctxs(b) /\ \A R : ListRising(R, w) => ListRising(R, b) /\ Before(R, Ctxs(a), Ctxs(b))
  BY <1>1, CtxsJoin, RisingJoin
<1> QED
  BY <1>3, <1>4, <1>5

(* A joined list holds what its parts hold ... *)
LEMMA CatHolds ==
  ASSUME NEW T, NEW f, Maps(f, T, Seq(Entries)), NEW s \in Seq(T)
  PROVE  /\ \A k \in DOMAIN s : Ctxs(f[s[k]]) \subseteq Ctxs(Cat(f, s))
         /\ \A x \in Ctxs(Cat(f, s)) : \E k \in DOMAIN s : x \in Ctxs(f[s[k]])
<1>1. ASSUME NEW k \in DOMAIN s PROVE Ctxs(f[s[k]]) \subseteq Ctxs(Cat(f, s))
  <2>1. PICK a, b : Parts(f, s, k, T, a, b)
    BY CatSplit
  <2>2. /\ Cat(f, a) \in Seq(Entries) /\ Cat(f, b) \in Seq(Entries) /\ f[s[k]] \in Seq(Entries)
        /\ Cat(f, s) = Join(Join(Cat(f, a), f[s[k]]), Cat(f, b))
    BY <2>1 DEF Parts
  <2>3. Ctxs(Join(Join(Cat(f, a), f[s[k]]), Cat(f, b))) = Ctxs(Cat(f, a)) \cup Ctxs(f[s[k]]) \cup Ctxs(Cat(f, b))
    BY <2>2, ThreeJoined
  <2> QED
    BY <2>2, <2>3
<1>2. ASSUME NEW x \in Ctxs(Cat(f, s)) PROVE \E k \in DOMAIN s : x \in Ctxs(f[s[k]])
  <2> DEFINE C == {y \in Contexts : \E k \in DOMAIN s : y \in Ctxs(f[s[k]])}
  <2>1. DOMAIN s = 1 .. Len(s) /\ \A k \in 1 .. Len(s) : s[k] \in T /\ f[s[k]] \in Seq(Entries)
    BY LenProperties, ElementOfSeq DEF Maps
  <2>2. \A l \in Seq(Entries) : Ctxs(l) \subseteq Contexts
    <3> SUFFICES ASSUME NEW l \in Seq(Entries), NEW j \in DOMAIN l PROVE l[j].ctx \in Contexts
      BY DEF Ctxs
    <3>1. l[j] \in Entries
      BY LenProperties, ElementOfSeq
    <3> QED
      BY <3>1 DEF Entries
  <2>3. \A k \in 1 .. Len(s) : Ctxs(f[s[k]]) \subseteq C
    BY <2>1, <2>2
  <2> HIDE DEF C
  <2>4. \A k \in 1 .. Len(s) : f[s[k]] \in Seq(Among(C))
    BY <2>1, <2>3, EntriesAmong
  <2>5. Cat(f, s) \in Seq(Among(C))
    BY <2>4, CatTyped
  <2>6. PICK j \in DOMAIN Cat(f, s) : x = Cat(f, s)[j].ctx
    BY DEF Ctxs
  <2>7. Cat(f, s)[j] \in Among(C)
    BY <2>5, LenProperties, ElementOfSeq
  <2> QED
    BY <2>6, <2>7 DEF Among, C
<1> QED
  BY <1>1, <1>2

(* ... and is in order when they are and come in order. *)
LEMMA CatRises ==
  ASSUME NEW T, NEW f, Maps(f, T, Seq(Entries)), NEW s \in Seq(T), NEW R, ListRising(R, Cat(f, s))
  PROVE  /\ \A k \in DOMAIN s : ListRising(R, f[s[k]])
         /\ \A j, k \in DOMAIN s : j < k => Before(R, Ctxs(f[s[j]]), Ctxs(f[s[k]]))
<1> SUFFICES ASSUME NEW k \in DOMAIN s
             PROVE  /\ ListRising(R, f[s[k]])
                    /\ \A j \in DOMAIN s : j < k => Before(R, Ctxs(f[s[j]]), Ctxs(f[s[k]]))
  OBVIOUS
<1>1. PICK a, b : Parts(f, s, k, T, a, b)
  BY CatSplit
<1>2. /\ a \in Seq(T) /\ DOMAIN a = 1 .. k - 1 /\ \A j \in 1 .. k - 1 : a[j] = s[j]
      /\ Cat(f, a) \in Seq(Entries) /\ Cat(f, b) \in Seq(Entries) /\ f[s[k]] \in Seq(Entries)
      /\ Cat(f, s) = Join(Join(Cat(f, a), f[s[k]]), Cat(f, b))
  BY <1>1 DEF Parts
<1>3. ListRising(R, Join(Join(Cat(f, a), f[s[k]]), Cat(f, b)))
  BY <1>2
<1>4. ListRising(R, f[s[k]]) /\ Before(R, Ctxs(Cat(f, a)), Ctxs(f[s[k]]))
  BY <1>2, <1>3, ThreeJoined
<1>5. ASSUME NEW j \in DOMAIN s, j < k PROVE Before(R, Ctxs(f[s[j]]), Ctxs(f[s[k]]))
  <2>1. j \in DOMAIN a /\ a[j] = s[j]
    BY <1>2, <1>5, LenProperties
  <2>2. Ctxs(f[a[j]]) \subseteq Ctxs(Cat(f, a))
    BY <1>2, <2>1, CatHolds
  <2> QED
    BY <1>4, <2>1, <2>2 DEF Before
<1> QED
  BY <1>4, <1>5

-----------------------------------------------------------------------------
(* What a dispatch of ev calls in the nodes, by their places *)

IdsCall(ev, ids, x) == \E i \in DOMAIN ids : ids[i].id = ev[2] /\ x \in Ctxs(ids[i].handlers)
BaseCalls(ev, n, x) == n.base = ev[1] /\ (x \in Ctxs(n.handlers) \/ IdsCall(ev, n.ids, x))
LoopCalls(ev, n, x) == x \in Ctxs(n.handlers) \/ \E m \in DOMAIN n.bases : BaseCalls(ev, n.bases[m], x)
NodesCall(ev, nodes, x) == \E k \in DOMAIN nodes : LoopCalls(ev, nodes[k], x)

LEMMA CallsAre ==
  ASSUME NEW ev
  PROVE  /\ \A ids \in Seq(IdNodes) : \A x : x \in Ctxs(Cat(IdSeg(ev), ids)) <=> IdsCall(ev, ids, x)
         /\ \A n \in GoodBases : \A x : x \in Ctxs(BaseSeg(ev)[n]) <=> BaseCalls(ev, n, x)
         /\ \A n \in GoodLoops : \A x : x \in Ctxs(LoopSeg(ev)[n]) <=> LoopCalls(ev, n, x)
         /\ \A nodes \in Seq(GoodLoops) : \A x : x \in Ctxs(Cat(LoopSeg(ev), nodes)) <=> NodesCall(ev, nodes, x)
<1>1. ASSUME NEW ids \in Seq(IdNodes), NEW x
      PROVE  x \in Ctxs(Cat(IdSeg(ev), ids)) <=> IdsCall(ev, ids, x)
  <2>1. x \in Ctxs(Cat(IdSeg(ev), ids)) <=> \E i \in DOMAIN ids : x \in Ctxs(IdSeg(ev)[ids[i]])
    BY SegsMap, CatHolds
  <2>2. ASSUME NEW i \in DOMAIN ids
        PROVE  x \in Ctxs(IdSeg(ev)[ids[i]]) <=> ids[i].id = ev[2] /\ x \in Ctxs(ids[i].handlers)
    <3>1. ids[i] \in IdNodes
      BY LenProperties, ElementOfSeq
    <3>2. IdSeg(ev)[ids[i]] = IF ids[i].id = ev[2] THEN ids[i].handlers ELSE <<>>
      BY <3>1 DEF IdSeg
    <3> QED
      BY <3>2, EmptyList
  <2> QED
    BY <2>1, <2>2 DEF IdsCall
<1>2. ASSUME NEW n \in GoodBases, NEW x
      PROVE  x \in Ctxs(BaseSeg(ev)[n]) <=> BaseCalls(ev, n, x)
  <2>1. n.handlers \in Seq(Entries) /\ n.ids \in Seq(IdNodes)
    BY NodesAre
  <2>2. BaseSeg(ev)[n] = IF n.base # ev[1] THEN <<>> ELSE n.handlers \o Cat(IdSeg(ev), n.ids)
    BY DEF BaseSeg
  <2>3. Cat(IdSeg(ev), n.ids) \in Seq(Entries)
    BY <2>1, SegsMap, CatMaps
  <2>4. Ctxs(n.handlers \o Cat(IdSeg(ev), n.ids)) = Ctxs(n.handlers) \cup Ctxs(Cat(IdSeg(ev), n.ids))
    BY <2>1, <2>3, CtxsJoin
  <2>5. x \in Ctxs(Cat(IdSeg(ev), n.ids)) <=> IdsCall(ev, n.ids, x)
    BY <1>1, <2>1
  <2>6. CASE n.base # ev[1]
    BY <2>2, <2>6, EmptyList DEF BaseCalls
  <2>7. CASE n.base = ev[1]
    BY <2>2, <2>4, <2>5, <2>7 DEF BaseCalls
  <2> QED
    BY <2>6, <2>7
<1>3. ASSUME NEW n \in GoodLoops, NEW x
      PROVE  x \in Ctxs(LoopSeg(ev)[n]) <=> LoopCalls(ev, n, x)
  <2>1. n.handlers \in Seq(Entries) /\ n.bases \in Seq(GoodBases)
    BY NodesAre
  <2>2. LoopSeg(ev)[n] = n.handlers \o Cat(BaseSeg(ev), n.bases)
    BY DEF LoopSeg
  <2>3. Cat(BaseSeg(ev), n.bases) \in Seq(Entries)
    BY <2>1, SegsMap, CatMaps
  <2>4. Ctxs(LoopSeg(ev)[n]) = Ctxs(n.handlers) \cup Ctxs(Cat(BaseSeg(ev), n.bases))
    BY <2>1, <2>2, <2>3, CtxsJoin
  <2>5. x \in Ctxs(Cat(BaseSeg(ev), n.bases)) <=> \E m \in DOMAIN n.bases : x \in Ctxs(BaseSeg(ev)[n.bases[m]])
    BY <2>1, SegsMap, CatHolds
  <2>6. \A m \in DOMAIN n.bases : n.bases[m] \in GoodBases
    BY <2>1, LenProperties, ElementOfSeq
  <2>7. x \in Ctxs(Cat(BaseSeg(ev), n.bases)) <=> \E m \in DOMAIN n.bases : BaseCalls(ev, n.bases[m], x)
    BY <1>2, <2>5, <2>6
  <2> QED
    BY <2>4, <2>7 DEF LoopCalls
<1>4. ASSUME NEW nodes \in Seq(GoodLoops), NEW x
      PROVE  x \in Ctxs(Cat(LoopSeg(ev), nodes)) <=> NodesCall(ev, nodes, x)
  <2>1. x \in Ctxs(Cat(LoopSeg(ev), nodes)) <=> \E k \in DOMAIN nodes : x \in Ctxs(LoopSeg(ev)[nodes[k]])
    BY SegsMap, CatHolds
  <2>2. \A k \in DOMAIN nodes : nodes[k] \in GoodLoops
    BY LenProperties, ElementOfSeq
  <2> QED
    BY <1>3, <2>1, <2>2 DEF NodesCall
<1> QED
  BY <1>1, <1>2, <1>3, <1>4

(* ... and in which order, when all it calls is in order. *)
BaseRises(R, ev, n) ==
  n.base = ev[1] =>
    /\ ListRising(R, n.handlers)
    /\ \A x, y : x \in Ctxs(n.handlers) /\ IdsCall(ev, n.ids, y) => Later(R, x, y)
    /\ \A i \in DOMAIN n.ids : n.ids[i].id = ev[2] => ListRising(R, n.ids[i].handlers)
LoopRises(R, ev, n) ==
  /\ ListRising(R, n.handlers)
  /\ \A m \in DOMAIN n.bases : BaseRises(R, ev, n.bases[m])
  /\ \A m \in DOMAIN n.bases : \A x, y :
       x \in Ctxs(n.handlers) /\ BaseCalls(ev, n.bases[m], y) => Later(R, x, y)
  /\ \A i, m \in DOMAIN n.bases : \A x, y :
       i < m /\ BaseCalls(ev, n.bases[i], x) /\ BaseCalls(ev, n.bases[m], y) => Later(R, x, y)

LEMMA BaseIsRising ==
  ASSUME NEW ev, NEW n \in GoodBases, NEW R, ListRising(R, BaseSeg(ev)[n])
  PROVE  BaseRises(R, ev, n)
<1> SUFFICES ASSUME n.base = ev[1]
             PROVE  /\ ListRising(R, n.handlers)
                    /\ \A x, y : x \in Ctxs(n.handlers) /\ IdsCall(ev, n.ids, y) => Later(R, x, y)
                    /\ \A i \in DOMAIN n.ids : n.ids[i].id = ev[2] => ListRising(R, n.ids[i].handlers)
  BY DEF BaseRises
<1>1. n.handlers \in Seq(Entries) /\ n.ids \in Seq(IdNodes)
  BY NodesAre
<1>2. BaseSeg(ev)[n] = n.handlers \o Cat(IdSeg(ev), n.ids)
  BY DEF BaseSeg
<1>3. Cat(IdSeg(ev), n.ids) \in Seq(Entries)
  BY <1>1, SegsMap, CatMaps
<1>4. /\ ListRising(R, n.handlers) /\ ListRising(R, Cat(IdSeg(ev), n.ids))
      /\ Before(R, Ctxs(n.handlers), Ctxs(Cat(IdSeg(ev), n.ids)))
  BY <1>1, <1>2, <1>3, RisingJoin
<1>5. \A y : IdsCall(ev, n.ids, y) => y \in Ctxs(Cat(IdSeg(ev), n.ids))
  BY <1>1, CallsAre
<1>6. ASSUME NEW i \in DOMAIN n.ids, n.ids[i].id = ev[2] PROVE ListRising(R, n.ids[i].handlers)
  <2>1. ListRising(R, IdSeg(ev)[n.ids[i]])
    BY <1>1, <1>4, SegsMap, CatRises
  <2>2. n.ids[i] \in IdNodes
    BY <1>1, LenProperties, ElementOfSeq
  <2>3. IdSeg(ev)[n.ids[i]] = n.ids[i].handlers
    BY <1>6, <2>2 DEF IdSeg
  <2> QED
    BY <2>1, <2>3
<1> QED
  BY <1>4, <1>5, <1>6 DEF Before

LEMMA LoopIsRising ==
  ASSUME NEW ev, NEW n \in GoodLoops, NEW R, ListRising(R, LoopSeg(ev)[n])
  PROVE  LoopRises(R, ev, n)
<1>1. n.handlers \in Seq(Entries) /\ n.bases \in Seq(GoodBases)
  BY NodesAre
<1>2. LoopSeg(ev)[n] = n.handlers \o Cat(BaseSeg(ev), n.bases)
  BY DEF LoopSeg
<1>3. Cat(BaseSeg(ev), n.bases) \in Seq(Entries)
  BY <1>1, SegsMap, CatMaps
<1>4. /\ ListRising(R, n.handlers) /\ ListRising(R, Cat(BaseSeg(ev), n.bases))
      /\ Before(R, Ctxs(n.handlers), Ctxs(Cat(BaseSeg(ev), n.bases)))
  BY <1>1, <1>2, <1>3, RisingJoin
<1>5. /\ \A m \in DOMAIN n.bases : ListRising(R, BaseSeg(ev)[n.bases[m]])
      /\ \A i, m \in DOMAIN n.bases :
           i < m => Before(R, Ctxs(BaseSeg(ev)[n.bases[i]]), Ctxs(BaseSeg(ev)[n.bases[m]]))
  BY <1>1, <1>4, SegsMap, CatRises
<1>6. \A m \in DOMAIN n.bases : n.bases[m] \in GoodBases
  BY <1>1, LenProperties, ElementOfSeq
<1>7. \A m \in DOMAIN n.bases : BaseRises(R, ev, n.bases[m])
  BY <1>5, <1>6, BaseIsRising
<1>8. \A m \in DOMAIN n.bases : \A y : BaseCalls(ev, n.bases[m], y) => y \in Ctxs(BaseSeg(ev)[n.bases[m]])
  BY <1>6, CallsAre
<1>9. \A m \in DOMAIN n.bases : Ctxs(BaseSeg(ev)[n.bases[m]]) \subseteq Ctxs(Cat(BaseSeg(ev), n.bases))
  BY <1>1, SegsMap, CatHolds
<1>10. \A m \in DOMAIN n.bases : \A x, y :
         x \in Ctxs(n.handlers) /\ BaseCalls(ev, n.bases[m], y) => Later(R, x, y)
  BY <1>4, <1>8, <1>9 DEF Before
<1>11. \A i, m \in DOMAIN n.bases : \A x, y :
         i < m /\ BaseCalls(ev, n.bases[i], x) /\ BaseCalls(ev, n.bases[m], y) => Later(R, x, y)
  BY <1>5, <1>8 DEF Before
<1> QED
  BY <1>4, <1>7, <1>10, <1>11 DEF LoopRises

LEMMA NodesAreRising ==
  ASSUME NEW ev, NEW nodes \in Seq(GoodLoops), NEW R, ListRising(R, Cat(LoopSeg(ev), nodes))
  PROVE  /\ \A k \in DOMAIN nodes : LoopRises(R, ev, nodes[k])
         /\ \A j, k \in DOMAIN nodes : \A x, y :
              j < k /\ LoopCalls(ev, nodes[j], x) /\ LoopCalls(ev, nodes[k], y) => Later(R, x, y)
<1>1. /\ \A k \in DOMAIN nodes : ListRising(R, LoopSeg(ev)[nodes[k]])
      /\ \A j, k \in DOMAIN nodes :
           j < k => Before(R, Ctxs(LoopSeg(ev)[nodes[j]]), Ctxs(LoopSeg(ev)[nodes[k]]))
  BY SegsMap, CatRises
<1>2. \A k \in DOMAIN nodes : nodes[k] \in GoodLoops
  BY LenProperties, ElementOfSeq
<1>3. \A k \in DOMAIN nodes : LoopRises(R, ev, nodes[k])
  BY <1>1, <1>2, LoopIsRising
<1>4. \A k \in DOMAIN nodes : \A x : LoopCalls(ev, nodes[k], x) => x \in Ctxs(LoopSeg(ev)[nodes[k]])
  BY <1>2, CallsAre
<1> QED
  BY <1>1, <1>3, <1>4 DEF Before

-----------------------------------------------------------------------------
(* The registry and the event that is dispatched *)

Wanted(x) == NodesCall(event, loop_nodes, x)
Below(x, b, ln) == InBaseList(x, b, ln) \/ InIdList(x, b, ln)

RegistryRises(R) ==
  /\ AtsRising(R, loop_nodes)
  /\ \A k \in DOMAIN loop_nodes : AtsRising(R, loop_nodes[k].bases)
  /\ \A ev \in Events : ListRising(R, Cat(LoopSeg(ev), loop_nodes))
InBirthOrder(R) ==
  /\ R \subseteq born \X born /\ Strict(R) /\ RegistryRises(R)
  /\ RegistryInOrder /\ loop_nodes \in Seq(GoodLoops) /\ event \in Events

(* What is called in a node is in it. *)
LEMMA CalledIsIn ==
  /\ \A ev, ids, x : IdsCall(ev, ids, x) => x \in IdsCtxs(ids)
  /\ \A ev, n, x : BaseCalls(ev, n, x) => x \in BaseCtxs(n)
  /\ \A ev, n, x : LoopCalls(ev, n, x) => x \in LoopCtxs(n)
<1>1. \A ev, ids, x : IdsCall(ev, ids, x) => x \in IdsCtxs(ids)
  BY DEF IdsCall, IdsCtxs
<1>2. \A ev, n, x : BaseCalls(ev, n, x) => x \in BaseCtxs(n)
  BY <1>1 DEF BaseCalls, BaseCtxs
<1>3. \A ev, n, x : LoopCalls(ev, n, x) => x \in LoopCtxs(n)
  BY <1>2 DEF LoopCalls, LoopCtxs, BasesCtxs
<1> QED
  BY <1>1, <1>2, <1>3

(* A context that is wanted is called where it is. *)
LEMMA WantedAt ==
  ASSUME RegistryInOrder, NEW x, Wanted(x), NEW k \in DOMAIN loop_nodes, x \in LoopCtxs(loop_nodes[k])
  PROVE  /\ LoopCalls(event, loop_nodes[k], x)
         /\ \A m \in DOMAIN loop_nodes[k].bases : x \in BaseCtxs(loop_nodes[k].bases[m]) =>
              /\ BaseCalls(event, loop_nodes[k].bases[m], x)
              /\ x \in IdsCtxs(loop_nodes[k].bases[m].ids) => IdsCall(event, loop_nodes[k].bases[m].ids, x)
              /\ \A i \in DOMAIN loop_nodes[k].bases[m].ids :
                   x \in Ctxs(loop_nodes[k].bases[m].ids[i].handlers) =>
                     loop_nodes[k].bases[m].ids[i].id = event[2]
<1>1. PICK j \in DOMAIN loop_nodes : LoopCalls(event, loop_nodes[j], x)
  BY DEF Wanted, NodesCall
<1>2. j = k
  BY <1>1, CalledIsIn DEF RegistryInOrder, NodesOK
<1>3. LoopCalls(event, loop_nodes[k], x)
  BY <1>1, <1>2
<1>4. LoopOK(loop_nodes[k])
  BY DEF RegistryInOrder, NodesOK
<1>5. ASSUME NEW m \in DOMAIN loop_nodes[k].bases, x \in BaseCtxs(loop_nodes[k].bases[m])
      PROVE  /\ BaseCalls(event, loop_nodes[k].bases[m], x)
             /\ x \in IdsCtxs(loop_nodes[k].bases[m].ids) => IdsCall(event, loop_nodes[k].bases[m].ids, x)
             /\ \A i \in DOMAIN loop_nodes[k].bases[m].ids :
                   x \in Ctxs(loop_nodes[k].bases[m].ids[i].handlers) =>
                     loop_nodes[k].bases[m].ids[i].id = event[2]
  <2> DEFINE bs == loop_nodes[k].bases
             n == loop_nodes[k].bases[m]
  <2>1. x \in BasesCtxs(bs)
    BY <1>5 DEF BasesCtxs
  <2>2. x \notin Ctxs(loop_nodes[k].handlers)
    BY <1>4, <2>1 DEF LoopOK
  <2>3. PICK i \in DOMAIN bs : BaseCalls(event, bs[i], x)
    BY <1>3, <2>2 DEF LoopCalls
  <2>4. x \in BaseCtxs(bs[i])
    BY <2>3, CalledIsIn
  <2>5. i = m
    BY <1>4, <1>5, <2>4 DEF LoopOK, BasesOK
  <2>6. BaseCalls(event, n, x)
    BY <2>3, <2>5
  <2>7. BaseOK(n)
    BY <1>4 DEF LoopOK, BasesOK
  <2> HIDE DEF n
  <2>8. ASSUME x \in IdsCtxs(n.ids) PROVE IdsCall(event, n.ids, x)
    BY <2>6, <2>7, <2>8 DEF BaseCalls, BaseOK
  <2>9. ASSUME NEW j2 \in DOMAIN n.ids, x \in Ctxs(n.ids[j2].handlers) PROVE n.ids[j2].id = event[2]
    <3>1. IdsCall(event, n.ids, x)
      BY <2>8, <2>9 DEF IdsCtxs
    <3>2. PICK l \in DOMAIN n.ids : n.ids[l].id = event[2] /\ x \in Ctxs(n.ids[l].handlers)
      BY <3>1 DEF IdsCall
    <3>3. l = j2
      BY <2>7, <2>9, <3>2 DEF BaseOK, IdsOK
    <3> QED
      BY <3>2, <3>3
  <2> QED
    BY <2>6, <2>8, <2>9 DEF n
<1> QED
  BY <1>3, <1>5

(* Nodes whose addresses come in order are in that order. *)
LEMMA PlacesOfAts ==
  ASSUME NEW R, Strict(R), NEW T, NEW s \in Seq(T), AtsRising(R, s), NEW j \in DOMAIN s, NEW k \in DOMAIN s,
         Later(R, s[j].at, s[k].at)
  PROVE  j < k
<1>1. j \in Nat /\ k \in Nat
  BY LenProperties
<1>2. CASE j = k
  BY <1>2 DEF Strict
<1>3. CASE k < j
  <2>1. Later(R, s[k].at, s[j].at)
    BY <1>3 DEF AtsRising
  <2> QED
    BY <2>1 DEF Strict
<1> QED
  BY <1>1, <1>2, <1>3

(* Handlers of later loop nodes are called later ... *)
LEMMA LoopsInOrder ==
  ASSUME NEW R, InBirthOrder(R), NEW x, NEW y, Wanted(x), Wanted(y), NEW p, NEW q,
         UnderLoop(x, p), UnderLoop(y, q), Later(R, p, q)
  PROVE  Later(R, x, y)
<1>1. PICK j \in DOMAIN loop_nodes : loop_nodes[j].at = p /\ x \in LoopCtxs(loop_nodes[j])
  BY DEF UnderLoop
<1>2. PICK k \in DOMAIN loop_nodes : loop_nodes[k].at = q /\ y \in LoopCtxs(loop_nodes[k])
  BY DEF UnderLoop
<1>3. j < k
  BY <1>1, <1>2, PlacesOfAts DEF InBirthOrder, RegistryRises
<1>4. LoopCalls(event, loop_nodes[j], x) /\ LoopCalls(event, loop_nodes[k], y)
  BY <1>1, <1>2, WantedAt DEF InBirthOrder
<1> QED
  BY <1>3, <1>4, NodesAreRising DEF InBirthOrder, RegistryRises

(* What is in a loop node that is visited comes in order. *)
LEMMA LoopInOrder ==
  ASSUME NEW R, InBirthOrder(R), NEW k \in DOMAIN loop_nodes
  PROVE  LoopRises(R, event, loop_nodes[k])
BY NodesAreRising DEF InBirthOrder, RegistryRises

(* ... those of base nodes after those of the loop node ... *)
LEMMA BasesAfterLoop ==
  ASSUME NEW R, InBirthOrder(R), NEW x, NEW y, Wanted(y), NEW b, NEW ln,
         InLoopList(x, ln), Below(y, b, ln)
  PROVE  Later(R, x, y)
<1>1. RegistryInOrder
  BY DEF InBirthOrder
<1>2. PICK k \in DOMAIN loop_nodes : loop_nodes[k].at = ln /\ x \in Ctxs(loop_nodes[k].handlers)
  BY DEF InLoopList
<1>3. PICK j \in DOMAIN loop_nodes :
        loop_nodes[j].at = ln /\ \E m \in DOMAIN loop_nodes[j].bases : y \in BaseCtxs(loop_nodes[j].bases[m])
  BY DEF Below, InBaseList, InIdList, BaseCtxs
<1>4. j = k
  BY <1>1, <1>2, <1>3 DEF RegistryInOrder, NodesOK
<1>5. PICK m \in DOMAIN loop_nodes[k].bases : y \in BaseCtxs(loop_nodes[k].bases[m])
  BY <1>3, <1>4
<1>6. y \in LoopCtxs(loop_nodes[k])
  BY <1>5 DEF LoopCtxs, BasesCtxs
<1>7. BaseCalls(event, loop_nodes[k].bases[m], y)
  BY <1>1, <1>5, <1>6, WantedAt
<1> QED
  BY <1>2, <1>7, LoopInOrder DEF LoopRises

(* ... those of later base nodes later ... *)
LEMMA BasesInOrder ==
  ASSUME NEW R, InBirthOrder(R), NEW x, NEW y, Wanted(x), Wanted(y), NEW b, NEW c, NEW ln,
         Below(x, b, ln), Below(y, c, ln), Later(R, b, c)
  PROVE  Later(R, x, y)
<1>1. RegistryInOrder
  BY DEF InBirthOrder
<1>2. PICK k \in DOMAIN loop_nodes :
        /\ loop_nodes[k].at = ln
        /\ \E i \in DOMAIN loop_nodes[k].bases :
             loop_nodes[k].bases[i].at = b /\ x \in BaseCtxs(loop_nodes[k].bases[i])
  BY DEF Below, InBaseList, InIdList, BaseCtxs
<1>3. PICK j \in DOMAIN loop_nodes :
        /\ loop_nodes[j].at = ln
        /\ \E m \in DOMAIN loop_nodes[j].bases :
             loop_nodes[j].bases[m].at = c /\ y \in BaseCtxs(loop_nodes[j].bases[m])
  BY DEF Below, InBaseList, InIdList, BaseCtxs
<1>4. j = k
  BY <1>1, <1>2, <1>3 DEF RegistryInOrder, NodesOK
<1>5. PICK i \in DOMAIN loop_nodes[k].bases :
        loop_nodes[k].bases[i].at = b /\ x \in BaseCtxs(loop_nodes[k].bases[i])
  BY <1>2
<1>6. PICK m \in DOMAIN loop_nodes[k].bases :
        loop_nodes[k].bases[m].at = c /\ y \in BaseCtxs(loop_nodes[k].bases[m])
  BY <1>3, <1>4
<1>7. x \in LoopCtxs(loop_nodes[k]) /\ y \in LoopCtxs(loop_nodes[k])
  BY <1>5, <1>6 DEF LoopCtxs, BasesCtxs
<1>8. BaseCalls(event, loop_nodes[k].bases[i], x) /\ BaseCalls(event, loop_nodes[k].bases[m], y)
  BY <1>1, <1>5, <1>6, <1>7, WantedAt
<1>9. i < m
  <2>1. loop_nodes[k].bases \in Seq(BaseNodes) /\ AtsRising(R, loop_nodes[k].bases) /\ Strict(R)
    BY <1>1, NodesTyped DEF InBirthOrder, RegistryRises
  <2> QED
    BY <1>5, <1>6, <2>1, PlacesOfAts
<1> QED
  BY <1>8, <1>9, LoopInOrder DEF LoopRises

(* ... and those of an id node after those of its base node. *)
LEMMA IdsAfterBase ==
  ASSUME NEW R, InBirthOrder(R), NEW x, NEW y, Wanted(x), Wanted(y), NEW b, NEW ln,
         InBaseList(x, b, ln), InIdList(y, b, ln)
  PROVE  Later(R, x, y)
<1>1. RegistryInOrder
  BY DEF InBirthOrder
<1>2. PICK k \in DOMAIN loop_nodes :
        /\ loop_nodes[k].at = ln
        /\ \E i \in DOMAIN loop_nodes[k].bases :
             loop_nodes[k].bases[i].at = b /\ x \in Ctxs(loop_nodes[k].bases[i].handlers)
  BY DEF InBaseList
<1>3. PICK j \in DOMAIN loop_nodes :
        /\ loop_nodes[j].at = ln
        /\ \E m \in DOMAIN loop_nodes[j].bases :
             loop_nodes[j].bases[m].at = b /\ y \in IdsCtxs(loop_nodes[j].bases[m].ids)
  BY DEF InIdList
<1>4. j = k
  BY <1>1, <1>2, <1>3 DEF RegistryInOrder, NodesOK
<1>5. PICK i \in DOMAIN loop_nodes[k].bases :
        loop_nodes[k].bases[i].at = b /\ x \in Ctxs(loop_nodes[k].bases[i].handlers)
  BY <1>2
<1>6. PICK m \in DOMAIN loop_nodes[k].bases :
        loop_nodes[k].bases[m].at = b /\ y \in IdsCtxs(loop_nodes[k].bases[m].ids)
  BY <1>3, <1>4
<1>7. i = m
  BY <1>1, <1>5, <1>6 DEF RegistryInOrder, NodesOK, LoopOK, BasesOK
<1>8. /\ x \in BaseCtxs(loop_nodes[k].bases[i]) /\ y \in BaseCtxs(loop_nodes[k].bases[i])
      /\ x \in LoopCtxs(loop_nodes[k]) /\ y \in LoopCtxs(loop_nodes[k])
  BY <1>5, <1>6, <1>7 DEF BaseCtxs, LoopCtxs, BasesCtxs
<1>9. BaseCalls(event, loop_nodes[k].bases[i], x) /\ IdsCall(event, loop_nodes[k].bases[i].ids, y)
  BY <1>1, <1>6, <1>7, <1>8, WantedAt
<1>10. loop_nodes[k].bases[i].base = event[1] /\ BaseRises(R, event, loop_nodes[k].bases[i])
  BY <1>9, LoopInOrder DEF BaseCalls, LoopRises
<1> QED
  BY <1>5, <1>9, <1>10 DEF BaseRises

(* A list in which one handler is wanted is one of which all are, in their *)
(* order.                                                                  *)
LEMMA WantedList ==
  ASSUME NEW R, InBirthOrder(R), NEW x, Wanted(x), NEW l \in Lists, x \in Ctxs(l)
  PROVE  ListRising(R, l) /\ \A y \in Ctxs(l) : Wanted(y)
<1>1. RegistryInOrder
  BY DEF InBirthOrder
<1>2. PICK k \in DOMAIN loop_nodes :
        \/ l = loop_nodes[k].handlers
        \/ \E m \in DOMAIN loop_nodes[k].bases :
             \/ l = loop_nodes[k].bases[m].handlers
             \/ \E i \in DOMAIN loop_nodes[k].bases[m].ids : l = loop_nodes[k].bases[m].ids[i].handlers
  BY ListsAre
<1>3. LoopRises(R, event, loop_nodes[k])
  BY LoopInOrder
<1>4. \A y : LoopCalls(event, loop_nodes[k], y) => Wanted(y)
  BY DEF Wanted, NodesCall
<1>5. CASE l = loop_nodes[k].handlers
  BY <1>3, <1>4, <1>5 DEF LoopRises, LoopCalls
<1>6. ASSUME NEW m \in DOMAIN loop_nodes[k].bases, l = loop_nodes[k].bases[m].handlers
      PROVE  ListRising(R, l) /\ \A y \in Ctxs(l) : Wanted(y)
  <2>1. x \in BaseCtxs(loop_nodes[k].bases[m]) /\ x \in LoopCtxs(loop_nodes[k])
    BY <1>6 DEF BaseCtxs, LoopCtxs, BasesCtxs
  <2>2. BaseCalls(event, loop_nodes[k].bases[m], x)
    BY <1>1, <2>1, WantedAt
  <2>3. loop_nodes[k].bases[m].base = event[1]
    BY <2>2 DEF BaseCalls
  <2>4. BaseRises(R, event, loop_nodes[k].bases[m])
    BY <1>3 DEF LoopRises
  <2>5. ListRising(R, l)
    BY <1>6, <2>3, <2>4 DEF BaseRises
  <2>6. \A y \in Ctxs(l) : BaseCalls(event, loop_nodes[k].bases[m], y)
    BY <1>6, <2>3 DEF BaseCalls
  <2> QED
    BY <1>4, <2>5, <2>6 DEF LoopCalls
<1>7. ASSUME NEW m \in DOMAIN loop_nodes[k].bases, NEW i \in DOMAIN loop_nodes[k].bases[m].ids,
             l = loop_nodes[k].bases[m].ids[i].handlers
      PROVE  ListRising(R, l) /\ \A y \in Ctxs(l) : Wanted(y)
  <2>1. x \in BaseCtxs(loop_nodes[k].bases[m]) /\ x \in LoopCtxs(loop_nodes[k])
    BY <1>7 DEF IdsCtxs, BaseCtxs, LoopCtxs, BasesCtxs
  <2>2. BaseCalls(event, loop_nodes[k].bases[m], x) /\ loop_nodes[k].bases[m].ids[i].id = event[2]
    BY <1>1, <1>7, <2>1, WantedAt
  <2>3. loop_nodes[k].bases[m].base = event[1]
    BY <2>2 DEF BaseCalls
  <2>4. BaseRises(R, event, loop_nodes[k].bases[m])
    BY <1>3 DEF LoopRises
  <2>5. ListRising(R, l)
    BY <1>7, <2>2, <2>3, <2>4 DEF BaseRises
  <2>6. \A y \in Ctxs(l) : IdsCall(event, loop_nodes[k].bases[m].ids, y)
    BY <1>7, <2>2 DEF IdsCall
  <2>7. \A y \in Ctxs(l) : BaseCalls(event, loop_nodes[k].bases[m], y)
    BY <2>3, <2>6 DEF BaseCalls
  <2> QED
    BY <1>4, <2>5, <2>7 DEF LoopCalls
<1> QED
  BY <1>2, <1>5, <1>6, <1>7

-----------------------------------------------------------------------------
(* First and next elements, in the order of birth *)

(* A list of nodes begins at SLIST_FIRST. *)
LEMMA FirstNodeFrom ==
  ASSUME NEW R, NEW T, NEW s \in Seq(T), AtsRising(R, s), \A k \in DOMAIN s : s[k].at # NULL,
         NEW k \in DOMAIN s
  PROVE  From(R, FirstNode(s), s[k].at)
<1>1. DOMAIN s = 1 .. Len(s) /\ Len(s) \in Nat
  BY LenProperties
<1>2. s # <<>> /\ 1 \in DOMAIN s
  BY <1>1, EmptySeq
<1>3. FirstNode(s) = s[1].at /\ s[1].at # NULL
  BY <1>2 DEF FirstNode
<1>4. CASE k = 1
  BY <1>3, <1>4 DEF From
<1>5. CASE k # 1
  <2>1. 1 < k
    BY <1>1, <1>5
  <2>2. Later(R, s[1].at, s[k].at)
    BY <1>2, <2>1 DEF AtsRising
  <2> QED
    BY <1>3, <2>2 DEF From
<1> QED
  BY <1>4, <1>5

(* What is behind a node begins at SLIST_NEXT. *)
LEMMA NextNodeFrom ==
  ASSUME NEW R, Strict(R), NEW T, NEW s \in Seq(T), AtsRising(R, s), \A k \in DOMAIN s : s[k].at # NULL,
         NEW j \in DOMAIN s
  PROVE  /\ NextNode(s, s[j].at) = NULL \/ Later(R, s[j].at, NextNode(s, s[j].at))
         /\ \A k \in DOMAIN s : Later(R, s[j].at, s[k].at) => From(R, NextNode(s, s[j].at), s[k].at)
<1> DEFINE p == s[j].at
           i == CHOOSE i \in DOMAIN s : s[i].at = p
<1>1. i \in DOMAIN s /\ s[i].at = p
  OBVIOUS
<1>2. NextNode(s, p) = IF i = Len(s) THEN NULL ELSE s[i + 1].at
  BY DEF NextNode
<1> HIDE DEF i, p
<1>3. DOMAIN s = 1 .. Len(s) /\ Len(s) \in Nat
  BY LenProperties
<1>4. CASE i = Len(s)
  <2>1. ASSUME NEW k \in DOMAIN s, Later(R, p, s[k].at) PROVE FALSE
    <3>1. i < k
      BY <1>1, <2>1, PlacesOfAts
    <3> QED
      BY <1>3, <1>4, <3>1
  <2> QED
    BY <1>2, <1>4, <2>1 DEF p
<1>5. CASE i # Len(s)
  <2>1. i + 1 \in DOMAIN s /\ i < i + 1
    BY <1>1, <1>3, <1>5
  <2>2. Later(R, p, s[i + 1].at)
    BY <1>1, <2>1 DEF AtsRising
  <2>3. NextNode(s, p) = s[i + 1].at /\ s[i + 1].at # NULL
    BY <1>2, <1>5, <2>1
  <2>4. ASSUME NEW k \in DOMAIN s, Later(R, p, s[k].at) PROVE From(R, s[i + 1].at, s[k].at)
    <3>1. i < k
      BY <1>1, <2>4, PlacesOfAts
    <3>2. CASE k = i + 1
      BY <2>3, <3>2 DEF From
    <3>3. CASE k # i + 1
      <4>1. i + 1 < k
        BY <1>1, <1>3, <3>1, <3>3
      <4>2. Later(R, s[i + 1].at, s[k].at)
        BY <2>1, <4>1 DEF AtsRising
      <4> QED
        BY <2>3, <4>2 DEF From
    <3> QED
      BY <3>2, <3>3
  <2> QED
    BY <2>2, <2>3, <2>4 DEF p
<1> QED
  BY <1>4, <1>5

(* The same of lists of handlers. *)
LEMMA CtxOfEntry ==
  ASSUME NEW l \in Seq(Entries), NEW k \in DOMAIN l
  PROVE  l[k].ctx \in Contexts /\ l[k].ctx # NULL /\ l[k].ctx \in Ctxs(l)
<1>1. l[k] \in Entries
  BY LenProperties, ElementOfSeq
<1> QED
  BY <1>1, TracesAssumption DEF Entries, Ctxs

LEMMA FirstHandlerFrom ==
  ASSUME NEW R, NEW l \in Seq(Entries), ListRising(R, l), NEW x \in Ctxs(l)
  PROVE  From(R, FirstHandler(l), x)
<1>1. DOMAIN l = 1 .. Len(l) /\ Len(l) \in Nat
  BY LenProperties
<1>2. PICK k \in DOMAIN l : x = l[k].ctx
  BY DEF Ctxs
<1>3. l # <<>> /\ 1 \in DOMAIN l
  BY <1>1, <1>2, EmptySeq
<1>4. FirstHandler(l) = l[1].ctx /\ l[1].ctx # NULL
  BY <1>3, CtxOfEntry DEF FirstHandler
<1>5. CASE k = 1
  BY <1>2, <1>4, <1>5 DEF From
<1>6. CASE k # 1
  <2>1. 1 < k
    BY <1>1, <1>6
  <2>2. Later(R, l[1].ctx, l[k].ctx)
    BY <1>3, <2>1 DEF ListRising
  <2> QED
    BY <1>2, <1>4, <2>2 DEF From
<1> QED
  BY <1>5, <1>6

(* Handlers that are wanted and in the list that is walked are in one list *)
(* of the registry: the event has one id.                                  *)
LEMMA SameList ==
  ASSUME RegistryInOrder, NEW h, NEW x, Here(h), Here(x), Wanted(h), Wanted(x), NEW l \in Lists, h \in Ctxs(l)
  PROVE  x \in Ctxs(l)
<1>1. PICK k \in DOMAIN loop_nodes :
        \/ l = loop_nodes[k].handlers
        \/ \E m \in DOMAIN loop_nodes[k].bases :
             \/ l = loop_nodes[k].bases[m].handlers
             \/ \E i \in DOMAIN loop_nodes[k].bases[m].ids : l = loop_nodes[k].bases[m].ids[i].handlers
  BY ListsAre
<1>2. /\ LoopOK(loop_nodes[k])
      /\ \A j \in DOMAIN loop_nodes : loop_nodes[j].at = loop_nodes[k].at => j = k
  BY DEF RegistryInOrder, NodesOK
<1>3. CASE l = loop_nodes[k].handlers
  <2>1. h \in LoopCtxs(loop_nodes[k])
    BY <1>3 DEF LoopCtxs
  <2>2. list = "loop" /\ InLoopList(h, loop_node)
    BY <1>3, <2>1, InBaseListIs, InIdListIs DEF Here
  <2>3. loop_nodes[k].at = loop_node
    BY <2>1, <2>2, InLoopListIs
  <2>4. InLoopList(x, loop_nodes[k].at)
    BY <2>2, <2>3 DEF Here
  <2> QED
    BY <1>2, <1>3, <2>4 DEF InLoopList
<1>4. ASSUME NEW m \in DOMAIN loop_nodes[k].bases, l = loop_nodes[k].bases[m].handlers
      PROVE  x \in Ctxs(l)
  <2>1. h \in BaseCtxs(loop_nodes[k].bases[m])
    BY <1>4 DEF BaseCtxs
  <2>2. h \in BasesCtxs(loop_nodes[k].bases) /\ h \in LoopCtxs(loop_nodes[k])
    BY <2>1 DEF BasesCtxs, LoopCtxs
  <2>3. list = "base" /\ InBaseList(h, base_node, loop_node)
    BY <1>4, <2>1, <2>2, InLoopListIs, InIdListIs DEF Here
  <2>4. loop_nodes[k].at = loop_node /\ loop_nodes[k].bases[m].at = base_node
    BY <2>1, <2>2, <2>3, InBaseListIs
  <2>5. InBaseList(x, loop_nodes[k].bases[m].at, loop_nodes[k].at)
    BY <2>3, <2>4 DEF Here
  <2>6. PICK i \in DOMAIN loop_nodes[k].bases :
          loop_nodes[k].bases[i].at = loop_nodes[k].bases[m].at /\ x \in Ctxs(loop_nodes[k].bases[i].handlers)
    BY <1>2, <2>5 DEF InBaseList
  <2>7. i = m
    BY <1>2, <2>6 DEF LoopOK, BasesOK
  <2> QED
    BY <1>4, <2>6, <2>7
<1>5. ASSUME NEW m \in DOMAIN loop_nodes[k].bases, NEW i \in DOMAIN loop_nodes[k].bases[m].ids,
             l = loop_nodes[k].bases[m].ids[i].handlers
      PROVE  x \in Ctxs(l)
  <2>1. h \in IdsCtxs(loop_nodes[k].bases[m].ids)
    BY <1>5 DEF IdsCtxs
  <2>2. h \in BaseCtxs(loop_nodes[k].bases[m])
    BY <2>1 DEF BaseCtxs
  <2>3. h \in BasesCtxs(loop_nodes[k].bases) /\ h \in LoopCtxs(loop_nodes[k])
    BY <2>2 DEF BasesCtxs, LoopCtxs
  <2>4. list = "id" /\ InIdList(h, base_node, loop_node)
    BY <2>1, <2>2, <2>3, InLoopListIs, InBaseListIs DEF Here
  <2>5. loop_nodes[k].at = loop_node /\ loop_nodes[k].bases[m].at = base_node
    BY <2>2, <2>3, <2>4, InIdListIs
  <2>6. InIdList(x, loop_nodes[k].bases[m].at, loop_nodes[k].at)
    BY <2>4, <2>5 DEF Here
  <2>7. PICK n \in DOMAIN loop_nodes[k].bases :
          loop_nodes[k].bases[n].at = loop_nodes[k].bases[m].at /\ x \in IdsCtxs(loop_nodes[k].bases[n].ids)
    BY <1>2, <2>6 DEF InIdList
  <2>8. n = m
    BY <1>2, <2>7 DEF LoopOK, BasesOK
  <2>9. PICK j \in DOMAIN loop_nodes[k].bases[m].ids : x \in Ctxs(loop_nodes[k].bases[m].ids[j].handlers)
    BY <2>7, <2>8 DEF IdsCtxs
  <2>10. x \in BaseCtxs(loop_nodes[k].bases[m]) /\ x \in LoopCtxs(loop_nodes[k])
    BY <2>7, <2>8 DEF BaseCtxs, BasesCtxs, LoopCtxs
  <2>11. /\ loop_nodes[k].bases[m].ids[i].id = event[2]
         /\ loop_nodes[k].bases[m].ids[j].id = event[2]
    BY <1>5, <2>2, <2>3, <2>9, <2>10, WantedAt
  <2>12. IdsOK(loop_nodes[k].bases[m].ids)
    BY <1>2 DEF LoopOK, BasesOK, BaseOK
  <2>13. i = j
    BY <2>11, <2>12 DEF IdsOK
  <2> QED
    BY <1>5, <2>9, <2>13
<1> QED
  BY <1>1, <1>3, <1>4, <1>5

(* What is behind a handler begins at SLIST_NEXT. *)
LEMMA NextHandlerFrom ==
  ASSUME NEW R, InBirthOrder(R), NEW h, Here(h), Wanted(h)
  PROVE  /\ \/ NextHandler(h) = NULL
            \/ /\ Here(NextHandler(h)) /\ Wanted(NextHandler(h))
               /\ Later(R, h, NextHandler(h))
         /\ \A x : Here(x) /\ Wanted(x) /\ Later(R, h, x) => From(R, NextHandler(h), x)
<1>1. RegistryInOrder /\ Strict(R)
  BY DEF InBirthOrder
<1> DEFINE l == CHOOSE l \in Lists : h \in {e.ctx : e \in Range(l)}
           i == CHOOSE k \in DOMAIN l : l[k].ctx = h
<1>2. \A s : Ctxs(s) = {e.ctx : e \in Range(s)}
  BY DEF Ctxs, Range
<1>3. \E s \in Lists : h \in {e.ctx : e \in Range(s)}
  BY <1>1, <1>2, HereIs
<1>4. l \in Lists /\ h \in Ctxs(l)
  <2>1. l \in Lists /\ h \in {e.ctx : e \in Range(l)}
    BY <1>3, Zenon
  <2> HIDE DEF l
  <2> QED
    BY <1>2, <2>1
<1>5. NextHandler(h) = IF i = Len(l) THEN NULL ELSE l[i + 1].ctx
  BY DEF NextHandler
<1> HIDE DEF l
<1>6. l \in Seq(Entries) /\ \A y \in Ctxs(l) : Here(y)
  BY <1>1, <1>4, ListHere
<1>7. ListRising(R, l) /\ \A y \in Ctxs(l) : Wanted(y)
  BY <1>4, WantedList
<1>8. DOMAIN l = 1 .. Len(l) /\ Len(l) \in Nat
  BY <1>6, LenProperties
<1>9. i \in DOMAIN l /\ l[i].ctx = h
  BY <1>4 DEF Ctxs
<1> HIDE DEF i
<1>10. ASSUME NEW x, Here(x), Wanted(x), Later(R, h, x) PROVE \E k \in DOMAIN l : l[k].ctx = x /\ i < k
  <2>1. PICK k \in DOMAIN l : l[k].ctx = x
    BY <1>1, <1>4, <1>10, SameList DEF Ctxs
  <2>2. CASE k = i
    BY <1>1, <1>9, <1>10, <2>1, <2>2 DEF Strict
  <2>3. CASE k < i
    <3>1. Later(R, x, h)
      BY <1>7, <1>9, <2>1, <2>3 DEF ListRising
    <3> QED
      BY <1>1, <1>10, <3>1 DEF Strict
  <2> QED
    BY <1>8, <1>9, <2>1, <2>2, <2>3
<1>11. CASE i = Len(l)
  <2>1. NextHandler(h) = NULL
    BY <1>5, <1>11
  <2>2. ASSUME NEW x, Here(x), Wanted(x), Later(R, h, x) PROVE FALSE
    <3>1. PICK k \in DOMAIN l : i < k
      BY <1>10, <2>2
    <3> QED
      BY <1>8, <1>11, <3>1
  <2> QED
    BY <2>1, <2>2
<1>12. CASE i # Len(l)
  <2>1. i + 1 \in DOMAIN l /\ i < i + 1
    BY <1>8, <1>9, <1>12
  <2>2. NextHandler(h) = l[i + 1].ctx /\ l[i + 1].ctx # NULL /\ l[i + 1].ctx \in Ctxs(l)
    BY <1>5, <1>6, <1>12, <2>1, CtxOfEntry
  <2>3. Later(R, h, l[i + 1].ctx)
    BY <1>7, <1>9, <2>1 DEF ListRising
  <2>4. ASSUME NEW x, Here(x), Wanted(x), Later(R, h, x) PROVE From(R, NextHandler(h), x)
    <3>1. PICK k \in DOMAIN l : l[k].ctx = x /\ i < k
      BY <1>10, <2>4
    <3>2. CASE k = i + 1
      BY <2>2, <3>1, <3>2 DEF From
    <3>3. CASE k # i + 1
      <4>1. i + 1 < k
        BY <1>8, <1>9, <3>1, <3>3
      <4>2. Later(R, l[i + 1].ctx, x)
        BY <1>7, <2>1, <3>1, <4>1 DEF ListRising
      <4> QED
        BY <2>2, <4>2 DEF From
    <3> QED
      BY <3>2, <3>3
  <2> QED
    BY <1>6, <1>7, <2>2, <2>3, <2>4
<1> QED
  BY <1>11, <1>12

-----------------------------------------------------------------------------
(* What is behind a cursor *)

FromLoop(R, p, x) == \E ln : From(R, p, ln) /\ UnderLoop(x, ln)
FromBase(R, p, ln, x) == \E b : From(R, p, b) /\ Below(x, b, ln)
BelowSome(x, ln) == \E b : Below(x, b, ln)

(* What is under a loop node is in its list or below one of its bases. *)
LEMMA UnderLoopIs ==
  \A x, ln : UnderLoop(x, ln) <=> InLoopList(x, ln) \/ BelowSome(x, ln)
<1> SUFFICES ASSUME NEW x, NEW ln PROVE UnderLoop(x, ln) <=> InLoopList(x, ln) \/ BelowSome(x, ln)
  OBVIOUS
<1>1. InLoopList(x, ln) => UnderLoop(x, ln)
  BY DEF InLoopList, UnderLoop, LoopCtxs
<1>2. BelowSome(x, ln) => UnderLoop(x, ln)
  BY DEF BelowSome, Below, InBaseList, InIdList, UnderLoop, LoopCtxs, BasesCtxs, BaseCtxs
<1>3. ASSUME UnderLoop(x, ln) PROVE InLoopList(x, ln) \/ BelowSome(x, ln)
  <2>1. PICK k \in DOMAIN loop_nodes : loop_nodes[k].at = ln /\ x \in LoopCtxs(loop_nodes[k])
    BY <1>3 DEF UnderLoop
  <2>2. CASE x \in Ctxs(loop_nodes[k].handlers)
    BY <2>1, <2>2 DEF InLoopList
  <2>3. CASE x \in BasesCtxs(loop_nodes[k].bases)
    <3>1. PICK m \in DOMAIN loop_nodes[k].bases : x \in BaseCtxs(loop_nodes[k].bases[m])
      BY <2>3 DEF BasesCtxs
    <3>2. Below(x, loop_nodes[k].bases[m].at, ln)
      BY <2>1, <3>1 DEF Below, InBaseList, InIdList, BaseCtxs
    <3> QED
      BY <3>2 DEF BelowSome
  <2> QED
    BY <2>1, <2>2, <2>3 DEF LoopCtxs
<1> QED
  BY <1>1, <1>2, <1>3

(* No node is at NULL. *)
LEMMA NodesNotNull ==
  ASSUME RegistryInOrder
  PROVE  /\ \A k \in DOMAIN loop_nodes : loop_nodes[k].at # NULL
         /\ \A k \in DOMAIN loop_nodes : \A m \in DOMAIN loop_nodes[k].bases : loop_nodes[k].bases[m].at # NULL
BY NodesTyped, TracesAssumption DEF LoopNodes, BaseNodes

(* All that is wanted is behind the first loop node. *)
LEMMA FromFirstLoop ==
  ASSUME NEW R, InBirthOrder(R), NEW ev, NEW x, NodesCall(ev, loop_nodes, x)
  PROVE  FromLoop(R, FirstNode(loop_nodes), x)
<1>1. PICK k \in DOMAIN loop_nodes : LoopCalls(ev, loop_nodes[k], x)
  BY DEF NodesCall
<1>2. From(R, FirstNode(loop_nodes), loop_nodes[k].at)
  BY FirstNodeFrom, NodesNotNull DEF InBirthOrder, RegistryRises
<1>3. UnderLoop(x, loop_nodes[k].at)
  BY <1>1, CalledIsIn DEF UnderLoop
<1> QED
  BY <1>2, <1>3 DEF FromLoop

(* What comes from q, which is behind p, comes behind p. *)
LEMMA FromLater ==
  ASSUME NEW R, Strict(R), NEW p, NEW q, q = NULL \/ Later(R, p, q), NEW x, From(R, q, x)
  PROVE  Later(R, p, x)
BY DEF From, Strict

(* Behind a loop node is what is under it and under the next ones. *)
LEMMA FromNextLoop ==
  ASSUME NEW R, InBirthOrder(R), NEW ln, AtLoop(ln), NEW q, q = NextNode(loop_nodes, ln)
  PROVE  /\ q = NULL \/ Later(R, ln, q)
         /\ \A x : FromLoop(R, ln, x) <=> UnderLoop(x, ln) \/ FromLoop(R, q, x)
<1>1. RegistryInOrder /\ Strict(R) /\ AtsRising(R, loop_nodes) /\ loop_nodes \in Seq(LoopNodes)
  BY DEF InBirthOrder, RegistryRises, RegistryInOrder
<1>2. PICK j \in DOMAIN loop_nodes : loop_nodes[j].at = ln
  BY DEF AtLoop
<1>3. \A k \in DOMAIN loop_nodes : loop_nodes[k].at # NULL
  BY <1>1, NodesNotNull
<1>4. /\ q = NULL \/ Later(R, ln, q)
      /\ \A k \in DOMAIN loop_nodes : Later(R, ln, loop_nodes[k].at) => From(R, q, loop_nodes[k].at)
  BY <1>1, <1>2, <1>3, NextNodeFrom
<1>5. ASSUME NEW x, NEW p, From(R, ln, p), UnderLoop(x, p) PROVE UnderLoop(x, ln) \/ FromLoop(R, q, x)
  <2>1. CASE p = ln
    BY <1>5, <2>1
  <2>2. CASE Later(R, ln, p)
    <3>1. \E k \in DOMAIN loop_nodes : loop_nodes[k].at = p
      BY <1>5 DEF UnderLoop
    <3>2. From(R, q, p)
      BY <1>4, <2>2, <3>1
    <3> QED
      BY <1>5, <3>2 DEF FromLoop
  <2> QED
    BY <1>5, <2>1, <2>2 DEF From
<1>6. ASSUME NEW x, NEW p, From(R, q, p), UnderLoop(x, p) PROVE FromLoop(R, ln, x)
  <2>1. Later(R, ln, p)
    BY <1>1, <1>4, <1>6, FromLater
  <2> QED
    BY <1>2, <1>3, <1>6, <2>1 DEF FromLoop, From
<1>7. ASSUME NEW x, UnderLoop(x, ln) PROVE FromLoop(R, ln, x)
  BY <1>2, <1>3, <1>7 DEF FromLoop, From
<1> QED
  BY <1>4, <1>5, <1>6, <1>7 DEF FromLoop

(* What is below a base node is in a base node of the loop node. *)
LEMMA BelowIs ==
  ASSUME RegistryInOrder, NEW k \in DOMAIN loop_nodes, NEW x, NEW b, Below(x, b, loop_nodes[k].at)
  PROVE  \E m \in DOMAIN loop_nodes[k].bases :
           loop_nodes[k].bases[m].at = b /\ x \in BaseCtxs(loop_nodes[k].bases[m])
<1>1. PICK j \in DOMAIN loop_nodes :
        /\ loop_nodes[j].at = loop_nodes[k].at
        /\ \E m \in DOMAIN loop_nodes[j].bases :
             loop_nodes[j].bases[m].at = b /\ x \in BaseCtxs(loop_nodes[j].bases[m])
  BY DEF Below, InBaseList, InIdList, BaseCtxs
<1>2. j = k
  BY <1>1 DEF RegistryInOrder, NodesOK
<1> QED
  BY <1>1, <1>2

(* What is below the base nodes of a loop node is behind its first one. *)
LEMMA FromFirstBase ==
  ASSUME NEW R, InBirthOrder(R), NEW ln, AtLoop(ln), NEW q, q = FirstNode(LoopAt(ln).bases)
  PROVE  \A x : BelowSome(x, ln) <=> FromBase(R, q, ln, x)
<1>1. RegistryInOrder
  BY DEF InBirthOrder
<1>2. PICK k \in DOMAIN loop_nodes : loop_nodes[k].at = ln /\ LoopAt(ln) = loop_nodes[k]
  BY LoopAtIs
<1>3. loop_nodes[k].bases \in Seq(BaseNodes) /\ AtsRising(R, loop_nodes[k].bases)
  BY <1>1, NodesTyped DEF InBirthOrder, RegistryRises
<1>4. \A m \in DOMAIN loop_nodes[k].bases : loop_nodes[k].bases[m].at # NULL
  BY <1>1, NodesNotNull
<1>5. \A m \in DOMAIN loop_nodes[k].bases : From(R, q, loop_nodes[k].bases[m].at)
  BY <1>2, <1>3, <1>4, FirstNodeFrom
<1>6. ASSUME NEW x, NEW b, Below(x, b, ln) PROVE From(R, q, b)
  BY <1>1, <1>2, <1>5, <1>6, BelowIs
<1> QED
  BY <1>6 DEF BelowSome, FromBase

(* Behind a base node is what is below it and below the next ones. *)
LEMMA FromNextBase ==
  ASSUME NEW R, InBirthOrder(R), NEW b, NEW ln, AtBase(b, ln), NEW q, q = NextNode(LoopAt(ln).bases, b)
  PROVE  /\ q = NULL \/ Later(R, b, q)
         /\ \A x : FromBase(R, b, ln, x) <=> Below(x, b, ln) \/ FromBase(R, q, ln, x)
<1>1. RegistryInOrder /\ Strict(R)
  BY DEF InBirthOrder
<1>2. PICK k \in DOMAIN loop_nodes :
        /\ loop_nodes[k].at = ln /\ LoopAt(ln) = loop_nodes[k]
        /\ \E m \in DOMAIN loop_nodes[k].bases : loop_nodes[k].bases[m].at = b
  BY <1>1, BaseAtIs
<1>3. PICK j \in DOMAIN loop_nodes[k].bases : loop_nodes[k].bases[j].at = b
  BY <1>2
<1> DEFINE bs == loop_nodes[k].bases
<1>4. bs \in Seq(BaseNodes) /\ AtsRising(R, bs) /\ \A m \in DOMAIN bs : bs[m].at # NULL
  BY <1>1, NodesTyped, NodesNotNull DEF InBirthOrder, RegistryRises
<1>5. j \in DOMAIN bs /\ bs[j].at = b /\ q = NextNode(bs, b)
  BY <1>2, <1>3
<1>6. \A x, p : Below(x, p, ln) => \E m \in DOMAIN bs : bs[m].at = p
  BY <1>1, <1>2, BelowIs
<1> HIDE DEF bs
<1>7. /\ q = NULL \/ Later(R, b, q)
      /\ \A m \in DOMAIN bs : Later(R, b, bs[m].at) => From(R, q, bs[m].at)
  BY <1>1, <1>4, <1>5, NextNodeFrom
<1>8. ASSUME NEW x, NEW p, From(R, b, p), Below(x, p, ln) PROVE Below(x, b, ln) \/ FromBase(R, q, ln, x)
  <2>1. CASE p = b
    BY <1>8, <2>1
  <2>2. CASE Later(R, b, p)
    <3>1. From(R, q, p)
      BY <1>6, <1>7, <1>8, <2>2
    <3> QED
      BY <1>8, <3>1 DEF FromBase
  <2> QED
    BY <1>8, <2>1, <2>2 DEF From
<1>9. ASSUME NEW x, NEW p, From(R, q, p), Below(x, p, ln) PROVE FromBase(R, b, ln, x)
  <2>1. Later(R, b, p)
    BY <1>1, <1>7, <1>9, FromLater
  <2> QED
    BY <1>4, <1>5, <1>9, <2>1 DEF FromBase, From
<1>10. ASSUME NEW x, Below(x, b, ln) PROVE FromBase(R, b, ln, x)
  BY <1>4, <1>5, <1>10 DEF FromBase, From
<1> QED
  BY <1>7, <1>8, <1>9, <1>10 DEF FromBase

(* The list of a loop node begins at its first handler. *)
LEMMA FromFirstOfLoop ==
  ASSUME NEW R, InBirthOrder(R), NEW ln, AtLoop(ln), NEW q, q = FirstHandler(LoopAt(ln).handlers)
  PROVE  /\ q = NULL \/ Wanted(q)
         /\ \A x : InLoopList(x, ln) => From(R, q, x)
<1>1. RegistryInOrder
  BY DEF InBirthOrder
<1>2. PICK k \in DOMAIN loop_nodes : loop_nodes[k].at = ln /\ LoopAt(ln) = loop_nodes[k]
  BY LoopAtIs
<1>3. loop_nodes[k].handlers \in Seq(Entries) /\ ListRising(R, loop_nodes[k].handlers)
  BY <1>1, NodesTyped, LoopInOrder DEF LoopRises
<1>4. \A x \in Ctxs(loop_nodes[k].handlers) : Wanted(x) /\ From(R, q, x)
  BY <1>2, <1>3, FirstHandlerFrom DEF Wanted, NodesCall, LoopCalls
<1>5. q = NULL \/ q \in Ctxs(loop_nodes[k].handlers)
  BY <1>2, <1>3, FirstHandlerIs
<1>6. ASSUME NEW x, InLoopList(x, ln) PROVE x \in Ctxs(loop_nodes[k].handlers)
  BY <1>1, <1>2, <1>6 DEF InLoopList, RegistryInOrder, NodesOK
<1> QED
  BY <1>4, <1>5, <1>6

(* A pointer to a base node, and all that is below it *)
LEMMA BaseNodeIs ==
  ASSUME RegistryInOrder, NEW b, NEW ln, AtBase(b, ln)
  PROVE  \E k \in DOMAIN loop_nodes : \E m \in DOMAIN loop_nodes[k].bases :
           /\ loop_nodes[k].at = ln /\ loop_nodes[k].bases[m].at = b /\ BaseAt(b) = loop_nodes[k].bases[m]
           /\ \A x : InBaseList(x, b, ln) => x \in Ctxs(loop_nodes[k].bases[m].handlers)
           /\ \A x : InIdList(x, b, ln) => x \in IdsCtxs(loop_nodes[k].bases[m].ids)
<1>1. PICK k \in DOMAIN loop_nodes :
        /\ loop_nodes[k].at = ln
        /\ \E m \in DOMAIN loop_nodes[k].bases :
             loop_nodes[k].bases[m].at = b /\ BaseAt(b) = loop_nodes[k].bases[m]
  BY BaseAtIs
<1>2. PICK m \in DOMAIN loop_nodes[k].bases :
        loop_nodes[k].bases[m].at = b /\ BaseAt(b) = loop_nodes[k].bases[m]
  BY <1>1
<1>3. \A j \in DOMAIN loop_nodes : loop_nodes[j].at = ln => j = k
  BY <1>1 DEF RegistryInOrder, NodesOK
<1>4. \A i \in DOMAIN loop_nodes[k].bases : loop_nodes[k].bases[i].at = b => i = m
  BY <1>2 DEF RegistryInOrder, NodesOK, LoopOK, BasesOK
<1>5. \A x : InBaseList(x, b, ln) => x \in Ctxs(loop_nodes[k].bases[m].handlers)
  BY <1>3, <1>4 DEF InBaseList
<1>6. \A x : InIdList(x, b, ln) => x \in IdsCtxs(loop_nodes[k].bases[m].ids)
  BY <1>3, <1>4 DEF InIdList
<1> QED
  BY <1>1, <1>2, <1>5, <1>6

(* The list of a base node of the event's base begins at its first handler *)
(* and nothing is wanted below the others.                                 *)
LEMMA FromFirstOfBase ==
  ASSUME NEW R, InBirthOrder(R), NEW b, NEW ln, AtBase(b, ln), NEW q, q = FirstHandler(BaseAt(b).handlers)
  PROVE  /\ BaseAt(b).base = event[1] =>
              (q = NULL \/ Wanted(q)) /\ \A x : InBaseList(x, b, ln) => From(R, q, x)
         /\ BaseAt(b).base # event[1] => \A x : Below(x, b, ln) => ~Wanted(x)
<1>1. RegistryInOrder
  BY DEF InBirthOrder
<1>2. PICK k \in DOMAIN loop_nodes : \E m \in DOMAIN loop_nodes[k].bases :
        /\ loop_nodes[k].at = ln /\ loop_nodes[k].bases[m].at = b /\ BaseAt(b) = loop_nodes[k].bases[m]
        /\ \A x : InBaseList(x, b, ln) => x \in Ctxs(loop_nodes[k].bases[m].handlers)
        /\ \A x : InIdList(x, b, ln) => x \in IdsCtxs(loop_nodes[k].bases[m].ids)
  BY <1>1, BaseNodeIs
<1>3. PICK m \in DOMAIN loop_nodes[k].bases :
        /\ BaseAt(b) = loop_nodes[k].bases[m]
        /\ \A x : InBaseList(x, b, ln) => x \in Ctxs(loop_nodes[k].bases[m].handlers)
        /\ \A x : InIdList(x, b, ln) => x \in IdsCtxs(loop_nodes[k].bases[m].ids)
  BY <1>2
<1> DEFINE n == loop_nodes[k].bases[m]
<1>4. n.handlers \in Seq(Entries) /\ BaseRises(R, event, n)
  BY <1>1, NodesTyped, LoopInOrder DEF LoopRises
<1>5. ASSUME n.base = event[1]
      PROVE  (q = NULL \/ Wanted(q)) /\ \A x : InBaseList(x, b, ln) => From(R, q, x)
  <2>1. ListRising(R, n.handlers)
    BY <1>4, <1>5 DEF BaseRises
  <2>2. \A x \in Ctxs(n.handlers) : BaseCalls(event, n, x)
    BY <1>5 DEF BaseCalls
  <2>3. \A x \in Ctxs(n.handlers) : Wanted(x)
    BY <2>2 DEF Wanted, NodesCall, LoopCalls
  <2>4. q = FirstHandler(n.handlers)
    BY <1>3
  <2> HIDE DEF n
  <2>5. \A x \in Ctxs(n.handlers) : From(R, q, x)
    BY <1>4, <2>1, <2>4, FirstHandlerFrom
  <2>6. q = NULL \/ q \in Ctxs(n.handlers)
    BY <1>4, <2>4, FirstHandlerIs
  <2> QED
    BY <1>3, <2>3, <2>5, <2>6 DEF n
<1>6. ASSUME n.base # event[1], NEW x, Below(x, b, ln), Wanted(x) PROVE FALSE
  <2>1. x \in BaseCtxs(n)
    BY <1>3, <1>6 DEF Below, BaseCtxs
  <2>2. x \in LoopCtxs(loop_nodes[k])
    BY <2>1 DEF LoopCtxs, BasesCtxs
  <2>3. BaseCalls(event, n, x)
    BY <1>1, <1>6, <2>1, <2>2, WantedAt
  <2> QED
    BY <1>6, <2>3 DEF BaseCalls
<1> QED
  BY <1>3, <1>5, <1>6

(* Of the id nodes of a base node, what is wanted begins at the first      *)
(* handler of the one of the event.                                        *)
LEMMA FromFirstOfId ==
  ASSUME NEW R, InBirthOrder(R), NEW b, NEW ln, AtBase(b, ln), BaseAt(b).base = event[1],
         NEW mine, mine = {i \in DOMAIN BaseAt(b).ids : BaseAt(b).ids[i].id = event[2]},
         NEW q, q = IF mine = {} THEN NULL ELSE FirstHandler(BaseAt(b).ids[Min(mine)].handlers)
  PROVE  /\ q = NULL \/ Wanted(q)
         /\ \A x : InIdList(x, b, ln) /\ Wanted(x) => From(R, q, x)
<1>1. RegistryInOrder
  BY DEF InBirthOrder
<1>2. PICK k \in DOMAIN loop_nodes : \E m \in DOMAIN loop_nodes[k].bases :
        /\ loop_nodes[k].at = ln /\ loop_nodes[k].bases[m].at = b /\ BaseAt(b) = loop_nodes[k].bases[m]
        /\ \A x : InBaseList(x, b, ln) => x \in Ctxs(loop_nodes[k].bases[m].handlers)
        /\ \A x : InIdList(x, b, ln) => x \in IdsCtxs(loop_nodes[k].bases[m].ids)
  BY <1>1, BaseNodeIs
<1>3. PICK m \in DOMAIN loop_nodes[k].bases :
        /\ BaseAt(b) = loop_nodes[k].bases[m]
        /\ \A x : InIdList(x, b, ln) => x \in IdsCtxs(loop_nodes[k].bases[m].ids)
  BY <1>2
<1> DEFINE n == loop_nodes[k].bases[m]
           ids == n.ids
<1>4. ids \in Seq(IdNodes) /\ \A i \in DOMAIN ids : ids[i].handlers \in Seq(Entries)
  BY <1>1, NodesTyped
<1>5. BaseRises(R, event, n) /\ n.base = event[1] /\ IdsOK(ids)
  <2>1. LoopOK(loop_nodes[k])
    BY <1>1 DEF RegistryInOrder, NodesOK
  <2> QED
    BY <1>3, <2>1, LoopInOrder DEF LoopRises, LoopOK, BasesOK, BaseOK
<1>6. \A x : IdsCall(event, ids, x) => Wanted(x)
  <2>1. \A x : IdsCall(event, ids, x) => BaseCalls(event, n, x)
    BY <1>5 DEF BaseCalls
  <2> QED
    BY <2>1 DEF Wanted, NodesCall, LoopCalls
<1>7. ASSUME NEW x, InIdList(x, b, ln), Wanted(x) PROVE IdsCall(event, ids, x)
  <2>1. x \in IdsCtxs(ids)
    BY <1>3, <1>7
  <2>2. x \in BaseCtxs(n)
    BY <2>1 DEF BaseCtxs
  <2>3. x \in LoopCtxs(loop_nodes[k])
    BY <2>2 DEF LoopCtxs, BasesCtxs
  <2> QED
    BY <1>1, <1>7, <2>1, <2>2, <2>3, WantedAt
<1>8. /\ mine = {i \in DOMAIN ids : ids[i].id = event[2]}
      /\ q = IF mine = {} THEN NULL ELSE FirstHandler(ids[Min(mine)].handlers)
  BY <1>3
<1>9. \A i \in DOMAIN ids : ids[i].id = event[2] => ListRising(R, ids[i].handlers)
  BY <1>5 DEF BaseRises
<1>10. IdsOK(ids)
  BY <1>5
<1> HIDE DEF n, ids
<1>11. CASE mine = {}
  BY <1>7, <1>8, <1>11 DEF IdsCall
<1>12. CASE mine # {}
  <2>1. mine \subseteq DOMAIN ids /\ DOMAIN ids = 1 .. Len(ids) /\ Len(ids) \in Nat
    BY <1>4, <1>8, LenProperties
  <2>2. PICK i \in mine : i = Min(mine)
    BY <1>12, <2>1, MinMaxArePositions
  <2>3. i \in DOMAIN ids /\ ids[i].id = event[2] /\ q = FirstHandler(ids[i].handlers)
    BY <1>8, <1>12, <2>1, <2>2
  <2>4. ids[i].handlers \in Seq(Entries) /\ ListRising(R, ids[i].handlers)
    BY <1>4, <1>9, <2>3
  <2>5. q = NULL \/ q \in Ctxs(ids[i].handlers)
    BY <2>3, <2>4, FirstHandlerIs
  <2>6. q = NULL \/ Wanted(q)
    BY <1>6, <2>3, <2>5 DEF IdsCall
  <2>7. \A x \in Ctxs(ids[i].handlers) : From(R, q, x)
    BY <2>3, <2>4, FirstHandlerFrom
  <2>8. \A x : IdsCall(event, ids, x) => x \in Ctxs(ids[i].handlers)
    BY <1>10, <2>3 DEF IdsCall, IdsOK
  <2> QED
    BY <1>7, <2>6, <2>7, <2>8
<1> QED
  BY <1>11, <1>12

-----------------------------------------------------------------------------
(* The invariant: what is wanted and still to come was born after all that *)
(* has been called, and holds all that is due and has not been called.     *)

Ahead(R, h, x) ==
  \/ From(R, h, x) /\ Here(x)
  \/ list = "loop" /\ BelowSome(x, loop_node)
  \/ list = "base" /\ InIdList(x, base_node, loop_node)
  \/ list # "loop" /\ FromBase(R, temp_base, loop_node, x)
  \/ FromLoop(R, temp_node, x)
ToCome(R, x) ==
  \/ pc = "loop" /\ FromLoop(R, loop_node, x)
  \/ pc = "base" /\ (FromBase(R, base_node, loop_node, x) \/ FromLoop(R, temp_node, x))
  \/ pc = "handlers" /\ Ahead(R, handler, x)
  \/ pc = "calling" /\ Ahead(R, temp_handler, x)

BaseOf(b, base) ==
  \A k \in DOMAIN loop_nodes : \A m \in DOMAIN loop_nodes[k].bases :
    loop_nodes[k].bases[m].at = b => loop_nodes[k].bases[m].base = base

CursorsInOrder(R) ==
  /\ pc = "handlers" => handler = NULL \/ Wanted(handler)
  /\ pc = "calling" => handler \in Range(called) /\ (temp_handler = NULL \/ Wanted(temp_handler))
  /\ pc = "base" \/ InList => temp_node = NULL \/ Later(R, loop_node, temp_node)
  /\ InList /\ list # "loop" => temp_base = NULL \/ Later(R, base_node, temp_base)
  /\ InList /\ list = "base" => BaseOf(base_node, event[1])
CallsInOrder(R) ==
  /\ called \in Seq(Contexts) /\ Range(called) \subseteq born /\ Rising(R, called)
  /\ due \in Seq(Contexts) /\ Range(due) \subseteq born /\ Rising(R, due)
LaterThanCalled(R, x) == \A y \in Range(called) : Later(R, y, x)
AllCome(R) ==
  pc # "idle" =>
    /\ \A x : Wanted(x) /\ ToCome(R, x) => LaterThanCalled(R, x)
    /\ \A x \in Range(due) \ Range(called) : Wanted(x) /\ ToCome(R, x)

HandlesTyped == loop_nodes \in Seq(LoopNodes) /\ held \subseteq [ctx : Contexts, key : Keys]
InstancesInOrder == HandlesTyped /\ Good(loop_nodes) /\ HandlesAreRegistered
DueInv(R) ==
  /\ WalkInv /\ InstancesInOrder /\ InBirthOrder(R)
  /\ CursorsInOrder(R) /\ CallsInOrder(R) /\ AllCome(R)

(* A step that leaves the registry alone leaves what is behind a cursor. *)
LEMMA BehindStays ==
  ASSUME RegistryInOrder, UNCHANGED <<loop_nodes, born>>
  PROVE  /\ \A R, p, x : FromLoop(R, p, x)' <=> FromLoop(R, p, x)
         /\ \A R, p, ln, x : FromBase(R, p, ln, x)' <=> FromBase(R, p, ln, x)
         /\ \A x, ln : BelowSome(x, ln)' <=> BelowSome(x, ln)
         /\ \A b, base : BaseOf(b, base)' <=> BaseOf(b, base)
         /\ event' = event => \A x : Wanted(x)' <=> Wanted(x)
<1>1. /\ \A x, b, ln : Below(x, b, ln)' <=> Below(x, b, ln)
      /\ \A x, ln : UnderLoop(x, ln)' <=> UnderLoop(x, ln)
  BY RegistryStays DEF Below
<1>2. /\ \A R, p, x : FromLoop(R, p, x)' <=> FromLoop(R, p, x)
      /\ \A R, p, ln, x : FromBase(R, p, ln, x)' <=> FromBase(R, p, ln, x)
      /\ \A x, ln : BelowSome(x, ln)' <=> BelowSome(x, ln)
  BY <1>1 DEF FromLoop, FromBase, BelowSome
<1>3. \A b, base : BaseOf(b, base)' <=> BaseOf(b, base)
  BY DEF BaseOf
<1>4. event' = event => \A x : Wanted(x)' <=> Wanted(x)
  BY DEF Wanted
<1> QED
  BY <1>2, <1>3, <1>4

LEMMA OrderStays ==
  ASSUME NEW R, InBirthOrder(R), UNCHANGED <<loop_nodes, born>>, event' \in Events
  PROVE  InBirthOrder(R)'
<1>1. RegistryRises(R)'
  BY DEF InBirthOrder, RegistryRises
<1>2. RegistryInOrder'
  BY RegistryStays DEF InBirthOrder
<1> QED
  BY <1>1, <1>2 DEF InBirthOrder

LEMMA InstancesStay == ASSUME InstancesInOrder, UNCHANGED vars PROVE InstancesInOrder'
BY DEF InstancesInOrder, HandlesTyped, HandlesAreRegistered, vars

(* A step of the walk that calls nothing: as much is to come as before. *)
ComesAsBefore(R) == \A x : Wanted(x) => (ToCome(R, x)' <=> ToCome(R, x))

LEMMA WalkStays ==
  ASSUME NEW R, DueInv(R), UNCHANGED <<vars, born, event, called, due>>, WalkInv', CursorsInOrder(R)',
         pc # "idle", pc' = "idle" \/ ComesAsBefore(R)
  PROVE  DueInv(R)'
<1>1. loop_nodes' = loop_nodes /\ RegistryInOrder /\ InBirthOrder(R) /\ event \in Events
  BY DEF DueInv, InBirthOrder, vars
<1>2. InBirthOrder(R)'
  BY <1>1, OrderStays
<1>3. InstancesInOrder'
  BY InstancesStay DEF DueInv
<1>4. CallsInOrder(R)'
  BY DEF DueInv, CallsInOrder
<1>5. \A x : Wanted(x)' <=> Wanted(x)
  BY <1>1, BehindStays
<1>6. \A x : LaterThanCalled(R, x)' <=> LaterThanCalled(R, x)
  BY DEF LaterThanCalled
<1>7. ASSUME ComesAsBefore(R) PROVE AllCome(R)'
  <2>1. ASSUME NEW x, Wanted(x)', ToCome(R, x)' PROVE LaterThanCalled(R, x)'
    BY <1>5, <1>6, <1>7, <2>1 DEF ComesAsBefore, DueInv, AllCome
  <2>2. ASSUME NEW x \in Range(due') \ Range(called') PROVE Wanted(x)' /\ ToCome(R, x)'
    <3>1. x \in Range(due) \ Range(called)
      BY <2>2
    <3> QED
      BY <1>5, <1>7, <3>1 DEF ComesAsBefore, DueInv, AllCome
  <2> QED
    BY <2>1, <2>2 DEF AllCome
<1>8. AllCome(R)'
  BY <1>7 DEF AllCome
<1> QED
  BY <1>2, <1>3, <1>4, <1>8 DEF DueInv

(* A loop node is visited. *)
LEMMA VisitLoopComes == ASSUME NEW R, DueInv(R), VisitLoop PROVE DueInv(R)'
<1>1. /\ pc = "loop" /\ pc' = "handlers" /\ list' = "loop" /\ loop_node' = loop_node
      /\ temp_node' = NextNode(loop_nodes, loop_node) /\ handler' = FirstHandler(LoopAt(loop_node).handlers)
      /\ UNCHANGED <<vars, born, event, called, due>> /\ loop_nodes' = loop_nodes
  BY DEF VisitLoop, vars
<1>2. WalkInv'
  BY VisitLoopKeeps DEF DueInv
<1>3. InBirthOrder(R) /\ RegistryInOrder
  BY DEF DueInv, InBirthOrder
<1>4. AtLoop(loop_node)
  <2>1. \E n \in Range(loop_nodes) : n.at = loop_node
    BY DEF VisitLoop, LiveLoop
  <2> QED
    BY <2>1 DEF Range, AtLoop
<1>5. /\ temp_node' = NULL \/ Later(R, loop_node, temp_node')
      /\ \A x : FromLoop(R, loop_node, x) <=> UnderLoop(x, loop_node) \/ FromLoop(R, temp_node', x)
  BY <1>1, <1>3, <1>4, FromNextLoop
<1>6. /\ handler' = NULL \/ Wanted(handler')
      /\ \A x : InLoopList(x, loop_node) => From(R, handler', x)
  BY <1>1, <1>3, <1>4, FromFirstOfLoop
<1>7. ASSUME NEW x
      PROVE  ToCome(R, x)' <=>
               \/ From(R, handler', x) /\ InLoopList(x, loop_node)
               \/ BelowSome(x, loop_node)
               \/ FromLoop(R, temp_node', x)
  <2>1. Ahead(R, handler, x)' <=>
               \/ From(R, handler', x) /\ InLoopList(x, loop_node)'
               \/ BelowSome(x, loop_node)'
               \/ FromLoop(R, temp_node, x)'
    BY <1>1 DEF Ahead, Here, From, Later
  <2>2. ToCome(R, x)' <=> Ahead(R, handler, x)'
    BY <1>1 DEF ToCome
  <2> QED
    BY <1>1, <1>3, <2>1, <2>2, RegistryStays, BehindStays
<1>8. ComesAsBefore(R)
  <2> SUFFICES ASSUME NEW x PROVE ToCome(R, x)' <=> ToCome(R, x)
    BY DEF ComesAsBefore
  <2>1. ToCome(R, x) <=> FromLoop(R, loop_node, x)
    BY <1>1 DEF ToCome
  <2> QED
    BY <1>5, <1>6, <1>7, <2>1, UnderLoopIs
<1>9. CursorsInOrder(R)'
  <2>1. Wanted(handler)' <=> Wanted(handler')
    BY <1>1 DEF Wanted
  <2> QED
    BY <1>1, <1>5, <1>6, <2>1 DEF CursorsInOrder
<1> QED
  BY <1>1, <1>2, <1>8, <1>9, WalkStays

(* The handlers of a loop node are done: its base nodes come. *)
LEMMA LeaveLoopListComes == ASSUME NEW R, DueInv(R), LeaveLoopList PROVE DueInv(R)'
<1>1. /\ pc = "handlers" /\ handler = NULL /\ list = "loop" /\ pc' = "base"
      /\ loop_node' = loop_node /\ temp_node' = temp_node
      /\ base_node' = FirstNode(LoopAt(loop_node).bases)
      /\ UNCHANGED <<vars, born, event, called, due>> /\ loop_nodes' = loop_nodes
  BY DEF LeaveLoopList, vars
<1>2. WalkInv'
  BY LeaveLoopListKeeps DEF DueInv
<1>3. InBirthOrder(R) /\ RegistryInOrder /\ CursorsInOrder(R)
  BY DEF DueInv, InBirthOrder
<1>4. AtLoop(loop_node)
  BY <1>1 DEF DueInv, WalkInv, CursorsOnNodes, InList
<1>5. \A x : BelowSome(x, loop_node) <=> FromBase(R, base_node', loop_node, x)
  BY <1>1, <1>3, <1>4, FromFirstBase
<1>6. ComesAsBefore(R)
  <2> SUFFICES ASSUME NEW x PROVE ToCome(R, x)' <=> ToCome(R, x)
    BY DEF ComesAsBefore
  <2>1. ToCome(R, x) <=> BelowSome(x, loop_node) \/ FromLoop(R, temp_node, x)
    BY <1>1 DEF ToCome, Ahead, From
  <2>2. ToCome(R, x)' <=> FromBase(R, base_node, loop_node, x)' \/ FromLoop(R, temp_node, x)'
    BY <1>1 DEF ToCome
  <2>3. ToCome(R, x)' <=> FromBase(R, base_node', loop_node, x) \/ FromLoop(R, temp_node, x)
    BY <1>1, <1>3, <2>2, BehindStays
  <2> QED
    BY <1>5, <2>1, <2>3
<1>7. CursorsInOrder(R)'
  BY <1>1, <1>3 DEF CursorsInOrder, InList
<1> QED
  BY <1>1, <1>2, <1>6, <1>7, WalkStays

(* A base node is visited. *)
LEMMA VisitBaseComes == ASSUME NEW R, DueInv(R), VisitBase PROVE DueInv(R)'
<1> DEFINE mine == BaseAt(base_node).base = event[1]
<1>1. /\ pc = "base" /\ pc' = "handlers" /\ loop_node' = loop_node /\ temp_node' = temp_node
      /\ base_node' = base_node /\ temp_base' = NextNode(LoopAt(loop_node).bases, base_node)
      /\ handler' = IF mine THEN FirstHandler(BaseAt(base_node).handlers) ELSE NULL
      /\ list' = IF mine THEN "base" ELSE "id"
      /\ UNCHANGED <<vars, born, event, called, due>> /\ loop_nodes' = loop_nodes
  BY DEF VisitBase, vars
<1>2. WalkInv'
  BY VisitBaseKeeps DEF DueInv
<1>3. InBirthOrder(R) /\ RegistryInOrder /\ CursorsInOrder(R)
  BY DEF DueInv, InBirthOrder
<1>4. AtBase(base_node, loop_node)
  <2>1. PICK b \in AllBases : b.at = base_node
    BY DEF VisitBase, LiveBase
  <2>2. PICK k \in DOMAIN loop_nodes : \E m \in DOMAIN loop_nodes[k].bases : b = loop_nodes[k].bases[m]
    BY AllBasesAre
  <2>3. base_node # NULL
    BY <1>3, <2>1, <2>2, NodesNotNull
  <2> QED
    BY <1>1, <2>3 DEF DueInv, WalkInv, CursorsOnNodes
<1>5. /\ temp_base' = NULL \/ Later(R, base_node, temp_base')
      /\ \A x : FromBase(R, base_node, loop_node, x)
                  <=> Below(x, base_node, loop_node) \/ FromBase(R, temp_base', loop_node, x)
  BY <1>1, <1>3, <1>4, FromNextBase
<1>6. ASSUME NEW x
      PROVE  ToCome(R, x) <=> \/ Below(x, base_node, loop_node)
                              \/ FromBase(R, temp_base', loop_node, x)
                              \/ FromLoop(R, temp_node, x)
  <2>1. ToCome(R, x) <=> FromBase(R, base_node, loop_node, x) \/ FromLoop(R, temp_node, x)
    BY <1>1 DEF ToCome
  <2> QED
    BY <1>5, <2>1
<1>7. ASSUME NEW x
      PROVE  ToCome(R, x)' <=> \/ From(R, handler', x) /\ Here(x)'
                               \/ list' = "base" /\ InIdList(x, base_node, loop_node)
                               \/ FromBase(R, temp_base', loop_node, x)
                               \/ FromLoop(R, temp_node, x)
  <2>1. Ahead(R, handler, x)' <=>
               \/ From(R, handler', x) /\ Here(x)'
               \/ list' = "base" /\ InIdList(x, base_node, loop_node)'
               \/ FromBase(R, temp_base, loop_node, x)'
               \/ FromLoop(R, temp_node, x)'
    BY <1>1 DEF Ahead, From, Later
  <2>2. ToCome(R, x)' <=> Ahead(R, handler, x)'
    BY <1>1 DEF ToCome
  <2> QED
    BY <1>1, <1>3, <2>1, <2>2, RegistryStays, BehindStays
<1>8. CASE mine
  <2>1. /\ handler' = NULL \/ Wanted(handler')
        /\ \A x : InBaseList(x, base_node, loop_node) => From(R, handler', x)
    BY <1>1, <1>3, <1>4, <1>8, FromFirstOfBase
  <2>2. list' = "base"
    BY <1>1, <1>8
  <2>3. \A x : Here(x)' <=> InBaseList(x, base_node, loop_node)
    <3>1. \A x : Here(x)' <=> InBaseList(x, base_node, loop_node)'
      BY <1>1, <2>2 DEF Here
    <3> QED
      BY <1>1, <1>3, <3>1, RegistryStays
  <2>4. ComesAsBefore(R)
    <3> SUFFICES ASSUME NEW x PROVE ToCome(R, x)' <=> ToCome(R, x)
      BY DEF ComesAsBefore
    <3> QED
      BY <1>6, <1>7, <2>1, <2>2, <2>3 DEF Below
  <2>5. BaseOf(base_node, event[1])
    <3>1. PICK k \in DOMAIN loop_nodes : \E m \in DOMAIN loop_nodes[k].bases :
            loop_nodes[k].bases[m].at = base_node /\ BaseAt(base_node) = loop_nodes[k].bases[m]
      BY <1>3, <1>4, BaseAtIs
    <3>2. PICK m \in DOMAIN loop_nodes[k].bases :
            loop_nodes[k].bases[m].at = base_node /\ BaseAt(base_node) = loop_nodes[k].bases[m]
      BY <3>1
    <3> SUFFICES ASSUME NEW j \in DOMAIN loop_nodes, NEW n \in DOMAIN loop_nodes[j].bases,
                        loop_nodes[j].bases[n].at = base_node
                 PROVE  loop_nodes[j].bases[n].base = event[1]
      BY DEF BaseOf
    <3>3. base_node \in BaseAts(loop_nodes[j].bases) /\ base_node \in BaseAts(loop_nodes[k].bases)
      BY <3>2 DEF BaseAts
    <3>4. j = k
      BY <1>3, <3>3 DEF RegistryInOrder, NodesOK
    <3>5. n = m
      BY <1>3, <3>2, <3>4 DEF RegistryInOrder, NodesOK, LoopOK, BasesOK
    <3> QED
      BY <1>8, <3>2, <3>4, <3>5
  <2>6. CursorsInOrder(R)'
    <3>1. BaseOf(base_node, event[1])'
      BY <1>1, <1>3, <2>5, BehindStays
    <3>2. handler' = NULL \/ Wanted(handler)'
      BY <1>1, <2>1 DEF Wanted
    <3>3. temp_node = NULL \/ Later(R, loop_node, temp_node)
      BY <1>1, <1>3 DEF CursorsInOrder
    <3> QED
      BY <1>1, <1>5, <3>1, <3>2, <3>3 DEF CursorsInOrder
  <2> QED
    BY <1>1, <1>2, <2>4, <2>6, WalkStays
<1>9. CASE ~mine
  <2>1. \A x : Below(x, base_node, loop_node) => ~Wanted(x)
    BY <1>3, <1>4, <1>9, FromFirstOfBase
  <2>2. list' = "id" /\ handler' = NULL
    BY <1>1, <1>9
  <2>3. ComesAsBefore(R)
    <3> SUFFICES ASSUME NEW x, Wanted(x) PROVE ToCome(R, x)' <=> ToCome(R, x)
      BY DEF ComesAsBefore
    <3> QED
      BY <1>6, <1>7, <2>1, <2>2 DEF From
  <2>4. CursorsInOrder(R)'
    <3>1. temp_node = NULL \/ Later(R, loop_node, temp_node)
      BY <1>1, <1>3 DEF CursorsInOrder
    <3> QED
      BY <1>1, <1>5, <2>2, <3>1 DEF CursorsInOrder
  <2> QED
    BY <1>1, <1>2, <2>3, <2>4, WalkStays
<1> QED
  BY <1>8, <1>9

(* The handlers of a base node are done: those of the id node come. *)
LEMMA LeaveBaseListComes == ASSUME NEW R, DueInv(R), LeaveBaseList PROVE DueInv(R)'
<1> DEFINE mine == {i \in DOMAIN BaseAt(base_node).ids : BaseAt(base_node).ids[i].id = event[2]}
<1>1. /\ pc = "handlers" /\ handler = NULL /\ list = "base" /\ pc' = "handlers" /\ list' = "id"
      /\ UNCHANGED <<loop_node, temp_node, base_node, temp_base>>
      /\ UNCHANGED <<vars, born, event, called, due>> /\ loop_nodes' = loop_nodes
  BY DEF LeaveBaseList, vars
<1>2. handler' = IF mine = {} THEN NULL ELSE FirstHandler(BaseAt(base_node).ids[Min(mine)].handlers)
  BY DEF LeaveBaseList, Positions
<1>3. WalkInv'
  BY LeaveBaseListKeeps DEF DueInv
<1>4. InBirthOrder(R) /\ RegistryInOrder /\ CursorsInOrder(R)
  BY DEF DueInv, InBirthOrder
<1>5. AtBase(base_node, loop_node)
  BY <1>1 DEF DueInv, WalkInv, CursorsOnNodes, InList
<1>6. BaseAt(base_node).base = event[1]
  <2>1. PICK k \in DOMAIN loop_nodes : \E m \in DOMAIN loop_nodes[k].bases :
          loop_nodes[k].bases[m].at = base_node /\ BaseAt(base_node) = loop_nodes[k].bases[m]
    BY <1>4, <1>5, BaseAtIs
  <2> QED
    BY <1>1, <1>4, <2>1 DEF CursorsInOrder, InList, BaseOf
<1>7. PICK s : s = mine
  OBVIOUS
<1>8. /\ handler' = NULL \/ Wanted(handler')
      /\ \A x : InIdList(x, base_node, loop_node) /\ Wanted(x) => From(R, handler', x)
  <2>1. /\ s = {i \in DOMAIN BaseAt(base_node).ids : BaseAt(base_node).ids[i].id = event[2]}
        /\ handler' = IF s = {} THEN NULL ELSE FirstHandler(BaseAt(base_node).ids[Min(s)].handlers)
    BY <1>2, <1>7
  <2> HIDE DEF mine
  <2> QED
    BY <1>4, <1>5, <1>6, <2>1, FromFirstOfId
<1> HIDE DEF mine
<1>9. ASSUME NEW x
      PROVE  ToCome(R, x)' <=> \/ From(R, handler', x) /\ InIdList(x, base_node, loop_node)
                               \/ FromBase(R, temp_base, loop_node, x)
                               \/ FromLoop(R, temp_node, x)
  <2>1. Ahead(R, handler, x)' <=>
               \/ From(R, handler', x) /\ InIdList(x, base_node, loop_node)'
               \/ FromBase(R, temp_base, loop_node, x)'
               \/ FromLoop(R, temp_node, x)'
    BY <1>1 DEF Ahead, Here, From, Later
  <2>2. ToCome(R, x)' <=> Ahead(R, handler, x)'
    BY <1>1 DEF ToCome
  <2> QED
    BY <1>1, <1>4, <2>1, <2>2, RegistryStays, BehindStays
<1>10. ComesAsBefore(R)
  <2> SUFFICES ASSUME NEW x, Wanted(x) PROVE ToCome(R, x)' <=> ToCome(R, x)
    BY DEF ComesAsBefore
  <2>1. ToCome(R, x) <=> \/ InIdList(x, base_node, loop_node)
                         \/ FromBase(R, temp_base, loop_node, x)
                         \/ FromLoop(R, temp_node, x)
    BY <1>1 DEF ToCome, Ahead, From
  <2> QED
    BY <1>8, <1>9, <2>1
<1>11. CursorsInOrder(R)'
  <2>1. handler' = NULL \/ Wanted(handler)'
    BY <1>1, <1>8 DEF Wanted
  <2>2. /\ temp_node = NULL \/ Later(R, loop_node, temp_node)
        /\ temp_base = NULL \/ Later(R, base_node, temp_base)
    BY <1>1, <1>4 DEF CursorsInOrder, InList
  <2> QED
    BY <1>1, <2>1, <2>2 DEF CursorsInOrder
<1> QED
  BY <1>1, <1>3, <1>10, <1>11, WalkStays

(* The handlers of an id node, or the base nodes of a loop node, are done. *)
LEMMA LeaveIdListComes == ASSUME NEW R, DueInv(R), LeaveIdList PROVE DueInv(R)'
<1>1. /\ pc = "handlers" /\ handler = NULL /\ list = "id" /\ pc' = "base"
      /\ base_node' = temp_base /\ UNCHANGED <<loop_node, temp_node>>
      /\ UNCHANGED <<vars, born, event, called, due>> /\ loop_nodes' = loop_nodes
  BY DEF LeaveIdList, vars
<1>2. WalkInv'
  BY LeavesKeep DEF DueInv
<1>3. RegistryInOrder /\ CursorsInOrder(R)
  BY DEF DueInv, InBirthOrder
<1>4. ComesAsBefore(R)
  <2> SUFFICES ASSUME NEW x PROVE ToCome(R, x)' <=> ToCome(R, x)
    BY DEF ComesAsBefore
  <2>1. ToCome(R, x) <=> FromBase(R, temp_base, loop_node, x) \/ FromLoop(R, temp_node, x)
    BY <1>1 DEF ToCome, Ahead, From
  <2>2. ToCome(R, x)' <=> FromBase(R, base_node, loop_node, x)' \/ FromLoop(R, temp_node, x)'
    BY <1>1 DEF ToCome
  <2> QED
    BY <1>1, <1>3, <2>1, <2>2, BehindStays
<1>5. CursorsInOrder(R)'
  BY <1>1, <1>3 DEF CursorsInOrder, InList
<1> QED
  BY <1>1, <1>2, <1>4, <1>5, WalkStays

LEMMA LeaveLoopComes == ASSUME NEW R, DueInv(R), LeaveLoop PROVE DueInv(R)'
<1>1. /\ pc = "base" /\ base_node = NULL /\ pc' = "loop" /\ loop_node' = temp_node
      /\ UNCHANGED <<vars, born, event, called, due>> /\ loop_nodes' = loop_nodes
  BY DEF LeaveLoop, vars
<1>2. WalkInv'
  BY LeavesKeep DEF DueInv
<1>3. RegistryInOrder
  BY DEF DueInv, InBirthOrder
<1>4. ComesAsBefore(R)
  <2> SUFFICES ASSUME NEW x PROVE ToCome(R, x)' <=> ToCome(R, x)
    BY DEF ComesAsBefore
  <2>1. ToCome(R, x) <=> FromLoop(R, temp_node, x)
    BY <1>1 DEF ToCome, FromBase, From
  <2>2. ToCome(R, x)' <=> FromLoop(R, loop_node, x)'
    BY <1>1 DEF ToCome
  <2> QED
    BY <1>1, <1>3, <2>1, <2>2, BehindStays
<1>5. CursorsInOrder(R)'
  BY <1>1 DEF CursorsInOrder, InList
<1> QED
  BY <1>1, <1>2, <1>4, <1>5, WalkStays

(* All loop nodes are done. *)
LEMMA DoneComes == ASSUME NEW R, DueInv(R), Done PROVE DueInv(R)'
<1>1. /\ pc = "loop" /\ pc' = "idle" /\ UNCHANGED <<vars, born, event, called, due>>
  BY DEF Done
<1>2. WalkInv'
  BY LeavesKeep DEF DueInv
<1>3. CursorsInOrder(R)'
  BY <1>1 DEF CursorsInOrder, InList
<1> QED
  BY <1>1, <1>2, <1>3, WalkStays

(* A handler returns. *)
LEMMA ReturnComes == ASSUME NEW R, DueInv(R), Return PROVE DueInv(R)'
<1>1. /\ pc = "calling" /\ pc' = "handlers" /\ handler' = temp_handler
      /\ UNCHANGED <<loop_node, temp_node, base_node, temp_base, list>>
      /\ UNCHANGED <<vars, born, event, called, due>> /\ loop_nodes' = loop_nodes
  BY DEF Return, vars
<1>2. WalkInv'
  BY ReturnKeeps DEF DueInv
<1>3. RegistryInOrder /\ CursorsInOrder(R)
  BY DEF DueInv, InBirthOrder
<1>4. ComesAsBefore(R)
  <2> SUFFICES ASSUME NEW x PROVE ToCome(R, x)' <=> ToCome(R, x)
    BY DEF ComesAsBefore
  <2>1. Here(x)' <=> Here(x)
    BY <1>1, <1>3, RegistryStays DEF Here
  <2>2. Ahead(R, handler, x)' <=>
               \/ From(R, handler', x) /\ Here(x)'
               \/ list' = "loop" /\ BelowSome(x, loop_node)'
               \/ list' = "base" /\ InIdList(x, base_node, loop_node)'
               \/ list' # "loop" /\ FromBase(R, temp_base, loop_node, x)'
               \/ FromLoop(R, temp_node, x)'
    BY DEF Ahead, From, Later
  <2>3. Ahead(R, handler, x)' <=> Ahead(R, temp_handler, x)
    BY <1>1, <1>3, <2>1, <2>2, RegistryStays, BehindStays DEF Ahead
  <2> QED
    BY <1>1, <2>3 DEF ToCome
<1>5. CursorsInOrder(R)'
  <2>1. Wanted(handler)' <=> Wanted(temp_handler)
    BY <1>1 DEF Wanted
  <2>2. \A b : BaseOf(b, event[1])' <=> BaseOf(b, event[1])
    BY <1>1, <1>3, BehindStays
  <2> QED
    BY <1>1, <1>3, <2>1, <2>2 DEF CursorsInOrder, InList
<1> QED
  BY <1>1, <1>2, <1>4, <1>5, WalkStays

(* What a call leaves to come is what was, but for the handler, and it was *)
(* born after the handler.                                                 *)
LEMMA CallTakesFirst ==
  ASSUME NEW R, InBirthOrder(R), CursorsInOrder(R), pc = "handlers", list \in {"loop", "base", "id"},
         handler # NULL, Here(handler), Wanted(handler), NEW x, Wanted(x)
  PROVE  /\ Ahead(R, NextHandler(handler), x) => Ahead(R, handler, x) /\ Later(R, handler, x)
         /\ Ahead(R, handler, x) /\ x # handler => Ahead(R, NextHandler(handler), x)
<1> DEFINE h == handler
           next == NextHandler(handler)
<1>1. Strict(R)
  BY DEF InBirthOrder
<1>2. /\ next = NULL \/ Later(R, h, next)
      /\ \A y : Here(y) /\ Wanted(y) /\ Later(R, h, y) => From(R, next, y)
  BY NextHandlerFrom
<1> HIDE DEF next
<1>3. /\ list = "loop" => InLoopList(h, loop_node)
      /\ list = "base" => InBaseList(h, base_node, loop_node)
      /\ list # "loop" => Below(h, base_node, loop_node)
      /\ UnderLoop(h, loop_node)
  BY UnderLoopIs DEF Here, Below, BelowSome
<1>4. /\ temp_node = NULL \/ Later(R, loop_node, temp_node)
      /\ list # "loop" => temp_base = NULL \/ Later(R, base_node, temp_base)
  BY DEF CursorsInOrder, InList
<1>5. ASSUME From(R, next, x), Here(x) PROVE From(R, h, x) /\ Later(R, h, x)
  BY <1>1, <1>2, <1>5, FromLater DEF From
<1>6. ASSUME list = "loop", BelowSome(x, loop_node) PROVE Later(R, h, x)
  BY <1>3, <1>6, BasesAfterLoop DEF BelowSome
<1>7. ASSUME list = "base", InIdList(x, base_node, loop_node) PROVE Later(R, h, x)
  BY <1>3, <1>7, IdsAfterBase
<1>8. ASSUME list # "loop", FromBase(R, temp_base, loop_node, x) PROVE Later(R, h, x)
  <2>1. PICK b : From(R, temp_base, b) /\ Below(x, b, loop_node)
    BY <1>8 DEF FromBase
  <2>2. Later(R, base_node, b)
    BY <1>1, <1>4, <1>8, <2>1, FromLater
  <2> QED
    BY <1>3, <1>8, <2>1, <2>2, BasesInOrder
<1>9. ASSUME FromLoop(R, temp_node, x) PROVE Later(R, h, x)
  <2>1. PICK ln : From(R, temp_node, ln) /\ UnderLoop(x, ln)
    BY <1>9 DEF FromLoop
  <2>2. Later(R, loop_node, ln)
    BY <1>1, <1>4, <2>1, FromLater
  <2> QED
    BY <1>3, <2>1, <2>2, LoopsInOrder
<1>10. Ahead(R, next, x) => Ahead(R, h, x) /\ Later(R, h, x)
  BY <1>5, <1>6, <1>7, <1>8, <1>9 DEF Ahead
<1>11. ASSUME From(R, h, x), Here(x), x # h PROVE From(R, next, x)
  BY <1>2, <1>11 DEF From
<1>12. Ahead(R, h, x) /\ x # h => Ahead(R, next, x)
  BY <1>11 DEF Ahead
<1> QED
  BY <1>10, <1>12 DEF next

(* One more at the end of a rising list *)
LEMMA RisingAppend ==
  ASSUME NEW R, NEW S, NEW s \in Seq(S), Rising(R, s), NEW x \in S, \A y \in Range(s) : Later(R, y, x)
  PROVE  /\ Append(s, x) \in Seq(S) /\ Rising(R, Append(s, x))
         /\ Range(Append(s, x)) = Range(s) \cup {x}
<1> DEFINE n == Len(s)
           t == Append(s, x)
<1>1. /\ n \in Nat /\ DOMAIN s = 1 .. n
      /\ t \in Seq(S) /\ Len(t) = n + 1 /\ \A k \in 1 .. n : t[k] = s[k]
      /\ t[n + 1] = x
  BY AppendProperties, LenProperties
<1>2. DOMAIN t = 1 .. n + 1
  BY <1>1, LenProperties
<1> HIDE DEF n, t
<1>3. Range(t) = Range(s) \cup {x}
  <2>1. \A k \in DOMAIN s : k \in DOMAIN t /\ t[k] = s[k]
    BY <1>1, <1>2
  <2>2. n + 1 \in DOMAIN t
    BY <1>1, <1>2
  <2>3. \A k \in DOMAIN t : k \in DOMAIN s \/ k = n + 1
    BY <1>1, <1>2
  <2> QED
    BY <1>1, <2>1, <2>2, <2>3 DEF Range
<1>4. Rising(R, t)
  <2> SUFFICES ASSUME NEW i \in 1 .. n + 1, NEW j \in 1 .. n + 1, i < j PROVE Later(R, t[i], t[j])
    BY <1>2 DEF Rising
  <2>1. i \in 1 .. n /\ t[i] = s[i] /\ s[i] \in Range(s)
    BY <1>1 DEF Range
  <2>2. CASE j = n + 1
    BY <1>1, <2>1, <2>2
  <2>3. CASE j # n + 1
    <3>1. j \in 1 .. n /\ t[j] = s[j]
      BY <1>1, <2>3
    <3> QED
      BY <1>1, <2>1, <3>1 DEF Rising
  <2> QED
    BY <2>2, <2>3
<1> QED
  BY <1>1, <1>3, <1>4 DEF t

(* A handler is called. *)
LEMMA CallComes == ASSUME NEW R, DueInv(R), Call PROVE DueInv(R)'
<1>1. /\ pc = "handlers" /\ pc' = "calling" /\ temp_handler' = NextHandler(handler)
      /\ called' = Append(called, handler)
      /\ UNCHANGED <<loop_node, temp_node, base_node, temp_base, handler, list>>
      /\ UNCHANGED <<vars, born, event, due>> /\ loop_nodes' = loop_nodes
  BY DEF Call, vars
<1>2. WalkInv'
  BY CallKeeps DEF DueInv
<1>3. InBirthOrder(R) /\ RegistryInOrder /\ CursorsInOrder(R) /\ CallsInOrder(R) /\ AllCome(R)
  BY DEF DueInv, InBirthOrder
<1>4. handler # NULL
  <2>1. PICK e \in AllEntries : e.ctx = handler
    BY DEF Call, LiveHandler
  <2> QED
    BY <1>3, <2>1, AllEntriesTyped, TracesAssumption DEF Entries
<1>5. Here(handler) /\ list \in {"loop", "base", "id"}
  BY <1>1, <1>4 DEF DueInv, WalkInv, CursorsInList, CursorsOnNodes
<1>6. Wanted(handler)
  BY <1>1, <1>3, <1>4 DEF CursorsInOrder
<1>7. handler \in born /\ handler \in Contexts
  BY <1>3, <1>5, HereIsLive DEF RegistryInOrder
<1>8. LaterThanCalled(R, handler)
  <2>1. ToCome(R, handler)
    BY <1>1, <1>4, <1>5 DEF ToCome, Ahead, From
  <2> QED
    BY <1>1, <1>3, <1>6, <2>1 DEF AllCome
<1>9. /\ called' \in Seq(Contexts) /\ Rising(R, called') /\ Range(called') = Range(called) \cup {handler}
  BY <1>1, <1>3, <1>7, <1>8, RisingAppend DEF CallsInOrder, LaterThanCalled
<1>10. CallsInOrder(R)'
  BY <1>1, <1>3, <1>7, <1>9 DEF CallsInOrder, Rising, Later
<1>11. InBirthOrder(R)' /\ InstancesInOrder'
  BY <1>1, <1>3, OrderStays, InstancesStay DEF DueInv, InBirthOrder
<1>12. \A x : Wanted(x)' <=> Wanted(x)
  BY <1>1, <1>3, BehindStays
<1>13. CursorsInOrder(R)'
  <2>1. temp_handler' = NULL \/ Wanted(temp_handler')
    BY <1>1, <1>3, <1>5, <1>6, NextHandlerFrom
  <2>2. temp_handler' = NULL \/ Wanted(temp_handler)'
    BY <1>1, <2>1 DEF Wanted
  <2>3. \A b : BaseOf(b, event[1])' <=> BaseOf(b, event[1])
    BY <1>1, <1>3, BehindStays
  <2> QED
    BY <1>1, <1>3, <1>9, <2>2, <2>3 DEF CursorsInOrder, InList
<1>14. \A x : ToCome(R, x) <=> Ahead(R, handler, x)
  BY <1>1 DEF ToCome
<1>15. ASSUME NEW x PROVE ToCome(R, x)' <=> Ahead(R, NextHandler(handler), x)
  <2>1. Here(x)' <=> Here(x)
    BY <1>1, <1>3, RegistryStays DEF Here
  <2>2. Ahead(R, temp_handler, x)' <=>
               \/ From(R, temp_handler', x) /\ Here(x)'
               \/ list' = "loop" /\ BelowSome(x, loop_node)'
               \/ list' = "base" /\ InIdList(x, base_node, loop_node)'
               \/ list' # "loop" /\ FromBase(R, temp_base, loop_node, x)'
               \/ FromLoop(R, temp_node, x)'
    BY DEF Ahead, From, Later
  <2>3. Ahead(R, temp_handler, x)' <=> Ahead(R, NextHandler(handler), x)
    BY <1>1, <1>3, <2>1, <2>2, RegistryStays, BehindStays DEF Ahead
  <2> QED
    BY <1>1, <2>3 DEF ToCome
<1>16. ASSUME NEW x, Wanted(x)
       PROVE  /\ ToCome(R, x)' => ToCome(R, x) /\ Later(R, handler, x)
              /\ ToCome(R, x) /\ x # handler => ToCome(R, x)'
  <2>1. /\ Ahead(R, NextHandler(handler), x) => Ahead(R, handler, x) /\ Later(R, handler, x)
        /\ Ahead(R, handler, x) /\ x # handler => Ahead(R, NextHandler(handler), x)
    BY <1>1, <1>3, <1>4, <1>5, <1>6, <1>16, CallTakesFirst
  <2> QED
    BY <1>14, <1>15, <2>1
<1>17. AllCome(R)'
  <2>1. ASSUME NEW x, Wanted(x)', ToCome(R, x)' PROVE LaterThanCalled(R, x)'
    <3>1. Wanted(x) /\ ToCome(R, x) /\ Later(R, handler, x)
      BY <1>12, <1>16, <2>1
    <3>2. LaterThanCalled(R, x)
      BY <1>1, <1>3, <3>1 DEF AllCome
    <3> QED
      BY <1>9, <3>1, <3>2 DEF LaterThanCalled, Later
  <2>2. ASSUME NEW x \in Range(due') \ Range(called') PROVE Wanted(x)' /\ ToCome(R, x)'
    <3>1. x \in Range(due) \ Range(called) /\ x # handler
      BY <1>1, <1>9, <2>2
    <3>2. Wanted(x) /\ ToCome(R, x)
      BY <1>1, <1>3, <3>1 DEF AllCome
    <3> QED
      BY <1>12, <1>16, <3>1, <3>2
  <2> QED
    BY <2>1, <2>2 DEF AllCome
<1> QED
  BY <1>2, <1>10, <1>11, <1>13, <1>17 DEF DueInv

(* The contexts of a list of entries *)
LEMMA ContextsOfIs ==
  ASSUME NEW l \in Seq(Entries)
  PROVE  /\ ContextsOf(l) \in Seq(Contexts) /\ Range(ContextsOf(l)) = Ctxs(l)
         /\ \A R : ListRising(R, l) => Rising(R, ContextsOf(l))
<1>1. DOMAIN l = 1 .. Len(l) /\ Len(l) \in Nat
  BY LenProperties
<1>2. ContextsOf(l) = [k \in 1 .. Len(l) |-> l[k].ctx]
  BY <1>1 DEF ContextsOf
<1>3. \A k \in 1 .. Len(l) : l[k].ctx \in Contexts
  BY <1>1, CtxOfEntry
<1>4. ContextsOf(l) \in Seq(Contexts)
  BY <1>1, <1>2, <1>3, SeqDef
<1>5. Range(ContextsOf(l)) = Ctxs(l)
  BY <1>1, <1>2 DEF Range, Ctxs
<1> QED
  BY <1>1, <1>2, <1>4, <1>5 DEF ListRising, Rising

(* A dispatch begins: all that is due is to come, and nothing was called.  *)
LEMMA DispatchComes == ASSUME NEW R, DueInv(R), NEW e \in Events, Dispatch(e) PROVE DueInv(R)'
<1>1. /\ pc = "idle" /\ pc' = "loop" /\ event' = e /\ loop_node' = FirstNode(loop_nodes)
      /\ due' = ContextsOf(Plan(e)) /\ called' = <<>>
      /\ UNCHANGED <<vars, born>> /\ loop_nodes' = loop_nodes
  BY DEF Dispatch, vars
<1>2. WalkInv'
  BY DispatchKeeps DEF DueInv
<1>3. InBirthOrder(R) /\ RegistryInOrder /\ loop_nodes \in Seq(GoodLoops)
  BY DEF DueInv, InBirthOrder
<1>4. InBirthOrder(R)' /\ InstancesInOrder'
  BY <1>1, <1>3, OrderStays, InstancesStay DEF DueInv
<1> DEFINE l == Cat(LoopSeg(e), loop_nodes)
<1>5. Plan(e) = l /\ l \in Seq(Entries) /\ ListRising(R, l)
  BY <1>3, PlanIs, SegsMap, CatMaps DEF InBirthOrder, RegistryRises
<1>6. \A x : x \in Ctxs(l) <=> NodesCall(e, loop_nodes, x)
  BY <1>3, CallsAre
<1> HIDE DEF l
<1>7. due' \in Seq(Contexts) /\ Range(due') = Ctxs(l) /\ Rising(R, due')
  BY <1>1, <1>5, ContextsOfIs
<1>8. ASSUME NEW x \in Ctxs(l) PROVE x \in born
  <2>1. PICK k \in DOMAIN loop_nodes : LoopCalls(e, loop_nodes[k], x)
    BY <1>6, <1>8 DEF NodesCall
  <2> QED
    BY <1>3, <2>1, CalledIsIn DEF RegistryInOrder, AllBorn
<1>9. called' \in Seq(Contexts) /\ Range(called') = {} /\ Rising(R, called')
  BY <1>1, EmptySeq DEF Range, Rising
<1>10. CallsInOrder(R)'
  BY <1>1, <1>7, <1>8, <1>9 DEF CallsInOrder, Rising, Later
<1>11. CursorsInOrder(R)'
  BY <1>1 DEF CursorsInOrder, InList
<1>12. ASSUME NEW x \in Range(due') PROVE Wanted(x)' /\ ToCome(R, x)'
  <2>1. NodesCall(e, loop_nodes, x)
    BY <1>6, <1>7, <1>12
  <2>2. FromLoop(R, loop_node', x)
    BY <1>1, <1>3, <2>1, FromFirstLoop
  <2>3. FromLoop(R, loop_node, x)'
    BY <1>1, <1>3, <2>2, BehindStays
  <2>4. Wanted(x)'
    BY <1>1, <2>1 DEF Wanted
  <2> QED
    BY <1>1, <2>3, <2>4 DEF ToCome
<1>13. \A x : LaterThanCalled(R, x)'
  BY <1>9 DEF LaterThanCalled
<1>14. AllCome(R)'
  BY <1>12, <1>13 DEF AllCome
<1> QED
  BY <1>2, <1>4, <1>10, <1>11, <1>14 DEF DueInv

-----------------------------------------------------------------------------
(* A registration: the context is younger than all others.                 *)

Youngest(Q, R, c) ==
  /\ Q \subseteq (born \cup {c}) \X (born \cup {c}) /\ Strict(Q)
  /\ \A x, y : Later(R, x, y) => Later(Q, x, y)
  /\ \A x \in born : Later(Q, x, c)
  /\ \A x, y : Later(Q, x, y) /\ y # c => Later(R, x, y)

LEMMA YoungestExists ==
  ASSUME NEW R, R \subseteq born \X born, Strict(R), NEW c, c \notin born
  PROVE  \E Q : Youngest(Q, R, c)
<1> DEFINE Q == R \cup (born \X {c})
<1>1. \A x, y : Later(Q, x, y) <=> Later(R, x, y) \/ (x \in born /\ y = c)
  BY DEF Later
<1>2. \A x, y : Later(R, x, y) => x \in born /\ y \in born
  BY DEF Later
<1>3. Q \subseteq (born \cup {c}) \X (born \cup {c})
  OBVIOUS
<1> HIDE DEF Q
<1>4. \A x : ~Later(Q, x, x)
  BY <1>1, <1>2 DEF Strict
<1>5. \A x, y, z : Later(Q, x, y) /\ Later(Q, y, z) => Later(Q, x, z)
  BY <1>1, <1>2 DEF Strict
<1>6. Strict(Q)
  BY <1>4, <1>5 DEF Strict
<1>7. Youngest(Q, R, c)
  BY <1>1, <1>3, <1>6 DEF Youngest
<1> QED
  BY <1>7

(* A list of nodes that gets a new one gets it at its end. *)
LEMMA AtsGrow ==
  ASSUME NEW R, NEW Q, NEW c, Youngest(Q, R, c), NEW S, NEW T, NEW old \in Seq(S), AtsRising(R, old),
         \A k \in DOMAIN old : old[k].at \in born,
         NEW nodes \in Seq(T), NEW p, OneSet(nodes, old, p, nodes[p]),
         p \in DOMAIN old => nodes[p].at = old[p].at, p \notin DOMAIN old => nodes[p].at = c
  PROVE  AtsRising(Q, nodes)
<1> SUFFICES ASSUME NEW i \in DOMAIN nodes, NEW j \in DOMAIN nodes, i < j
             PROVE  Later(Q, nodes[i].at, nodes[j].at)
  BY DEF AtsRising
<1>1. \A k \in DOMAIN nodes : k \in DOMAIN old => nodes[k].at = old[k].at
  BY DEF OneSet
<1>2. \A k \in DOMAIN nodes : k \notin DOMAIN old => k = p /\ nodes[k].at = c
  BY DEF OneSet
<1>3. j \in DOMAIN old => i \in DOMAIN old
  BY DOMAIN old = 1 .. Len(old), DOMAIN nodes = 1 .. Len(nodes), Len(old) \in Nat, Len(nodes) \in Nat
<1>4. CASE j \in DOMAIN old
  <2>1. Later(R, old[i].at, old[j].at)
    BY <1>3, <1>4 DEF AtsRising
  <2> QED
    BY <1>1, <1>3, <1>4, <2>1 DEF Youngest
<1>5. CASE j \notin DOMAIN old
  <2>1. i # j
    BY DOMAIN nodes = 1 .. Len(nodes), Len(nodes) \in Nat
  <2>2. j = p /\ nodes[j].at = c /\ i \in DOMAIN old
    BY <1>2, <1>5, <2>1
  <2> QED
    BY <1>1, <2>2 DEF Youngest
<1> QED
  BY <1>4, <1>5

(* A rising list to which the youngest is added rises. *)
LEMMA RisingGrows ==
  ASSUME NEW R, NEW Q, NEW c, Youngest(Q, R, c), NEW l \in Seq(Entries), ListRising(R, l), Ctxs(l) \subseteq born,
         NEW entry \in Entries, entry.ctx = c, NEW P
  PROVE  ListRising(Q, l \o Only(P, entry))
<1>1. ListRising(Q, l)
  BY DEF ListRising, Youngest
<1>2. Only(P, entry) \in Seq(Entries)
  BY OnlyTyped
<1>3. ListRising(Q, Only(P, entry)) /\ Ctxs(Only(P, entry)) \subseteq {c}
  <2>1. CASE P
    <3>1. Only(P, entry) = <<entry>>
      BY <2>1 DEF Only
    <3>2. ListRising(Q, <<entry>>) /\ Ctxs(<<entry>>) \subseteq {c}
      BY DEF ListRising, Ctxs
    <3> QED
      BY <3>1, <3>2
  <2>2. CASE ~P
    <3>1. Only(P, entry) = <<>>
      BY <2>2 DEF Only
    <3>2. ListRising(Q, <<>>) /\ Ctxs(<<>>) \subseteq {c}
      BY DEF ListRising, Ctxs
    <3> QED
      BY <3>1, <3>2
  <2> QED
    BY <2>1, <2>2
<1>4. Before(Q, Ctxs(l), Ctxs(Only(P, entry)))
  BY <1>3 DEF Before, Youngest
<1> QED
  BY <1>1, <1>2, <1>3, <1>4, RisingJoin

(* What an event calls was born. *)
LEMMA CalledWasBorn ==
  ASSUME RegistryInOrder, loop_nodes \in Seq(GoodLoops), NEW ev
  PROVE  Ctxs(Cat(LoopSeg(ev), loop_nodes)) \subseteq born
<1> SUFFICES ASSUME NEW x \in Ctxs(Cat(LoopSeg(ev), loop_nodes)) PROVE x \in born
  OBVIOUS
<1>1. NodesCall(ev, loop_nodes, x)
  BY CallsAre
<1>2. PICK k \in DOMAIN loop_nodes : LoopCalls(ev, loop_nodes[k], x)
  BY <1>1 DEF NodesCall
<1>3. x \in LoopCtxs(loop_nodes[k])
  BY <1>2, CalledIsIn
<1> QED
  BY <1>3 DEF RegistryInOrder, AllBorn

(* The contexts in the nodes, at either of the two ways to read them *)
LEMMA GoodHolds ==
  ASSUME NEW n \in GoodLoops
  PROVE  LoopC[n] = LoopCtxs(n)
<1>1. n.bases \in Seq(GoodBases)
  BY DEF GoodLoops
<1>2. \A k \in DOMAIN n.bases : BaseC[n.bases[k]] = BaseCtxs(n.bases[k])
  <2> TAKE k \in DOMAIN n.bases
  <2>1. n.bases[k] \in GoodBases
    BY <1>1
  <2>2. n.bases[k].ids \in Seq(IdNodes)
    BY <2>1, NodesAre
  <2>3. \A i \in DOMAIN n.bases[k].ids : IdC[n.bases[k].ids[i]] = Ctxs(n.bases[k].ids[i].handlers)
    BY <2>2 DEF IdC
  <2>4. Total(IdC, n.bases[k].ids) = IdsCtxs(n.bases[k].ids)
    BY <2>3 DEF Total, IdsCtxs
  <2> QED
    BY <2>1, <2>4 DEF BaseC, BaseCtxs
<1>3. Total(BaseC, n.bases) = BasesCtxs(n.bases)
  BY <1>2 DEF Total, BasesCtxs
<1> QED
  BY <1>3 DEF LoopC, LoopCtxs

LEMMA NewIsNowhere ==
  ASSUME RegistryInOrder, loop_nodes \in Seq(GoodLoops), NEW c, c \notin born
  PROVE  c \notin Total(LoopC, loop_nodes)
<1> SUFFICES ASSUME NEW k \in DOMAIN loop_nodes PROVE c \notin LoopC[loop_nodes[k]]
  BY DEF Total
<1>1. LoopC[loop_nodes[k]] = LoopCtxs(loop_nodes[k])
  BY GoodHolds
<1> QED
  BY <1>1 DEF RegistryInOrder, AllBorn

(* What is in a list of base nodes that has grown was there, or is new. *)
LEMMA BasesGrowFrom ==
  ASSUME NEW bs, NEW old, NEW c, BasesGrown(bs, old, c), NEW m \in DOMAIN bs
  PROVE  \/ /\ m \in DOMAIN old /\ bs[m].at = old[m].at /\ bs[m].base = old[m].base
            /\ Ctxs(bs[m].handlers) \subseteq Ctxs(old[m].handlers) \cup {c}
            /\ IdsCtxs(bs[m].ids) \subseteq IdsCtxs(old[m].ids) \cup {c}
         \/ bs[m].at = c /\ BaseCtxs(bs[m]) \subseteq {c}
<1>1. PICK p : /\ OneSet(bs, old, p, bs[p])
               /\ p \in DOMAIN old => BaseGrown(bs[p], old[p], c)
               /\ p \notin DOMAIN old => bs[p].at = c /\ BaseCtxs(bs[p]) \subseteq {c}
  BY DEF BasesGrown
<1>2. CASE m # p
  <2>1. m \in DOMAIN old /\ bs[m] = old[m]
    BY <1>1, <1>2 DEF OneSet
  <2> QED
    BY <2>1
<1>3. CASE m = p /\ p \in DOMAIN old
  <2>1. BaseGrown(bs[m], old[m], c)
    BY <1>1, <1>3
  <2>2. /\ bs[m].at = old[m].at /\ bs[m].base = old[m].base
        /\ Ctxs(bs[m].handlers) \subseteq Ctxs(old[m].handlers) \cup {c}
        /\ IdsCtxs(bs[m].ids) \subseteq IdsCtxs(old[m].ids) \cup {c}
    BY <2>1 DEF BaseGrown, ListGrown, IdsGrown
  <2> QED
    BY <1>3, <2>2
<1>4. CASE m = p /\ p \notin DOMAIN old
  BY <1>1, <1>4
<1> QED
  BY <1>2, <1>3, <1>4

(* The same of the loop nodes. *)
LEMMA NodesGrowFrom ==
  ASSUME NEW nodes, NEW old, NEW c, NodesGrown(nodes, old, c), NEW k \in DOMAIN nodes
  PROVE  \/ /\ k \in DOMAIN old /\ nodes[k].at = old[k].at
            /\ Ctxs(nodes[k].handlers) \subseteq Ctxs(old[k].handlers) \cup {c}
            /\ nodes[k].bases = old[k].bases \/ BasesGrown(nodes[k].bases, old[k].bases, c)
         \/ nodes[k].at = c /\ LoopCtxs(nodes[k]) \subseteq {c} /\ BaseAts(nodes[k].bases) \subseteq {c}
<1>1. PICK p : /\ OneSet(nodes, old, p, nodes[p])
               /\ p \in DOMAIN old => LoopGrown(nodes[p], old[p], c)
               /\ p \notin DOMAIN old => /\ nodes[p].at = c /\ LoopCtxs(nodes[p]) \subseteq {c}
                                         /\ BaseAts(nodes[p].bases) \subseteq {c}
  BY DEF NodesGrown
<1>2. CASE k # p
  <2>1. k \in DOMAIN old /\ nodes[k] = old[k]
    BY <1>1, <1>2 DEF OneSet
  <2> QED
    BY <2>1
<1>3. CASE k = p /\ p \in DOMAIN old
  <2>1. LoopGrown(nodes[k], old[k], c)
    BY <1>1, <1>3
  <2>2. /\ nodes[k].at = old[k].at
        /\ Ctxs(nodes[k].handlers) \subseteq Ctxs(old[k].handlers) \cup {c}
        /\ nodes[k].bases = old[k].bases \/ BasesGrown(nodes[k].bases, old[k].bases, c)
    BY <2>1 DEF LoopGrown, ListGrown
  <2> QED
    BY <1>3, <2>2
<1>4. CASE k = p /\ p \notin DOMAIN old
  BY <1>1, <1>4
<1> QED
  BY <1>2, <1>3, <1>4

(* A base node of the registry that has grown was there, or is new. *)
LEMMA BaseGrowsFrom ==
  ASSUME NEW nodes, NEW old, NEW c, NodesGrown(nodes, old, c),
         NEW k \in DOMAIN nodes, NEW m \in DOMAIN nodes[k].bases
  PROVE  \/ /\ k \in DOMAIN old /\ nodes[k].at = old[k].at /\ m \in DOMAIN old[k].bases
            /\ nodes[k].bases[m].at = old[k].bases[m].at /\ nodes[k].bases[m].base = old[k].bases[m].base
            /\ Ctxs(nodes[k].bases[m].handlers) \subseteq Ctxs(old[k].bases[m].handlers) \cup {c}
            /\ IdsCtxs(nodes[k].bases[m].ids) \subseteq IdsCtxs(old[k].bases[m].ids) \cup {c}
         \/ nodes[k].bases[m].at = c /\ BaseCtxs(nodes[k].bases[m]) \subseteq {c}
<1> DEFINE bs == nodes[k].bases
           was == old[k].bases
<1>1. CASE k \in DOMAIN old /\ nodes[k].at = old[k].at /\ bs = was
  BY <1>1
<1>2. CASE k \in DOMAIN old /\ nodes[k].at = old[k].at /\ BasesGrown(bs, was, c)
  <2> m \in DOMAIN bs
    OBVIOUS
  <2> HIDE DEF bs, was
  <2>1. \/ /\ m \in DOMAIN was /\ bs[m].at = was[m].at /\ bs[m].base = was[m].base
           /\ Ctxs(bs[m].handlers) \subseteq Ctxs(was[m].handlers) \cup {c}
           /\ IdsCtxs(bs[m].ids) \subseteq IdsCtxs(was[m].ids) \cup {c}
        \/ bs[m].at = c /\ BaseCtxs(bs[m]) \subseteq {c}
    BY <1>2, BasesGrowFrom
  <2> QED
    BY <1>2, <2>1 DEF bs, was
<1>3. CASE LoopCtxs(nodes[k]) \subseteq {c} /\ BaseAts(nodes[k].bases) \subseteq {c}
  BY <1>3 DEF LoopCtxs, BasesCtxs, BaseAts
<1> QED
  BY <1>1, <1>2, <1>3, NodesGrowFrom

(* Only the new context is where it was not. *)
LEMMA RegistrationAdds ==
  ASSUME NEW c, NodesGrown(loop_nodes', loop_nodes, c), RegistryInOrder, c \in Contexts \ born
  PROVE  /\ \A x, ln : x # c => (InLoopList(x, ln)' <=> InLoopList(x, ln))
         /\ \A x, b, ln : x # c => (InBaseList(x, b, ln)' <=> InBaseList(x, b, ln))
         /\ \A x, b, ln : x # c => (InIdList(x, b, ln)' <=> InIdList(x, b, ln))
         /\ \A x, ln : x # c => (UnderLoop(x, ln)' <=> UnderLoop(x, ln))
         /\ \A b, base : b # c /\ BaseOf(b, base) => BaseOf(b, base)'
<1> DEFINE new == loop_nodes'
<1>1. ASSUME NEW x, NEW ln, x # c, InLoopList(x, ln)' PROVE InLoopList(x, ln)
  <2>1. PICK k \in DOMAIN new : new[k].at = ln /\ x \in Ctxs(new[k].handlers)
    BY <1>1 DEF InLoopList
  <2>2. Ctxs(new[k].handlers) \subseteq LoopCtxs(new[k])
    BY DEF LoopCtxs
  <2>3. k \in DOMAIN loop_nodes /\ loop_nodes[k].at = ln /\ x \in Ctxs(loop_nodes[k].handlers)
    BY <1>1, <2>1, <2>2, NodesGrowFrom
  <2> QED
    BY <2>3 DEF InLoopList
<1>2. ASSUME NEW x, NEW b, NEW ln, x # c, InBaseList(x, b, ln)' PROVE InBaseList(x, b, ln)
  <2>1. PICK k \in DOMAIN new : new[k].at = ln /\ \E m \in DOMAIN new[k].bases :
          new[k].bases[m].at = b /\ x \in Ctxs(new[k].bases[m].handlers)
    BY <1>2 DEF InBaseList
  <2>2. PICK m \in DOMAIN new[k].bases : new[k].bases[m].at = b /\ x \in Ctxs(new[k].bases[m].handlers)
    BY <2>1
  <2>3. x \in BaseCtxs(new[k].bases[m])
    BY <2>2 DEF BaseCtxs
  <2>4. /\ k \in DOMAIN loop_nodes /\ loop_nodes[k].at = ln /\ m \in DOMAIN loop_nodes[k].bases
        /\ loop_nodes[k].bases[m].at = b /\ x \in Ctxs(loop_nodes[k].bases[m].handlers)
    <3>1. \/ /\ k \in DOMAIN loop_nodes /\ new[k].at = loop_nodes[k].at /\ m \in DOMAIN loop_nodes[k].bases
             /\ new[k].bases[m].at = loop_nodes[k].bases[m].at /\ new[k].bases[m].base = loop_nodes[k].bases[m].base
             /\ Ctxs(new[k].bases[m].handlers) \subseteq Ctxs(loop_nodes[k].bases[m].handlers) \cup {c}
             /\ IdsCtxs(new[k].bases[m].ids) \subseteq IdsCtxs(loop_nodes[k].bases[m].ids) \cup {c}
          \/ new[k].bases[m].at = c /\ BaseCtxs(new[k].bases[m]) \subseteq {c}
      BY BaseGrowsFrom
    <3> QED
      BY <1>2, <2>1, <2>2, <2>3, <3>1
  <2> QED
    BY <2>4 DEF InBaseList
<1>3. ASSUME NEW x, NEW b, NEW ln, x # c, InIdList(x, b, ln)' PROVE InIdList(x, b, ln)
  <2>1. PICK k \in DOMAIN new : new[k].at = ln /\ \E m \in DOMAIN new[k].bases :
          new[k].bases[m].at = b /\ x \in IdsCtxs(new[k].bases[m].ids)
    BY <1>3 DEF InIdList
  <2>2. PICK m \in DOMAIN new[k].bases : new[k].bases[m].at = b /\ x \in IdsCtxs(new[k].bases[m].ids)
    BY <2>1
  <2>3. x \in BaseCtxs(new[k].bases[m])
    BY <2>2 DEF BaseCtxs
  <2>4. /\ k \in DOMAIN loop_nodes /\ loop_nodes[k].at = ln /\ m \in DOMAIN loop_nodes[k].bases
        /\ loop_nodes[k].bases[m].at = b /\ x \in IdsCtxs(loop_nodes[k].bases[m].ids)
    <3>1. \/ /\ k \in DOMAIN loop_nodes /\ new[k].at = loop_nodes[k].at /\ m \in DOMAIN loop_nodes[k].bases
             /\ new[k].bases[m].at = loop_nodes[k].bases[m].at /\ new[k].bases[m].base = loop_nodes[k].bases[m].base
             /\ Ctxs(new[k].bases[m].handlers) \subseteq Ctxs(loop_nodes[k].bases[m].handlers) \cup {c}
             /\ IdsCtxs(new[k].bases[m].ids) \subseteq IdsCtxs(loop_nodes[k].bases[m].ids) \cup {c}
          \/ new[k].bases[m].at = c /\ BaseCtxs(new[k].bases[m]) \subseteq {c}
      BY BaseGrowsFrom
    <3> QED
      BY <1>3, <2>1, <2>2, <2>3, <3>1
  <2> QED
    BY <2>4 DEF InIdList
<1>4. /\ \A x, ln : InLoopList(x, ln) => InLoopList(x, ln)'
      /\ \A x, b, ln : InBaseList(x, b, ln) => InBaseList(x, b, ln)'
      /\ \A x, b, ln : InIdList(x, b, ln) => InIdList(x, b, ln)'
      /\ \A x, ln : UnderLoop(x, ln)' /\ x # c => UnderLoop(x, ln)
  BY RegistrationKeeps
<1>5. ASSUME NEW x, NEW ln, UnderLoop(x, ln) PROVE UnderLoop(x, ln)'
  <2>1. InLoopList(x, ln)' \/ \E b : InBaseList(x, b, ln)' \/ InIdList(x, b, ln)'
    BY <1>4, <1>5, UnderLoopIs DEF BelowSome, Below
  <2>2. InLoopList(x, ln)' => UnderLoop(x, ln)'
    BY DEF InLoopList, UnderLoop, LoopCtxs
  <2>3. ASSUME NEW b, InBaseList(x, b, ln)' \/ InIdList(x, b, ln)' PROVE UnderLoop(x, ln)'
    <3>1. PICK k \in DOMAIN new : /\ new[k].at = ln
                                  /\ \E m \in DOMAIN new[k].bases : x \in BaseCtxs(new[k].bases[m])
      BY <2>3 DEF InBaseList, InIdList, BaseCtxs
    <3>2. x \in LoopCtxs(new[k])
      BY <3>1 DEF LoopCtxs, BasesCtxs
    <3> QED
      BY <3>1, <3>2 DEF UnderLoop
  <2> QED
    BY <2>1, <2>2, <2>3
<1>6. ASSUME NEW b, NEW base, b # c, BaseOf(b, base) PROVE BaseOf(b, base)'
  <2>1. ASSUME NEW k \in DOMAIN new, NEW m \in DOMAIN new[k].bases, new[k].bases[m].at = b
        PROVE  new[k].bases[m].base = base
    <3>1. /\ k \in DOMAIN loop_nodes /\ m \in DOMAIN loop_nodes[k].bases
          /\ new[k].bases[m].at = loop_nodes[k].bases[m].at /\ new[k].bases[m].base = loop_nodes[k].bases[m].base
      BY <1>6, <2>1, BaseGrowsFrom
    <3> QED
      BY <1>6, <2>1, <3>1 DEF BaseOf
  <2> QED
    BY <2>1 DEF BaseOf
<1> QED
  BY <1>1, <1>2, <1>3, <1>4, <1>5, <1>6

(* What a registration from a task or from the handler that runs does. *)
Registers(key, entry) ==
  /\ entry \in Entries /\ entry.ctx \in Contexts \ born /\ born' = born \cup {entry.ctx}
  /\ NodesGrown(loop_nodes', loop_nodes, entry.ctx)
  /\ NodesGain(loop_nodes', loop_nodes, key, entry)
  /\ held' = held \cup {[ctx |-> entry.ctx, key |-> key]}

LEMMA RegisterRegisters ==
  ASSUME RegistryInOrder, InstancesInOrder, NEW key \in Keys, RegisterNew(key)
  PROVE  \E entry : Registers(key, entry)
<1>1. PICK c \in Contexts, f \in Callbacks, a \in Args :
        /\ loop_nodes' = Added(loop_nodes, key, [ctx |-> c, function |-> f, arg |-> a], FALSE)
        /\ held' = held \cup {[ctx |-> c, key |-> key]}
  BY DEF RegisterNew, InstanceRegister
<1>2. PICK h \in held' \ held : h.ctx = (CHOOSE x \in Contexts : x \notin born) /\ born' = born \cup {h.ctx}
  BY DEF RegisterNew
<1>3. h.ctx = c
  BY <1>1, <1>2
<1>4. c \in Contexts \ born /\ born' = born \cup {c}
  <2>1. \E x \in Contexts : x \notin born
    BY DEF RegistryInOrder, RegisterNew
  <2> QED
    BY <1>2, <1>3, <2>1
<1> DEFINE entry == [ctx |-> c, function |-> f, arg |-> a]
<1>5. entry \in Entries /\ entry.ctx = c
  BY DEF Entries
<1>6. loop_nodes' = Added(loop_nodes, key, entry, FALSE)
  BY <1>1
<1> HIDE DEF entry
<1>7. NodesGrown(loop_nodes', loop_nodes, entry.ctx)
  BY <1>5, <1>6, AddedGrows DEF RegistryInOrder
<1>8. NodesGain(loop_nodes', loop_nodes, key, entry)
  <2>1. Good(loop_nodes) /\ entry.ctx \notin Total(LoopC, loop_nodes)
    BY <1>4, <1>5, NewIsNowhere DEF InstancesInOrder, Good
  <2> QED
    BY <1>5, <1>6, <2>1, AddedIs
<1> QED
  BY <1>1, <1>4, <1>5, <1>7, <1>8 DEF Registers

(* The registry is in the order of birth after it ... *)
LEMMA RegistryGrows ==
  ASSUME NEW R, InBirthOrder(R), NEW key, NEW entry, Registers(key, entry), RegistryInOrder',
         NEW Q, Youngest(Q, R, entry.ctx)
  PROVE  RegistryRises(Q)'
<1> DEFINE new == loop_nodes'
           c == entry.ctx
<1>1. /\ RegistryInOrder /\ loop_nodes \in Seq(LoopNodes) /\ new \in Seq(LoopNodes)
      /\ NodesGrown(new, loop_nodes, c) /\ NodesGain(new, loop_nodes, key, entry)
  BY DEF Registers, InBirthOrder, RegistryInOrder
<1>2. \A k \in DOMAIN loop_nodes : loop_nodes[k].at \in born /\ BaseAts(loop_nodes[k].bases) \subseteq born
  BY <1>1 DEF RegistryInOrder, AllBorn
<1>3. /\ AtsRising(R, loop_nodes) /\ \A k \in DOMAIN loop_nodes : AtsRising(R, loop_nodes[k].bases)
      /\ \A ev \in Events : ListRising(R, Cat(LoopSeg(ev), loop_nodes))
  BY DEF InBirthOrder, RegistryRises
<1>4. AtsRising(Q, new)
  <2>1. PICK p : /\ OneSet(new, loop_nodes, p, new[p])
                 /\ p \in DOMAIN loop_nodes => LoopGrown(new[p], loop_nodes[p], c)
                 /\ p \notin DOMAIN loop_nodes => new[p].at = c
    BY <1>1 DEF NodesGrown
  <2>2. p \in DOMAIN loop_nodes => new[p].at = loop_nodes[p].at
    BY <2>1 DEF LoopGrown
  <2> HIDE DEF new, c
  <2> QED
    BY <1>1, <1>2, <1>3, <2>1, <2>2, AtsGrow DEF c
<1>5. ASSUME NEW k \in DOMAIN new PROVE AtsRising(Q, new[k].bases)
  <2> DEFINE bs == new[k].bases
             was == loop_nodes[k].bases
  <2>1. CASE k \in DOMAIN loop_nodes /\ bs = was
    <3>1. AtsRising(R, bs)
      BY <1>3, <2>1
    <3> QED
      BY <3>1 DEF AtsRising, Youngest
  <2>2. CASE k \in DOMAIN loop_nodes /\ BasesGrown(bs, was, c)
    <3>1. was \in Seq(BaseNodes)
      BY <1>1, <2>2, NodesTyped
    <3>2. AtsRising(R, was)
      BY <1>3, <2>2
    <3>3. \A m \in DOMAIN was : was[m].at \in born
      BY <1>2, <2>2 DEF BaseAts
    <3>4. bs \in Seq(BaseNodes)
      BY <2>2 DEF BasesGrown
    <3>5. PICK p : /\ OneSet(bs, was, p, bs[p])
                   /\ p \in DOMAIN was => BaseGrown(bs[p], was[p], c)
                   /\ p \notin DOMAIN was => bs[p].at = c
      BY <2>2 DEF BasesGrown
    <3>6. p \in DOMAIN was => bs[p].at = was[p].at
      BY <3>5 DEF BaseGrown
    <3> HIDE DEF bs, was, new, c
    <3>7. AtsRising(Q, bs)
      BY <3>1, <3>2, <3>3, <3>4, <3>5, <3>6, AtsGrow DEF c
    <3> QED
      BY <3>7 DEF bs
  <2>3. CASE BaseAts(bs) \subseteq {c}
    <3>1. BasesOK(bs)
      BY DEF RegistryInOrder, NodesOK, LoopOK
    <3>2. \A i, j \in DOMAIN bs : i # j => bs[i].at # bs[j].at
      BY <3>1 DEF BasesOK
    <3>3. \A i \in DOMAIN bs : bs[i].at = c
      BY <2>3 DEF BaseAts
    <3>4. bs \in Seq(BaseNodes)
      <4>1. new[k] \in LoopNodes
        BY <1>1, ElementOfSeq, LenProperties
      <4> QED
        BY <4>1 DEF LoopNodes
    <3>5. \A i, j \in DOMAIN bs : ~(i < j)
      <4>1. DOMAIN bs = 1 .. Len(bs) /\ Len(bs) \in Nat
        BY <3>4, LenProperties
      <4> HIDE DEF bs
      <4>2. \A i, j \in DOMAIN bs : i < j => i # j
        BY <4>1
      <4> QED
        BY <3>2, <3>3, <4>2
    <3> QED
      BY <3>5 DEF AtsRising
  <2> QED
    BY <1>1, <2>1, <2>2, <2>3, NodesGrowFrom
<1>6. ASSUME NEW ev \in Events PROVE ListRising(Q, Cat(LoopSeg(ev), new))
  <2> DEFINE l == Cat(LoopSeg(ev), loop_nodes)
  <2>1. l \in Seq(Entries)
    BY SegsMap, CatMaps DEF InBirthOrder
  <2>2. ListRising(R, l) /\ Ctxs(l) \subseteq born
    BY <1>1, <1>3, <1>6, CalledWasBorn DEF InBirthOrder
  <2>3. Cat(LoopSeg(ev), new) = l \o Only(Reaches(key, ev), entry)
    BY <1>1, <1>6 DEF NodesGain, Grows
  <2>4. entry \in Entries
    BY DEF Registers
  <2> HIDE DEF l
  <2>5. ListRising(Q, l \o Only(Reaches(key, ev), entry))
    BY <2>1, <2>2, <2>4, RisingGrows
  <2> QED
    BY <2>3, <2>5
<1> QED
  BY <1>4, <1>5, <1>6 DEF RegistryRises, Events

(* ... and of the event that is dispatched only the new context can be     *)
(* wanted anew.                                                            *)
LEMMA RegistrationWants ==
  ASSUME loop_nodes \in Seq(GoodLoops), event \in Events, NEW key, NEW entry, Registers(key, entry),
         event' = event
  PROVE  /\ \A x : Wanted(x) => Wanted(x)'
         /\ \A x : Wanted(x)' /\ x # entry.ctx => Wanted(x)
<1> DEFINE new == loop_nodes'
           l == Cat(LoopSeg(event), loop_nodes)
           more == Only(Reaches(key, event), entry)
<1>1. l \in Seq(Entries)
  BY SegsMap, CatMaps
<1>2. new \in Seq(GoodLoops)
  BY DEF Registers, NodesGain, Good
<1>3. \A x : x \in Ctxs(l) <=> NodesCall(event, loop_nodes, x)
  BY CallsAre
<1>4. \A x : x \in Ctxs(Cat(LoopSeg(event), new)) <=> NodesCall(event, new, x)
  BY <1>2, CallsAre
<1>5. Cat(LoopSeg(event), new) = l \o more
  BY DEF Registers, NodesGain, Grows
<1>6. more \in Seq(Entries) /\ Ctxs(more) \subseteq {entry.ctx}
  <2>1. more \in Seq(Entries)
    BY OnlyTyped DEF Registers
  <2>2. Ctxs(<<entry>>) \subseteq {entry.ctx} /\ Ctxs(<<>>) \subseteq {entry.ctx}
    BY DEF Ctxs
  <2> QED
    BY <2>1, <2>2 DEF Only
<1> HIDE DEF l, more
<1>7. Ctxs(l \o more) = Ctxs(l) \cup Ctxs(more)
  BY <1>1, <1>6, CtxsJoin
<1>8. /\ \A x : NodesCall(event, loop_nodes, x) => NodesCall(event, new, x)
      /\ \A x : NodesCall(event, new, x) /\ x # entry.ctx => NodesCall(event, loop_nodes, x)
  BY <1>3, <1>4, <1>5, <1>6, <1>7
<1> QED
  BY <1>8 DEF Wanted

(* What is to come of the others is what was. *)
LEMMA RegistrationBehind ==
  ASSUME NEW R, NEW Q, NEW c, Youngest(Q, R, c), NodesGrown(loop_nodes', loop_nodes, c),
         RegistryInOrder, c \in Contexts \ born
  PROVE  /\ \A p, x : x # c => (FromLoop(Q, p, x)' <=> FromLoop(R, p, x))
         /\ \A p, ln, x : x # c => (FromBase(Q, p, ln, x)' <=> FromBase(R, p, ln, x))
         /\ \A x, ln : x # c => (BelowSome(x, ln)' <=> BelowSome(x, ln))
<1>1. \A p, y : y # c => (From(Q, p, y) <=> From(R, p, y))
  BY DEF Youngest, From
<1>2. /\ \A x, b, ln : x # c => (InBaseList(x, b, ln)' <=> InBaseList(x, b, ln))
      /\ \A x, b, ln : x # c => (InIdList(x, b, ln)' <=> InIdList(x, b, ln))
      /\ \A x, ln : x # c => (UnderLoop(x, ln)' <=> UnderLoop(x, ln))
  BY RegistrationAdds
<1>3. \A x, b, ln : x # c => (Below(x, b, ln)' <=> Below(x, b, ln))
  BY <1>2 DEF Below
<1>4. \A x, ln : UnderLoop(x, ln) => ln # c
  BY DEF UnderLoop, RegistryInOrder, AllBorn
<1>5. \A x, b, ln : Below(x, b, ln) => b # c
  <2> SUFFICES ASSUME NEW x, NEW b, NEW ln, Below(x, b, ln) PROVE b # c
    OBVIOUS
  <2>1. PICK k \in DOMAIN loop_nodes : \E m \in DOMAIN loop_nodes[k].bases : loop_nodes[k].bases[m].at = b
    BY DEF Below, InBaseList, InIdList
  <2>2. b \in BaseAts(loop_nodes[k].bases)
    BY <2>1 DEF BaseAts
  <2> QED
    BY <2>2 DEF RegistryInOrder, AllBorn
<1>6. ASSUME NEW p, NEW x, x # c PROVE FromLoop(Q, p, x)' <=> FromLoop(R, p, x)
  <2>1. FromLoop(Q, p, x)' <=> \E ln : From(Q, p, ln) /\ UnderLoop(x, ln)'
    BY DEF FromLoop, From, Later
  <2> QED
    BY <1>1, <1>2, <1>4, <1>6, <2>1 DEF FromLoop
<1>7. ASSUME NEW p, NEW ln, NEW x, x # c PROVE FromBase(Q, p, ln, x)' <=> FromBase(R, p, ln, x)
  <2>1. FromBase(Q, p, ln, x)' <=> \E b : From(Q, p, b) /\ Below(x, b, ln)'
    BY DEF FromBase, From, Later
  <2> QED
    BY <1>1, <1>3, <1>5, <1>7, <2>1 DEF FromBase
<1>8. \A x, ln : x # c => (BelowSome(x, ln)' <=> BelowSome(x, ln))
  BY <1>3 DEF BelowSome
<1> QED
  BY <1>6, <1>7, <1>8

(* The handles stay registered. *)
LEMMA RegistrationHolds ==
  ASSUME RegistryInOrder', InstancesInOrder, NEW key \in Keys, NEW entry, Registers(key, entry)
  PROVE  InstancesInOrder'
<1>1. HandlesTyped'
  BY DEF HandlesTyped, RegistryInOrder, Registers, InstancesInOrder
<1>2. Good(loop_nodes)'
  BY DEF Registers, NodesGain
<1>3. HandlesAreRegistered'
  <2> SUFFICES ASSUME NEW h \in held' PROVE \E e \in Total(LoopHolds(h.key), loop_nodes') : e.ctx = h.ctx
    BY DEF HandlesAreRegistered
  <2>1. CASE h \in held
    <3>1. PICK e \in Total(LoopHolds(h.key), loop_nodes) : e.ctx = h.ctx
      BY <2>1 DEF InstancesInOrder, HandlesAreRegistered
    <3>2. e \in Total(LoopHolds(h.key), loop_nodes')
      BY <3>1 DEF Registers, NodesGain
    <3> QED
      BY <3>1, <3>2
  <2>2. CASE h = [ctx |-> entry.ctx, key |-> key]
    BY <2>2 DEF Registers, NodesGain
  <2> QED
    BY <2>1, <2>2 DEF Registers
<1> QED
  BY <1>1, <1>2, <1>3 DEF InstancesInOrder

(* A registration by the handler that runs, or between dispatches: it is   *)
(* behind all that is to come.                                             *)
LEMMA RegisterComes ==
  ASSUME NEW R, DueInv(R), NEW key \in Keys, RegisterNew(key)
  PROVE  \E Q : DueInv(Q)'
<1>1. WalkInv /\ InstancesInOrder /\ InBirthOrder(R) /\ CursorsInOrder(R) /\ CallsInOrder(R) /\ AllCome(R)
  BY DEF DueInv
<1>2. WalkInv' /\ RegistryInOrder' /\ RegistryInOrder
  BY <1>1, RegisterKeeps DEF WalkInv
<1>3. PICK entry : Registers(key, entry)
  BY <1>1, <1>2, RegisterRegisters
<1> DEFINE c == entry.ctx
<1>4. /\ c \in Contexts \ born /\ born' = born \cup {c}
      /\ NodesGrown(loop_nodes', loop_nodes, c) /\ loop_nodes' \in Seq(GoodLoops)
  BY <1>3 DEF Registers, NodesGain, Good
<1> HIDE DEF c
<1>5. R \subseteq born \X born /\ Strict(R) /\ loop_nodes \in Seq(GoodLoops) /\ event \in Events
  BY <1>1 DEF InBirthOrder
<1>6. PICK Q : Youngest(Q, R, c)
  BY <1>4, <1>5, YoungestExists
<1>7. /\ pc \in {"idle", "calling"}
      /\ UNCHANGED <<pc, event, loop_node, temp_node, base_node, temp_base, handler, temp_handler, list>>
      /\ UNCHANGED <<due, called>>
  BY DEF RegisterNew, cursors
<1>8. InstancesInOrder'
  BY <1>1, <1>2, <1>3, RegistrationHolds
<1>9. InBirthOrder(Q)'
  <2>1. RegistryRises(Q)'
    BY <1>1, <1>2, <1>3, <1>6, RegistryGrows DEF c
  <2>2. Q \subseteq born' \X born' /\ Strict(Q)
    BY <1>4, <1>6 DEF Youngest
  <2>3. Strict(Q)'
    BY <2>2 DEF Strict, Later
  <2>4. event' \in Events
    BY <1>5, <1>7
  <2> QED
    BY <1>2, <1>4, <2>1, <2>2, <2>3, <2>4 DEF InBirthOrder, Events
<1>10. /\ \A x : Wanted(x) => Wanted(x)'
       /\ \A x : Wanted(x)' /\ x # c => Wanted(x)
  BY <1>3, <1>5, <1>7, RegistrationWants DEF c
<1>11. \A x, y : Later(R, x, y) => Later(Q, x, y)
  BY <1>6 DEF Youngest
<1>12. /\ called \in Seq(Contexts) /\ Range(called) \subseteq born /\ Rising(R, called)
       /\ due \in Seq(Contexts) /\ Range(due) \subseteq born /\ Rising(R, due)
  BY <1>1 DEF CallsInOrder
<1>13. CallsInOrder(Q)'
  <2>1. Rising(Q, called) /\ Rising(Q, due)
    BY <1>11, <1>12 DEF Rising
  <2>2. Rising(Q, called)' /\ Rising(Q, due)'
    BY <1>7, <2>1 DEF Rising, Later
  <2> QED
    BY <1>4, <1>7, <1>12, <2>2 DEF CallsInOrder
<1>14. CursorsInOrder(Q)'
  <2>1. pc' # "handlers" /\ pc' # "base"
    BY <1>7
  <2>2. pc = "calling" => handler' \in Range(called') /\ (temp_handler' = NULL \/ Wanted(temp_handler)')
    BY <1>1, <1>7, <1>10 DEF CursorsInOrder
  <2>3. pc = "calling" => temp_node' = NULL \/ Later(Q, loop_node', temp_node')
    BY <1>1, <1>7, <1>11 DEF CursorsInOrder, InList
  <2>4. pc = "calling" /\ list # "loop" => temp_base' = NULL \/ Later(Q, base_node', temp_base')
    BY <1>1, <1>7, <1>11 DEF CursorsInOrder, InList
  <2>5. ASSUME pc = "calling", list = "base" PROVE BaseOf(base_node, event[1])'
    <3>1. BaseOf(base_node, event[1]) /\ AtBase(base_node, loop_node)
      BY <1>1, <2>5 DEF CursorsInOrder, InList, WalkInv, CursorsOnNodes
    <3>2. base_node # c
      <4>1. PICK k \in DOMAIN loop_nodes : \E m \in DOMAIN loop_nodes[k].bases : loop_nodes[k].bases[m].at = base_node
        BY <3>1 DEF AtBase
      <4>2. base_node \in BaseAts(loop_nodes[k].bases)
        BY <4>1 DEF BaseAts
      <4> QED
        BY <1>2, <1>4, <4>2 DEF RegistryInOrder, AllBorn
    <3>3. \A b, base : b # c /\ BaseOf(b, base) => BaseOf(b, base)'
      BY <1>2, <1>4, RegistrationAdds
    <3> DEFINE b == base_node
               ev == event
    <3>4. BaseOf(b, ev[1])'
      BY <1>7, <3>1, <3>2, <3>3
    <3> QED
      BY <3>4
  <2> QED
    BY <1>7, <2>1, <2>2, <2>3, <2>4, <2>5 DEF CursorsInOrder, InList, Later
<1>15. /\ \A p, x : x # c => (FromLoop(Q, p, x)' <=> FromLoop(R, p, x))
       /\ \A p, ln, x : x # c => (FromBase(Q, p, ln, x)' <=> FromBase(R, p, ln, x))
       /\ \A x, ln : x # c => (BelowSome(x, ln)' <=> BelowSome(x, ln))
       /\ \A x, ln : x # c => (InLoopList(x, ln)' <=> InLoopList(x, ln))
       /\ \A x, b, ln : x # c => (InBaseList(x, b, ln)' <=> InBaseList(x, b, ln))
       /\ \A x, b, ln : x # c => (InIdList(x, b, ln)' <=> InIdList(x, b, ln))
  BY <1>2, <1>4, <1>6, RegistrationBehind, RegistrationAdds
<1>16. ASSUME pc = "calling", NEW x, x # c PROVE ToCome(Q, x)' <=> ToCome(R, x)
  <2>1. From(Q, temp_handler, x)' <=> From(R, temp_handler, x)
    BY <1>6, <1>7, <1>16 DEF From, Youngest, Later
  <2>2. Here(x)' <=> Here(x)
    BY <1>7, <1>15, <1>16 DEF Here
  <2>3. Ahead(Q, temp_handler, x)' <=> Ahead(R, temp_handler, x)
    BY <1>7, <1>15, <1>16, <2>1, <2>2 DEF Ahead
  <2> QED
    BY <1>7, <1>16, <2>3 DEF ToCome
<1>17. AllCome(Q)'
  <2>1. SUFFICES ASSUME pc = "calling" PROVE AllCome(Q)'
    BY <1>7 DEF AllCome
  <2>2. /\ \A x : Wanted(x) /\ ToCome(R, x) => LaterThanCalled(R, x)
        /\ \A x \in Range(due) \ Range(called) : Wanted(x) /\ ToCome(R, x)
    BY <1>1, <2>1 DEF AllCome
  <2>3. ASSUME NEW x, Wanted(x)', ToCome(Q, x)' PROVE LaterThanCalled(Q, x)'
    <3>1. \A y \in Range(called) : Later(Q, y, x)
      <4>1. CASE x = c
        BY <1>6, <1>12, <4>1 DEF Youngest
      <4>2. CASE x # c
        BY <1>10, <1>11, <1>16, <2>1, <2>2, <2>3, <4>2 DEF LaterThanCalled
      <4> QED
        BY <4>1, <4>2
    <3> QED
      BY <1>7, <3>1 DEF LaterThanCalled, Later
  <2>4. ASSUME NEW x \in Range(due) \ Range(called) PROVE Wanted(x)' /\ ToCome(Q, x)'
    BY <1>4, <1>10, <1>12, <1>16, <2>1, <2>2, <2>4
  <2> QED
    BY <1>7, <2>3, <2>4 DEF AllCome
<1> QED
  BY <1>2, <1>8, <1>9, <1>13, <1>14, <1>17 DEF DueInv

-----------------------------------------------------------------------------
(* An unregistration: one context goes, and the others stay in their order. *)

(* A list out of which an entry is cut *)
LEMMA CutRises ==
  ASSUME NEW c, NEW new, NEW old, Cut(new, old, c)
  PROVE  /\ new \in Seq(Entries) /\ Ctxs(new) \subseteq Ctxs(old) /\ Ctxs(old) \subseteq Ctxs(new) \cup {c}
         /\ \A R : ListRising(R, old) => ListRising(R, new)
<1>1. PICK A \in Seq(Others(c)), B \in Seq(Entries), e \in Entries :
        e.ctx = c /\ old = (A \o <<e>>) \o B /\ new = A \o B
  BY DEF Cut
<1>2. A \in Seq(Entries)
  <2>1. \A i \in 1 .. Len(A) : A[i] \in Entries
    BY ElementOfSeq, LenProperties DEF Others
  <2>2. A \in [1 .. Len(A) -> Entries] /\ Len(A) \in Nat
    BY <2>1, LenProperties
  <2> QED
    BY <2>2, SeqDef
<1> DEFINE one == <<e>>
<1>3. one \in Seq(Entries) /\ Ctxs(one) = {c}
  BY <1>1 DEF Ctxs
<1> HIDE DEF one
<1> DEFINE front == A \o one
<1>4. front \in Seq(Entries) /\ Ctxs(front) = Ctxs(A) \cup {c}
  <2>1. Ctxs(front) = Ctxs(A) \cup Ctxs(one)
    BY <1>2, <1>3, CtxsJoin
  <2> QED
    BY <1>2, <1>3, <2>1, JoinEntries
<1>5. \A R : ListRising(R, front) => ListRising(R, A)
  BY <1>2, <1>3, RisingJoin
<1>6. old = front \o B
  BY <1>1 DEF one
<1> HIDE DEF front
<1>7. Ctxs(old) = Ctxs(front) \cup Ctxs(B)
  BY <1>4, <1>6, CtxsJoin
<1>8. Ctxs(new) = Ctxs(A) \cup Ctxs(B) /\ new \in Seq(Entries)
  <2>1. A \o B \in Seq(Entries)
    BY <1>2, JoinEntries
  <2>2. Ctxs(A \o B) = Ctxs(A) \cup Ctxs(B)
    BY <1>2, CtxsJoin
  <2> QED
    BY <1>1, <2>1, <2>2
<1>9. ASSUME NEW R, ListRising(R, old) PROVE ListRising(R, new)
  <2>1. ListRising(R, front) /\ ListRising(R, B) /\ Before(R, Ctxs(front), Ctxs(B))
    BY <1>4, <1>6, <1>9, RisingJoin
  <2>2. ListRising(R, A) /\ Before(R, Ctxs(A), Ctxs(B))
    BY <1>4, <1>5, <2>1 DEF Before
  <2>3. ListRising(R, A \o B)
    BY <1>2, <2>1, <2>2, RisingJoin
  <2> QED
    BY <1>1, <2>3
<1> QED
  BY <1>4, <1>7, <1>8, <1>9

(* A list of nodes of which some are taken off *)
LEMMA AtsStay == \A R, new, old : AtsKept(new, old) /\ AtsRising(R, old) => AtsRising(R, new)
  BY DEF AtsKept, AtsRising

(* Nothing gets anywhere, and what is not the context stays where it was. *)
LEMMA RemovalTakes ==
  ASSUME NEW c, NEW keep, NodesLeft(loop_nodes', loop_nodes, c, keep), RegistryInOrder, born' = born
  PROVE  /\ \A x, ln : InLoopList(x, ln)' => InLoopList(x, ln)
         /\ \A x, b, ln : InBaseList(x, b, ln)' => InBaseList(x, b, ln)
         /\ \A x, b, ln : InIdList(x, b, ln)' => InIdList(x, b, ln)
         /\ \A x, ln : x # c /\ UnderLoop(x, ln) => UnderLoop(x, ln)'
         /\ \A b, base : BaseOf(b, base) => BaseOf(b, base)'
<1> DEFINE new == loop_nodes'
<1>1. ASSUME NEW j \in DOMAIN new
      PROVE  \E k \in DOMAIN loop_nodes :
               /\ new[j].at = loop_nodes[k].at
               /\ Ctxs(new[j].handlers) \subseteq Ctxs(loop_nodes[k].handlers)
               /\ \A m \in DOMAIN new[j].bases : \E i \in DOMAIN loop_nodes[k].bases :
                    BaseLeft(new[j].bases[m], loop_nodes[k].bases[i], c, keep)
  <2>1. PICK k \in DOMAIN loop_nodes : LoopLeft(new[j], loop_nodes[k], c, keep)
    BY DEF NodesLeft
  <2>2. /\ new[j].at = loop_nodes[k].at
        /\ Ctxs(new[j].handlers) \subseteq Ctxs(loop_nodes[k].handlers)
        /\ BasesLeft(new[j].bases, loop_nodes[k].bases, c, keep)
    BY <2>1 DEF LoopLeft, ListLeft
  <2> QED
    BY <2>2 DEF BasesLeft
<1>2. ASSUME NEW n, NEW old, BaseLeft(n, old, c, keep)
      PROVE  /\ n.at = old.at /\ n.base = old.base
             /\ Ctxs(n.handlers) \subseteq Ctxs(old.handlers) /\ IdsCtxs(n.ids) \subseteq IdsCtxs(old.ids)
  BY <1>2 DEF BaseLeft, ListLeft, IdsLeft
<1>3. ASSUME NEW j \in DOMAIN new
      PROVE  \E k \in DOMAIN loop_nodes :
               /\ new[j].at = loop_nodes[k].at
               /\ \A m \in DOMAIN new[j].bases : \E i \in DOMAIN loop_nodes[k].bases :
                    /\ new[j].bases[m].at = loop_nodes[k].bases[i].at
                    /\ new[j].bases[m].base = loop_nodes[k].bases[i].base
                    /\ Ctxs(new[j].bases[m].handlers) \subseteq Ctxs(loop_nodes[k].bases[i].handlers)
                    /\ IdsCtxs(new[j].bases[m].ids) \subseteq IdsCtxs(loop_nodes[k].bases[i].ids)
  <2>1. PICK k \in DOMAIN loop_nodes :
               /\ new[j].at = loop_nodes[k].at
               /\ \A m \in DOMAIN new[j].bases : \E i \in DOMAIN loop_nodes[k].bases :
                    BaseLeft(new[j].bases[m], loop_nodes[k].bases[i], c, keep)
    BY <1>1
  <2>2. ASSUME NEW m \in DOMAIN new[j].bases
        PROVE  \E i \in DOMAIN loop_nodes[k].bases :
                    /\ new[j].bases[m].at = loop_nodes[k].bases[i].at
                    /\ new[j].bases[m].base = loop_nodes[k].bases[i].base
                    /\ Ctxs(new[j].bases[m].handlers) \subseteq Ctxs(loop_nodes[k].bases[i].handlers)
                    /\ IdsCtxs(new[j].bases[m].ids) \subseteq IdsCtxs(loop_nodes[k].bases[i].ids)
    <3>1. PICK i \in DOMAIN loop_nodes[k].bases : BaseLeft(new[j].bases[m], loop_nodes[k].bases[i], c, keep)
      BY <2>1
    <3> QED
      BY <1>2, <3>1
  <2> QED
    BY <2>1, <2>2
<1>4. \A x, ln : InLoopList(x, ln)' => InLoopList(x, ln)
  BY <1>1 DEF InLoopList
<1>5. ASSUME NEW x, NEW b, NEW ln, InBaseList(x, b, ln)' PROVE InBaseList(x, b, ln)
  <2>1. PICK j \in DOMAIN new : new[j].at = ln /\ \E m \in DOMAIN new[j].bases :
          new[j].bases[m].at = b /\ x \in Ctxs(new[j].bases[m].handlers)
    BY <1>5 DEF InBaseList
  <2>2. \E k \in DOMAIN loop_nodes : loop_nodes[k].at = ln /\ \E i \in DOMAIN loop_nodes[k].bases :
          loop_nodes[k].bases[i].at = b /\ x \in Ctxs(loop_nodes[k].bases[i].handlers)
    BY <1>3, <2>1
  <2> QED
    BY <2>2 DEF InBaseList
<1>6. ASSUME NEW x, NEW b, NEW ln, InIdList(x, b, ln)' PROVE InIdList(x, b, ln)
  <2>1. PICK j \in DOMAIN new : new[j].at = ln /\ \E m \in DOMAIN new[j].bases :
          new[j].bases[m].at = b /\ x \in IdsCtxs(new[j].bases[m].ids)
    BY <1>6 DEF InIdList
  <2>2. \E k \in DOMAIN loop_nodes : loop_nodes[k].at = ln /\ \E i \in DOMAIN loop_nodes[k].bases :
          loop_nodes[k].bases[i].at = b /\ x \in IdsCtxs(loop_nodes[k].bases[i].ids)
    BY <1>3, <2>1
  <2> QED
    BY <2>2 DEF InIdList
<1>7. ASSUME NEW x, NEW ln, x # c, UnderLoop(x, ln) PROVE UnderLoop(x, ln)'
  <2>1. InLoopList(x, ln)' \/ \E b : InBaseList(x, b, ln)' \/ InIdList(x, b, ln)'
    BY <1>7, UnderLoopIs, RemovalKeeps DEF BelowSome, Below
  <2>2. InLoopList(x, ln)' => UnderLoop(x, ln)'
    BY DEF InLoopList, UnderLoop, LoopCtxs
  <2>3. ASSUME NEW b, InBaseList(x, b, ln)' \/ InIdList(x, b, ln)' PROVE UnderLoop(x, ln)'
    <3>1. PICK k \in DOMAIN new : /\ new[k].at = ln
                                  /\ \E m \in DOMAIN new[k].bases : x \in BaseCtxs(new[k].bases[m])
      BY <2>3 DEF InBaseList, InIdList, BaseCtxs
    <3>2. x \in LoopCtxs(new[k])
      BY <3>1 DEF LoopCtxs, BasesCtxs
    <3> QED
      BY <3>1, <3>2 DEF UnderLoop
  <2> QED
    BY <2>1, <2>2, <2>3
<1>8. ASSUME NEW b, NEW base, BaseOf(b, base) PROVE BaseOf(b, base)'
  <2>1. ASSUME NEW j \in DOMAIN new, NEW m \in DOMAIN new[j].bases, new[j].bases[m].at = b
        PROVE  new[j].bases[m].base = base
    <3>1. \E k \in DOMAIN loop_nodes : \E i \in DOMAIN loop_nodes[k].bases :
            loop_nodes[k].bases[i].at = b /\ new[j].bases[m].base = loop_nodes[k].bases[i].base
      BY <1>3, <2>1
    <3> QED
      BY <1>8, <3>1 DEF BaseOf
  <2> QED
    BY <2>1 DEF BaseOf
<1> QED
  BY <1>4, <1>5, <1>6, <1>7, <1>8

(* What an unregistration with a handle that is held does. *)
Unregisters(h, keep) ==
  /\ NodesLeft(loop_nodes', loop_nodes, h.ctx, keep)
  /\ NodesCut(loop_nodes', loop_nodes, h.key, h.ctx)
  /\ InstancesInOrder'

LEMMA UnregisterUnregisters ==
  ASSUME RegistryInOrder, RegistryInOrder', InstancesInOrder, NEW h \in held, UnregisterHeld(h)
  PROVE  Unregisters(h, h.key[1] # ANY /\ h.key[2] # ANY)
<1> DEFINE c == h.ctx
           key == h.key
           keep == key[1] # ANY /\ key[2] # ANY
           match == {e \in AllEntries : e.ctx = c}
<1>1. loop_nodes' = Removed(loop_nodes, key, match) /\ held' = held \ {h}
  BY DEF UnregisterHeld, InstanceUnregister
<1>2. NodesLeft(loop_nodes', loop_nodes, c, keep)
  <2>1. \A e \in match : e.ctx = c
    OBVIOUS
  <2> HIDE DEF match, keep
  <2> QED
    BY <1>1, <2>1, RemovedLeaves DEF RegistryInOrder, keep
<1>3. /\ loop_nodes \in Seq(LoopNodes) /\ Good(loop_nodes) /\ HandlesAreRegistered
      /\ loop_nodes \in Seq(GoodLoops)
  BY DEF InstancesInOrder, HandlesTyped, Good
<1>4. \A g \in held : g.key \in Keys /\ g = [ctx |-> g.ctx, key |-> g.key]
  BY DEF InstancesInOrder, HandlesTyped
<1>5. \A k \in Keys : RegisteredAt(k) = Total(LoopHolds(k), loop_nodes)
  BY <1>3, RegisteredAtIs
<1>6. \A k \in Keys : \A e \in Total(LoopHolds(k), loop_nodes) : e \in Entries
  <2> SUFFICES ASSUME NEW k \in Keys, NEW e \in Total(LoopHolds(k), loop_nodes) PROVE e \in Entries
    OBVIOUS
  <2>1. PICK j \in DOMAIN loop_nodes : e \in LoopHolds(k)[loop_nodes[j]]
    BY DEF Total
  <2>2. loop_nodes[j] \in GoodLoops
    BY <1>3, LenProperties, ElementOfSeq
  <2> QED
    BY <2>1, <2>2, HoldsAre
<1>7. match \subseteq OfCtx(c) /\ \A k \in Keys : Total(LoopHolds(k), loop_nodes) \cap OfCtx(c) \subseteq match
  BY <1>5, <1>6 DEF AllEntries, OfCtx
<1> HIDE DEF match
<1>8. NodesCut(loop_nodes', loop_nodes, key, c)
  <2>1. PICK mine \in Total(LoopHolds(key), loop_nodes) : mine.ctx = c
    BY <1>3 DEF HandlesAreRegistered
  <2>2. Meant(match, c, Total(LoopHolds(key), loop_nodes))
    BY <1>4, <1>7 DEF Meant
  <2> QED
    BY <1>1, <1>3, <1>4, <2>1, <2>2, RemovedCuts
<1>9. Good(loop_nodes') /\ Total(LoopHolds(key), loop_nodes) \subseteq Total(LoopHolds(key), loop_nodes') \cup OfCtx(c)
  BY <1>8 DEF NodesCut
<1>10. \A k \in Keys : k # key => Total(LoopHolds(k), loop_nodes') = Total(LoopHolds(k), loop_nodes)
  BY <1>1, <1>3, <1>4, RemovedKeeps
<1>11. HandlesAreRegistered'
  <2> SUFFICES ASSUME NEW g \in held' PROVE \E e \in Total(LoopHolds(g.key), loop_nodes') : e.ctx = g.ctx
    BY DEF HandlesAreRegistered
  <2>1. g \in held /\ g # h
    BY <1>1
  <2>2. PICK e \in Total(LoopHolds(g.key), loop_nodes) : e.ctx = g.ctx
    BY <1>3, <2>1 DEF HandlesAreRegistered
  <2>3. CASE g.key # key
    BY <1>4, <1>10, <2>1, <2>2, <2>3
  <2>4. CASE g.key = key
    <3>1. g.ctx # h.ctx
      BY <1>4, <2>1, <2>4
    <3>2. e \notin OfCtx(c)
      BY <2>2, <3>1 DEF OfCtx
    <3> QED
      BY <1>9, <2>2, <2>4, <3>2
  <2> QED
    BY <2>3, <2>4
<1>12. HandlesTyped'
  BY <1>1 DEF HandlesTyped, RegistryInOrder, InstancesInOrder
<1>13. InstancesInOrder'
  BY <1>9, <1>11, <1>12 DEF InstancesInOrder
<1> QED
  BY <1>2, <1>8, <1>13 DEF Unregisters

(* The registry stays in the order of birth ... *)
LEMMA RegistryShrinks ==
  ASSUME NEW R, InBirthOrder(R), NEW h, NEW keep, Unregisters(h, keep)
  PROVE  RegistryRises(R)'
<1> DEFINE new == loop_nodes'
<1>1. /\ AtsRising(R, loop_nodes) /\ \A k \in DOMAIN loop_nodes : AtsRising(R, loop_nodes[k].bases)
      /\ \A ev \in Events : ListRising(R, Cat(LoopSeg(ev), loop_nodes))
  BY DEF InBirthOrder, RegistryRises
<1>2. AtsRising(R, new)
  BY <1>1, AtsStay DEF Unregisters, NodesLeft
<1>3. ASSUME NEW j \in DOMAIN new PROVE AtsRising(R, new[j].bases)
  <2>1. PICK k \in DOMAIN loop_nodes : LoopLeft(new[j], loop_nodes[k], h.ctx, keep)
    BY DEF Unregisters, NodesLeft
  <2>2. AtsKept(new[j].bases, loop_nodes[k].bases)
    BY <2>1 DEF LoopLeft, BasesLeft
  <2> QED
    BY <1>1, <2>2, AtsStay
<1>4. ASSUME NEW ev \in Events PROVE ListRising(R, Cat(LoopSeg(ev), new))
  <2> DEFINE l == Cat(LoopSeg(ev), loop_nodes)
             m == Cat(LoopSeg(ev), new)
  <2>1. CutWhere(Reaches(h.key, ev), m, l, h.ctx)
    BY DEF Unregisters, NodesCut
  <2>2. ListRising(R, l)
    BY <1>1
  <2> HIDE DEF l, m
  <2>3. ListRising(R, m)
    BY <2>1, <2>2, CutRises DEF CutWhere
  <2> QED
    BY <2>3 DEF m
<1> QED
  BY <1>2, <1>3, <1>4 DEF RegistryRises, Events

(* ... and the event that is dispatched wants all but the context that     *)
(* went.                                                                   *)
LEMMA RemovalWants ==
  ASSUME loop_nodes \in Seq(GoodLoops), event \in Events, NEW h, NEW keep, Unregisters(h, keep),
         event' = event
  PROVE  /\ \A x : Wanted(x)' => Wanted(x)
         /\ \A x : Wanted(x) /\ x # h.ctx => Wanted(x)'
<1> DEFINE new == loop_nodes'
           l == Cat(LoopSeg(event), loop_nodes)
           m == Cat(LoopSeg(event), new)
<1>1. \A x : x \in Ctxs(l) <=> NodesCall(event, loop_nodes, x)
  BY CallsAre
<1>2. new \in Seq(GoodLoops)
  BY DEF Unregisters, NodesCut, Good
<1>3. \A x : x \in Ctxs(m) <=> NodesCall(event, new, x)
  BY <1>2, CallsAre
<1>4. CutWhere(Reaches(h.key, event), m, l, h.ctx)
  BY DEF Unregisters, NodesCut
<1> HIDE DEF l, m
<1>5. Ctxs(m) \subseteq Ctxs(l) /\ Ctxs(l) \subseteq Ctxs(m) \cup {h.ctx}
  BY <1>4, CutRises DEF CutWhere
<1>6. /\ \A x : NodesCall(event, new, x) => NodesCall(event, loop_nodes, x)
      /\ \A x : NodesCall(event, loop_nodes, x) /\ x # h.ctx => NodesCall(event, new, x)
  BY <1>1, <1>3, <1>5
<1> QED
  BY <1>6 DEF Wanted

(* What is to come of the others is what was. *)
LEMMA RemovalBehind ==
  ASSUME NEW R, NEW c, NEW keep, NodesLeft(loop_nodes', loop_nodes, c, keep), RegistryInOrder, born' = born
  PROVE  /\ \A p, x : FromLoop(R, p, x)' => FromLoop(R, p, x)
         /\ \A p, x : x # c /\ FromLoop(R, p, x) => FromLoop(R, p, x)'
         /\ \A p, ln, x : FromBase(R, p, ln, x)' => FromBase(R, p, ln, x)
         /\ \A p, ln, x : x # c /\ FromBase(R, p, ln, x) => FromBase(R, p, ln, x)'
         /\ \A x, ln : BelowSome(x, ln)' => BelowSome(x, ln)
         /\ \A x, ln : x # c /\ BelowSome(x, ln) => BelowSome(x, ln)'
<1>1. /\ \A x, b, ln : InBaseList(x, b, ln)' => InBaseList(x, b, ln)
      /\ \A x, b, ln : InIdList(x, b, ln)' => InIdList(x, b, ln)
      /\ \A x, ln : UnderLoop(x, ln)' => UnderLoop(x, ln)
      /\ \A x, ln : x # c /\ UnderLoop(x, ln) => UnderLoop(x, ln)'
  BY RemovalTakes, RemovalAddsNothing
<1>2. /\ \A x, b, ln : x # c /\ InBaseList(x, b, ln) => InBaseList(x, b, ln)'
      /\ \A x, b, ln : x # c /\ InIdList(x, b, ln) => InIdList(x, b, ln)'
  BY RemovalKeeps
<1>3. /\ \A x, b, ln : Below(x, b, ln)' => Below(x, b, ln)
      /\ \A x, b, ln : x # c /\ Below(x, b, ln) => Below(x, b, ln)'
  BY <1>1, <1>2 DEF Below
<1>4. \A p, x : FromLoop(R, p, x)' <=> \E ln : From(R, p, ln) /\ UnderLoop(x, ln)'
  BY DEF FromLoop, From, Later
<1>5. \A p, ln, x : FromBase(R, p, ln, x)' <=> \E b : From(R, p, b) /\ Below(x, b, ln)'
  BY DEF FromBase, From, Later
<1>6. /\ \A p, x : FromLoop(R, p, x)' => FromLoop(R, p, x)
      /\ \A p, x : x # c /\ FromLoop(R, p, x) => FromLoop(R, p, x)'
  BY <1>1, <1>4 DEF FromLoop
<1>7. /\ \A p, ln, x : FromBase(R, p, ln, x)' => FromBase(R, p, ln, x)
      /\ \A p, ln, x : x # c /\ FromBase(R, p, ln, x) => FromBase(R, p, ln, x)'
  BY <1>3, <1>5 DEF FromBase
<1>8. /\ \A x, ln : BelowSome(x, ln)' => BelowSome(x, ln)
      /\ \A x, ln : x # c /\ BelowSome(x, ln) => BelowSome(x, ln)'
  BY <1>3 DEF BelowSome
<1> QED
  BY <1>6, <1>7, <1>8

(* An unregistration, between dispatches or by the handler that runs: all  *)
(* that is to come stays.                                                  *)
LEMMA UnregisterComes ==
  ASSUME SelfLevels \subseteq {"id"}, NEW R, DueInv(R), NEW h \in held, UnregisterHeld(h)
  PROVE  DueInv(R)'
<1>1. WalkInv /\ InstancesInOrder /\ InBirthOrder(R) /\ CursorsInOrder(R) /\ CallsInOrder(R) /\ AllCome(R)
  BY DEF DueInv
<1>2. WalkInv' /\ RegistryInOrder' /\ RegistryInOrder
  BY <1>1, UnregisterKeeps DEF WalkInv
<1> DEFINE c == h.ctx
           keep == h.key[1] # ANY /\ h.key[2] # ANY
<1>3. Unregisters(h, keep)
  BY <1>1, <1>2, UnregisterUnregisters
<1> HIDE DEF keep
<1>4. NodesLeft(loop_nodes', loop_nodes, c, keep) /\ InstancesInOrder'
  BY <1>3 DEF Unregisters
<1>5. /\ UNCHANGED <<pc, event, loop_node, temp_node, base_node, temp_base, handler, temp_handler, list>>
      /\ UNCHANGED <<due, called, born>>
      /\ pc = "idle" \/ (pc = "calling" /\ c = handler)
  BY DEF UnregisterHeld, cursors
<1> HIDE DEF c
<1>6. R \subseteq born \X born /\ Strict(R) /\ loop_nodes \in Seq(GoodLoops) /\ event \in Events
  BY <1>1 DEF InBirthOrder
<1>7. InBirthOrder(R)'
  <2>1. RegistryRises(R)'
    BY <1>1, <1>3, RegistryShrinks
  <2>2. loop_nodes' \in Seq(GoodLoops)
    BY <1>4 DEF InstancesInOrder, Good
  <2>3. Strict(R)'
    BY <1>6 DEF Strict, Later
  <2>4. event' \in Events
    BY <1>5, <1>6
  <2> QED
    BY <1>2, <1>5, <1>6, <2>1, <2>2, <2>3, <2>4 DEF InBirthOrder, Events
<1>8. /\ \A x : Wanted(x)' => Wanted(x)
      /\ \A x : Wanted(x) /\ x # c => Wanted(x)'
  BY <1>3, <1>5, <1>6, RemovalWants DEF c
<1>9. CallsInOrder(R)'
  BY <1>1, <1>5 DEF CallsInOrder, Rising, Later
<1>10. CursorsInOrder(R)'
  <2>1. pc' # "handlers" /\ pc' # "base"
    BY <1>5
  <2>2. pc = "calling" => temp_handler = NULL \/ (Wanted(temp_handler) /\ temp_handler # c)
    BY <1>1, <1>5 DEF CursorsInOrder, WalkInv, CursorsInList
  <2>3. pc = "calling" => handler' \in Range(called') /\ (temp_handler' = NULL \/ Wanted(temp_handler)')
    BY <1>1, <1>5, <1>8, <2>2 DEF CursorsInOrder
  <2>4. pc = "calling" => temp_node' = NULL \/ Later(R, loop_node', temp_node')
    BY <1>1, <1>5 DEF CursorsInOrder, InList
  <2>5. pc = "calling" /\ list # "loop" => temp_base' = NULL \/ Later(R, base_node', temp_base')
    BY <1>1, <1>5 DEF CursorsInOrder, InList
  <2>6. ASSUME pc = "calling", list = "base" PROVE BaseOf(base_node, event[1])'
    <3>1. BaseOf(base_node, event[1])
      BY <1>1, <2>6 DEF CursorsInOrder, InList
    <3>2. \A b, base : BaseOf(b, base) => BaseOf(b, base)'
      BY <1>2, <1>4, <1>5, RemovalTakes
    <3> DEFINE b == base_node
               ev == event
    <3>3. BaseOf(b, ev[1])'
      BY <1>5, <3>1, <3>2
    <3> QED
      BY <3>3
  <2> QED
    BY <1>5, <2>1, <2>3, <2>4, <2>5, <2>6 DEF CursorsInOrder, InList, Later
<1>11. /\ \A p, x : FromLoop(R, p, x)' => FromLoop(R, p, x)
       /\ \A p, x : x # c /\ FromLoop(R, p, x) => FromLoop(R, p, x)'
       /\ \A p, ln, x : FromBase(R, p, ln, x)' => FromBase(R, p, ln, x)
       /\ \A p, ln, x : x # c /\ FromBase(R, p, ln, x) => FromBase(R, p, ln, x)'
       /\ \A x, ln : BelowSome(x, ln)' => BelowSome(x, ln)
       /\ \A x, ln : x # c /\ BelowSome(x, ln) => BelowSome(x, ln)'
  BY <1>2, <1>4, <1>5, RemovalBehind
<1>12. /\ \A x, ln : InLoopList(x, ln)' => InLoopList(x, ln)
       /\ \A x, b, ln : InBaseList(x, b, ln)' => InBaseList(x, b, ln)
       /\ \A x, b, ln : InIdList(x, b, ln)' => InIdList(x, b, ln)
  BY <1>2, <1>4, <1>5, RemovalTakes
<1>13. /\ \A x, ln : x # c /\ InLoopList(x, ln) => InLoopList(x, ln)'
       /\ \A x, b, ln : x # c /\ InBaseList(x, b, ln) => InBaseList(x, b, ln)'
       /\ \A x, b, ln : x # c /\ InIdList(x, b, ln) => InIdList(x, b, ln)'
  BY <1>4, RemovalKeeps
<1>14. ASSUME pc = "calling", NEW x
       PROVE  (ToCome(R, x)' => ToCome(R, x)) /\ (x # c /\ ToCome(R, x) => ToCome(R, x)')
  <2>1. From(R, temp_handler, x)' <=> From(R, temp_handler, x)
    BY <1>5 DEF From, Later
  <2>2. Here(x)' => Here(x)
    BY <1>5, <1>12 DEF Here
  <2>3. x # c /\ Here(x) => Here(x)'
    BY <1>5, <1>13 DEF Here
  <2>4. Ahead(R, temp_handler, x)' => Ahead(R, temp_handler, x)
    BY <1>5, <1>11, <1>12, <2>1, <2>2 DEF Ahead
  <2>5. x # c /\ Ahead(R, temp_handler, x) => Ahead(R, temp_handler, x)'
    BY <1>5, <1>11, <1>13, <2>1, <2>3 DEF Ahead
  <2> QED
    BY <1>5, <1>14, <2>4, <2>5 DEF ToCome
<1>15. AllCome(R)'
  <2>1. SUFFICES ASSUME pc = "calling" PROVE AllCome(R)'
    BY <1>5 DEF AllCome
  <2>2. /\ \A x : Wanted(x) /\ ToCome(R, x) => LaterThanCalled(R, x)
        /\ \A x \in Range(due) \ Range(called) : Wanted(x) /\ ToCome(R, x)
    BY <1>1, <2>1 DEF AllCome
  <2>3. c \in Range(called)
    BY <1>1, <1>5, <2>1 DEF CursorsInOrder
  <2>4. ASSUME NEW x, Wanted(x)', ToCome(R, x)' PROVE LaterThanCalled(R, x)'
    <3>1. LaterThanCalled(R, x)
      BY <1>8, <1>14, <2>1, <2>2, <2>4
    <3> QED
      BY <1>5, <3>1 DEF LaterThanCalled, Later
  <2>5. ASSUME NEW x \in Range(due) \ Range(called) PROVE Wanted(x)' /\ ToCome(R, x)'
    BY <1>8, <1>14, <2>1, <2>2, <2>3, <2>5
  <2> QED
    BY <1>5, <2>4, <2>5 DEF AllCome
<1> QED
  BY <1>2, <1>4, <1>7, <1>9, <1>10, <1>15 DEF DueInv

-----------------------------------------------------------------------------
(* The invariant holds, and says what a dispatch has called when it ends.  *)

LEMMA DueBegins == DispatchInit => DueInv({})
<1> SUFFICES ASSUME DispatchInit PROVE DueInv({})
  OBVIOUS
<1>1. /\ loop_nodes = <<>> /\ held = {} /\ born = {} /\ due = <<>> /\ called = <<>>
      /\ pc = "idle" /\ list = "loop" /\ event \in Events
  BY DEF DispatchInit, Init
<1>2. WalkInv
  BY WalkBegins
<1>3. InstancesInOrder
  BY <1>1, EmptyList DEF InstancesInOrder, HandlesTyped, Good, HandlesAreRegistered
<1>4. InBirthOrder({})
  <2>1. \A ev \in Events : ListRising({}, Cat(LoopSeg(ev), loop_nodes))
    BY <1>1, EmptyList DEF ListRising
  <2>2. RegistryRises({})
    BY <1>1, <2>1 DEF RegistryRises, AtsRising
  <2>3. Strict({})
    BY DEF Strict, Later
  <2> QED
    BY <1>1, <1>2, <2>2, <2>3 DEF InBirthOrder, WalkInv
<1>5. CursorsInOrder({}) /\ CallsInOrder({}) /\ AllCome({})
  BY <1>1 DEF CursorsInOrder, CallsInOrder, AllCome, InList, Rising, Range
<1> QED
  BY <1>2, <1>3, <1>4, <1>5 DEF DueInv

LEMMA DueRests == ASSUME NEW R, DueInv(R), UNCHANGED dispatchVars PROVE DueInv(R)'
<1>1. UNCHANGED <<loop_nodes, held, born, pc, event, loop_node, temp_node, base_node, temp_base,
                  handler, temp_handler, list, due, called>>
  BY DEF dispatchVars, vars, cursors
<1>2. WalkInv /\ InstancesInOrder /\ InBirthOrder(R) /\ CursorsInOrder(R) /\ CallsInOrder(R) /\ AllCome(R)
  BY DEF DueInv
<1>3. WalkInv' /\ RegistryInOrder
  BY <1>2, WalkRests DEF WalkInv
<1>4. InstancesInOrder'
  BY <1>2, InstancesStay DEF dispatchVars
<1>5. InBirthOrder(R)'
  <2>1. event' \in Events
    BY <1>1, <1>2 DEF InBirthOrder
  <2> QED
    BY <1>1, <1>2, <2>1, OrderStays
<1>6. /\ \A p, x : FromLoop(R, p, x)' <=> FromLoop(R, p, x)
      /\ \A p, ln, x : FromBase(R, p, ln, x)' <=> FromBase(R, p, ln, x)
      /\ \A x, ln : BelowSome(x, ln)' <=> BelowSome(x, ln)
      /\ \A b, base : BaseOf(b, base)' <=> BaseOf(b, base)
      /\ \A x : Wanted(x)' <=> Wanted(x)
  BY <1>1, <1>3, BehindStays
<1>7. /\ \A x, ln : InLoopList(x, ln)' <=> InLoopList(x, ln)
      /\ \A x, b, ln : InBaseList(x, b, ln)' <=> InBaseList(x, b, ln)
      /\ \A x, b, ln : InIdList(x, b, ln)' <=> InIdList(x, b, ln)
  BY <1>1, <1>3, RegistryStays
<1>8. CallsInOrder(R)'
  BY <1>1, <1>2 DEF CallsInOrder, Rising, Later
<1>9. CursorsInOrder(R)'
  <2>1. BaseOf(base_node, event[1])' <=> BaseOf(base_node, event[1])
    BY <1>1, <1>6
  <2> QED
    BY <1>1, <1>2, <1>6, <2>1 DEF CursorsInOrder, InList, Later
<1>10. \A x : Here(x)' <=> Here(x)
  BY <1>1, <1>7 DEF Here
<1>11. ASSUME NEW x PROVE ToCome(R, x)' <=> ToCome(R, x)
  <2>1. \A p : From(R, p, x)' <=> From(R, p, x)
    BY DEF From, Later
  <2>2. Ahead(R, handler, x)' <=> Ahead(R, handler, x)
    BY <1>1, <1>6, <1>7, <1>10, <2>1 DEF Ahead
  <2>3. Ahead(R, temp_handler, x)' <=> Ahead(R, temp_handler, x)
    BY <1>1, <1>6, <1>7, <1>10, <2>1 DEF Ahead
  <2> QED
    BY <1>1, <1>6, <2>2, <2>3 DEF ToCome
<1>12. AllCome(R)'
  BY <1>1, <1>2, <1>6, <1>11 DEF AllCome, LaterThanCalled, Later
<1> QED
  BY <1>3, <1>4, <1>5, <1>8, <1>9, <1>12 DEF DueInv

(* All loop nodes are done: nothing that was due is left, and nothing was  *)
(* called out of the order of birth, so nothing twice.                     *)
LEMMA DueIsCalled == ASSUME NEW R, DueInv(R) PROVE EachDueCalledOnce
<1> SUFFICES ASSUME pc = "loop", loop_node = NULL
             PROVE  /\ \A i, j \in DOMAIN called : called[i] = called[j] => i = j
                    /\ \A i \in DOMAIN due : \E k \in DOMAIN called : called[k] = due[i]
                    /\ \A i, j \in DOMAIN due : \A k, l \in DOMAIN called :
                         i < j /\ called[k] = due[i] /\ called[l] = due[j] => k < l
  BY DEF EachDueCalledOnce
<1>1. /\ Strict(R) /\ Rising(R, called) /\ Rising(R, due)
      /\ called \in Seq(Contexts) /\ due \in Seq(Contexts)
  BY DEF DueInv, InBirthOrder, CallsInOrder
<1>2. \A i, j \in DOMAIN called : i = j \/ i < j \/ j < i
  BY <1>1, DOMAIN called = 1 .. Len(called)
<1>3. ASSUME NEW i \in DOMAIN called, NEW j \in DOMAIN called, called[i] = called[j] PROVE i = j
  <2>1. ~(i < j)
    BY <1>1, <1>3 DEF Rising, Strict
  <2>2. ~(j < i)
    BY <1>1, <1>3 DEF Rising, Strict
  <2> QED
    BY <1>2, <2>1, <2>2
<1>4. ASSUME NEW i \in DOMAIN due PROVE \E k \in DOMAIN called : called[k] = due[i]
  <2>1. due[i] \in Range(due)
    BY DEF Range
  <2>2. ~FromLoop(R, loop_node, due[i])
    BY DEF FromLoop, From
  <2>3. ~ToCome(R, due[i])
    BY <2>2 DEF ToCome
  <2>4. \A x \in Range(due) \ Range(called) : ToCome(R, x)
    BY DEF DueInv, AllCome
  <2>5. due[i] \in Range(called)
    BY <2>1, <2>3, <2>4
  <2> QED
    BY <2>5 DEF Range
<1>5. ASSUME NEW i \in DOMAIN due, NEW j \in DOMAIN due, NEW k \in DOMAIN called, NEW l \in DOMAIN called,
             i < j, called[k] = due[i], called[l] = due[j]
      PROVE  k < l
  <2>1. Later(R, called[k], called[l])
    BY <1>1, <1>5 DEF Rising
  <2>2. k # l
    BY <1>1, <2>1 DEF Strict
  <2>3. l < k => Later(R, called[l], called[k])
    BY <1>1 DEF Rising
  <2>4. ~(l < k)
    BY <1>1, <2>1, <2>3 DEF Strict
  <2> QED
    BY <1>2, <2>2, <2>4
<1> QED
  BY <1>3, <1>4, <1>5

(* Every handler that was registered when a dispatch of esp_event_loop_run *)
(* began has been called once when it ends, and they were called in their  *)
(* order, whatever the handlers registered and whichever of them           *)
(* unregistered themselves in between, when those are handlers of one      *)
(* event (SelfLevels).                                                     *)
THEOREM WalkCallsEachDueOnce ==
  ASSUME SelfLevels \subseteq {"id"} PROVE DispatchSpec => []EachDueCalledOnce
<1> DEFINE Inv == \E R : DueInv(R)
<1>1. DispatchInit => Inv
  BY DueBegins
<1>2. Inv /\ [DispatchNext]_dispatchVars => Inv'
  <2> SUFFICES ASSUME NEW R, DueInv(R), [DispatchNext]_dispatchVars PROVE \E Q : DueInv(Q)'
    OBVIOUS
  <2>1. CASE WalkStep
    <3>1. DueInv(R)'
      BY <2>1, DispatchComes, VisitLoopComes, VisitBaseComes, CallComes, ReturnComes, LeaveLoopListComes,
         LeaveBaseListComes, LeaveIdListComes, LeaveLoopComes, DoneComes DEF WalkStep
    <3> QED
      BY <3>1
  <2>2. CASE \E key \in Keys : RegisterNew(key)
    BY <2>2, RegisterComes
  <2>3. CASE \E h \in held : UnregisterHeld(h)
    <3>1. DueInv(R)'
      BY <2>3, UnregisterComes
    <3> QED
      BY <3>1
  <2>4. CASE UNCHANGED dispatchVars
    <3>1. DueInv(R)'
      BY <2>4, DueRests
    <3> QED
      BY <3>1
  <2> QED
    BY <2>1, <2>2, <2>3, <2>4 DEF DispatchNext
<1>3. Inv => EachDueCalledOnce
  BY DueIsCalled
<1> QED
  BY <1>1, <1>2, <1>3, PTL DEF DispatchSpec
=============================================================================
