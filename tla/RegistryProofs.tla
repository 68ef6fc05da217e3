--------------------------- MODULE RegistryProofs ---------------------------
(***************************************************************************)
(* What a registration and a removal leave of the registry                 *)
(* (HandlerRegistry), for any number of nodes and handlers, bases and ids. *)
(* First, for the legacy API: a removal touches no other key.  Then, for   *)
(* the instance API: the registry implements EventHandlers.                *)
(***************************************************************************)
EXTENDS MCHandlerRegistry, SequenceTheorems, WellFoundedInduction, TLAPS

(* A set of numbers that is not empty has a least element. *)
LEMMA LeastNumber ==
  ASSUME NEW S \in SUBSET Nat, S # {}
  PROVE  \E x \in S : \A y \in S : x <= y
<1>1. PICK x \in S : \A y \in S : ~(<<y, x>> \in OpToRel(<, Nat))
  BY NatLessThanWellFounded, WFMin, Zenon
<1>2. \A y \in S : ~(y < x)
  BY <1>1 DEF OpToRel
<1> QED
  BY <1>2

(* Min and Max of positions in a list are such positions. *)
LEMMA MinMaxArePositions ==
  ASSUME NEW n \in Nat, NEW S \in SUBSET (1 .. n), S # {}
  PROVE  /\ Min(S) \in S /\ \A x \in S : Min(S) <= x
         /\ Max(S) \in S /\ \A x \in S : x <= Max(S)
<1>1. \E x \in S : \A y \in S : x <= y
  BY LeastNumber
<1> DEFINE T == {n - x : x \in S}
<1>2. T \in SUBSET Nat /\ T # {}
  OBVIOUS
<1>3. PICK t \in T : \A y \in T : t <= y
  <2> HIDE DEF T
  <2> QED
    BY <1>2, LeastNumber
<1>4. PICK x \in S : t = n - x
  BY <1>3
<1>5. ASSUME NEW y \in S PROVE y <= x
  <2>1. n - y \in T
    OBVIOUS
  <2> HIDE DEF T
  <2>2. n - x <= n - y
    BY <1>3, <1>4, <2>1
  <2> QED
    BY <2>2
<1>6. \E m \in S : \A y \in S : m >= y
  BY <1>5
<1> QED
  BY <1>1, <1>6 DEF Min, Max

(* SLIST_REMOVE takes one element out and moves those behind it. *)
LEMMA RemoveAtIs ==
  ASSUME NEW S, NEW s \in Seq(S), NEW i \in 1 .. Len(s)
  PROVE  /\ RemoveAt(s, i) \in Seq(S) /\ Len(RemoveAt(s, i)) = Len(s) - 1
         /\ \A j \in 1 .. Len(s) - 1 : RemoveAt(s, i)[j] = IF j < i THEN s[j] ELSE s[j + 1]
<1> DEFINE before == SubSeq(s, 1, i - 1)
           behind == SubSeq(s, i + 1, Len(s))
           r == RemoveAt(s, i)
<1>1. /\ before \in Seq(S) /\ Len(before) = i - 1
      /\ behind \in Seq(S) /\ Len(behind) = Len(s) - i
  OBVIOUS
<1>2. /\ \A j \in 1 .. i - 1 : before[j] = s[j]
      /\ \A j \in 1 .. Len(s) - i : behind[j] = s[i + j]
  OBVIOUS
<1>3. r = before \o behind
  BY DEF RemoveAt
<1>4. Len(s) \in Nat
  BY LenProperties
<1> HIDE DEF before, behind, r
<1>5. /\ r \in Seq(S) /\ Len(r) = (i - 1) + (Len(s) - i)
      /\ \A j \in 1 .. (i - 1) + (Len(s) - i) : r[j] = IF j <= i - 1 THEN before[j] ELSE behind[j - (i - 1)]
  BY <1>1, <1>3, ConcatProperties
<1>6. Len(r) = Len(s) - 1
  BY ONLY <1>4, <1>5
<1>7. ASSUME NEW j \in 1 .. Len(s) - 1 PROVE r[j] = IF j < i THEN s[j] ELSE s[j + 1]
  <2>1. r[j] = IF j <= i - 1 THEN before[j] ELSE behind[j - (i - 1)]
    BY <1>4, <1>5
  <2>2. CASE j < i
    BY <1>2, <1>4, <2>1, <2>2
  <2>3. CASE ~(j < i)
    <3>1. j - (i - 1) \in 1 .. Len(s) - i /\ i + (j - (i - 1)) = j + 1
      BY <1>4, <2>3
    <3>2. r[j] = behind[j - (i - 1)]
      BY <1>4, <2>1, <2>3
    <3> QED
      BY <1>2, <2>3, <3>1, <3>2
  <2> QED
    BY <2>2, <2>3
<1> QED
  BY <1>5, <1>6, <1>7 DEF r

(* The walk over one level of the registry: what is left are the nodes of  *)
(* before, in their order, untouched or as the removal in them left them,  *)
(* but for at most one that the removal emptied.                           *)
WalkLeaves(r, old, after) ==
  \E from \in [1 .. Len(r) -> 1 .. Len(old)] :
    /\ \A j, k \in 1 .. Len(r) : from[j] = from[k] => j = k
    /\ \A j, k \in 1 .. Len(r) : j < k => from[j] < from[k]
    /\ \A k \in 1 .. Len(r) : r[k] = old[from[k]] \/ r[k] = after[from[k]].node
    /\ \A k \in 1 .. Len(old) :
         \/ after[k].ok /\ Empty(after[k].node)
         \/ \E j \in 1 .. Len(r) : from[j] = k

(* Walk, which every level's remove function runs, leaves that. *)
LEMMA WalkIs ==
  ASSUME NEW T, NEW list0 \in Seq(T), NEW after,
         \A k \in 1 .. Len(list0) : after[k].node \in T
  PROVE  /\ Walk(list0, after).list \in Seq(T)
         /\ WalkLeaves(Walk(list0, after).list, list0, after)
<1> DEFINE n == Len(list0)
           emptied == {k \in DOMAIN list0 : after[k].ok /\ Empty(after[k].node)}
           r == Walk(list0, after).list
<1>1. n \in Nat /\ DOMAIN list0 = 1 .. n
  BY LenProperties
<1>2. CASE emptied = {}
  <2> DEFINE all == [k \in 1 .. n |-> after[k].node]
  <2>1. r = all
    BY <1>1, <1>2 DEF Walk
  <2>2. all \in Seq(T) /\ Len(all) = n
    BY <1>1
  <2> DEFINE from == [k \in 1 .. n |-> k]
  <2>3. /\ from \in [1 .. n -> 1 .. n]
        /\ \A j, k \in 1 .. n : from[j] = from[k] => j = k
        /\ \A j, k \in 1 .. n : j < k => from[j] < from[k]
        /\ \A k \in 1 .. n : all[k] = after[from[k]].node
        /\ \A k \in 1 .. n : \E j \in 1 .. n : from[j] = k
    OBVIOUS
  <2> HIDE DEF all, from, r, n
  <2>4. /\ r \in Seq(T) /\ Len(r) = n
        /\ \A k \in 1 .. n : r[k] = after[from[k]].node
    BY <2>1, <2>2, <2>3
  <2>5. WalkLeaves(r, list0, after)
    <3>1. /\ from \in [1 .. Len(r) -> 1 .. Len(list0)]
          /\ \A j, k \in 1 .. Len(r) : from[j] = from[k] => j = k
          /\ \A j, k \in 1 .. Len(r) : j < k => from[j] < from[k]
          /\ \A k \in 1 .. Len(r) : r[k] = after[from[k]].node
          /\ \A k \in 1 .. Len(list0) : \E j \in 1 .. Len(r) : from[j] = k
      BY <2>3, <2>4 DEF n
    <3> QED
      BY <3>1 DEF WalkLeaves
  <2> QED
    BY <2>4, <2>5 DEF r
<1>3. CASE emptied # {}
  <2> DEFINE m == Min(emptied)
             some == [k \in 1 .. n |-> IF k <= m THEN after[k].node ELSE list0[k]]
  <2>1. m \in emptied /\ m \in 1 .. n
    BY <1>1, <1>3, MinMaxArePositions
  <2>2. r = RemoveAt(some, m)
    BY <1>1, <1>3 DEF Walk
  <2>3. some \in Seq(T) /\ Len(some) = n
    <3>1. \A k \in 1 .. n : some[k] \in T
      BY <1>1, ElementOfSeq
    <3> QED
      BY <1>1, <3>1
  <2>4. /\ \A k \in 1 .. n : some[k] = after[k].node \/ some[k] = list0[k]
        /\ \A k \in 1 .. n : k \in emptied => after[k].ok /\ Empty(after[k].node)
    OBVIOUS
  <2> HIDE DEF some, m, emptied, r, n
  <2>5. /\ r \in Seq(T) /\ Len(r) = n - 1
        /\ \A j \in 1 .. n - 1 : r[j] = IF j < m THEN some[j] ELSE some[j + 1]
    BY <2>1, <2>2, <2>3, RemoveAtIs
  <2> DEFINE from == [j \in 1 .. n - 1 |-> IF j < m THEN j ELSE j + 1]
  <2>6. from \in [1 .. n - 1 -> 1 .. n]
    BY <1>1, <2>1
  <2>7. \A j, k \in 1 .. n - 1 : (from[j] = from[k] => j = k) /\ (j < k => from[j] < from[k])
    BY <1>1, <2>1
  <2>8. \A k \in 1 .. n - 1 : r[k] = some[from[k]]
    BY <1>1, <2>1, <2>5
  <2>9. ASSUME NEW k \in 1 .. n PROVE k = m \/ \E j \in 1 .. n - 1 : from[j] = k
    <3>1. CASE k < m
      <4>1. k \in 1 .. n - 1 /\ from[k] = k
        BY <1>1, <2>1, <3>1
      <4> QED
        BY <4>1
    <3>2. CASE k > m
      <4>1. k - 1 \in 1 .. n - 1 /\ from[k - 1] = k
        BY <1>1, <2>1, <3>2
      <4> QED
        BY <4>1
    <3> QED
      BY <1>1, <2>1, <3>1, <3>2
  <2> HIDE DEF from
  <2>10. \A k \in 1 .. n - 1 : r[k] = list0[from[k]] \/ r[k] = after[from[k]].node
    BY <2>4, <2>6, <2>8
  <2>11. \A k \in 1 .. n : (after[k].ok /\ Empty(after[k].node)) \/ \E j \in 1 .. n - 1 : from[j] = k
    BY <2>1, <2>4, <2>9
  <2>12. /\ r \in Seq(T)
         /\ \E f \in [1 .. Len(r) -> 1 .. n] :
              /\ \A j, k \in 1 .. Len(r) : f[j] = f[k] => j = k
              /\ \A j, k \in 1 .. Len(r) : j < k => f[j] < f[k]
              /\ \A k \in 1 .. Len(r) : r[k] = list0[f[k]] \/ r[k] = after[f[k]].node
              /\ \A k \in 1 .. n : (after[k].ok /\ Empty(after[k].node)) \/ \E j \in 1 .. Len(r) : f[j] = k
    <3>1. r \in Seq(T) /\ n - 1 = Len(r)
      BY <2>5
    <3>2. from \in [1 .. Len(r) -> 1 .. n]
      BY <2>6, <3>1
    <3>3. /\ \A j, k \in 1 .. Len(r) : from[j] = from[k] => j = k
          /\ \A j, k \in 1 .. Len(r) : j < k => from[j] < from[k]
      BY <2>7, <3>1
    <3>4. \A k \in 1 .. Len(r) : r[k] = list0[from[k]] \/ r[k] = after[from[k]].node
      BY <2>10, <3>1
    <3>5. \A k \in 1 .. n : (after[k].ok /\ Empty(after[k].node)) \/ \E j \in 1 .. Len(r) : from[j] = k
      BY <2>11, <3>1
    <3> QED
      BY <3>1, <3>2, <3>3, <3>4, <3>5
  <2> QED
    BY <2>12 DEF r, n, WalkLeaves
<1> QED
  BY <1>2, <1>3

(* An id node without handlers is empty, and so on upwards. *)
LEMMA EmptyIs ==
  /\ \A n \in IdNodes : Empty(n) => n.handlers = <<>>
  /\ \A n \in BaseNodes : Empty(n) => n.handlers = <<>> /\ n.ids = <<>>
  /\ \A n \in LoopNodes : Empty(n) => n.handlers = <<>> /\ n.bases = <<>>
<1>1. ASSUME NEW n \in IdNodes, Empty(n) PROVE n.handlers = <<>>
  <2>1. "handlers" \in DOMAIN n
    BY DEF IdNodes
  <2> QED
    BY <1>1, <2>1 DEF Empty
<1>2. ASSUME NEW n \in BaseNodes, Empty(n) PROVE n.handlers = <<>> /\ n.ids = <<>>
  <2>1. "handlers" \in DOMAIN n /\ "ids" \in DOMAIN n
    BY DEF BaseNodes
  <2> QED
    BY <1>2, <2>1 DEF Empty
<1>3. ASSUME NEW n \in LoopNodes, Empty(n) PROVE n.handlers = <<>> /\ n.bases = <<>>
  <2>1. "handlers" \in DOMAIN n /\ "bases" \in DOMAIN n
    BY DEF LoopNodes
  <2> QED
    BY <1>3, <2>1 DEF Empty
<1> QED
  BY <1>1, <1>2, <1>3

(* An element is put at p, at the end of the list or in place of another.  *)
OneSet(r, s, p, x) ==
  /\ p \in DOMAIN r /\ r[p] = x /\ DOMAIN s \subseteq DOMAIN r
  /\ \A k \in DOMAIN r : k # p => k \in DOMAIN s /\ r[k] = s[k]

(* Append puts an element at a new place ... *)
LEMMA AppendSets ==
  ASSUME NEW T, NEW s \in Seq(T), NEW x \in T
  PROVE  /\ Append(s, x) \in Seq(T)
         /\ \E p : p \notin DOMAIN s /\ OneSet(Append(s, x), s, p, x)
<1> DEFINE r == Append(s, x)
<1>1. Len(s) \in Nat /\ DOMAIN s = 1 .. Len(s)
  BY LenProperties
<1>2. /\ r \in Seq(T) /\ Len(r) = Len(s) + 1
      /\ \A k \in 1 .. Len(s) : r[k] = s[k]
      /\ r[Len(s) + 1] = x
  BY AppendProperties
<1>3. DOMAIN r = 1 .. Len(s) + 1
  BY <1>2, LenProperties
<1> HIDE DEF r
<1>4. OneSet(r, s, Len(s) + 1, x) /\ Len(s) + 1 \notin DOMAIN s
  BY <1>1, <1>2, <1>3 DEF OneSet
<1> QED
  BY <1>2, <1>4 DEF r

(* ... and EXCEPT in an old one. *)
LEMMA ExceptSets ==
  ASSUME NEW T, NEW s \in Seq(T), NEW x \in T, NEW p \in DOMAIN s
  PROVE  [s EXCEPT ![p] = x] \in Seq(T) /\ OneSet([s EXCEPT ![p] = x], s, p, x)
<1>1. [s EXCEPT ![p] = x] \in Seq(T)
  BY ExceptSeq
<1> QED
  BY <1>1 DEF OneSet

-----------------------------------------------------------------------------
(* FlattenSeq joins lists one after the other.  Its recursion is followed  *)
(* here by least counterexample, over the length of the list.              *)

Flat(f, s, n) == f = [i \in 1 .. n |-> IF i = 1 THEN s[i] ELSE f[i - 1] \o s[i]]

LEMMA FlatExists == \A s : \A n \in Nat : \E f : Flat(f, s, n)
<1> SUFFICES ASSUME NEW s, \E n \in Nat : ~(\E f : Flat(f, s, n)) PROVE FALSE
  OBVIOUS
<1> DEFINE S == {n \in Nat : ~(\E f : Flat(f, s, n))}
<1>1. PICK n \in S : \A m \in S : n <= m
  BY LeastNumber
<1>2. n # 0
  <2>1. Flat([i \in 1 .. 0 |-> s], s, 0)
    BY DEF Flat
  <2> QED
    BY <2>1
<1>3. n - 1 \in Nat /\ ~(n - 1 \in S)
  BY <1>1, <1>2
<1>4. PICK f : Flat(f, s, n - 1)
  BY <1>3
<1> DEFINE last == IF n = 1 THEN s[n] ELSE f[n - 1] \o s[n]
           g == [i \in 1 .. n |-> IF i = n THEN last ELSE f[i]]
<1>5. g = [i \in 1 .. n |-> IF i = 1 THEN s[i] ELSE g[i - 1] \o s[i]]
  <2>1. ASSUME NEW i \in 1 .. n PROVE g[i] = IF i = 1 THEN s[i] ELSE g[i - 1] \o s[i]
    <3>1. CASE i = n
      <4>1. g[i] = last
        BY <3>1
      <4>2. i # 1 => g[i - 1] = f[n - 1]
        BY <1>3, <3>1
      <4> QED
        BY <3>1, <4>1, <4>2
    <3>2. CASE i # n
      <4>1. i \in 1 .. n - 1 /\ g[i] = f[i] /\ (i # 1 => g[i - 1] = f[i - 1])
        BY <1>3, <3>2
      <4>2. f[i] = IF i = 1 THEN s[i] ELSE f[i - 1] \o s[i]
        BY <1>4, <4>1 DEF Flat
      <4> QED
        BY <4>1, <4>2
    <3> QED
      BY <3>1, <3>2
  <2> HIDE DEF last
  <2>2. g = [i \in 1 .. n |-> g[i]]
    OBVIOUS
  <2> HIDE DEF g
  <2> QED
    BY <2>1, <2>2, Zenon
<1>6. Flat(g, s, n)
  <2> HIDE DEF g
  <2> QED
    BY <1>5 DEF Flat
<1> QED
  BY <1>1, <1>6

(* What FlattenSeq computes *)
LEMMA FlattenIs ==
  ASSUME NEW s, Len(s) \in Nat \ {0}
  PROVE  \E f : Flat(f, s, Len(s)) /\ FlattenSeq(s) = f[Len(s)]
<1> DEFINE f == CHOOSE f : Flat(f, s, Len(s))
<1>1. Flat(f, s, Len(s))
  BY FlatExists, Zenon
<1>2. FlattenSeq(s) = f[Len(s)]
  BY DEF FlattenSeq, Flat
<1> QED
  BY <1>1, <1>2
(* Joining lists of one type makes a list of that type.                    *)
LEMMA FlattenTyped ==
  ASSUME NEW D, NEW s, Len(s) \in Nat, DOMAIN s = 1 .. Len(s),
         Len(s) = 0 => s = <<>>, \A k \in 1 .. Len(s) : s[k] \in Seq(D)
  PROVE  FlattenSeq(s) \in Seq(D)
<1>1. CASE Len(s) = 0
  BY <1>1, EmptySeq DEF FlattenSeq
<1>2. CASE Len(s) # 0
  <2>1. PICK f : Flat(f, s, Len(s)) /\ FlattenSeq(s) = f[Len(s)]
    BY <1>2, FlattenIs
  <2>2. \A i \in 1 .. Len(s) : f[i] = IF i = 1 THEN s[i] ELSE f[i - 1] \o s[i]
    <3> DEFINE G(i) == IF i = 1 THEN s[i] ELSE f[i - 1] \o s[i]
    <3>1. f = [i \in 1 .. Len(s) |-> G(i)]
      BY <2>1 DEF Flat
    <3> HIDE DEF G
    <3>2. \A i \in 1 .. Len(s) : f[i] = G(i)
      BY <3>1
    <3> QED
      BY <3>2 DEF G
  <2> DEFINE S == {i \in 1 .. Len(s) : f[i] \notin Seq(D)}
  <2>3. S = {}
    <3> SUFFICES ASSUME S # {} PROVE FALSE
      OBVIOUS
    <3>1. PICK i \in S : \A j \in S : i <= j
      <4>1. S \in SUBSET Nat
        OBVIOUS
      <4> HIDE DEF S
      <4> QED
        BY <4>1, LeastNumber
    <3>2. i # 1 => f[i - 1] \in Seq(D)
      <4> SUFFICES ASSUME i # 1 PROVE i - 1 \in 1 .. Len(s) /\ i - 1 \notin S
        OBVIOUS
      <4>1. i - 1 \in 1 .. Len(s)
        OBVIOUS
      <4>2. ~(i <= i - 1)
        OBVIOUS
      <4> QED
        BY <3>1, <4>1, <4>2
    <3>3. s[i] \in Seq(D)
      OBVIOUS
    <3>4. i # 1 => f[i - 1] \o s[i] \in Seq(D)
      BY <3>2, <3>3, ConcatProperties
    <3>5. f[i] \in Seq(D)
      BY <2>2, <3>3, <3>4
    <3> QED
      BY <3>5
  <2> QED
    BY <1>2, <2>1, <2>3
<1> QED
  BY <1>1, <1>2

(* Joining one list more puts it at the end.                               *)
LEMMA FlattenAppend ==
  ASSUME NEW D, NEW s \in Seq(Seq(D)), NEW x \in Seq(D)
  PROVE  FlattenSeq(Append(s, x)) = FlattenSeq(s) \o x
<1> DEFINE t == Append(s, x)
           n == Len(s)
<1>1. /\ n \in Nat /\ DOMAIN s = 1 .. n
      /\ t \in Seq(Seq(D)) /\ Len(t) = n + 1 /\ t[n + 1] = x
      /\ \A i \in 1 .. n : t[i] = s[i]
  BY LenProperties, AppendProperties
<1> HIDE DEF t
<1>2. PICK g : Flat(g, t, n + 1) /\ FlattenSeq(t) = g[n + 1]
  <2>1. Len(t) \in Nat \ {0} /\ Len(t) = n + 1
    BY <1>1
  <2>2. \E g : Flat(g, t, Len(t)) /\ FlattenSeq(t) = g[Len(t)]
    BY <2>1, FlattenIs
  <2> QED
    BY <2>1, <2>2
<1>3. \A i \in 1 .. n + 1 : g[i] = IF i = 1 THEN t[i] ELSE g[i - 1] \o t[i]
  <2> DEFINE G(i) == IF i = 1 THEN t[i] ELSE g[i - 1] \o t[i]
  <2>1. g = [i \in 1 .. n + 1 |-> G(i)]
    BY <1>2 DEF Flat
  <2> HIDE DEF G
  <2>2. \A i \in 1 .. n + 1 : g[i] = G(i)
    BY <2>1
  <2> QED
    BY <2>2 DEF G
<1>4. CASE n = 0
  <2>1. FlattenSeq(t) = x
    BY <1>1, <1>2, <1>3, <1>4
  <2>2. FlattenSeq(s) = s /\ s = <<>>
    BY <1>4, EmptySeq DEF FlattenSeq
  <2> QED
    BY <2>1, <2>2, ConcatEmptySeq DEF t
<1>5. CASE n # 0
  <2>1. PICK f : Flat(f, s, n) /\ FlattenSeq(s) = f[n]
    BY <1>1, <1>5, FlattenIs
  <2>2. \A i \in 1 .. n : f[i] = IF i = 1 THEN s[i] ELSE f[i - 1] \o s[i]
    <3> DEFINE G(i) == IF i = 1 THEN s[i] ELSE f[i - 1] \o s[i]
    <3>1. f = [i \in 1 .. n |-> G(i)]
      BY <2>1 DEF Flat
    <3> HIDE DEF G
    <3>2. \A i \in 1 .. n : f[i] = G(i)
      BY <3>1
    <3> QED
      BY <3>2 DEF G
  <2> DEFINE S == {i \in 1 .. n : f[i] # g[i]}
  <2>3. S = {}
    <3> SUFFICES ASSUME S # {} PROVE FALSE
      OBVIOUS
    <3>1. PICK i \in S : \A j \in S : i <= j
      <4>1. S \in SUBSET Nat
        BY <1>1
      <4> HIDE DEF S
      <4> QED
        BY <4>1, LeastNumber
    <3>2. i \in 1 .. n /\ i \in 1 .. n + 1
      BY <1>1
    <3>3. i # 1 => f[i - 1] = g[i - 1]
      <4> SUFFICES ASSUME i # 1 PROVE i - 1 \in 1 .. n /\ i - 1 \notin S
        OBVIOUS
      <4>1. i - 1 \in 1 .. n /\ ~(i <= i - 1)
        BY <1>1, <3>2
      <4> QED
        BY <3>1, <4>1
    <3>4. f[i] = g[i]
      BY <1>1, <1>3, <2>2, <3>2, <3>3
    <3> QED
      BY <3>4
  <2>4. n \in 1 .. n /\ n + 1 \in 1 .. n + 1 /\ n + 1 # 1 /\ (n + 1) - 1 = n
    BY <1>1, <1>5
  <2>5. g[n] = f[n]
    BY <2>3, <2>4
  <2>6. g[n + 1] = g[n] \o x
    BY <1>1, <1>3, <2>4
  <2> QED
    BY <1>2, <2>1, <2>5, <2>6 DEF t
<1> QED
  BY <1>4, <1>5

(* Joining lists is associative, and an empty list adds nothing. *)
LEMMA JoinEntries ==
  ASSUME NEW D, NEW a \in Seq(D), NEW b \in Seq(D), NEW c \in Seq(D)
  PROVE  /\ a \o b \in Seq(D) /\ (a \o b) \o c = a \o (b \o c)
         /\ a \o <<>> = a /\ <<>> \o a = a
<1>1. a \o b \in Seq(D) /\ a \o <<>> = a /\ <<>> \o a = a
  BY ConcatProperties, ConcatEmptySeq
<1>2. (a \o b) \o c = a \o (b \o c)
  OBVIOUS
<1> QED
  BY <1>1, <1>2

Join(a, b) == a \o b
LEMMA JoinIs ==
  ASSUME NEW D, NEW a \in Seq(D), NEW b \in Seq(D), NEW c \in Seq(D)
  PROVE  Join(a, b) \in Seq(D) /\ Join(a, Join(b, c)) = Join(Join(a, b), c)
BY JoinEntries DEF Join

LEMMA AppendToJoined ==
  ASSUME NEW T, NEW s \in Seq(T), NEW v \in Seq(T), NEW x \in T
  PROVE  s \o Append(v, x) = Append(s \o v, x)
<1>1. PICK y \in Seq(T) : y = <<x>>
  <2>1. <<x>> \in Seq(T)
    OBVIOUS
  <2> QED
    BY <2>1, Zenon
<1>2. (s \o v) \o y = s \o (v \o y)
  BY JoinEntries
<1>3. s \o v \in Seq(T)
  BY ConcatProperties
<1>4. Append(v, x) = v \o <<x>> /\ Append(s \o v, x) = (s \o v) \o <<x>>
  BY <1>3, AppendIsConcat
<1> QED
  BY <1>1, <1>2, <1>4

(* What is joined in two parts is joined.                                  *)
LEMMA FlattenConcat ==
  ASSUME NEW D, NEW s \in Seq(Seq(D)), NEW t \in Seq(Seq(D))
  PROVE  FlattenSeq(s \o t) = FlattenSeq(s) \o FlattenSeq(t)
<1>0. \A a, b, c \in Seq(D) : (a \o b) \o c = a \o (b \o c)
  <2> TAKE a, b, c \in Seq(D)
  <2> QED
    OBVIOUS
<1>3. \A v \in Seq(Seq(D)), x \in Seq(D) : s \o Append(v, x) = Append(s \o v, x)
  <2> TAKE v \in Seq(Seq(D)), x \in Seq(D)
  <2> DEFINE L == Seq(D)
  <2>1. s \in Seq(L) /\ v \in Seq(L) /\ x \in L
    OBVIOUS
  <2> HIDE DEF L
  <2> QED
    BY ONLY <2>1, AppendToJoined
<1> DEFINE LL == Seq(Seq(D))
           Splits(u) == FlattenSeq(s \o u) = FlattenSeq(s) \o FlattenSeq(u)
           S == {n \in Nat : \E u \in LL : Len(u) = n /\ ~Splits(u)}
<1>1. \A u \in LL : FlattenSeq(u) \in Seq(D)
  <2> SUFFICES ASSUME NEW u \in LL PROVE FlattenSeq(u) \in Seq(D)
    OBVIOUS
  <2>1. Len(u) \in Nat /\ DOMAIN u = 1 .. Len(u) /\ (Len(u) = 0 => u = <<>>)
    BY LenProperties, EmptySeq
  <2>2. \A k \in 1 .. Len(u) : u[k] \in Seq(D)
    BY ElementOfSeq
  <2> QED
    BY <2>1, <2>2, FlattenTyped
<1>2. S = {}
  <2> SUFFICES ASSUME S # {} PROVE FALSE
    OBVIOUS
  <2>1. PICK n \in S : \A m \in S : n <= m
    <3>1. S \in SUBSET Nat
      OBVIOUS
    <3> HIDE DEF S
    <3> QED
      BY <3>1, LeastNumber
  <2>2. PICK u \in LL : Len(u) = n /\ ~Splits(u)
    BY <2>1
  <2>3. u # <<>>
    <3>1. FlattenSeq(<<>>) = <<>>
      BY DEF FlattenSeq
    <3>2. FlattenSeq(s) \o <<>> = FlattenSeq(s) /\ s \o <<>> = s
      BY <1>1, ConcatEmptySeq
    <3> QED
      BY <2>2, <3>1, <3>2
  <2>4. PICK v \in LL, x \in Seq(D) : u = Append(v, x)
    BY <2>3, SequenceEmptyOrAppend
  <2>5. Len(u) = Len(v) + 1 /\ Len(v) \in Nat
    BY <2>4, AppendProperties, LenProperties
  <2>6. Splits(v)
    <3>1. Len(v) \notin S
      <4>1. n \in Nat /\ n = Len(v) + 1
        BY <2>2, <2>5
      <4>2. ~(n <= Len(v))
        BY <2>5, <4>1
      <4> QED
        BY <2>1, <4>2
    <3> QED
      BY <2>5, <3>1
  <2>7. s \o u = Append(s \o v, x)
    BY <1>3, <2>4
  <2>8. FlattenSeq(s \o u) = FlattenSeq(s \o v) \o x
    <3>1. s \o v \in LL
      BY ConcatProperties
    <3> QED
      BY <2>7, <3>1, FlattenAppend
  <2>9. FlattenSeq(u) = FlattenSeq(v) \o x
    BY <2>4, FlattenAppend
  <2>10. (FlattenSeq(s) \o FlattenSeq(v)) \o x = FlattenSeq(s) \o (FlattenSeq(v) \o x)
    <3>1. FlattenSeq(s) \in Seq(D) /\ FlattenSeq(v) \in Seq(D)
      BY <1>1
    <3> DEFINE a == FlattenSeq(s)
               b == FlattenSeq(v)
    <3> HIDE DEF a, b
    <3>2. a \in Seq(D) /\ b \in Seq(D) /\ x \in Seq(D)
      BY <3>1 DEF a, b
    <3>3. (a \o b) \o x = a \o (b \o x)
      BY <1>0, <3>2, Zenon
    <3> QED
      BY <3>3 DEF a, b
  <2> QED
    BY <2>2, <2>6, <2>8, <2>9, <2>10
<1>4. Splits(t)
  <2>1. Len(t) \in Nat /\ Len(t) \notin S
    BY <1>2, LenProperties
  <2> QED
    BY <2>1
<1> QED
  BY <1>4

(* What f finds in the nodes of a list, one after the other.               *)
Image(f, s) == [k \in DOMAIN s |-> f[s[k]]]
Cat(f, s) == FlattenSeq(Image(f, s))

Maps(f, T, D) == \A x \in T : f[x] \in D

LEMMA ImageIs ==
  ASSUME NEW T, NEW D, NEW f, Maps(f, T, D), NEW s \in Seq(T)
  PROVE  /\ Image(f, s) \in Seq(D) /\ Len(Image(f, s)) = Len(s)
         /\ \A k \in 1 .. Len(s) : Image(f, s)[k] = f[s[k]]
<1>1. Len(s) \in Nat /\ DOMAIN s = 1 .. Len(s) /\ \A k \in 1 .. Len(s) : s[k] \in T
  BY LenProperties, ElementOfSeq
<1>2. Image(f, s) = [k \in 1 .. Len(s) |-> f[s[k]]]
  BY <1>1 DEF Image
<1>3. \A k \in 1 .. Len(s) : f[s[k]] \in D
  BY <1>1 DEF Maps
<1> QED
  BY <1>1, <1>2, <1>3

(* What a concatenation holds. *)
LEMMA JoinElements ==
  ASSUME NEW S, NEW a \in Seq(S), NEW b \in Seq(S)
  PROVE  /\ a \o b \in Seq(S) /\ Len(a \o b) = Len(a) + Len(b)
         /\ \A i \in 1 .. Len(a) + Len(b) : (a \o b)[i] = IF i <= Len(a) THEN a[i] ELSE b[i - Len(a)]
BY ConcatProperties

LEMMA ImageJoins ==
  ASSUME NEW T, NEW D, NEW f, Maps(f, T, D), NEW s \in Seq(T), NEW t \in Seq(T)
  PROVE  Image(f, s \o t) = Image(f, s) \o Image(f, t)
<1> DEFINE a == Image(f, s)
           b == Image(f, t)
           c == Image(f, s \o t)
<1>1. /\ s \o t \in Seq(T) /\ Len(s \o t) = Len(s) + Len(t)
      /\ \A i \in 1 .. Len(s) + Len(t) : (s \o t)[i] = IF i <= Len(s) THEN s[i] ELSE t[i - Len(s)]
  BY ConcatProperties
<1>2. Len(s) \in Nat /\ Len(t) \in Nat
  BY LenProperties
<1>3. /\ a \in Seq(D) /\ Len(a) = Len(s) /\ \A k \in 1 .. Len(s) : a[k] = f[s[k]]
      /\ b \in Seq(D) /\ Len(b) = Len(t) /\ \A k \in 1 .. Len(t) : b[k] = f[t[k]]
      /\ c \in Seq(D) /\ Len(c) = Len(s) + Len(t) /\ \A k \in 1 .. Len(s) + Len(t) : c[k] = f[(s \o t)[k]]
  <2> DEFINE u == s \o t
  <2>1. u \in Seq(T) /\ Len(u) = Len(s) + Len(t)
    BY <1>1
  <2> HIDE DEF u
  <2>2. Image(f, u) \in Seq(D) /\ Len(Image(f, u)) = Len(u) /\ \A k \in 1 .. Len(u) : Image(f, u)[k] = f[u[k]]
    BY <2>1, ImageIs
  <2>3. Image(f, s) \in Seq(D) /\ Len(Image(f, s)) = Len(s) /\ \A k \in 1 .. Len(s) : Image(f, s)[k] = f[s[k]]
    BY ImageIs
  <2>4. Image(f, t) \in Seq(D) /\ Len(Image(f, t)) = Len(t) /\ \A k \in 1 .. Len(t) : Image(f, t)[k] = f[t[k]]
    BY ImageIs
  <2> QED
    BY <2>1, <2>2, <2>3, <2>4 DEF u
<1> HIDE DEF a, b, c
<1>4. /\ a \o b \in Seq(D) /\ Len(a \o b) = Len(s) + Len(t)
      /\ \A i \in 1 .. Len(s) + Len(t) : (a \o b)[i] = IF i <= Len(s) THEN a[i] ELSE b[i - Len(s)]
  <2>1. a \in Seq(D) /\ b \in Seq(D)
    BY <1>3
  <2>2. /\ a \o b \in Seq(D) /\ Len(a \o b) = Len(a) + Len(b)
        /\ \A i \in 1 .. Len(a) + Len(b) : (a \o b)[i] = IF i <= Len(a) THEN a[i] ELSE b[i - Len(a)]
    BY <2>1, JoinElements
  <2> QED
    BY <1>3, <2>2
<1>5. ASSUME NEW i \in 1 .. Len(s) + Len(t) PROVE c[i] = (a \o b)[i]
  <2>1. CASE i <= Len(s)
    BY <1>1, <1>2, <1>3, <1>4, <2>1
  <2>2. CASE ~(i <= Len(s))
    <3>1. i - Len(s) \in 1 .. Len(t)
      BY <1>2, <2>2
    <3>2. c[i] = f[t[i - Len(s)]]
      <4>1. (s \o t)[i] = t[i - Len(s)]
        BY <1>1, <2>2
      <4> QED
        BY <1>3, <4>1
    <3>3. (a \o b)[i] = b[i - Len(s)]
      BY <1>4, <2>2
    <3>4. b[i - Len(s)] = f[t[i - Len(s)]]
      BY <1>3, <3>1
    <3> QED
      BY <3>2, <3>3, <3>4
  <2> QED
    BY <2>1, <2>2
<1>6. c = a \o b
  BY <1>3, <1>4, <1>5, SeqEqual
<1> QED
  BY <1>6 DEF a, b, c

LEMMA CatTyped ==
  ASSUME NEW T, NEW D, NEW f, NEW s \in Seq(T), \A k \in 1 .. Len(s) : f[s[k]] \in Seq(D)
  PROVE  Cat(f, s) \in Seq(D)
<1> DEFINE a == Image(f, s)
<1>1. Len(s) \in Nat /\ DOMAIN s = 1 .. Len(s)
  BY LenProperties
<1>2. a = [k \in 1 .. Len(s) |-> f[s[k]]]
  BY <1>1 DEF Image
<1> HIDE DEF a
<1>3. /\ a \in Seq(Seq(D)) /\ Len(a) = Len(s) /\ \A k \in 1 .. Len(s) : a[k] \in Seq(D)
  BY <1>1, <1>2
<1>4. Len(a) = 0 => a = <<>>
  BY <1>3, EmptySeq
<1>5. DOMAIN a = 1 .. Len(a)
  BY <1>3, LenProperties
<1>6. FlattenSeq(a) \in Seq(D)
  BY <1>1, <1>3, <1>4, <1>5, FlattenTyped
<1> QED
  BY <1>6 DEF a, Cat

LEMMA CatJoins ==
  ASSUME NEW T, NEW D, NEW f, Maps(f, T, Seq(D)), NEW s \in Seq(T), NEW t \in Seq(T)
  PROVE  Cat(f, s \o t) = Cat(f, s) \o Cat(f, t)
<1>1. Image(f, s \o t) = Image(f, s) \o Image(f, t)
  BY ImageJoins
<1>2. Image(f, s) \in Seq(Seq(D)) /\ Image(f, t) \in Seq(Seq(D))
  BY ImageIs
<1> QED
  BY <1>1, <1>2, FlattenConcat DEF Cat

LEMMA CatOne ==
  ASSUME NEW f, NEW x
  PROVE  Cat(f, <<>>) = <<>> /\ Cat(f, <<x>>) = f[x]
<1>1. Image(f, <<>>) = <<>> /\ FlattenSeq(<<>>) = <<>>
  BY DEF Image, FlattenSeq
<1>2. Image(f, <<x>>) = <<f[x]>>
  BY DEF Image
<1> DEFINE y == <<f[x]>>
<1>3. Len(y) = 1 /\ Len(y) \in Nat \ {0} /\ y[1] = f[x]
  OBVIOUS
<1> HIDE DEF y
<1>4. PICK g : Flat(g, y, 1) /\ FlattenSeq(y) = g[1]
  BY <1>3, FlattenIs
<1>5. g[1] = y[1]
  <2> DEFINE G(i) == IF i = 1 THEN y[i] ELSE g[i - 1] \o y[i]
  <2>1. g = [i \in 1 .. 1 |-> G(i)]
    BY <1>4 DEF Flat
  <2> HIDE DEF G
  <2>2. g[1] = G(1)
    BY <2>1
  <2> QED
    BY <2>2 DEF G
<1> QED
  BY <1>1, <1>2, <1>3, <1>4, <1>5 DEF Cat, y

(* The lists around a place *)
Split(s, p, T, a, b) ==
  /\ a \in Seq(T) /\ Len(a) = p - 1 /\ b \in Seq(T) /\ Len(b) = Len(s) - p
  /\ \A k \in 1 .. p - 1 : a[k] = s[k]
  /\ \A k \in 1 .. Len(s) - p : b[k] = s[p + k]
  /\ \A x \in T : [s EXCEPT ![p] = x] = (a \o <<x>>) \o b

LEMMA SplitAt ==
  ASSUME NEW T, NEW s \in Seq(T), NEW p \in DOMAIN s
  PROVE  Split(s, p, T, SubSeq(s, 1, p - 1), SubSeq(s, p + 1, Len(s)))
<1> DEFINE a == SubSeq(s, 1, p - 1)
           b == SubSeq(s, p + 1, Len(s))
           n == Len(s)
<1>1. n \in Nat /\ DOMAIN s = 1 .. n /\ p \in 1 .. n
  BY LenProperties
<1>2. /\ a \in Seq(T) /\ Len(a) = p - 1
      /\ b \in Seq(T) /\ Len(b) = n - p
  BY <1>1
<1>3. /\ \A k \in 1 .. p - 1 : a[k] = s[k]
      /\ \A k \in 1 .. n - p : b[k] = s[p + k]
  BY <1>1
<1> HIDE DEF a, b, n
<1>4. ASSUME NEW x \in T PROVE [s EXCEPT ![p] = x] = (a \o <<x>>) \o b
  <2> DEFINE y == <<x>>
             r == [s EXCEPT ![p] = x]
  <2>4. y \in Seq(T) /\ Len(y) = 1 /\ y[1] = x
    OBVIOUS
  <2>5. r \in Seq(T) /\ Len(r) = n /\ \A k \in 1 .. n : r[k] = IF k = p THEN x ELSE s[k]
    BY <1>1, ExceptSeq DEF n
  <2> HIDE DEF y, r
  <2>6. /\ a \o y \in Seq(T) /\ Len(a \o y) = (p - 1) + 1
        /\ \A k \in 1 .. (p - 1) + 1 : (a \o y)[k] = IF k <= p - 1 THEN a[k] ELSE y[k - (p - 1)]
    <3>1. /\ a \o y \in Seq(T) /\ Len(a \o y) = Len(a) + Len(y)
          /\ \A k \in 1 .. Len(a) + Len(y) : (a \o y)[k] = IF k <= Len(a) THEN a[k] ELSE y[k - Len(a)]
      BY <1>2, <2>4, ConcatProperties
    <3> QED
      BY <1>2, <2>4, <3>1
  <2> DEFINE c == a \o y
  <2>7. /\ c \in Seq(T) /\ Len(c) = p
        /\ \A k \in 1 .. p : c[k] = IF k = p THEN x ELSE s[k]
    <3>1. (p - 1) + 1 = p /\ p - (p - 1) = 1
      BY <1>1
    <3>2. ASSUME NEW k \in 1 .. p PROVE c[k] = IF k = p THEN x ELSE s[k]
      <4>1. c[k] = IF k <= p - 1 THEN a[k] ELSE y[k - (p - 1)]
        BY <2>6, <3>1
      <4>2. CASE k = p
        <5>1. c[k] = y[p - (p - 1)]
          BY <1>1, <4>1, <4>2
        <5> QED
          BY <2>4, <3>1, <4>2, <5>1
      <4>3. CASE k # p
        <5>1. k \in 1 .. p - 1
          BY <1>1, <4>3
        <5> QED
          BY <1>3, <4>1, <4>3, <5>1
      <4> QED
        BY <4>2, <4>3
    <3> QED
      BY <2>6, <3>1, <3>2
  <2> HIDE DEF c
  <2>8. /\ c \o b \in Seq(T) /\ Len(c \o b) = p + (n - p)
        /\ \A k \in 1 .. p + (n - p) : (c \o b)[k] = IF k <= p THEN c[k] ELSE b[k - p]
    <3>1. /\ c \o b \in Seq(T) /\ Len(c \o b) = Len(c) + Len(b)
          /\ \A k \in 1 .. Len(c) + Len(b) : (c \o b)[k] = IF k <= Len(c) THEN c[k] ELSE b[k - Len(c)]
      BY <1>2, <2>7, ConcatProperties
    <3> QED
      BY <1>2, <2>7, <3>1
  <2>9. ASSUME NEW k \in 1 .. n PROVE r[k] = (c \o b)[k]
    <3>1. (c \o b)[k] = IF k <= p THEN c[k] ELSE b[k - p]
      BY <1>1, <2>8
    <3>2. r[k] = IF k = p THEN x ELSE s[k]
      BY <2>5
    <3>3. CASE k <= p
      <4>1. k \in 1 .. p
        BY <1>1, <3>3
      <4> QED
        BY <2>7, <3>1, <3>2, <3>3, <4>1
    <3>4. CASE ~(k <= p)
      <4>1. k - p \in 1 .. n - p /\ p + (k - p) = k /\ k # p
        BY <1>1, <3>4
      <4>2. b[k - p] = s[k]
        BY <1>3, <4>1
      <4> QED
        BY <3>1, <3>2, <3>4, <4>1, <4>2
    <3> QED
      BY <3>3, <3>4
  <2>10. r = c \o b
    <3>1. Len(c \o b) = n
      BY <1>1, <2>8
    <3> QED
      BY <2>5, <2>8, <2>9, <3>1, SeqEqual
  <2> QED
    BY <2>10 DEF c, r, y
<1> QED
  BY <1>2, <1>3, <1>4 DEF Split, a, b, n

(* What changes when one node of a list changes or goes: what its          *)
(* neighbours hold stays around it.                                        *)
Around(f, s, p, T, D, A, B) ==
  /\ A \in Seq(D) /\ B \in Seq(D)
  /\ Cat(f, s) = (A \o f[s[p]]) \o B
  /\ \A x \in T : Cat(f, [s EXCEPT ![p] = x]) = (A \o f[x]) \o B
  /\ Cat(f, RemoveAt(s, p)) = A \o B
  /\ \A X : (\A k \in 1 .. p - 1 : f[s[k]] \in Seq(X)) => A \in Seq(X)
  /\ \A X : (\A k \in p + 1 .. Len(s) : f[s[k]] \in Seq(X)) => B \in Seq(X)

LEMMA CatAt ==
  ASSUME NEW T, NEW D, NEW f, Maps(f, T, Seq(D)), NEW s \in Seq(T), NEW p \in DOMAIN s
  PROVE  \E A, B : Around(f, s, p, T, D, A, B)
<1> DEFINE a == SubSeq(s, 1, p - 1)
           b == SubSeq(s, p + 1, Len(s))
           n == Len(s)
<1>1. n \in Nat /\ DOMAIN s = 1 .. n /\ p \in 1 .. n /\ s[p] \in T
  BY LenProperties, ElementOfSeq
<1>2. RemoveAt(s, p) = a \o b
  BY DEF RemoveAt
<1>3. /\ a \in Seq(T) /\ Len(a) = p - 1 /\ b \in Seq(T) /\ Len(b) = n - p
      /\ \A k \in 1 .. p - 1 : a[k] = s[k]
      /\ \A k \in 1 .. n - p : b[k] = s[p + k]
      /\ \A x \in T : [s EXCEPT ![p] = x] = (a \o <<x>>) \o b
  <2>1. Split(s, p, T, SubSeq(s, 1, p - 1), SubSeq(s, p + 1, Len(s)))
    BY SplitAt
  <2> HIDE DEF a, b, n
  <2>2. Split(s, p, T, a, b)
    BY <2>1 DEF a, b, n
  <2> QED
    BY <2>2 DEF Split, n
<1>4. s = [s EXCEPT ![p] = s[p]]
  BY <1>1
<1> HIDE DEF a, b, n
<1> DEFINE A == Cat(f, a)
           B == Cat(f, b)
<1>5. ASSUME NEW X, \A k \in 1 .. p - 1 : f[s[k]] \in Seq(X) PROVE A \in Seq(X)
  <2>1. \A k \in 1 .. Len(a) : f[a[k]] \in Seq(X)
    BY <1>3, <1>5
  <2> QED
    BY <1>3, <2>1, CatTyped
<1>6. ASSUME NEW X, \A k \in p + 1 .. n : f[s[k]] \in Seq(X) PROVE B \in Seq(X)
  <2>1. ASSUME NEW k \in 1 .. Len(b) PROVE f[b[k]] \in Seq(X)
    <3>1. p + k \in p + 1 .. n /\ b[k] = s[p + k]
      BY <1>1, <1>3
    <3> QED
      BY <1>6, <3>1
  <2> QED
    BY <1>3, <2>1, CatTyped
<1>7. A \in Seq(D) /\ B \in Seq(D)
  <2>1. \A k \in 1 .. n : f[s[k]] \in Seq(D)
    BY <1>1, ElementOfSeq DEF n, Maps
  <2>2. \A k \in 1 .. p - 1 : f[s[k]] \in Seq(D)
    BY <1>1, <2>1
  <2>3. \A k \in p + 1 .. n : f[s[k]] \in Seq(D)
    BY <1>1, <2>1
  <2> QED
    BY <1>5, <1>6, <2>2, <2>3
<1>0. \A u, v \in Seq(T) : Cat(f, u \o v) = Cat(f, u) \o Cat(f, v)
  BY CatJoins
<1>8. Cat(f, a \o b) = A \o B
  BY <1>0, <1>3
<1>9. ASSUME NEW x \in T PROVE Cat(f, [s EXCEPT ![p] = x]) = (A \o f[x]) \o B
  <2> DEFINE y == <<x>>
  <2>1. y \in Seq(T) /\ Cat(f, y) = f[x]
    BY CatOne
  <2> HIDE DEF y
  <2>2. a \o y \in Seq(T)
    BY <1>3, <2>1
  <2>3. Cat(f, a \o y) = A \o f[x]
    <3>1. Cat(f, a \o y) = Cat(f, a) \o Cat(f, y)
      BY <1>0, <1>3, <2>1, Zenon
    <3> QED
      BY <2>1, <3>1
  <2>4. Cat(f, (a \o y) \o b) = Cat(f, a \o y) \o B
    BY <1>0, <1>3, <2>2
  <2> QED
    BY <1>3, <2>3, <2>4 DEF y
<1> HIDE DEF A, B
<1>10. Cat(f, s) = (A \o f[s[p]]) \o B
  BY <1>1, <1>4, <1>9
<1>11. Around(f, s, p, T, D, A, B)
  BY <1>2, <1>5, <1>6, <1>7, <1>8, <1>9, <1>10 DEF Around, n
<1> QED
  BY <1>11

-----------------------------------------------------------------------------
(* What is registered at a key, as a function of the nodes of each level   *)

Total(f, s) == UNION {f[s[k]] : k \in DOMAIN s}

IdHolds(id) == [n \in IdNodes |-> IF n.id = id THEN Range(n.handlers) ELSE {}]
BaseHolds(id) ==
  [n \in BaseNodes |-> IF id = ANY THEN Range(n.handlers) ELSE Total(IdHolds(id), n.ids)]
InBaseHolds(key) ==
  [n \in BaseNodes |-> IF n.base = key[1] THEN BaseHolds(key[2])[n] ELSE {}]
LoopHolds(key) ==
  [n \in LoopNodes |-> IF key[1] = ANY THEN Range(n.handlers) ELSE Total(InBaseHolds(key), n.bases)]

(* RegisteredAt is what the loop nodes hold at the key. *)
LEMMA RegisteredAtIs ==
  ASSUME loop_nodes \in Seq(LoopNodes), NEW key
  PROVE  RegisteredAt(key) = Total(LoopHolds(key), loop_nodes)
<1> DEFINE OfIds(n)  == {n.ids[k] : k \in DOMAIN n.ids}
           OfBase(n) == IF key[2] = ANY THEN Range(n.handlers)
                        ELSE UNION {Range(i.handlers) : i \in {j \in OfIds(n) : j.id = key[2]}}
           OfLoop(n) == IF key[1] = ANY THEN Range(n.handlers)
                        ELSE UNION {OfBase(b) : b \in {c \in Range(n.bases) : c.base = key[1]}}
<1>1. ASSUME NEW n \in BaseNodes PROVE OfBase(n) = BaseHolds(key[2])[n]
  <2>1. n.ids \in Seq(IdNodes)
    BY DEF BaseNodes
  <2>2. \A k \in DOMAIN n.ids : n.ids[k] \in IdNodes
    BY <2>1, ElementOfSeq, LenProperties
  <2>3. \A k \in DOMAIN n.ids : IdHolds(key[2])[n.ids[k]] =
          IF n.ids[k].id = key[2] THEN Range(n.ids[k].handlers) ELSE {}
    BY <2>2 DEF IdHolds
  <2>4. UNION {Range(i.handlers) : i \in {j \in OfIds(n) : j.id = key[2]}} = Total(IdHolds(key[2]), n.ids)
    BY <2>3 DEF Total
  <2> QED
    BY <2>4 DEF BaseHolds
<1>2. ASSUME NEW n \in LoopNodes PROVE OfLoop(n) = LoopHolds(key)[n]
  <2>1. n.bases \in Seq(BaseNodes)
    BY DEF LoopNodes
  <2>2. \A k \in DOMAIN n.bases : n.bases[k] \in BaseNodes
    BY <2>1, ElementOfSeq, LenProperties
  <2> HIDE DEF OfBase
  <2>3. \A k \in DOMAIN n.bases : InBaseHolds(key)[n.bases[k]] =
          IF n.bases[k].base = key[1] THEN OfBase(n.bases[k]) ELSE {}
    BY <1>1, <2>2 DEF InBaseHolds
  <2>4. UNION {OfBase(b) : b \in {c \in Range(n.bases) : c.base = key[1]}} = Total(InBaseHolds(key), n.bases)
    BY <2>3 DEF Total, Range
  <2> QED
    BY <2>4 DEF LoopHolds
<1>3. \A k \in DOMAIN loop_nodes : loop_nodes[k] \in LoopNodes
  BY ElementOfSeq, LenProperties
<1>4. RegisteredAt(key) = UNION {OfLoop(n) : n \in Range(loop_nodes)}
  BY DEF RegisteredAt
<1> HIDE DEF OfLoop
<1>5. \A k \in DOMAIN loop_nodes : OfLoop(loop_nodes[k]) = LoopHolds(key)[loop_nodes[k]]
  BY <1>2, <1>3
<1> QED
  BY <1>4, <1>5 DEF Total, Range

-----------------------------------------------------------------------------
(* Removal *)

(* A walk that leaves in each node what f finds there leaves what f finds  *)
(* in the list: the node that is taken off holds nothing.                  *)
LEMMA WalkKeeps ==
  ASSUME NEW T, NEW old \in Seq(T), NEW after, NEW f,
         \A k \in DOMAIN old : after[k].node \in T /\ f[after[k].node] = f[old[k]],
         \A n \in T : Empty(n) => f[n] = {}
  PROVE  Walk(old, after).list \in Seq(T) /\ Total(f, Walk(old, after).list) = Total(f, old)
<1> DEFINE r == Walk(old, after).list
<1>1. DOMAIN old = 1 .. Len(old)
  BY LenProperties
<1> HIDE DEF r
<1>2. r \in Seq(T) /\ WalkLeaves(r, old, after)
  BY <1>1, WalkIs DEF r
<1>3. DOMAIN r = 1 .. Len(r)
  BY <1>2, LenProperties
<1>4. PICK from \in [1 .. Len(r) -> 1 .. Len(old)] :
        /\ \A k \in 1 .. Len(r) : r[k] = old[from[k]] \/ r[k] = after[from[k]].node
        /\ \A k \in 1 .. Len(old) :
             \/ after[k].ok /\ Empty(after[k].node)
             \/ \E j \in 1 .. Len(r) : from[j] = k
  BY <1>2 DEF WalkLeaves
<1>5. \A k \in 1 .. Len(r) : from[k] \in 1 .. Len(old) /\ f[r[k]] = f[old[from[k]]]
  BY <1>1, <1>4
<1>6. \A k \in 1 .. Len(old) : f[old[k]] = {} \/ \E j \in 1 .. Len(r) : from[j] = k
  BY <1>1, <1>4
<1>7. \A k \in 1 .. Len(old) : f[old[k]] = {} \/ \E j \in 1 .. Len(r) : f[r[j]] = f[old[k]]
  BY <1>5, <1>6
<1>8. Total(f, r) \subseteq Total(f, old)
  BY <1>1, <1>3, <1>5 DEF Total
<1>9. Total(f, old) \subseteq Total(f, r)
  <2> SUFFICES ASSUME NEW k \in 1 .. Len(old), NEW x \in f[old[k]] PROVE x \in Total(f, r)
    BY <1>1 DEF Total
  <2>1. PICK j \in 1 .. Len(r) : f[r[j]] = f[old[k]]
    BY <1>7
  <2> QED
    BY <1>3, <2>1 DEF Total
<1> QED
  BY <1>2, <1>8, <1>9 DEF r

(* handler_instances_remove changes the handlers of a node only. *)
LEMMA HandlersRemoveIs ==
  ASSUME NEW node, node.handlers \in Seq(Entries), NEW match
  PROVE  \E l \in Seq(Entries) : \/ HandlersRemove(node, match).node = node /\ l = node.handlers
                               \/ HandlersRemove(node, match).node = [node EXCEPT !.handlers = l]
<1> DEFINE l == node.handlers
           found == Positions(l, LAMBDA e : e \in match)
           r == HandlersRemove(node, match)
<1>1. r.node = IF found = {} THEN node ELSE [node EXCEPT !.handlers = RemoveAt(l, Min(found))]
  BY DEF HandlersRemove
<1>2. DOMAIN l = 1 .. Len(l) /\ found \subseteq DOMAIN l /\ Len(l) \in Nat
  BY LenProperties DEF Positions
<1>3. CASE found = {}
  BY <1>1, <1>3
<1>4. CASE found # {}
  <2>1. Min(found) \in 1 .. Len(l)
    BY <1>2, <1>4, MinMaxArePositions
  <2>2. RemoveAt(l, Min(found)) \in Seq(Entries)
    BY <2>1, RemoveAtIs
  <2> QED
    BY <1>1, <1>4, <2>2
<1> QED
  BY <1>3, <1>4

(* A removal from the id nodes of a base leaves the nodes of another id.   *)
LEMMA IdsRemoveKeeps ==
  ASSUME NEW node \in BaseNodes, NEW id, NEW match
  PROVE  /\ IdsRemove(node, id, match).node \in BaseNodes
         /\ IdsRemove(node, id, match).node.base = node.base
         /\ IdsRemove(node, id, match).node.handlers = node.handlers
         /\ \A other : other # id =>
              Total(IdHolds(other), IdsRemove(node, id, match).node.ids) = Total(IdHolds(other), node.ids)
<1> DEFINE old == node.ids
           after == [k \in DOMAIN old |-> IdRemove(old[k], id, match)]
           ids == Walk(old, after).list
           r == IdsRemove(node, id, match)
<1>1. r.node = [node EXCEPT !.ids = ids]
  BY DEF IdsRemove
<1>2. old \in Seq(IdNodes) /\ DOMAIN old = 1 .. Len(old)
  BY LenProperties DEF BaseNodes
<1>3. ASSUME NEW k \in DOMAIN old
      PROVE  /\ after[k].node \in IdNodes /\ after[k].node.id = old[k].id
             /\ old[k] \in IdNodes /\ (old[k].id # id => after[k].node = old[k])
  <2>1. old[k] \in IdNodes
    BY <1>2, ElementOfSeq
  <2> DEFINE n == old[k]
  <2> HIDE DEF n
  <2>2. n \in IdNodes /\ n.handlers \in Seq(Entries)
    BY <2>1 DEF n, IdNodes
  <2>3. after[k] = IdRemove(n, id, match)
    BY DEF n
  <2> HIDE DEF after
  <2>4. CASE n.id = id
    <3>1. after[k].node = HandlersRemove(n, match).node
      BY <2>3, <2>4 DEF IdRemove
    <3>2. PICK m : m = HandlersRemove(n, match).node
      OBVIOUS
    <3>3. \E l \in Seq(Entries) : m = n \/ m = [n EXCEPT !.handlers = l]
      BY <2>2, <3>2, HandlersRemoveIs
    <3>4. m \in IdNodes /\ m.id = n.id
      BY <2>2, <3>3 DEF IdNodes
    <3> QED
      BY <2>1, <2>4, <3>1, <3>2, <3>4 DEF n
  <2>5. CASE n.id # id
    BY <2>1, <2>3, <2>5 DEF n, IdRemove
  <2> QED
    BY <2>4, <2>5
<1> HIDE DEF after, ids, old
<1>4. ASSUME NEW other, other # id
      PROVE  Total(IdHolds(other), ids) = Total(IdHolds(other), old)
  <2>1. \A k \in DOMAIN old : IdHolds(other)[after[k].node] = IdHolds(other)[old[k]]
    BY <1>3, <1>4 DEF IdHolds
  <2>2. \A n \in IdNodes : Empty(n) => IdHolds(other)[n] = {}
    BY EmptyIs DEF IdHolds, Range
  <2> DEFINE f == IdHolds(other)
  <2> HIDE DEF f
  <2>3. \A k \in DOMAIN old : after[k].node \in IdNodes /\ f[after[k].node] = f[old[k]]
    BY <1>3, <2>1 DEF f
  <2>4. \A n \in IdNodes : Empty(n) => f[n] = {}
    BY <2>2 DEF f
  <2>5. Total(f, ids) = Total(f, old)
    BY <1>2, <2>3, <2>4, WalkKeeps DEF ids
  <2> QED
    BY <2>5 DEF f
<1>5. \A k \in 1 .. Len(old) : after[k].node \in IdNodes
  BY <1>2, <1>3
<1>6. ids \in Seq(IdNodes)
  BY <1>2, <1>5, WalkIs DEF ids
<1>7. /\ r.node \in BaseNodes /\ r.node.base = node.base
      /\ r.node.handlers = node.handlers /\ r.node.ids = ids
  BY <1>1, <1>6 DEF BaseNodes
<1> QED
  BY <1>4, <1>7 DEF old

(* A removal in a base node, for the base or one of its ids, leaves what   *)
(* is registered for anything else.                                        *)
LEMMA BaseRemoveKeeps ==
  ASSUME NEW node \in BaseNodes, NEW id, NEW match
  PROVE  /\ BaseRemove(node, id, match).node \in BaseNodes
         /\ BaseRemove(node, id, match).node.base = node.base
         /\ \A other : other # id =>
              BaseHolds(other)[BaseRemove(node, id, match).node] = BaseHolds(other)[node]
<1> DEFINE n == BaseRemove(node, id, match).node
<1>1. node.handlers \in Seq(Entries)
  BY DEF BaseNodes
<1>2. CASE id = ANY
  <2>1. n = HandlersRemove(node, match).node
    BY <1>2 DEF BaseRemove
  <2> HIDE DEF n
  <2>2. PICK l \in Seq(Entries) : n = node \/ n = [node EXCEPT !.handlers = l]
    BY <1>1, <2>1, HandlersRemoveIs
  <2>3. n \in BaseNodes /\ n.base = node.base /\ n.ids = node.ids
    BY <2>2 DEF BaseNodes
  <2>4. \A other : other # id => BaseHolds(other)[n] = BaseHolds(other)[node]
    BY <1>2, <2>3 DEF BaseHolds
  <2> QED
    BY <2>3, <2>4 DEF n
<1>3. CASE id # ANY
  <2>1. n = IdsRemove(node, id, match).node
    BY <1>3 DEF BaseRemove
  <2> HIDE DEF n
  <2>2. /\ n \in BaseNodes /\ n.base = node.base /\ n.handlers = node.handlers
        /\ \A other : other # id => Total(IdHolds(other), n.ids) = Total(IdHolds(other), node.ids)
    BY <2>1, IdsRemoveKeeps
  <2>3. \A other : other # id => BaseHolds(other)[n] = BaseHolds(other)[node]
    BY <2>2 DEF BaseHolds
  <2> QED
    BY <2>2, <2>3 DEF n
<1> QED
  BY <1>2, <1>3

(* An empty base node or loop node holds nothing. *)
LEMMA EmptyHoldsNothing ==
  ASSUME NEW key
  PROVE  /\ \A n \in BaseNodes : Empty(n) => InBaseHolds(key)[n] = {}
         /\ \A n \in LoopNodes : Empty(n) => LoopHolds(key)[n] = {}
<1>1. \A f : Total(f, <<>>) = {} /\ Range(<<>>) = {}
  BY DEF Total, Range
<1>2. ASSUME NEW n \in BaseNodes, Empty(n) PROVE InBaseHolds(key)[n] = {}
  <2>1. n.handlers = <<>> /\ n.ids = <<>>
    BY <1>2, EmptyIs
  <2> QED
    BY <1>1, <2>1 DEF InBaseHolds, BaseHolds
<1>3. ASSUME NEW n \in LoopNodes, Empty(n) PROVE LoopHolds(key)[n] = {}
  <2>1. n.handlers = <<>> /\ n.bases = <<>>
    BY <1>3, EmptyIs
  <2> QED
    BY <1>1, <2>1 DEF LoopHolds
<1> QED
  BY <1>2, <1>3

(* A removal from the base nodes of a loop node leaves other keys.         *)
LEMMA BasesRemoveKeeps ==
  ASSUME NEW node \in LoopNodes, NEW key \in Keys, NEW match
  PROVE  /\ BasesRemove(node, key, match).node \in LoopNodes
         /\ BasesRemove(node, key, match).node.handlers = node.handlers
         /\ \A other \in Keys : other # key =>
              Total(InBaseHolds(other), BasesRemove(node, key, match).node.bases)
                = Total(InBaseHolds(other), node.bases)
<1> DEFINE old == node.bases
           after == [k \in DOMAIN old |->
                       IF old[k].base = key[1] THEN BaseRemove(old[k], key[2], match)
                       ELSE [ok |-> FALSE, node |-> old[k]]]
           bases == Walk(old, after).list
           r == BasesRemove(node, key, match)
<1>1. r.node = [node EXCEPT !.bases = bases]
  BY DEF BasesRemove
<1>2. old \in Seq(BaseNodes) /\ DOMAIN old = 1 .. Len(old)
  BY LenProperties DEF LoopNodes
<1>3. \A a, b \in Keys : a[1] = b[1] /\ a[2] = b[2] => a = b
  BY DEF Keys, Events
<1>4. \A k \in DOMAIN old : old[k] \in BaseNodes
  BY <1>2, ElementOfSeq
<1> HIDE DEF old
<1>5. ASSUME NEW k \in DOMAIN old
      PROVE  /\ after[k].node \in BaseNodes
             /\ \A other \in Keys : other # key =>
                  InBaseHolds(other)[after[k].node] = InBaseHolds(other)[old[k]]
  <2> DEFINE n == after[k].node
  <2>1. CASE old[k].base = key[1]
    <3>1. n = BaseRemove(old[k], key[2], match).node
      BY <2>1
    <3> HIDE DEF n
    <3>2. /\ n \in BaseNodes /\ n.base = key[1]
          /\ \A id : id # key[2] => BaseHolds(id)[n] = BaseHolds(id)[old[k]]
      BY <1>4, <2>1, <3>1, BaseRemoveKeeps
    <3>3. ASSUME NEW other \in Keys, other # key
          PROVE  InBaseHolds(other)[n] = InBaseHolds(other)[old[k]]
      <4>1. CASE other[1] = key[1]
        <5>1. other[2] # key[2]
          BY <1>3, <3>3, <4>1
        <5> QED
          BY <1>4, <2>1, <3>2, <5>1 DEF InBaseHolds
      <4>2. CASE other[1] # key[1]
        BY <1>4, <2>1, <3>2, <4>2 DEF InBaseHolds
      <4> QED
        BY <4>1, <4>2
    <3> QED
      BY <3>2, <3>3 DEF n
  <2>2. CASE old[k].base # key[1]
    <3>1. n = old[k]
      BY <2>2
    <3> QED
      BY <1>4, <3>1
  <2> QED
    BY <2>1, <2>2
<1> HIDE DEF after, bases
<1>6. ASSUME NEW other \in Keys, other # key
      PROVE  Total(InBaseHolds(other), bases) = Total(InBaseHolds(other), old)
  <2> DEFINE f == InBaseHolds(other)
  <2> HIDE DEF f
  <2>1. \A k \in DOMAIN old : after[k].node \in BaseNodes /\ f[after[k].node] = f[old[k]]
    BY <1>5, <1>6 DEF f
  <2>2. \A n \in BaseNodes : Empty(n) => f[n] = {}
    BY EmptyHoldsNothing DEF f
  <2>3. Total(f, Walk(old, after).list) = Total(f, old)
    <3> DEFINE T == BaseNodes
    <3>1. /\ old \in Seq(T)
          /\ \A k \in DOMAIN old : after[k].node \in T /\ f[after[k].node] = f[old[k]]
          /\ \A n \in T : Empty(n) => f[n] = {}
      BY <1>2, <2>1, <2>2
    <3> HIDE DEF T
    <3> QED
      BY <3>1, WalkKeeps
  <2> QED
    BY <2>3 DEF f, bases
<1>7. bases \in Seq(BaseNodes)
  <2>1. \A k \in 1 .. Len(old) : after[k].node \in BaseNodes
    BY <1>2, <1>5
  <2> QED
    BY <1>2, <2>1, WalkIs DEF bases
<1>8. r.node \in LoopNodes /\ r.node.handlers = node.handlers /\ r.node.bases = bases
  BY <1>1, <1>7 DEF LoopNodes
<1> QED
  BY <1>6, <1>8 DEF old

(* A removal in a loop node leaves what is registered there at other keys. *)
LEMMA LoopRemoveKeeps ==
  ASSUME NEW node \in LoopNodes, NEW key \in Keys, NEW match
  PROVE  /\ LoopRemove(node, key, match).node \in LoopNodes
         /\ \A other \in Keys : other # key =>
              LoopHolds(other)[LoopRemove(node, key, match).node] = LoopHolds(other)[node]
<1> DEFINE n == LoopRemove(node, key, match).node
<1>1. CASE key[1] = ANY
  <2>1. n = HandlersRemove(node, match).node
    BY <1>1 DEF LoopRemove
  <2>2. node.handlers \in Seq(Entries)
    BY DEF LoopNodes
  <2> HIDE DEF n
  <2>3. PICK l \in Seq(Entries) : n = node \/ n = [node EXCEPT !.handlers = l]
    BY <2>1, <2>2, HandlersRemoveIs
  <2>4. n \in LoopNodes /\ n.bases = node.bases
    BY <2>3 DEF LoopNodes
  <2>5. \A other \in Keys : other # key => other[1] # ANY
    BY <1>1, AnyAssumption DEF Keys, Events
  <2> QED
    BY <2>4, <2>5 DEF n, LoopHolds
<1>2. CASE key[1] # ANY
  <2>1. n = BasesRemove(node, key, match).node
    BY <1>2 DEF LoopRemove
  <2> HIDE DEF n
  <2>2. /\ n \in LoopNodes /\ n.handlers = node.handlers
        /\ \A other \in Keys : other # key =>
             Total(InBaseHolds(other), n.bases) = Total(InBaseHolds(other), node.bases)
    BY <2>1, BasesRemoveKeeps
  <2> QED
    BY <2>2 DEF n, LoopHolds
<1> QED
  BY <1>1, <1>2

(* A removal takes nothing from the registrations at other keys.           *)
LEMMA RemovedKeeps ==
  ASSUME NEW nodes \in Seq(LoopNodes), NEW key \in Keys, NEW match
  PROVE  /\ Removed(nodes, key, match) \in Seq(LoopNodes)
         /\ \A other \in Keys : other # key =>
              Total(LoopHolds(other), Removed(nodes, key, match)) = Total(LoopHolds(other), nodes)
<1> DEFINE after == [k \in DOMAIN nodes |-> LoopRemove(nodes[k], key, match)]
           r == Removed(nodes, key, match)
<1>1. r = Walk(nodes, after).list
  BY DEF Removed
<1>2. DOMAIN nodes = 1 .. Len(nodes)
  BY LenProperties
<1>3. \A k \in DOMAIN nodes :
        /\ after[k].node \in LoopNodes
        /\ \A other \in Keys : other # key => LoopHolds(other)[after[k].node] = LoopHolds(other)[nodes[k]]
  BY <1>2, ElementOfSeq, LoopRemoveKeeps
<1> HIDE DEF after, r
<1>4. ASSUME NEW other \in Keys, other # key
      PROVE  Total(LoopHolds(other), r) = Total(LoopHolds(other), nodes)
  <2> DEFINE f == LoopHolds(other)
  <2> HIDE DEF f
  <2>1. \A k \in DOMAIN nodes : after[k].node \in LoopNodes /\ f[after[k].node] = f[nodes[k]]
    BY <1>3, <1>4 DEF f
  <2>2. \A n \in LoopNodes : Empty(n) => f[n] = {}
    BY EmptyHoldsNothing DEF f
  <2>3. Total(f, r) = Total(f, nodes)
    BY <1>1, <2>1, <2>2, WalkKeeps
  <2> QED
    BY <2>3 DEF f
<1>5. r \in Seq(LoopNodes)
  BY <1>1, <1>2, <1>3, WalkIs
<1> QED
  BY <1>4, <1>5 DEF r

-----------------------------------------------------------------------------
(* Registration, with either API, makes a registry of a registry.          *)

(* An element of a list of T is put in place of another or at the end.     *)
LEMMA ReplaceOrAppend ==
  ASSUME NEW T, NEW s \in Seq(T), NEW x \in T
  PROVE  Append(s, x) \in Seq(T) /\ \A p \in DOMAIN s : [s EXCEPT ![p] = x] \in Seq(T)
BY AppendSets, ExceptSets

(* The last position of those that are looked for is one of them. *)
LEMMA LastPosition ==
  ASSUME NEW T, NEW s \in Seq(T), NEW P \in SUBSET DOMAIN s, P # {}
  PROVE  Max(P) \in DOMAIN s /\ Min(P) \in DOMAIN s /\ s[Max(P)] \in T /\ s[Min(P)] \in T
<1>1. DOMAIN s = 1 .. Len(s) /\ Len(s) \in Nat
  BY LenProperties
<1>2. Max(P) \in P /\ Min(P) \in P
  BY <1>1, MinMaxArePositions
<1> QED
  BY <1>1, <1>2, ElementOfSeq

(* handler_instances_add *)
LEMMA HandlersAddTyped ==
  ASSUME NEW entry \in Entries, NEW l \in Seq(Entries), NEW legacy
  PROVE  HandlersAdd(l, entry, legacy) \in Seq(Entries)
<1> DEFINE same == Positions(l, LAMBDA e : e.function = entry.function)
<1>1. same \subseteq DOMAIN l
  BY DEF Positions
<1>2. CASE legacy /\ same # {}
  <2> DEFINE m == Min(same)
             x == [l[m] EXCEPT !.arg = entry.arg]
  <2>1. m \in DOMAIN l /\ l[m] \in Entries
    BY <1>1, <1>2, LastPosition
  <2>2. x \in Entries
    BY <2>1 DEF Entries
  <2>3. HandlersAdd(l, entry, legacy) = [l EXCEPT ![m] = x]
    BY <1>2 DEF HandlersAdd
  <2> HIDE DEF m, x
  <2> QED
    BY <2>1, <2>2, <2>3, ReplaceOrAppend
<1>3. CASE ~(legacy /\ same # {})
  <2>1. HandlersAdd(l, entry, legacy) = Append(l, entry)
    BY <1>3 DEF HandlersAdd
  <2> QED
    BY <2>1, ReplaceOrAppend
<1> QED
  BY <1>2, <1>3

(* base_node_add_handler *)
LEMMA BaseAddTyped ==
  ASSUME NEW entry \in Entries, NEW node \in BaseNodes, NEW id \in Ids \cup {ANY}, NEW legacy
  PROVE  BaseAdd(node, id, entry, legacy) \in BaseNodes
<1> DEFINE same == Positions(node.ids, LAMBDA n : n.id = id)
           r == BaseAdd(node, id, entry, legacy)
<1>1. node.handlers \in Seq(Entries) /\ node.ids \in Seq(IdNodes)
  BY DEF BaseNodes
<1>2. CASE id = ANY
  <2>1. r = [node EXCEPT !.handlers = HandlersAdd(node.handlers, entry, legacy)]
    BY <1>2 DEF BaseAdd
  <2>2. HandlersAdd(node.handlers, entry, legacy) \in Seq(Entries)
    BY <1>1, HandlersAddTyped
  <2> QED
    BY <2>1, <2>2 DEF BaseNodes
<1>3. CASE id # ANY /\ same = {}
  <2> DEFINE x == [id |-> id, handlers |-> <<entry>>]
  <2>1. r = [node EXCEPT !.ids = Append(node.ids, x)]
    BY <1>3 DEF BaseAdd
  <2>2. x \in IdNodes
    BY <1>3 DEF IdNodes
  <2> HIDE DEF x
  <2>3. Append(node.ids, x) \in Seq(IdNodes)
    BY <1>1, <2>2, ReplaceOrAppend
  <2> QED
    BY <2>1, <2>3 DEF BaseNodes
<1>4. CASE id # ANY /\ same # {}
  <2> DEFINE m == Max(same)
             x == [node.ids[m] EXCEPT !.handlers = HandlersAdd(node.ids[m].handlers, entry, legacy)]
  <2>1. r = [node EXCEPT !.ids = [node.ids EXCEPT ![m] = x]]
    BY <1>4 DEF BaseAdd
  <2>2. same \subseteq DOMAIN node.ids
    BY DEF Positions
  <2>3. m \in DOMAIN node.ids /\ node.ids[m] \in IdNodes
    BY <1>1, <1>4, <2>2, LastPosition
  <2> HIDE DEF m
  <2>4. node.ids[m].handlers \in Seq(Entries)
    BY <2>3 DEF IdNodes
  <2>5. HandlersAdd(node.ids[m].handlers, entry, legacy) \in Seq(Entries)
    BY <2>4, HandlersAddTyped
  <2>6. x \in IdNodes
    BY <2>3, <2>5 DEF IdNodes
  <2> HIDE DEF x
  <2>7. [node.ids EXCEPT ![m] = x] \in Seq(IdNodes)
    BY <1>1, <2>3, <2>6, ReplaceOrAppend
  <2> QED
    BY <2>1, <2>7 DEF BaseNodes
<1> QED
  BY <1>2, <1>3, <1>4

(* loop_node_add_handler *)
LEMMA LoopAddTyped ==
  ASSUME NEW entry \in Entries, NEW node \in LoopNodes, NEW key \in Keys, NEW legacy
  PROVE  LoopAdd(node, key, entry, legacy) \in LoopNodes
<1> DEFINE same  == Positions(node.bases, LAMBDA n : n.base = key[1])
           fresh == \/ same = {}
                    \/ /\ key[2] = ANY
                       /\ \/ node.bases[Max(same)].ids # <<>>
                          \/ /\ Last(node.bases).base # key[1]
                             /\ Last(node.bases).ids # <<>>
           r == LoopAdd(node, key, entry, legacy)
           new == BaseAdd(NewBase(key[1], entry), key[2], entry, legacy)
           m == Max(same)
           x == BaseAdd(node.bases[m], key[2], entry, legacy)
<1>1. node.handlers \in Seq(Entries) /\ node.bases \in Seq(BaseNodes)
  BY DEF LoopNodes
<1>2. /\ key[2] \in Ids \cup {ANY}
      /\ key[1] # ANY => key[1] \in Bases
  BY DEF Keys, Events
<1>3. /\ key[1] = ANY => r = [node EXCEPT !.handlers = HandlersAdd(node.handlers, entry, legacy)]
      /\ key[1] # ANY /\ fresh => r = [node EXCEPT !.bases = Append(node.bases, new)]
      /\ key[1] # ANY /\ ~fresh => r = [node EXCEPT !.bases = [node.bases EXCEPT ![m] = x]]
  BY DEF LoopAdd
<1>4. same \subseteq DOMAIN node.bases /\ (~fresh => same # {})
  BY DEF Positions
<1> HIDE DEF fresh, r, same
<1>5. CASE key[1] = ANY
  <2>1. HandlersAdd(node.handlers, entry, legacy) \in Seq(Entries)
    BY <1>1, HandlersAddTyped
  <2> QED
    BY <1>3, <1>5, <2>1 DEF r, LoopNodes
<1>6. CASE key[1] # ANY /\ fresh
  <2>1. NewBase(key[1], entry) \in BaseNodes
    BY <1>2, <1>6 DEF NewBase, At, BaseNodes, Entries
  <2>2. new \in BaseNodes
    BY <1>2, <2>1, BaseAddTyped
  <2> HIDE DEF new
  <2>3. Append(node.bases, new) \in Seq(BaseNodes)
    BY <1>1, <2>2, ReplaceOrAppend
  <2> QED
    BY <1>3, <1>6, <2>3 DEF r, LoopNodes
<1>7. CASE key[1] # ANY /\ ~fresh
  <2>1. m \in DOMAIN node.bases /\ node.bases[m] \in BaseNodes
    BY <1>1, <1>4, <1>7, LastPosition
  <2>2. x \in BaseNodes
    BY <1>2, <2>1, BaseAddTyped
  <2> HIDE DEF m, x
  <2>3. [node.bases EXCEPT ![m] = x] \in Seq(BaseNodes)
    BY <1>1, <2>1, <2>2, ReplaceOrAppend
  <2> QED
    BY <1>3, <1>7, <2>3 DEF r, LoopNodes
<1> QED
  BY <1>5, <1>6, <1>7

(* esp_event_handler_register_with_internal *)
LEMMA AddedTyped ==
  ASSUME NEW entry \in Entries, NEW nodes \in Seq(LoopNodes), NEW key \in Keys, NEW legacy
  PROVE  Added(nodes, key, entry, legacy) \in Seq(LoopNodes)
<1> DEFINE fresh == nodes = <<>> \/ (key[1] = ANY /\ Last(nodes).bases # <<>>)
<1>1. CASE fresh
  <2> DEFINE x == LoopAdd(NewLoop(entry), key, entry, legacy)
  <2>1. NewLoop(entry) \in LoopNodes
    BY DEF NewLoop, At, LoopNodes, Entries
  <2>2. x \in LoopNodes
    BY <2>1, LoopAddTyped
  <2>3. Added(nodes, key, entry, legacy) = Append(nodes, x)
    BY <1>1 DEF Added
  <2> HIDE DEF x
  <2> QED
    BY <2>2, <2>3, ReplaceOrAppend
<1>2. CASE ~fresh
  <2> DEFINE m == Len(nodes)
             x == LoopAdd(nodes[m], key, entry, legacy)
  <2>1. m \in DOMAIN nodes /\ nodes[m] \in LoopNodes
    BY <1>2, EmptySeq, LenProperties, ElementOfSeq
  <2>2. x \in LoopNodes
    BY <2>1, LoopAddTyped
  <2>3. Added(nodes, key, entry, legacy) = [nodes EXCEPT ![m] = x]
    BY <1>2 DEF Added
  <2> HIDE DEF x, m
  <2> QED
    BY <2>1, <2>2, <2>3, ReplaceOrAppend
<1> QED
  BY <1>1, <1>2

-----------------------------------------------------------------------------
(* The theorems *)

(* The lists of the registry hold what the code puts there, and the        *)
(* handles are those of keys that can be registered for.                   *)
LEMMA StepIsTyped == ASSUME TypeOK, [ApiNext]_<<vars, api>> PROVE TypeOK'
<1> USE DEF TypeOK
<1>1. CASE RegisterInstance
  <2>1. PICK key \in Keys, f \in InstanceCallbacks, a \in Args, c \in Contexts :
          /\ loop_nodes' = Added(loop_nodes, key, [ctx |-> c, function |-> f, arg |-> a], FALSE)
          /\ held' = held \cup {[ctx |-> c, key |-> key]}
    BY <1>1 DEF RegisterInstance, InstanceRegister
  <2>2. [ctx |-> c, function |-> f, arg |-> a] \in Entries
    BY <2>1, InstanceCallbacksAssumption DEF Entries
  <2>3. loop_nodes' \in Seq(LoopNodes)
    BY <2>1, <2>2, AddedTyped
  <2>4. [ctx |-> c, key |-> key] \in [ctx : Contexts, key : Keys]
    BY <2>1
  <2> QED
    BY <2>1, <2>3, <2>4
<1>2. CASE UnregisterInstance
  <2>1. PICK h \in held, key \in Keys : InstanceUnregister(h, key)
    BY <1>2 DEF UnregisterInstance
  <2>2. loop_nodes' \in Seq(LoopNodes)
    BY <2>1, RemovedKeeps DEF InstanceUnregister
  <2>3. held' \subseteq held
    BY <2>1 DEF InstanceUnregister
  <2> QED
    BY <2>2, <2>3
<1>3. CASE RegisterLegacy
  <2>1. PICK key \in Keys, f \in Callbacks, a \in Args, c \in Contexts :
          /\ loop_nodes' = Added(loop_nodes, key, [ctx |-> c, function |-> f, arg |-> a], TRUE)
          /\ held' = held
    BY <1>3 DEF RegisterLegacy, LegacyRegister, LegacyKeys
  <2>2. [ctx |-> c, function |-> f, arg |-> a] \in Entries
    BY <2>1 DEF Entries
  <2>3. loop_nodes' \in Seq(LoopNodes)
    BY <2>1, <2>2, AddedTyped
  <2> QED
    BY <2>1, <2>3
<1>4. CASE UnregisterLegacy
  <2>1. PICK key \in Keys, f \in Callbacks : LegacyUnregister(key, f)
    BY <1>4 DEF UnregisterLegacy, LegacyKeys
  <2>2. loop_nodes' \in Seq(LoopNodes)
    BY <2>1, RemovedKeeps DEF LegacyUnregister
  <2> QED
    BY <2>1, <2>2 DEF LegacyUnregister
<1>5. CASE Clear
  BY <1>5, EmptySeq DEF Clear, RemoveAll
<1>6. CASE UNCHANGED <<vars, api>>
  BY <1>6 DEF vars
<1> QED
  BY <1>1, <1>2, <1>3, <1>4, <1>5, <1>6 DEF ApiNext

(* The registry and the handles have their types, whichever API is used.   *)
THEOREM RegistryTypeCorrect == ApiSpec => []TypeOK
<1>1. ApiInit => TypeOK
  BY EmptySeq DEF ApiInit, Init, TypeOK
<1>2. TypeOK /\ [ApiNext]_<<vars, api>> => TypeOK'
  BY StepIsTyped
<1> QED
  BY <1>1, <1>2, PTL DEF ApiSpec

(* What is registered at a key can be read off the nodes, before a step    *)
(* and after it.                                                           *)
HoldingsAreRegistered ==
  /\ loop_nodes \in Seq(LoopNodes)
  /\ \A key \in Keys : RegisteredAt(key) = Total(LoopHolds(key), loop_nodes)

(* esp_event.h:286-288: a legacy unregistration for one key leaves the     *)
(* registrations at all others, however they are spread over the nodes and *)
(* whichever nodes it empties.                                             *)
THEOREM OtherKeysAreKept == ApiSpec => LegacyKeepsOtherKeys
<1> DEFINE Changed == {key \in LegacyKeys : RegisteredAt(key)' # RegisteredAt(key)}
           Kept == \A key \in LegacyKeys, f \in Callbacks :
                     Changed \subseteq {key} \/ ~LegacyUnregister(key, f)
<1>1. TypeOK => HoldingsAreRegistered
  BY RegisteredAtIs DEF TypeOK, HoldingsAreRegistered
<1>2. ASSUME HoldingsAreRegistered, HoldingsAreRegistered' PROVE Kept
  <2> SUFFICES ASSUME NEW key \in LegacyKeys, NEW f \in Callbacks, LegacyUnregister(key, f),
                      NEW other \in LegacyKeys, other # key
               PROVE  RegisteredAt(other)' = RegisteredAt(other)
    OBVIOUS
  <2>1. key \in Keys /\ other \in Keys
    BY DEF LegacyKeys
  <2>2. /\ RegisteredAt(other) = Total(LoopHolds(other), loop_nodes)
        /\ RegisteredAt(other)' = Total(LoopHolds(other), loop_nodes')
    BY <1>2, <2>1 DEF HoldingsAreRegistered
  <2>3. Total(LoopHolds(other), loop_nodes') = Total(LoopHolds(other), loop_nodes)
    BY <1>2, <2>1, RemovedKeeps DEF LegacyUnregister, HoldingsAreRegistered
  <2> QED
    BY <2>2, <2>3
<1>3. ASSUME HoldingsAreRegistered, HoldingsAreRegistered' PROVE [api = "legacy" => Kept]_vars
  BY <1>2, <1>3
<1>4. ApiSpec => []TypeOK
  BY RegistryTypeCorrect
<1> QED
  BY <1>1, <1>3, <1>4, PTL DEF LegacyKeepsOtherKeys

-----------------------------------------------------------------------------
(* Lists that grow at the end and lists out of which one entry is cut      *)

Others(c) == {e \in Entries : e.ctx # c}
Cut(new, old, c) ==
  \E A \in Seq(Others(c)), B \in Seq(Entries), e \in Entries :
    e.ctx = c /\ old = (A \o <<e>>) \o B /\ new = A \o B

(* A cut in a part of a list, behind a part without the context, is a cut  *)
(* in the list.                                                            *)
LEMMA CutIn ==
  ASSUME NEW c, NEW new, NEW old, Cut(new, old, c), NEW P \in Seq(Others(c)), NEW Q \in Seq(Entries)
  PROVE  Cut((P \o new) \o Q, (P \o old) \o Q, c)
<1>1. PICK A \in Seq(Others(c)), B \in Seq(Entries), e \in Entries :
        e.ctx = c /\ old = (A \o <<e>>) \o B /\ new = A \o B
  BY DEF Cut
<1>2. Others(c) \subseteq Entries
  BY DEF Others
<1>3. P \in Seq(Entries) /\ A \in Seq(Entries)
  BY <1>2, SeqMonotonic
<1>4. P \o A \in Seq(Others(c)) /\ B \o Q \in Seq(Entries)
  BY ConcatProperties
<1> DEFINE y == <<e>>
<1>5. y \in Seq(Entries)
  OBVIOUS
<1> HIDE DEF y
<1>6. Join(Join(P, Join(A, B)), Q) = Join(Join(P, A), Join(B, Q))
  <2>1. Join(P, Join(A, B)) = Join(Join(P, A), B)
    BY <1>3, JoinIs
  <2>2. Join(P, A) \in Seq(Entries)
    BY <1>3, JoinIs
  <2> QED
    BY <2>1, <2>2, JoinIs
<1>7. Join(Join(P, Join(Join(A, y), B)), Q) = Join(Join(Join(P, A), y), Join(B, Q))
  <2>1. Join(A, y) \in Seq(Entries) /\ Join(P, Join(A, y)) = Join(Join(P, A), y)
    BY <1>3, <1>5, JoinIs
  <2>2. Join(P, Join(Join(A, y), B)) = Join(Join(P, Join(A, y)), B)
    BY <1>3, <2>1, JoinIs
  <2>3. Join(P, Join(A, y)) \in Seq(Entries)
    BY <1>3, <2>1, JoinIs
  <2> QED
    BY <2>1, <2>2, <2>3, JoinIs
<1>8. /\ (P \o new) \o Q = (P \o A) \o (B \o Q)
      /\ (P \o old) \o Q = ((P \o A) \o <<e>>) \o (B \o Q)
  BY <1>1, <1>6, <1>7 DEF y, Join
<1> QED
  BY <1>1, <1>4, <1>8 DEF Cut

(* The same, with nothing behind or nothing before. *)
LEMMA CutBefore ==
  ASSUME NEW c, NEW new \in Seq(Entries), NEW old \in Seq(Entries), Cut(new, old, c), NEW Q \in Seq(Entries)
  PROVE  Cut(new \o Q, old \o Q, c)
<1>1. <<>> \in Seq(Others(c))
  BY EmptySeq
<1>2. <<>> \o new = new /\ <<>> \o old = old
  BY ConcatEmptySeq
<1>3. Cut((<<>> \o new) \o Q, (<<>> \o old) \o Q, c)
  BY <1>1, CutIn
<1> QED
  BY <1>2, <1>3
LEMMA CutBehind ==
  ASSUME NEW c, NEW new \in Seq(Entries), NEW old \in Seq(Entries), Cut(new, old, c), NEW P \in Seq(Others(c))
  PROVE  Cut(P \o new, P \o old, c)
<1>1. <<>> \in Seq(Entries) /\ P \in Seq(Entries)
  BY EmptySeq, SeqMonotonic DEF Others
<1>2. P \o new \in Seq(Entries) /\ P \o old \in Seq(Entries)
  BY <1>1, ConcatProperties
<1>3. (P \o new) \o <<>> = P \o new /\ (P \o old) \o <<>> = P \o old
  BY <1>2, ConcatEmptySeq
<1>4. Cut((P \o new) \o <<>>, (P \o old) \o <<>>, c)
  BY <1>1, CutIn
<1> QED
  BY <1>3, <1>4

(* A node at the end adds what it holds at the end. *)
LEMMA CatAppend ==
  ASSUME NEW T, NEW D, NEW f, Maps(f, T, Seq(D)), NEW s \in Seq(T), NEW x \in T
  PROVE  Cat(f, Append(s, x)) = Cat(f, s) \o f[x]
<1>1. PICK y \in Seq(T) : y = <<x>>
  <2>1. <<x>> \in Seq(T)
    OBVIOUS
  <2> QED
    BY <2>1, Zenon
<1>2. Cat(f, s \o y) = Cat(f, s) \o Cat(f, y)
  BY CatJoins
<1>3. Cat(f, <<x>>) = f[x] /\ Append(s, x) = s \o <<x>>
  BY CatOne, AppendIsConcat
<1> QED
  BY <1>1, <1>2, <1>3

(* The list with x in place of its element at p *)
Put(s, p, x) == [s EXCEPT ![p] = x]

(* What grows in one node, with nothing behind it, grows at the end. *)
GrowsBy(f, x, y, more) == f[x] = f[y] \o more
NothingBehind(f, s, p) == \A k \in p + 1 .. Len(s) : f[s[k]] = <<>>

LEMMA CatGrows ==
  ASSUME NEW T, NEW D, NEW f, Maps(f, T, Seq(D)), NEW s \in Seq(T), NEW p \in DOMAIN s, NEW x \in T,
         NEW more \in Seq(D), GrowsBy(f, x, s[p], more),
         more = <<>> \/ NothingBehind(f, s, p)
  PROVE  Cat(f, Put(s, p, x)) = Cat(f, s) \o more
<1>1. PICK A, B : Around(f, s, p, T, D, A, B)
  BY CatAt
<1>2. /\ A \in Seq(D) /\ B \in Seq(D)
      /\ Cat(f, s) = (A \o f[s[p]]) \o B
      /\ Cat(f, [s EXCEPT ![p] = x]) = (A \o f[x]) \o B
      /\ (\A k \in p + 1 .. Len(s) : f[s[k]] \in Seq({})) => B \in Seq({})
  BY <1>1 DEF Around
<1> DEFINE old == f[s[p]]
<1>3. s[p] \in T
  BY ElementOfSeq, LenProperties
<1>4. old \in Seq(D)
  BY <1>3 DEF Maps
<1> HIDE DEF old
<1>5. (A \o (old \o more)) \o B = ((A \o old) \o more) \o B
  <2>1. Join(A, Join(old, more)) = Join(Join(A, old), more)
    BY <1>2, <1>4, JoinIs
  <2> QED
    BY <2>1 DEF Join
<1>8. Cat(f, Put(s, p, x)) = (A \o (old \o more)) \o B
  BY <1>2 DEF GrowsBy, old, Put
<1>6. CASE more = <<>>
  <2>1. A \o old \in Seq(D)
    BY <1>2, <1>4, ConcatProperties
  <2>2. (A \o old) \o B \in Seq(D)
    BY <1>2, <2>1, ConcatProperties
  <2>3. (A \o old) \o <<>> = A \o old /\ ((A \o old) \o B) \o <<>> = (A \o old) \o B
    BY <2>1, <2>2, ConcatEmptySeq
  <2> QED
    BY <1>2, <1>5, <1>8, <1>6, <2>3 DEF old
<1>7. CASE NothingBehind(f, s, p)
  <2>1. B = <<>>
    <3>1. \A k \in p + 1 .. Len(s) : f[s[k]] \in Seq({})
      BY <1>7, EmptySeq DEF NothingBehind
    <3>2. B \in Seq({})
      BY <1>2, <3>1
    <3> QED
      BY <3>2, EmptySeq, LenProperties, ElementOfSeq
  <2>2. (A \o old) \o more \in Seq(D) /\ A \o old \in Seq(D)
    BY <1>2, <1>4, ConcatProperties
  <2>3. ((A \o old) \o more) \o <<>> = (A \o old) \o more /\ (A \o old) \o <<>> = A \o old
    BY <2>2, ConcatEmptySeq
  <2> QED
    BY <1>2, <1>5, <1>8, <2>1, <2>3 DEF old
<1> QED
  BY <1>6, <1>7

(* A removal that finds something in one node only, or in none *)
OnlyAt(p, s, after) ==
  \A k \in DOMAIN s : k # p => after[k].ok = FALSE /\ after[k].node = s[k]
Nowhere(s, after) ==
  \A k \in DOMAIN s : after[k].ok = FALSE /\ after[k].node = s[k]

(* A walk in which one node changes puts the new one in its place, or      *)
(* takes it off when nothing is left in it.                                *)
LEMMA WalkOne ==
  ASSUME NEW T, NEW s \in Seq(T), NEW after, NEW p \in DOMAIN s, after[p].node \in T,
         OnlyAt(p, s, after)
  PROVE  \/ Walk(s, after).list = [s EXCEPT ![p] = after[p].node]
         \/ Empty(after[p].node) /\ Walk(s, after).list = RemoveAt(s, p)
<1> DEFINE n == Len(s)
           emptied == {k \in DOMAIN s : after[k].ok /\ Empty(after[k].node)}
           x == after[p].node
           r == Walk(s, after).list
<1>1. n \in Nat /\ DOMAIN s = 1 .. n /\ p \in 1 .. n
  BY LenProperties
<1>2. emptied \subseteq {p}
  BY DEF OnlyAt
<1>3. \A k \in 1 .. n : after[k].node = IF k = p THEN x ELSE s[k]
  BY <1>1 DEF OnlyAt
<1>4. CASE emptied = {}
  <2>1. r = [k \in 1 .. n |-> after[k].node]
    BY <1>1, <1>4 DEF Walk
  <2>2. s = [k \in 1 .. n |-> s[k]]
    BY <1>1, IsASeq
  <2> HIDE DEF r, x
  <2>3. r = [k \in 1 .. n |-> IF k = p THEN x ELSE s[k]]
    BY <1>3, <2>1
  <2>4. [s EXCEPT ![p] = x] = [k \in 1 .. n |-> IF k = p THEN x ELSE s[k]]
    BY <1>1, <2>2
  <2> QED
    BY <2>3, <2>4 DEF r, x
<1>5. CASE emptied # {}
  <2>1. emptied = {p} /\ Empty(x)
    BY <1>2, <1>5
  <2> DEFINE some == [k \in 1 .. n |-> IF k <= p THEN after[k].node ELSE s[k]]
  <2>2. r = RemoveAt(some, p)
    <3>1. emptied \in SUBSET (1 .. n)
      BY <1>1
    <3>2. Min(emptied) = p
      BY <1>1, <1>5, <2>1, <3>1, MinMaxArePositions
    <3> QED
      BY <1>1, <1>5, <3>2 DEF Walk
  <2>3. \A k \in 1 .. n : some[k] = IF k = p THEN x ELSE s[k]
    BY <1>1, <1>3
  <2>4. some \in Seq(T) /\ Len(some) = n
    <3>1. \A k \in 1 .. n : s[k] \in T
      BY ElementOfSeq
    <3>2. \A k \in 1 .. n : some[k] \in T
      BY <2>3, <3>1
    <3> HIDE DEF r, x, emptied
    <3> QED
      BY <1>1, <3>2
  <2> HIDE DEF r, x, emptied, some
  <2>5. /\ RemoveAt(some, p) \in Seq(T) /\ Len(RemoveAt(some, p)) = n - 1
        /\ \A j \in 1 .. n - 1 : RemoveAt(some, p)[j] = IF j < p THEN some[j] ELSE some[j + 1]
    <3>1. p \in 1 .. Len(some)
      BY <1>1, <2>4
    <3>2. /\ RemoveAt(some, p) \in Seq(T) /\ Len(RemoveAt(some, p)) = Len(some) - 1
          /\ \A j \in 1 .. Len(some) - 1 : RemoveAt(some, p)[j] = IF j < p THEN some[j] ELSE some[j + 1]
      BY <2>4, <3>1, RemoveAtIs
    <3> QED
      BY <2>4, <3>2
  <2>6. /\ RemoveAt(s, p) \in Seq(T) /\ Len(RemoveAt(s, p)) = n - 1
        /\ \A j \in 1 .. n - 1 : RemoveAt(s, p)[j] = IF j < p THEN s[j] ELSE s[j + 1]
    BY <1>1, RemoveAtIs
  <2>7. ASSUME NEW j \in 1 .. n - 1 PROVE RemoveAt(some, p)[j] = RemoveAt(s, p)[j]
    <3>1. CASE j < p
      <4>1. j \in 1 .. n /\ j # p
        BY <1>1, <3>1
      <4> QED
        BY <2>3, <2>5, <2>6, <3>1, <4>1
    <3>2. CASE ~(j < p)
      <4>1. j + 1 \in 1 .. n /\ j + 1 # p
        BY <1>1, <3>2
      <4> QED
        BY <2>3, <2>5, <2>6, <3>2, <4>1
    <3> QED
      BY <3>1, <3>2
  <2>8. RemoveAt(some, p) = RemoveAt(s, p)
    BY <2>5, <2>6, <2>7, SeqEqual
  <2> QED
    BY <2>1, <2>2, <2>8 DEF r, x
<1> QED
  BY <1>4, <1>5

(* A walk in which no node changes changes nothing. *)
LEMMA WalkNone ==
  ASSUME NEW T, NEW s \in Seq(T), NEW after,
         Nowhere(s, after)
  PROVE  Walk(s, after) = [ok |-> FALSE, list |-> s]
<1>1. {k \in DOMAIN s : after[k].ok /\ Empty(after[k].node)} = {}
  BY DEF Nowhere
<1>2. s = [k \in DOMAIN s |-> s[k]]
  BY IsASeq, LenProperties
<1>3. [k \in DOMAIN s |-> after[k].node] = [k \in DOMAIN s |-> s[k]]
  BY DEF Nowhere
<1> QED
  BY <1>1, <1>2, <1>3 DEF Walk

(* What a cut in one node, or no change of what f finds in it, makes of    *)
(* the whole list after such a walk.                                       *)
LEMMA WalkCuts ==
  ASSUME NEW T, NEW f, Maps(f, T, Seq(Entries)), NEW s \in Seq(T), NEW after, NEW p \in DOMAIN s,
         after[p].node \in T, OnlyAt(p, s, after),
         \A n \in T : Empty(n) => f[n] = <<>>,
         NEW c, \A k \in 1 .. p - 1 : f[s[k]] \in Seq(Others(c))
  PROVE  /\ f[after[p].node] = f[s[p]] => Cat(f, Walk(s, after).list) = Cat(f, s)
         /\ Cut(f[after[p].node], f[s[p]], c) => Cut(Cat(f, Walk(s, after).list), Cat(f, s), c)
<1> DEFINE x == after[p].node
           r == Walk(s, after).list
<1>1. PICK A, B : Around(f, s, p, T, Entries, A, B)
  BY CatAt
<1>2. /\ A \in Seq(Others(c)) /\ B \in Seq(Entries) /\ A \in Seq(Entries)
      /\ Cat(f, s) = (A \o f[s[p]]) \o B
      /\ Cat(f, [s EXCEPT ![p] = x]) = (A \o f[x]) \o B
      /\ Cat(f, RemoveAt(s, p)) = A \o B
  BY <1>1 DEF Around
<1>3. r = [s EXCEPT ![p] = x] \/ (Empty(x) /\ r = RemoveAt(s, p))
  BY WalkOne
<1>4. Cat(f, r) = (A \o f[x]) \o B
  <2>1. A \o <<>> = A
    BY <1>2, ConcatEmptySeq
  <2> QED
    BY <1>2, <1>3, <2>1
<1>5. ASSUME Cut(f[x], f[s[p]], c) PROVE Cut(Cat(f, r), Cat(f, s), c)
  BY <1>2, <1>4, <1>5, CutIn
<1> QED
  BY <1>2, <1>4, <1>5

-----------------------------------------------------------------------------
(* Lists whose nodes hold different contexts                               *)

Apart(g, s) == \A j, k \in DOMAIN s : j # k => g[s[j]] \cap g[s[k]] = {}

(* They stay apart when a node loses some, or gets new ones, ... *)
LEMMA ApartChangesTo ==
  ASSUME NEW g, NEW s, Apart(g, s), NEW p, p \in DOMAIN s, NEW x,
         NEW N, g[x] \subseteq g[s[p]] \cup N, N \cap Total(g, s) = {},
         NEW r, OneSet(r, s, p, x), DOMAIN r = DOMAIN s
  PROVE  Apart(g, r) /\ Total(g, r) \subseteq Total(g, s) \cup N
<1>2. \A k \in DOMAIN s : g[s[k]] \cap N = {}
  BY DEF Total
<1>3. \A k \in DOMAIN r : k # p => r[k] = s[k] /\ g[r[k]] \cap g[x] = {}
  BY <1>2 DEF OneSet, Apart
<1>4. Apart(g, r)
  BY <1>3 DEF OneSet, Apart
<1>5. Total(g, r) \subseteq Total(g, s) \cup N
  BY <1>3 DEF OneSet, Total
<1> QED
  BY <1>4, <1>5

LEMMA ApartChanges ==
  ASSUME NEW T, NEW g, NEW s \in Seq(T), Apart(g, s), NEW p \in DOMAIN s, NEW x \in T,
         NEW N, g[x] \subseteq g[s[p]] \cup N, N \cap Total(g, s) = {}
  PROVE  /\ [s EXCEPT ![p] = x] \in Seq(T) /\ Apart(g, [s EXCEPT ![p] = x])
         /\ Total(g, [s EXCEPT ![p] = x]) \subseteq Total(g, s) \cup N
<1> DEFINE r == [s EXCEPT ![p] = x]
<1>1. r \in Seq(T) /\ OneSet(r, s, p, x) /\ DOMAIN r = DOMAIN s
  BY ExceptSets
<1> HIDE DEF r
<1>2. r \in Seq(T) /\ Apart(g, r) /\ Total(g, r) \subseteq Total(g, s) \cup N
  BY <1>1, ApartChangesTo
<1> QED
  BY <1>2 DEF r

(* ... when one with new ones is added, ... *)
LEMMA ApartAppend ==
  ASSUME NEW T, NEW g, NEW s \in Seq(T), Apart(g, s), NEW x \in T, g[x] \cap Total(g, s) = {}
  PROVE  /\ Append(s, x) \in Seq(T) /\ Apart(g, Append(s, x))
         /\ Total(g, Append(s, x)) \subseteq Total(g, s) \cup g[x]
<1> DEFINE r == Append(s, x)
<1>1. r \in Seq(T) /\ \E p : p \notin DOMAIN s /\ OneSet(r, s, p, x)
  BY AppendSets
<1>2. PICK p : p \notin DOMAIN s /\ OneSet(r, s, p, x)
  BY <1>1
<1> HIDE DEF r
<1>3. \A k \in DOMAIN s : g[s[k]] \cap g[x] = {}
  BY DEF Total
<1>4. Apart(g, r)
  BY <1>2, <1>3 DEF OneSet, Apart
<1>5. Total(g, r) \subseteq Total(g, s) \cup g[x]
  BY <1>2 DEF OneSet, Total
<1> QED
  BY <1>1, <1>4, <1>5 DEF r

(* ... and when one is taken off. *)
LEMMA ApartRemove ==
  ASSUME NEW T, NEW g, NEW s \in Seq(T), Apart(g, s), NEW p \in DOMAIN s
  PROVE  /\ RemoveAt(s, p) \in Seq(T) /\ Apart(g, RemoveAt(s, p))
         /\ Total(g, RemoveAt(s, p)) \subseteq Total(g, s)
<1> DEFINE r == RemoveAt(s, p)
           n == Len(s)
<1>1. n \in Nat /\ DOMAIN s = 1 .. n /\ p \in 1 .. n
  BY LenProperties
<1>2. /\ r \in Seq(T) /\ Len(r) = n - 1
      /\ \A j \in 1 .. n - 1 : r[j] = IF j < p THEN s[j] ELSE s[j + 1]
  BY <1>1, RemoveAtIs
<1>3. DOMAIN r = 1 .. n - 1
  BY <1>2, LenProperties
<1> HIDE DEF r, n
<1> DEFINE from == [j \in 1 .. n - 1 |-> IF j < p THEN j ELSE j + 1]
<1>4. /\ \A j \in 1 .. n - 1 : from[j] \in 1 .. n /\ r[j] = s[from[j]]
      /\ \A j, k \in 1 .. n - 1 : from[j] = from[k] => j = k
  BY <1>1, <1>2
<1> HIDE DEF from
<1>5. Apart(g, r)
  BY <1>1, <1>3, <1>4 DEF Apart
<1>6. Total(g, r) \subseteq Total(g, s)
  BY <1>1, <1>3, <1>4 DEF Total
<1> QED
  BY <1>2, <1>5, <1>6 DEF r

(* A walk in which one node changes and gets no new contexts leaves them   *)
(* apart.                                                                  *)
LEMMA WalkKeepsApart ==
  ASSUME NEW T, NEW s \in Seq(T), NEW after, NEW p \in DOMAIN s, after[p].node \in T,
         OnlyAt(p, s, after),
         NEW g, Apart(g, s), g[after[p].node] \subseteq g[s[p]]
  PROVE  /\ Walk(s, after).list \in Seq(T) /\ Apart(g, Walk(s, after).list)
         /\ Total(g, Walk(s, after).list) \subseteq Total(g, s)
<1> DEFINE x == after[p].node
           r == Walk(s, after).list
<1>1. r = [s EXCEPT ![p] = x] \/ r = RemoveAt(s, p)
  BY WalkOne
<1> HIDE DEF r, x
<1>2. x \in T /\ g[x] \subseteq g[s[p]] \cup {}
  BY DEF x
<1>3. ASSUME r = [s EXCEPT ![p] = x] PROVE r \in Seq(T) /\ Apart(g, r) /\ Total(g, r) \subseteq Total(g, s)
  <2>1. PICK N : N = {}
    OBVIOUS
  <2>2. g[x] \subseteq g[s[p]] \cup N /\ N \cap Total(g, s) = {}
    BY <1>2, <2>1
  <2>3. r \in Seq(T) /\ Apart(g, r) /\ Total(g, r) \subseteq Total(g, s) \cup N
    <3>1. r \in Seq(T) /\ OneSet(r, s, p, x) /\ DOMAIN r = DOMAIN s
      BY <1>2, <1>3, ExceptSets
    <3> QED
      BY <2>2, <3>1, ApartChangesTo
  <2> QED
    BY <2>1, <2>3
<1>4. /\ RemoveAt(s, p) \in Seq(T) /\ Apart(g, RemoveAt(s, p))
      /\ Total(g, RemoveAt(s, p)) \subseteq Total(g, s)
  BY ApartRemove
<1> QED
  BY <1>1, <1>3, <1>4 DEF r

-----------------------------------------------------------------------------
(* The registry.  A context is in one node of each list, and not in two of *)
(* the lists of one node.                                                  *)

Ctxs(l) == {l[j].ctx : j \in DOMAIN l}

IdC == [n \in IdNodes |-> Ctxs(n.handlers)]
GoodBases ==
  {n \in BaseNodes : Apart(IdC, n.ids) /\ Ctxs(n.handlers) \cap Total(IdC, n.ids) = {}}
BaseC == [n \in GoodBases |-> Ctxs(n.handlers) \cup Total(IdC, n.ids)]
GoodLoops ==
  {n \in LoopNodes : /\ n.bases \in Seq(GoodBases) /\ Apart(BaseC, n.bases)
                     /\ Ctxs(n.handlers) \cap Total(BaseC, n.bases) = {}}
LoopC == [n \in GoodLoops |-> Ctxs(n.handlers) \cup Total(BaseC, n.bases)]
Good(nodes) == nodes \in Seq(GoodLoops) /\ Apart(LoopC, nodes)

(* What a dispatch calls at each level *)
IdSeg(ev) == [n \in IdNodes |-> IF n.id = ev[2] THEN n.handlers ELSE <<>>]
BaseSeg(ev) ==
  [n \in GoodBases |-> IF n.base # ev[1] THEN <<>> ELSE n.handlers \o Cat(IdSeg(ev), n.ids)]
LoopSeg(ev) == [n \in GoodLoops |-> n.handlers \o Cat(BaseSeg(ev), n.bases)]

Among(C) == {e \in Entries : e.ctx \in C}

(* The nodes, and what is in them *)
LEMMA NodesAre ==
  /\ \A n \in IdNodes : n.handlers \in Seq(Entries) /\ n.id \in Ids
  /\ \A n \in GoodBases : /\ n \in BaseNodes /\ n.handlers \in Seq(Entries) /\ n.ids \in Seq(IdNodes)
                          /\ n.base \in Bases
  /\ \A n \in GoodLoops : n \in LoopNodes /\ n.handlers \in Seq(Entries) /\ n.bases \in Seq(GoodBases)
BY DEF IdNodes, GoodBases, BaseNodes, GoodLoops, LoopNodes

(* A list of entries is one of entries with the contexts in it. *)
LEMMA EntriesAmong ==
  ASSUME NEW l \in Seq(Entries), NEW C, Ctxs(l) \subseteq C
  PROVE  l \in Seq(Among(C))
<1>1. /\ l = [k \in 1 .. Len(l) |-> l[k]] /\ Len(l) \in Nat /\ DOMAIN l = 1 .. Len(l)
      /\ \A k \in 1 .. Len(l) : l[k] \in Entries
  BY LenProperties, ElementOfSeq
<1>2. \A k \in 1 .. Len(l) : l[k] \in Among(C)
  BY <1>1 DEF Ctxs, Among
<1> QED
  BY <1>1, <1>2

(* A node of a list holds no more than the list. *)
LEMMA PartOfTotal == \A f, s : \A k \in DOMAIN s : f[s[k]] \subseteq Total(f, s)
BY DEF Total

(* What is called in a node are entries whose contexts are in it. *)
LEMMA SegsAre ==
  ASSUME NEW ev
  PROVE  /\ \A n \in IdNodes : IdSeg(ev)[n] \in Seq(Among(IdC[n]))
         /\ \A n \in GoodBases : BaseSeg(ev)[n] \in Seq(Among(BaseC[n]))
         /\ \A n \in GoodLoops : LoopSeg(ev)[n] \in Seq(Among(LoopC[n]))
<1>0. \A C, D : C \subseteq D => Seq(Among(C)) \subseteq Seq(Among(D))
  <2> SUFFICES ASSUME NEW C, NEW D, C \subseteq D PROVE Seq(Among(C)) \subseteq Seq(Among(D))
    OBVIOUS
  <2>1. Among(C) \subseteq Among(D)
    BY DEF Among
  <2> QED
    BY <2>1, SeqMonotonic
<1>1. ASSUME NEW n \in IdNodes PROVE IdSeg(ev)[n] \in Seq(Among(IdC[n]))
  <2>1. n.handlers \in Seq(Among(Ctxs(n.handlers)))
    BY NodesAre, EntriesAmong
  <2>2. <<>> \in Seq(Among(IdC[n]))
    BY EmptySeq
  <2>3. IdC[n] = Ctxs(n.handlers)
    BY DEF IdC
  <2>4. IdSeg(ev)[n] = n.handlers \/ IdSeg(ev)[n] = <<>>
    BY DEF IdSeg
  <2> QED
    BY <2>1, <2>2, <2>3, <2>4
<1>2. ASSUME NEW n \in GoodBases PROVE BaseSeg(ev)[n] \in Seq(Among(BaseC[n]))
  <2> DEFINE C == BaseC[n]
  <2>1. C = Ctxs(n.handlers) \cup Total(IdC, n.ids)
    BY DEF BaseC
  <2>2. n.handlers \in Seq(Among(C))
    BY <2>1, NodesAre, EntriesAmong
  <2>3. ASSUME NEW k \in 1 .. Len(n.ids) PROVE IdSeg(ev)[n.ids[k]] \in Seq(Among(C))
    <3>1. n.ids \in Seq(IdNodes) /\ k \in DOMAIN n.ids
      BY NodesAre, LenProperties
    <3>2. n.ids[k] \in IdNodes
      BY <3>1, ElementOfSeq
    <3>3. IdC[n.ids[k]] \subseteq C
      BY <2>1, <3>1, PartOfTotal
    <3> HIDE DEF C
    <3> QED
      BY <1>0, <1>1, <3>2, <3>3
  <2> HIDE DEF C
  <2>4. Cat(IdSeg(ev), n.ids) \in Seq(Among(C))
    BY <2>3, NodesAre, CatTyped
  <2>5. n.handlers \o Cat(IdSeg(ev), n.ids) \in Seq(Among(C))
    BY <2>2, <2>4, ConcatProperties
  <2>6. <<>> \in Seq(Among(C))
    BY EmptySeq
  <2>7. BaseSeg(ev)[n] = IF n.base # ev[1] THEN <<>> ELSE n.handlers \o Cat(IdSeg(ev), n.ids)
    BY DEF BaseSeg
  <2> QED
    BY <2>5, <2>6, <2>7 DEF C
<1>3. ASSUME NEW n \in GoodLoops PROVE LoopSeg(ev)[n] \in Seq(Among(LoopC[n]))
  <2> DEFINE C == LoopC[n]
  <2>1. C = Ctxs(n.handlers) \cup Total(BaseC, n.bases)
    BY DEF LoopC
  <2>2. n.handlers \in Seq(Among(C))
    BY <2>1, NodesAre, EntriesAmong
  <2>3. ASSUME NEW k \in 1 .. Len(n.bases) PROVE BaseSeg(ev)[n.bases[k]] \in Seq(Among(C))
    <3>1. n.bases \in Seq(GoodBases) /\ k \in DOMAIN n.bases
      BY NodesAre, LenProperties
    <3>2. n.bases[k] \in GoodBases
      BY <3>1, ElementOfSeq
    <3>3. BaseC[n.bases[k]] \subseteq C
      BY <2>1, <3>1, PartOfTotal
    <3> HIDE DEF C
    <3> QED
      BY <1>0, <1>2, <3>2, <3>3
  <2> HIDE DEF C
  <2>4. Cat(BaseSeg(ev), n.bases) \in Seq(Among(C))
    BY <2>3, NodesAre, CatTyped
  <2>5. n.handlers \o Cat(BaseSeg(ev), n.bases) \in Seq(Among(C))
    BY <2>2, <2>4, ConcatProperties
  <2>7. LoopSeg(ev)[n] = n.handlers \o Cat(BaseSeg(ev), n.bases)
    BY DEF LoopSeg
  <2> QED
    BY <2>5, <2>7 DEF C
<1> QED
  BY <1>1, <1>2, <1>3

(* All of them are entries. *)
LEMMA SegsMap ==
  ASSUME NEW ev
  PROVE  /\ Maps(IdSeg(ev), IdNodes, Seq(Entries))
         /\ Maps(BaseSeg(ev), GoodBases, Seq(Entries))
         /\ Maps(LoopSeg(ev), GoodLoops, Seq(Entries))
<1>1. \A C : Seq(Among(C)) \subseteq Seq(Entries)
  <2> SUFFICES ASSUME NEW C PROVE Seq(Among(C)) \subseteq Seq(Entries)
    OBVIOUS
  <2>1. Among(C) \subseteq Entries
    BY DEF Among
  <2> QED
    BY <2>1, SeqMonotonic
<1> QED
  BY <1>1, SegsAre DEF Maps

(* Plan is what the loop nodes call, one after the other. *)
LEMMA PlanIs ==
  ASSUME loop_nodes \in Seq(GoodLoops), NEW ev
  PROVE  Plan(ev) = Cat(LoopSeg(ev), loop_nodes)
<1> DEFINE InBase(n) ==
             IF n.base # ev[1] THEN <<>>
             ELSE n.handlers \o FlattenSeq([k \in DOMAIN n.ids |->
                    IF n.ids[k].id = ev[2] THEN n.ids[k].handlers ELSE <<>>])
           InLoop(n) == n.handlers \o FlattenSeq([k \in DOMAIN n.bases |-> InBase(n.bases[k])])
<1>1. ASSUME NEW n \in GoodBases PROVE InBase(n) = BaseSeg(ev)[n]
  <2>1. \A k \in DOMAIN n.ids : n.ids[k] \in IdNodes
    BY NodesAre, ElementOfSeq, LenProperties
  <2>2. Image(IdSeg(ev), n.ids) =
          [k \in DOMAIN n.ids |-> IF n.ids[k].id = ev[2] THEN n.ids[k].handlers ELSE <<>>]
    BY <2>1 DEF Image, IdSeg
  <2> QED
    BY <2>2 DEF BaseSeg, Cat
<1>2. ASSUME NEW n \in GoodLoops PROVE InLoop(n) = LoopSeg(ev)[n]
  <2>1. \A k \in DOMAIN n.bases : n.bases[k] \in GoodBases
    BY NodesAre, ElementOfSeq, LenProperties
  <2> HIDE DEF InBase
  <2>2. Image(BaseSeg(ev), n.bases) = [k \in DOMAIN n.bases |-> InBase(n.bases[k])]
    BY <1>1, <2>1 DEF Image
  <2> QED
    BY <2>2 DEF LoopSeg, Cat
<1>3. \A k \in DOMAIN loop_nodes : loop_nodes[k] \in GoodLoops
  BY ElementOfSeq, LenProperties
<1>4. Plan(ev) = FlattenSeq([k \in DOMAIN loop_nodes |-> InLoop(loop_nodes[k])])
  BY DEF Plan
<1> HIDE DEF InLoop
<1>5. Image(LoopSeg(ev), loop_nodes) = [k \in DOMAIN loop_nodes |-> InLoop(loop_nodes[k])]
  BY <1>2, <1>3 DEF Image
<1> QED
  BY <1>4, <1>5 DEF Cat

(* Empty nodes call nothing. *)
LEMMA EmptyCallsNothing ==
  ASSUME NEW ev
  PROVE  /\ \A n \in IdNodes : Empty(n) => IdSeg(ev)[n] = <<>>
         /\ \A n \in GoodBases : Empty(n) => BaseSeg(ev)[n] = <<>>
         /\ \A n \in GoodLoops : Empty(n) => LoopSeg(ev)[n] = <<>>
<1>1. <<>> \o <<>> = <<>>
  BY EmptySeq, ConcatEmptySeq
<1>2. \A f : Cat(f, <<>>) = <<>>
  BY CatOne
<1> QED
  BY <1>1, <1>2, EmptyIs, NodesAre DEF IdSeg, BaseSeg, LoopSeg

-----------------------------------------------------------------------------
(* Registration with the instance API: the events that match the key call  *)
(* the entry after all others, and no others change.                       *)

Reaches(key, ev) == \A k \in 1 .. 2 : key[k] \in {ANY, ev[k]}
Only(P, entry) == IF P THEN <<entry>> ELSE <<>>
Grows(P, new, old, entry) == new = old \o Only(P, entry)

(* With an element put into a list, what is held in it does not get less.  *)
LEMMA SetHoldsMore ==
  ASSUME NEW f, NEW r, NEW s, NEW p, NEW x, OneSet(r, s, p, x), p \in DOMAIN s => f[s[p]] \subseteq f[x]
  PROVE  Total(f, s) \subseteq Total(f, r) /\ f[x] \subseteq Total(f, r)
<1>1. \A k \in DOMAIN s : k \in DOMAIN r /\ f[s[k]] \subseteq f[r[k]]
  BY DEF OneSet
<1> QED
  BY <1>1 DEF OneSet, Total

LEMMA CatMaps ==
  ASSUME NEW T, NEW D, NEW f, Maps(f, T, Seq(D)), NEW s \in Seq(T)
  PROVE  Cat(f, s) \in Seq(D)
<1>1. \A k \in 1 .. Len(s) : f[s[k]] \in Seq(D)
  BY ElementOfSeq DEF Maps
<1> QED
  BY <1>1, CatTyped

(* Nothing is in an empty list. *)
LEMMA EmptyList ==
  /\ \A f : Total(f, <<>>) = {} /\ Apart(f, <<>>) /\ Cat(f, <<>>) = <<>>
  /\ Ctxs(<<>>) = {} /\ <<>> \o <<>> = <<>>
<1>1. \A f : Total(f, <<>>) = {} /\ Apart(f, <<>>)
  BY DEF Total, Apart
<1>2. \A f : Cat(f, <<>>) = <<>>
  BY CatOne
<1>3. Ctxs(<<>>) = {}
  BY DEF Ctxs
<1>4. <<>> \o <<>> = <<>>
  BY EmptySeq, ConcatEmptySeq
<1> QED
  BY <1>1, <1>2, <1>3, <1>4

LEMMA OnlyTyped == ASSUME NEW entry \in Entries, NEW P PROVE Only(P, entry) \in Seq(Entries)
BY EmptySeq DEF Only

(* The handlers of a node are the old ones and the new one. *)
LEMMA HandlersGrow ==
  ASSUME NEW entry \in Entries, NEW l \in Seq(Entries)
  PROVE  /\ HandlersAdd(l, entry, FALSE) = l \o <<entry>>
         /\ HandlersAdd(l, entry, FALSE) \in Seq(Entries)
         /\ Ctxs(HandlersAdd(l, entry, FALSE)) = Ctxs(l) \cup {entry.ctx}
         /\ Range(HandlersAdd(l, entry, FALSE)) = Range(l) \cup {entry}
<1> DEFINE r == Append(l, entry)
<1>1. HandlersAdd(l, entry, FALSE) = r
  BY DEF HandlersAdd
<1>2. r = l \o <<entry>> /\ r \in Seq(Entries)
  BY AppendIsConcat, AppendProperties
<1>3. PICK p : p \notin DOMAIN l /\ OneSet(r, l, p, entry)
  BY AppendSets
<1>4. Ctxs(r) = Ctxs(l) \cup {entry.ctx} /\ Range(r) = Range(l) \cup {entry}
  <2> HIDE DEF r
  <2> QED
    BY <1>3 DEF OneSet, Ctxs, Range
<1> QED
  BY <1>1, <1>2, <1>4

(* What a new entry in an id node, or a new id node, changes *)
IdGrows(x, n, id, entry) ==
  /\ x \in IdNodes /\ IdC[x] \subseteq IdC[n] \cup {entry.ctx}
  /\ \A ev \in Events : Grows(id = ev[2], IdSeg(ev)[x], IdSeg(ev)[n], entry)
  /\ entry \in IdHolds(id)[x] /\ \A other : IdHolds(other)[n] \subseteq IdHolds(other)[x]

LEMMA IdAdd ==
  ASSUME NEW n \in IdNodes, NEW entry \in Entries
  PROVE  IdGrows([n EXCEPT !.handlers = HandlersAdd(@, entry, FALSE)], n, n.id, entry)
<1> DEFINE l == HandlersAdd(n.handlers, entry, FALSE)
           x == [n EXCEPT !.handlers = l]
<1>1. n.handlers \in Seq(Entries)
  BY NodesAre
<1>2. /\ l = n.handlers \o <<entry>> /\ l \in Seq(Entries)
      /\ Ctxs(l) = Ctxs(n.handlers) \cup {entry.ctx} /\ Range(l) = Range(n.handlers) \cup {entry}
  BY <1>1, HandlersGrow
<1> HIDE DEF l
<1>3. x \in IdNodes /\ x.handlers = l /\ x.id = n.id
  BY <1>2 DEF IdNodes
<1> HIDE DEF x
<1>4. IdC[x] \subseteq IdC[n] \cup {entry.ctx}
  BY <1>2, <1>3 DEF IdC
<1>5. ASSUME NEW ev \in Events PROVE Grows(n.id = ev[2], IdSeg(ev)[x], IdSeg(ev)[n], entry)
  <2>1. CASE n.id = ev[2]
    BY <1>2, <1>3, <2>1 DEF Grows, Only, IdSeg
  <2>2. CASE n.id # ev[2]
    <3>1. IdSeg(ev)[x] = <<>> /\ IdSeg(ev)[n] = <<>> /\ Only(n.id = ev[2], entry) = <<>>
      BY <1>3, <2>2 DEF Only, IdSeg
    <3>2. <<>> \o <<>> = <<>>
      BY EmptySeq, ConcatEmptySeq
    <3> QED
      BY <3>1, <3>2 DEF Grows
  <2> QED
    BY <2>1, <2>2
<1>6. entry \in IdHolds(n.id)[x] /\ \A other : IdHolds(other)[n] \subseteq IdHolds(other)[x]
  BY <1>2, <1>3 DEF IdHolds
<1> QED
  BY <1>3, <1>4, <1>5, <1>6 DEF IdGrows, x, l

(* What it changes in a base node *)
BaseGrows(x, n, id, entry) ==
  /\ x \in GoodBases /\ x.base = n.base /\ BaseC[x] \subseteq BaseC[n] \cup {entry.ctx}
  /\ \A ev \in Events :
       Grows(n.base = ev[1] /\ id \in {ANY, ev[2]}, BaseSeg(ev)[x], BaseSeg(ev)[n], entry)
  /\ entry \in BaseHolds(id)[x] /\ \A other : BaseHolds(other)[n] \subseteq BaseHolds(other)[x]

(* The id nodes of a base grow by the new entry. *)
IdsGain(ids, old, id, entry) ==
  /\ ids \in Seq(IdNodes) /\ Apart(IdC, ids) /\ Total(IdC, ids) \subseteq Total(IdC, old) \cup {entry.ctx}
  /\ \A ev \in Events : Grows(id = ev[2], Cat(IdSeg(ev), ids), Cat(IdSeg(ev), old), entry)
  /\ entry \in Total(IdHolds(id), ids)
  /\ \A other : Total(IdHolds(other), old) \subseteq Total(IdHolds(other), ids)

LEMMA BaseOfIds ==
  ASSUME NEW n \in GoodBases, NEW id \in Ids, NEW entry \in Entries, entry.ctx \notin BaseC[n],
         NEW ids, IdsGain(ids, n.ids, id, entry)
  PROVE  BaseGrows([n EXCEPT !.ids = ids], n, id, entry)
<1> DEFINE x == [n EXCEPT !.ids = ids]
<1>1. ids \in Seq(IdNodes) /\ Apart(IdC, ids) /\ Total(IdC, ids) \subseteq Total(IdC, n.ids) \cup {entry.ctx}
  BY DEF IdsGain
<1>2. x \in BaseNodes /\ x.ids = ids /\ x.handlers = n.handlers /\ x.base = n.base
  BY <1>1 DEF GoodBases, BaseNodes
<1> HIDE DEF x
<1>3. BaseC[n] = Ctxs(n.handlers) \cup Total(IdC, n.ids) /\ Ctxs(n.handlers) \cap Total(IdC, n.ids) = {}
  BY DEF BaseC, GoodBases
<1>4. x \in GoodBases
  BY <1>1, <1>2, <1>3 DEF GoodBases
<1>5. BaseC[x] \subseteq BaseC[n] \cup {entry.ctx}
  BY <1>1, <1>2, <1>3, <1>4 DEF BaseC
<1>6. ASSUME NEW ev \in Events
      PROVE  Grows(n.base = ev[1] /\ id \in {ANY, ev[2]}, BaseSeg(ev)[x], BaseSeg(ev)[n], entry)
  <2>1. BaseSeg(ev)[x] = IF n.base # ev[1] THEN <<>> ELSE n.handlers \o Cat(IdSeg(ev), ids)
    BY <1>2, <1>4 DEF BaseSeg
  <2>2. BaseSeg(ev)[n] = IF n.base # ev[1] THEN <<>> ELSE n.handlers \o Cat(IdSeg(ev), n.ids)
    BY DEF BaseSeg
  <2>3. Grows(id = ev[2], Cat(IdSeg(ev), ids), Cat(IdSeg(ev), n.ids), entry)
    BY DEF IdsGain
  <2>4. id \in {ANY, ev[2]} <=> id = ev[2]
    BY AnyAssumption
  <2>5. CASE n.base # ev[1]
    <3>1. <<>> \o <<>> = <<>>
      BY EmptySeq, ConcatEmptySeq
    <3> QED
      BY <2>1, <2>2, <2>5, <3>1 DEF Grows, Only
  <2>6. CASE n.base = ev[1]
    <3> DEFINE a == n.handlers
               b == Cat(IdSeg(ev), n.ids)
               y == Only(id = ev[2], entry)
    <3>1. a \in Seq(Entries) /\ b \in Seq(Entries) /\ y \in Seq(Entries)
      BY NodesAre, SegsMap, CatMaps, OnlyTyped
    <3>2. Cat(IdSeg(ev), ids) = b \o y
      BY <2>3 DEF Grows
    <3>3. y = Only(n.base = ev[1] /\ id \in {ANY, ev[2]}, entry)
      BY <2>4, <2>6 DEF Only
    <3> HIDE DEF a, b, y
    <3>4. a \o (b \o y) = (a \o b) \o y
      BY <3>1, JoinEntries
    <3> QED
      BY <2>1, <2>2, <2>6, <3>2, <3>3, <3>4 DEF Grows, a, b
  <2> QED
    BY <2>5, <2>6
<1>7. id # ANY /\ n \in BaseNodes
  BY AnyAssumption, NodesAre
<1>8. entry \in BaseHolds(id)[x] /\ \A other : BaseHolds(other)[n] \subseteq BaseHolds(other)[x]
  BY <1>2, <1>7 DEF BaseHolds, IdsGain
<1> QED
  BY <1>2, <1>4, <1>5, <1>6, <1>8 DEF BaseGrows, x

(* A new id node at the end *)
LEMMA IdsAppend ==
  ASSUME NEW old \in Seq(IdNodes), Apart(IdC, old), NEW id \in Ids, NEW entry \in Entries,
         entry.ctx \notin Total(IdC, old)
  PROVE  IdsGain(Append(old, [id |-> id, handlers |-> <<entry>>]), old, id, entry)
<1> DEFINE x == [id |-> id, handlers |-> <<entry>>]
           ids == Append(old, x)
<1>1. x \in IdNodes
  BY DEF IdNodes
<1>2. /\ IdC[x] = {entry.ctx} /\ IdHolds(id)[x] = {entry}
      /\ \A ev : IdSeg(ev)[x] = Only(id = ev[2], entry)
  <2>1. IdC[x] = {entry.ctx}
    BY <1>1 DEF IdC, Ctxs
  <2>2. IdHolds(id)[x] = {entry}
    BY <1>1 DEF IdHolds, Range
  <2>3. \A ev : IdSeg(ev)[x] = Only(id = ev[2], entry)
    BY <1>1 DEF IdSeg, Only
  <2> QED
    BY <2>1, <2>2, <2>3
<1> HIDE DEF x
<1>3. /\ ids \in Seq(IdNodes) /\ Apart(IdC, ids)
      /\ Total(IdC, ids) \subseteq Total(IdC, old) \cup {entry.ctx}
  BY <1>1, <1>2, ApartAppend
<1>4. ASSUME NEW ev \in Events PROVE Grows(id = ev[2], Cat(IdSeg(ev), ids), Cat(IdSeg(ev), old), entry)
  <2> DEFINE f == IdSeg(ev)
  <2>1. Maps(f, IdNodes, Seq(Entries)) /\ f[x] = Only(id = ev[2], entry)
    BY <1>2, SegsMap
  <2> HIDE DEF f
  <2>2. Cat(f, ids) = Cat(f, old) \o f[x]
    BY <1>1, <2>1, CatAppend
  <2> QED
    BY <2>1, <2>2 DEF Grows, f
<1>5. PICK p : p \notin DOMAIN old /\ OneSet(ids, old, p, x)
  BY <1>1, AppendSets
<1>6. entry \in Total(IdHolds(id), ids)
  BY <1>2, <1>5, SetHoldsMore
<1>7. \A other : Total(IdHolds(other), old) \subseteq Total(IdHolds(other), ids)
  BY <1>5, SetHoldsMore
<1> QED
  BY <1>3, <1>4, <1>6, <1>7 DEF IdsGain, x

(* A new entry in the last of the nodes with the id *)
LEMMA IdsExcept ==
  ASSUME NEW old \in Seq(IdNodes), Apart(IdC, old), NEW id \in Ids, NEW entry \in Entries,
         entry.ctx \notin Total(IdC, old), NEW p \in DOMAIN old, old[p].id = id,
         \A k \in p + 1 .. Len(old) : old[k].id # id,
         NEW x, IdGrows(x, old[p], id, entry)
  PROVE  IdsGain([old EXCEPT ![p] = x], old, id, entry)
<1> DEFINE ids == [old EXCEPT ![p] = x]
<1>1. x \in IdNodes /\ IdC[x] \subseteq IdC[old[p]] \cup {entry.ctx}
  BY DEF IdGrows
<1>2. /\ ids \in Seq(IdNodes) /\ Apart(IdC, ids)
      /\ Total(IdC, ids) \subseteq Total(IdC, old) \cup {entry.ctx}
  <2> DEFINE N == {entry.ctx}
  <2>1. IdC[x] \subseteq IdC[old[p]] \cup N /\ N \cap Total(IdC, old) = {}
    BY <1>1
  <2> HIDE DEF N
  <2>2. /\ ids \in Seq(IdNodes) /\ Apart(IdC, ids)
        /\ Total(IdC, ids) \subseteq Total(IdC, old) \cup N
    BY <1>1, <2>1, ApartChanges
  <2> QED
    BY <2>2 DEF N
<1>3. ASSUME NEW ev \in Events PROVE Grows(id = ev[2], Cat(IdSeg(ev), ids), Cat(IdSeg(ev), old), entry)
  <2> DEFINE f == IdSeg(ev)
             more == Only(id = ev[2], entry)
  <2>1. Maps(f, IdNodes, Seq(Entries)) /\ GrowsBy(f, x, old[p], more) /\ more \in Seq(Entries)
    BY SegsMap, OnlyTyped DEF IdGrows, Grows, GrowsBy
  <2>2. more = <<>> \/ NothingBehind(f, old, p)
    <3>1. CASE id # ev[2]
      BY <3>1 DEF Only
    <3>2. CASE id = ev[2]
      <4>1. \A k \in p + 1 .. Len(old) : old[k] \in IdNodes
        <5>1. p \in 1 .. Len(old) /\ Len(old) \in Nat
          BY LenProperties
        <5>2. p + 1 .. Len(old) \subseteq 1 .. Len(old)
          BY <5>1
        <5> QED
          BY <5>2, ElementOfSeq
      <4> QED
        BY <3>2, <4>1 DEF IdSeg, NothingBehind
    <3> QED
      BY <3>1, <3>2
  <2> HIDE DEF f, more
  <2> DEFINE T == IdNodes
             D == Entries
  <2>3. old \in Seq(T) /\ p \in DOMAIN old /\ x \in T /\ Maps(f, T, Seq(D)) /\ more \in Seq(D)
    BY <1>1, <2>1
  <2> HIDE DEF T, D
  <2>4. Cat(f, Put(old, p, x)) = Cat(f, old) \o more
    BY <2>1, <2>2, <2>3, CatGrows
  <2> QED
    BY <2>4 DEF Grows, f, more, Put
<1>4. OneSet(ids, old, p, x)
  BY <1>1, ExceptSets
<1>5. entry \in IdHolds(id)[x] /\ \A other : IdHolds(other)[old[p]] \subseteq IdHolds(other)[x]
  BY DEF IdGrows
<1>6. ASSUME NEW other
      PROVE  /\ Total(IdHolds(other), old) \subseteq Total(IdHolds(other), ids)
             /\ IdHolds(other)[x] \subseteq Total(IdHolds(other), ids)
  <2> DEFINE f == IdHolds(other)
  <2>1. f[old[p]] \subseteq f[x]
    BY <1>5
  <2> HIDE DEF f, ids
  <2>2. Total(f, old) \subseteq Total(f, ids) /\ f[x] \subseteq Total(f, ids)
    BY <1>4, <2>1, SetHoldsMore
  <2> QED
    BY <2>2 DEF f
<1> QED
  BY <1>2, <1>3, <1>5, <1>6 DEF IdsGain

(* base_node_add_handler.  A registration for the whole base goes to a     *)
(* node without id nodes: they would be called before it.                  *)
LEMMA BaseAddIs ==
  ASSUME NEW n \in GoodBases, NEW id \in Ids \cup {ANY}, NEW entry \in Entries,
         entry.ctx \notin BaseC[n], id = ANY => n.ids = <<>>
  PROVE  BaseGrows(BaseAdd(n, id, entry, FALSE), n, id, entry)
<1> DEFINE same == Positions(n.ids, LAMBDA m : m.id = id)
           x == BaseAdd(n, id, entry, FALSE)
<1>1. /\ n \in BaseNodes /\ n.handlers \in Seq(Entries) /\ n.ids \in Seq(IdNodes) /\ Apart(IdC, n.ids)
      /\ BaseC[n] = Ctxs(n.handlers) \cup Total(IdC, n.ids)
      /\ DOMAIN n.ids = 1 .. Len(n.ids) /\ Len(n.ids) \in Nat
  BY NodesAre, LenProperties DEF GoodBases, BaseC
<1>2. same \subseteq DOMAIN n.ids /\ \A k \in DOMAIN n.ids : k \in same <=> n.ids[k].id = id
  BY DEF Positions
<1>3. CASE id = ANY
  <2> DEFINE l == HandlersAdd(n.handlers, entry, FALSE)
  <2>1. x = [n EXCEPT !.handlers = l]
    BY <1>3 DEF BaseAdd
  <2>2. /\ l = n.handlers \o <<entry>> /\ l \in Seq(Entries)
        /\ Ctxs(l) = Ctxs(n.handlers) \cup {entry.ctx} /\ Range(l) = Range(n.handlers) \cup {entry}
    BY <1>1, HandlersGrow
  <2> HIDE DEF x, l
  <2>3. x \in BaseNodes /\ x.handlers = l /\ x.ids = <<>> /\ x.base = n.base
    BY <1>1, <1>3, <2>1, <2>2 DEF BaseNodes
  <2>4. /\ Total(IdC, <<>>) = {} /\ Apart(IdC, <<>>) /\ n.ids = <<>>
        /\ \A f : Total(f, <<>>) = {} /\ Cat(f, <<>>) = <<>>
    BY <1>3, EmptyList
  <2>5. x \in GoodBases /\ BaseC[x] \subseteq BaseC[n] \cup {entry.ctx}
    <3>1. x \in GoodBases
      BY <2>3, <2>4 DEF GoodBases
    <3> QED
      BY <1>1, <2>2, <2>3, <2>4, <3>1 DEF BaseC
  <2>6. ASSUME NEW ev \in Events
        PROVE  Grows(n.base = ev[1] /\ id \in {ANY, ev[2]}, BaseSeg(ev)[x], BaseSeg(ev)[n], entry)
    <3>1. l \o <<>> = l /\ n.handlers \o <<>> = n.handlers /\ <<>> \o <<>> = <<>>
      BY <1>1, <2>2, EmptySeq, ConcatEmptySeq
    <3>2. /\ BaseSeg(ev)[x] = IF n.base # ev[1] THEN <<>> ELSE l
          /\ BaseSeg(ev)[n] = IF n.base # ev[1] THEN <<>> ELSE n.handlers
      BY <2>3, <2>4, <2>5, <3>1 DEF BaseSeg
    <3> QED
      BY <1>3, <2>2, <3>1, <3>2 DEF Grows, Only
  <2>7. entry \in BaseHolds(id)[x] /\ \A other : BaseHolds(other)[n] \subseteq BaseHolds(other)[x]
    BY <1>1, <1>3, <2>2, <2>3, <2>4 DEF BaseHolds
  <2> QED
    BY <2>3, <2>5, <2>6, <2>7 DEF BaseGrows, x
<1>4. CASE id # ANY
  <2>1. id \in Ids /\ entry.ctx \notin Total(IdC, n.ids)
    BY <1>1, <1>4
  <2>2. PICK ids : x = [n EXCEPT !.ids = ids] /\ IdsGain(ids, n.ids, id, entry)
    <3>1. CASE same = {}
      <4> DEFINE ids == Append(n.ids, [id |-> id, handlers |-> <<entry>>])
      <4>1. x = [n EXCEPT !.ids = ids]
        BY <1>4, <3>1 DEF BaseAdd
      <4>2. IdsGain(ids, n.ids, id, entry)
        BY <1>1, <2>1, IdsAppend
      <4> QED
        BY <4>1, <4>2
    <3>2. CASE same # {}
      <4> DEFINE p == Max(same)
                 y == [n.ids[p] EXCEPT !.handlers = HandlersAdd(n.ids[p].handlers, entry, FALSE)]
                 ids == [n.ids EXCEPT ![p] = y]
      <4>1. x = [n EXCEPT !.ids = ids]
        BY <1>4, <3>2 DEF BaseAdd
      <4>2. p \in same /\ \A k \in same : k <= p
        <5>1. same \in SUBSET (1 .. Len(n.ids))
          BY <1>1, <1>2
        <5> HIDE DEF same
        <5> QED
          BY <1>1, <3>2, <5>1, MinMaxArePositions
      <4> HIDE DEF p, same
      <4>3. p \in DOMAIN n.ids /\ n.ids[p].id = id /\ n.ids[p] \in IdNodes
        BY <1>1, <1>2, <4>2, ElementOfSeq
      <4>4. \A k \in p + 1 .. Len(n.ids) : n.ids[k].id # id
        BY <1>1, <1>2, <4>2, <4>3
      <4>5. IdGrows(y, n.ids[p], id, entry)
        BY <4>3, IdAdd
      <4> HIDE DEF y
      <4>6. IdsGain(ids, n.ids, id, entry)
        BY <1>1, <2>1, <4>3, <4>4, <4>5, IdsExcept
      <4> QED
        BY <4>1, <4>6
    <3> QED
      BY <3>1, <3>2
  <2> HIDE DEF x
  <2>3. BaseGrows([n EXCEPT !.ids = ids], n, id, entry)
    BY <2>1, <2>2, BaseOfIds
  <2> QED
    BY <2>2, <2>3 DEF x
<1> QED
  BY <1>3, <1>4

(* What it changes in a loop node *)
LoopGrows(x, n, key, entry) ==
  /\ x \in GoodLoops /\ LoopC[x] \subseteq LoopC[n] \cup {entry.ctx}
  /\ \A ev \in Events : Grows(Reaches(key, ev), LoopSeg(ev)[x], LoopSeg(ev)[n], entry)
  /\ entry \in LoopHolds(key)[x] /\ \A other : LoopHolds(other)[n] \subseteq LoopHolds(other)[x]

(* The base nodes of a loop node grow by the new entry. *)
BasesGain(bases, old, key, entry) ==
  /\ bases \in Seq(GoodBases) /\ Apart(BaseC, bases)
  /\ Total(BaseC, bases) \subseteq Total(BaseC, old) \cup {entry.ctx}
  /\ \A ev \in Events : Grows(Reaches(key, ev), Cat(BaseSeg(ev), bases), Cat(BaseSeg(ev), old), entry)
  /\ entry \in Total(InBaseHolds(key), bases)
  /\ \A other : Total(InBaseHolds(other), old) \subseteq Total(InBaseHolds(other), bases)

LEMMA ReachesIs ==
  ASSUME NEW key \in Keys, NEW ev \in Events
  PROVE  /\ key[1] = ANY => Reaches(key, ev)
         /\ key[1] # ANY => (Reaches(key, ev) <=> key[1] = ev[1] /\ key[2] \in {ANY, ev[2]})
<1>1. 1 .. 2 = {1, 2}
  OBVIOUS
<1>2. Reaches(key, ev) <=> key[1] \in {ANY, ev[1]} /\ key[2] \in {ANY, ev[2]}
  BY <1>1 DEF Reaches
<1>3. key[1] = ANY => key[2] = ANY
  BY AnyAssumption DEF Keys, Events
<1> QED
  BY <1>2, <1>3

LEMMA LoopOfBases ==
  ASSUME NEW n \in GoodLoops, NEW key \in Keys, key[1] # ANY, NEW entry \in Entries,
         entry.ctx \notin LoopC[n], NEW bases, BasesGain(bases, n.bases, key, entry)
  PROVE  LoopGrows([n EXCEPT !.bases = bases], n, key, entry)
<1> DEFINE x == [n EXCEPT !.bases = bases]
<1>1. /\ bases \in Seq(GoodBases) /\ Apart(BaseC, bases)
      /\ Total(BaseC, bases) \subseteq Total(BaseC, n.bases) \cup {entry.ctx}
  BY DEF BasesGain
<1>2. bases \in Seq(BaseNodes)
  <2>1. GoodBases \subseteq BaseNodes
    BY NodesAre
  <2> QED
    BY <1>1, <2>1, SeqMonotonic
<1>3. x \in LoopNodes /\ x.bases = bases /\ x.handlers = n.handlers
  BY <1>2 DEF GoodLoops, LoopNodes
<1> HIDE DEF x
<1>4. /\ LoopC[n] = Ctxs(n.handlers) \cup Total(BaseC, n.bases)
      /\ Ctxs(n.handlers) \cap Total(BaseC, n.bases) = {}
  BY DEF LoopC, GoodLoops
<1>5. x \in GoodLoops
  BY <1>1, <1>3, <1>4 DEF GoodLoops
<1>6. LoopC[x] \subseteq LoopC[n] \cup {entry.ctx}
  BY <1>1, <1>3, <1>4, <1>5 DEF LoopC
<1>7. ASSUME NEW ev \in Events
      PROVE  Grows(Reaches(key, ev), LoopSeg(ev)[x], LoopSeg(ev)[n], entry)
  <2> DEFINE a == n.handlers
             b == Cat(BaseSeg(ev), n.bases)
             y == Only(Reaches(key, ev), entry)
  <2>1. LoopSeg(ev)[x] = a \o Cat(BaseSeg(ev), bases)
    BY <1>3, <1>5 DEF LoopSeg
  <2>2. LoopSeg(ev)[n] = a \o b
    BY DEF LoopSeg
  <2>3. a \in Seq(Entries) /\ b \in Seq(Entries) /\ y \in Seq(Entries)
    BY NodesAre, SegsMap, CatMaps, OnlyTyped
  <2>4. Cat(BaseSeg(ev), bases) = b \o y
    BY DEF BasesGain, Grows
  <2> HIDE DEF a, b, y
  <2>5. a \o (b \o y) = (a \o b) \o y
    BY <2>3, JoinEntries
  <2> QED
    BY <2>1, <2>2, <2>4, <2>5 DEF Grows, y
<1>8. entry \in LoopHolds(key)[x] /\ \A other : LoopHolds(other)[n] \subseteq LoopHolds(other)[x]
  <2>1. n \in LoopNodes
    BY NodesAre
  <2> QED
    BY <1>3, <2>1 DEF LoopHolds, BasesGain
<1> QED
  BY <1>5, <1>6, <1>7, <1>8 DEF LoopGrows, x

(* What is held in a base node that a step of BaseAdd makes *)
LEMMA BaseGrowsHolds ==
  ASSUME NEW n \in GoodBases, NEW key \in Keys, key[1] = n.base, NEW entry \in Entries,
         NEW x, BaseGrows(x, n, key[2], entry)
  PROVE  /\ entry \in InBaseHolds(key)[x]
         /\ \A other : InBaseHolds(other)[n] \subseteq InBaseHolds(other)[x]
<1>1. x \in BaseNodes /\ n \in BaseNodes /\ x.base = n.base
  BY NodesAre DEF BaseGrows
<1> QED
  BY <1>1 DEF BaseGrows, InBaseHolds

(* A new base node at the end *)
LEMMA BasesAppend ==
  ASSUME NEW old \in Seq(GoodBases), Apart(BaseC, old), NEW key \in Keys, key[1] # ANY,
         NEW entry \in Entries, entry.ctx \notin Total(BaseC, old)
  PROVE  BasesGain(Append(old, BaseAdd(NewBase(key[1], entry), key[2], entry, FALSE)), old, key, entry)
<1> DEFINE n == NewBase(key[1], entry)
           x == BaseAdd(n, key[2], entry, FALSE)
           bases == Append(old, x)
<1>1. key[1] \in Bases /\ key[2] \in Ids \cup {ANY}
  BY DEF Keys, Events
<1>2. n \in BaseNodes /\ n.handlers = <<>> /\ n.ids = <<>> /\ n.base = key[1]
  BY <1>1 DEF NewBase, At, BaseNodes, Entries
<1> HIDE DEF n
<1>3. /\ Total(IdC, <<>>) = {} /\ Apart(IdC, <<>>) /\ Ctxs(<<>>) = {}
      /\ \A f : Cat(f, <<>>) = <<>>
      /\ <<>> \o <<>> = <<>>
  BY EmptyList
<1>4. n \in GoodBases
  BY <1>2, <1>3 DEF GoodBases
<1>5. BaseC[n] = {} /\ \A ev : BaseSeg(ev)[n] = <<>>
  BY <1>2, <1>3, <1>4 DEF BaseC, BaseSeg
<1>6. BaseGrows(x, n, key[2], entry)
  BY <1>1, <1>2, <1>4, <1>5, BaseAddIs
<1> HIDE DEF x
<1>7. x \in GoodBases /\ BaseC[x] \subseteq {entry.ctx} /\ entry \in InBaseHolds(key)[x]
  BY <1>2, <1>4, <1>5, <1>6, BaseGrowsHolds DEF BaseGrows
<1>8. /\ bases \in Seq(GoodBases) /\ Apart(BaseC, bases)
      /\ Total(BaseC, bases) \subseteq Total(BaseC, old) \cup {entry.ctx}
  <2>1. BaseC[x] \cap Total(BaseC, old) = {}
    BY <1>7
  <2>2. /\ bases \in Seq(GoodBases) /\ Apart(BaseC, bases)
        /\ Total(BaseC, bases) \subseteq Total(BaseC, old) \cup BaseC[x]
    BY <1>7, <2>1, ApartAppend
  <2> QED
    BY <1>7, <2>2
<1>9. ASSUME NEW ev \in Events
      PROVE  Grows(Reaches(key, ev), Cat(BaseSeg(ev), bases), Cat(BaseSeg(ev), old), entry)
  <2> DEFINE f == BaseSeg(ev)
             y == Only(Reaches(key, ev), entry)
  <2>1. f[x] = <<>> \o y
    <3>1. Reaches(key, ev) <=> key[1] = ev[1] /\ key[2] \in {ANY, ev[2]}
      BY ReachesIs
    <3> QED
      BY <1>2, <1>5, <1>6, <3>1 DEF BaseGrows, Grows, Only
  <2>2. f[x] = y
    BY <2>1, OnlyTyped, ConcatEmptySeq
  <2>3. Maps(f, GoodBases, Seq(Entries))
    BY SegsMap
  <2> HIDE DEF f
  <2>4. Cat(f, bases) = Cat(f, old) \o f[x]
    BY <1>7, <2>3, CatAppend
  <2> QED
    BY <2>2, <2>4 DEF Grows, f
<1>10. PICK p : p \notin DOMAIN old /\ OneSet(bases, old, p, x)
  BY <1>7, AppendSets
<1>11. entry \in Total(InBaseHolds(key), bases)
  BY <1>7, <1>10, SetHoldsMore
<1>12. \A other : Total(InBaseHolds(other), old) \subseteq Total(InBaseHolds(other), bases)
  BY <1>10, SetHoldsMore
<1> QED
  BY <1>8, <1>9, <1>11, <1>12 DEF BasesGain, x, n

(* A new entry in the last of the nodes of the base *)
LEMMA BasesExcept ==
  ASSUME NEW old \in Seq(GoodBases), Apart(BaseC, old), NEW key \in Keys, key[1] # ANY,
         NEW entry \in Entries, entry.ctx \notin Total(BaseC, old),
         NEW p \in DOMAIN old, old[p].base = key[1],
         \A k \in p + 1 .. Len(old) : old[k].base # key[1],
         NEW x, BaseGrows(x, old[p], key[2], entry)
  PROVE  BasesGain([old EXCEPT ![p] = x], old, key, entry)
<1> DEFINE bases == [old EXCEPT ![p] = x]
<1>1. /\ x \in GoodBases /\ BaseC[x] \subseteq BaseC[old[p]] \cup {entry.ctx}
      /\ old[p] \in GoodBases
  BY ElementOfSeq, LenProperties DEF BaseGrows
<1>2. /\ bases \in Seq(GoodBases) /\ Apart(BaseC, bases)
      /\ Total(BaseC, bases) \subseteq Total(BaseC, old) \cup {entry.ctx}
  <2> DEFINE N == {entry.ctx}
  <2>1. BaseC[x] \subseteq BaseC[old[p]] \cup N /\ N \cap Total(BaseC, old) = {}
    BY <1>1
  <2> HIDE DEF N
  <2>2. /\ bases \in Seq(GoodBases) /\ Apart(BaseC, bases)
        /\ Total(BaseC, bases) \subseteq Total(BaseC, old) \cup N
    BY <1>1, <2>1, ApartChanges
  <2> QED
    BY <2>2 DEF N
<1>3. ASSUME NEW ev \in Events
      PROVE  Grows(Reaches(key, ev), Cat(BaseSeg(ev), bases), Cat(BaseSeg(ev), old), entry)
  <2> DEFINE f == BaseSeg(ev)
             more == Only(Reaches(key, ev), entry)
  <2>0. Reaches(key, ev) <=> key[1] = ev[1] /\ key[2] \in {ANY, ev[2]}
    BY ReachesIs
  <2>1. Maps(f, GoodBases, Seq(Entries)) /\ GrowsBy(f, x, old[p], more) /\ more \in Seq(Entries)
    <3>1. Grows(old[p].base = ev[1] /\ key[2] \in {ANY, ev[2]}, f[x], f[old[p]], entry)
      BY DEF BaseGrows
    <3> QED
      BY <2>0, <3>1, SegsMap, OnlyTyped DEF Grows, GrowsBy, Only
  <2>2. more = <<>> \/ NothingBehind(f, old, p)
    <3>1. CASE key[1] # ev[1]
      BY <2>0, <3>1 DEF Only
    <3>2. CASE key[1] = ev[1]
      <4>1. \A k \in p + 1 .. Len(old) : old[k] \in GoodBases
        <5>1. p \in 1 .. Len(old) /\ Len(old) \in Nat
          BY LenProperties
        <5>2. p + 1 .. Len(old) \subseteq 1 .. Len(old)
          BY <5>1
        <5> QED
          BY <5>2, ElementOfSeq
      <4> QED
        BY <3>2, <4>1 DEF BaseSeg, NothingBehind
    <3> QED
      BY <3>1, <3>2
  <2> HIDE DEF f, more
  <2>3. Cat(f, Put(old, p, x)) = Cat(f, old) \o more
    BY <1>1, <2>1, <2>2, CatGrows
  <2> QED
    BY <2>3 DEF Grows, f, more, Put
<1>4. OneSet(bases, old, p, x)
  BY <1>1, ExceptSets
<1>5. entry \in InBaseHolds(key)[x] /\ \A other : InBaseHolds(other)[old[p]] \subseteq InBaseHolds(other)[x]
  <2> DEFINE n == old[p]
  <2>1. n \in GoodBases /\ key[1] = n.base /\ BaseGrows(x, n, key[2], entry)
    BY <1>1
  <2> HIDE DEF n
  <2>2. entry \in InBaseHolds(key)[x] /\ \A other : InBaseHolds(other)[n] \subseteq InBaseHolds(other)[x]
    BY <2>1, BaseGrowsHolds
  <2> QED
    BY <2>2 DEF n
<1>6. ASSUME NEW other
      PROVE  /\ Total(InBaseHolds(other), old) \subseteq Total(InBaseHolds(other), bases)
             /\ InBaseHolds(other)[x] \subseteq Total(InBaseHolds(other), bases)
  <2> DEFINE f == InBaseHolds(other)
  <2>1. f[old[p]] \subseteq f[x]
    BY <1>5
  <2> HIDE DEF f, bases
  <2>2. Total(f, old) \subseteq Total(f, bases) /\ f[x] \subseteq Total(f, bases)
    BY <1>4, <2>1, SetHoldsMore
  <2> QED
    BY <2>2 DEF f
<1> QED
  BY <1>2, <1>3, <1>5, <1>6 DEF BasesGain

(* loop_node_add_handler.  A registration for all events goes to a node    *)
(* without base nodes.                                                     *)
LEMMA LoopAddIs ==
  ASSUME NEW n \in GoodLoops, NEW key \in Keys, NEW entry \in Entries,
         entry.ctx \notin LoopC[n], key[1] = ANY => n.bases = <<>>
  PROVE  LoopGrows(LoopAdd(n, key, entry, FALSE), n, key, entry)
<1> DEFINE same  == Positions(n.bases, LAMBDA m : m.base = key[1])
           fresh == \/ same = {}
                    \/ /\ key[2] = ANY
                       /\ \/ n.bases[Max(same)].ids # <<>>
                          \/ /\ Last(n.bases).base # key[1]
                             /\ Last(n.bases).ids # <<>>
           x == LoopAdd(n, key, entry, FALSE)
           p == Max(same)
           y == BaseAdd(n.bases[p], key[2], entry, FALSE)
<1>1. /\ n \in LoopNodes /\ n.handlers \in Seq(Entries) /\ n.bases \in Seq(GoodBases)
      /\ Apart(BaseC, n.bases) /\ LoopC[n] = Ctxs(n.handlers) \cup Total(BaseC, n.bases)
      /\ DOMAIN n.bases = 1 .. Len(n.bases) /\ Len(n.bases) \in Nat
  BY NodesAre, LenProperties DEF GoodLoops, LoopC
<1>2. same \subseteq DOMAIN n.bases /\ \A k \in DOMAIN n.bases : k \in same <=> n.bases[k].base = key[1]
  BY DEF Positions
<1>3. CASE key[1] = ANY
  <2> DEFINE l == HandlersAdd(n.handlers, entry, FALSE)
  <2>1. x = [n EXCEPT !.handlers = l]
    BY <1>3 DEF LoopAdd
  <2>2. /\ l = n.handlers \o <<entry>> /\ l \in Seq(Entries)
        /\ Ctxs(l) = Ctxs(n.handlers) \cup {entry.ctx} /\ Range(l) = Range(n.handlers) \cup {entry}
    BY <1>1, HandlersGrow
  <2> HIDE DEF x, l
  <2>3. x \in LoopNodes /\ x.handlers = l /\ x.bases = <<>> /\ n.bases = <<>>
    BY <1>1, <1>3, <2>1, <2>2 DEF LoopNodes
  <2>4. \A f : Total(f, <<>>) = {} /\ Apart(f, <<>>) /\ Cat(f, <<>>) = <<>>
    BY EmptyList
  <2>5. x \in GoodLoops
    BY <2>3, <2>4, EmptySeq DEF GoodLoops
  <2>6. LoopC[x] \subseteq LoopC[n] \cup {entry.ctx}
    BY <1>1, <2>2, <2>3, <2>4, <2>5 DEF LoopC
  <2>7. ASSUME NEW ev \in Events PROVE Grows(Reaches(key, ev), LoopSeg(ev)[x], LoopSeg(ev)[n], entry)
    <3>1. l \o <<>> = l /\ n.handlers \o <<>> = n.handlers
      BY <1>1, <2>2, ConcatEmptySeq
    <3>2. LoopSeg(ev)[x] = l /\ LoopSeg(ev)[n] = n.handlers
      BY <2>3, <2>4, <2>5, <3>1 DEF LoopSeg
    <3>3. Reaches(key, ev)
      BY <1>3, ReachesIs
    <3> QED
      BY <2>2, <3>2, <3>3 DEF Grows, Only
  <2>8. entry \in LoopHolds(key)[x] /\ \A other : LoopHolds(other)[n] \subseteq LoopHolds(other)[x]
    BY <1>1, <1>3, <2>2, <2>3, <2>4 DEF LoopHolds
  <2> QED
    BY <2>5, <2>6, <2>7, <2>8 DEF LoopGrows, x
<1>4. CASE key[1] # ANY
  <2>1. entry.ctx \notin Total(BaseC, n.bases) /\ key[2] \in Ids \cup {ANY}
    BY <1>1 DEF Keys, Events
  <2>2. PICK bases : x = [n EXCEPT !.bases = bases] /\ BasesGain(bases, n.bases, key, entry)
    <3>1. CASE fresh
      <4> DEFINE bases == Append(n.bases, BaseAdd(NewBase(key[1], entry), key[2], entry, FALSE))
      <4>1. x = [n EXCEPT !.bases = bases]
        BY <1>4, <3>1 DEF LoopAdd
      <4>2. BasesGain(bases, n.bases, key, entry)
        BY <1>1, <1>4, <2>1, BasesAppend
      <4> QED
        BY <4>1, <4>2
    <3>2. CASE ~fresh
      <4> DEFINE bases == [n.bases EXCEPT ![p] = y]
      <4>1. x = [n EXCEPT !.bases = bases]
        BY <1>4, <3>2 DEF LoopAdd
      <4>2. same # {} /\ (key[2] = ANY => n.bases[p].ids = <<>>)
        BY <3>2
      <4>3. p \in same /\ \A k \in same : k <= p
        <5>1. same \in SUBSET (1 .. Len(n.bases))
          BY <1>1, <1>2
        <5> HIDE DEF same
        <5> QED
          BY <1>1, <4>2, <5>1, MinMaxArePositions
      <4> HIDE DEF p, same
      <4>4. p \in DOMAIN n.bases /\ n.bases[p].base = key[1] /\ n.bases[p] \in GoodBases
        BY <1>1, <1>2, <4>3, ElementOfSeq
      <4>5. \A k \in p + 1 .. Len(n.bases) : n.bases[k].base # key[1]
        BY <1>1, <1>2, <4>3, <4>4
      <4>6. entry.ctx \notin BaseC[n.bases[p]]
        BY <2>1, <4>4, PartOfTotal
      <4>7. BaseGrows(y, n.bases[p], key[2], entry)
        BY <2>1, <4>2, <4>4, <4>6, BaseAddIs
      <4> HIDE DEF y
      <4>8. BasesGain(bases, n.bases, key, entry)
        BY <1>1, <1>4, <2>1, <4>4, <4>5, <4>7, BasesExcept
      <4> QED
        BY <4>1, <4>8
    <3> QED
      BY <3>1, <3>2
  <2> HIDE DEF x
  <2>3. LoopGrows([n EXCEPT !.bases = bases], n, key, entry)
    BY <1>4, <2>2, LoopOfBases
  <2> QED
    BY <2>2, <2>3 DEF x
<1> QED
  BY <1>3, <1>4

(* esp_event_handler_register_with_internal *)
NodesGain(nodes, old, key, entry) ==
  /\ Good(nodes)
  /\ \A ev \in Events : Grows(Reaches(key, ev), Cat(LoopSeg(ev), nodes), Cat(LoopSeg(ev), old), entry)
  /\ entry \in Total(LoopHolds(key), nodes)
  /\ \A other : Total(LoopHolds(other), old) \subseteq Total(LoopHolds(other), nodes)

LEMMA AddedIs ==
  ASSUME NEW old, Good(old), NEW key \in Keys, NEW entry \in Entries, entry.ctx \notin Total(LoopC, old)
  PROVE  NodesGain(Added(old, key, entry, FALSE), old, key, entry)
<1> DEFINE fresh == old = <<>> \/ (key[1] = ANY /\ Last(old).bases # <<>>)
           nodes == Added(old, key, entry, FALSE)
<1>1. old \in Seq(GoodLoops) /\ Apart(LoopC, old) /\ DOMAIN old = 1 .. Len(old) /\ Len(old) \in Nat
  BY LenProperties DEF Good
<1>2. CASE fresh
  <2> DEFINE n == NewLoop(entry)
             x == LoopAdd(n, key, entry, FALSE)
  <2>1. nodes = Append(old, x)
    BY <1>2 DEF Added
  <2>2. n \in LoopNodes /\ n.handlers = <<>> /\ n.bases = <<>>
    BY DEF NewLoop, At, LoopNodes, Entries
  <2> HIDE DEF n
  <2>3. n \in GoodLoops /\ LoopC[n] = {} /\ \A ev : LoopSeg(ev)[n] = <<>>
    <3>1. n \in GoodLoops
      BY <2>2, EmptyList, EmptySeq DEF GoodLoops
    <3>2. LoopC[n] = {}
      BY <2>2, <3>1, EmptyList DEF LoopC
    <3>3. \A ev : LoopSeg(ev)[n] = <<>>
      BY <2>2, <3>1, EmptyList DEF LoopSeg
    <3> QED
      BY <3>1, <3>2, <3>3
  <2>4. LoopGrows(x, n, key, entry)
    BY <2>2, <2>3, LoopAddIs
  <2> HIDE DEF x, nodes
  <2>5. x \in GoodLoops /\ LoopC[x] \subseteq {entry.ctx} /\ entry \in LoopHolds(key)[x]
    BY <2>3, <2>4 DEF LoopGrows
  <2>6. Good(nodes)
    <3>1. LoopC[x] \cap Total(LoopC, old) = {}
      BY <2>5
    <3>2. Append(old, x) \in Seq(GoodLoops) /\ Apart(LoopC, Append(old, x))
      BY <1>1, <2>5, <3>1, ApartAppend
    <3> QED
      BY <2>1, <3>2 DEF Good
  <2>7. ASSUME NEW ev \in Events
        PROVE  Grows(Reaches(key, ev), Cat(LoopSeg(ev), nodes), Cat(LoopSeg(ev), old), entry)
    <3> DEFINE f == LoopSeg(ev)
               y == Only(Reaches(key, ev), entry)
    <3>1. f[x] = <<>> \o y
      BY <2>3, <2>4 DEF LoopGrows, Grows
    <3>2. f[x] = y
      BY <3>1, OnlyTyped, ConcatEmptySeq
    <3>3. Maps(f, GoodLoops, Seq(Entries))
      BY SegsMap
    <3> HIDE DEF f
    <3>4. Cat(f, Append(old, x)) = Cat(f, old) \o f[x]
      BY <1>1, <2>5, <3>3, CatAppend
    <3> QED
      BY <2>1, <3>2, <3>4 DEF Grows, f
  <2>8. PICK p : p \notin DOMAIN old /\ OneSet(nodes, old, p, x)
    BY <1>1, <2>1, <2>5, AppendSets
  <2>9. entry \in Total(LoopHolds(key), nodes)
    BY <2>5, <2>8, SetHoldsMore
  <2>10. \A other : Total(LoopHolds(other), old) \subseteq Total(LoopHolds(other), nodes)
    BY <2>8, SetHoldsMore
  <2> QED
    BY <2>6, <2>7, <2>9, <2>10 DEF NodesGain, nodes
<1>3. CASE ~fresh
  <2> DEFINE p == Len(old)
             n == old[p]
             x == LoopAdd(n, key, entry, FALSE)
  <2>1. nodes = [old EXCEPT ![p] = x]
    BY <1>3 DEF Added
  <2>2. p \in DOMAIN old /\ n \in GoodLoops /\ (key[1] = ANY => n.bases = <<>>)
    <3>1. p \in DOMAIN old
      BY <1>1, <1>3, EmptySeq
    <3>2. n \in GoodLoops
      BY <1>1, <3>1, ElementOfSeq
    <3>3. Last(old) = n
      BY DEF Last
    <3> QED
      BY <1>3, <3>1, <3>2, <3>3
  <2>3. entry.ctx \notin LoopC[n]
    BY <2>2, PartOfTotal
  <2> HIDE DEF n
  <2>4. LoopGrows(x, n, key, entry)
    BY <2>2, <2>3, LoopAddIs
  <2> HIDE DEF x, nodes, p
  <2>5. x \in GoodLoops /\ entry \in LoopHolds(key)[x]
    BY <2>4 DEF LoopGrows
  <2>6. Good(nodes)
    <3> DEFINE N == {entry.ctx}
    <3>1. LoopC[x] \subseteq LoopC[old[p]] \cup N /\ N \cap Total(LoopC, old) = {}
      BY <2>4 DEF LoopGrows, n
    <3> HIDE DEF N
    <3>2. [old EXCEPT ![p] = x] \in Seq(GoodLoops) /\ Apart(LoopC, [old EXCEPT ![p] = x])
      BY <1>1, <2>2, <2>5, <3>1, ApartChanges
    <3> QED
      BY <2>1, <3>2 DEF Good
  <2>7. ASSUME NEW ev \in Events
        PROVE  Grows(Reaches(key, ev), Cat(LoopSeg(ev), nodes), Cat(LoopSeg(ev), old), entry)
    <3> DEFINE f == LoopSeg(ev)
               more == Only(Reaches(key, ev), entry)
    <3>1. Maps(f, GoodLoops, Seq(Entries)) /\ GrowsBy(f, x, old[p], more) /\ more \in Seq(Entries)
      BY <2>4, SegsMap, OnlyTyped DEF LoopGrows, Grows, GrowsBy, n
    <3>2. NothingBehind(f, old, p)
      BY <1>1 DEF NothingBehind, p
    <3> HIDE DEF f, more
    <3>3. Cat(f, Put(old, p, x)) = Cat(f, old) \o more
      BY <1>1, <2>2, <2>5, <3>1, <3>2, CatGrows
    <3> QED
      BY <2>1, <3>3 DEF Grows, f, more, Put
  <2>8. OneSet(nodes, old, p, x)
    BY <1>1, <2>1, <2>2, <2>5, ExceptSets
  <2>9. ASSUME NEW other
        PROVE  /\ Total(LoopHolds(other), old) \subseteq Total(LoopHolds(other), nodes)
               /\ LoopHolds(other)[x] \subseteq Total(LoopHolds(other), nodes)
    <3> DEFINE f == LoopHolds(other)
    <3>1. f[old[p]] \subseteq f[x]
      BY <2>4 DEF LoopGrows, n
    <3> HIDE DEF f
    <3>2. Total(f, old) \subseteq Total(f, nodes) /\ f[x] \subseteq Total(f, nodes)
      BY <2>8, <3>1, SetHoldsMore
    <3> QED
      BY <3>2 DEF f
  <2> QED
    BY <2>5, <2>6, <2>7, <2>9 DEF NodesGain, nodes
<1> QED
  BY <1>2, <1>3

-----------------------------------------------------------------------------
(* A removal where nothing matches removes nothing and says so.            *)

Miss(node) == [ok |-> FALSE, node |-> node]

LEMMA MissIs == \A node : Miss(node).ok = FALSE /\ Miss(node).node = node
BY DEF Miss

LEMMA HandlersMiss ==
  ASSUME NEW node, NEW match, Range(node.handlers) \cap match = {}
  PROVE  HandlersRemove(node, match) = Miss(node)
<1>1. Positions(node.handlers, LAMBDA e : e \in match) = {}
  BY DEF Positions, Range
<1> QED
  BY <1>1 DEF HandlersRemove, Miss

LEMMA IdsMiss ==
  ASSUME NEW node \in BaseNodes, NEW id, NEW match, Total(IdHolds(id), node.ids) \cap match = {}
  PROVE  IdsRemove(node, id, match) = Miss(node)
<1> DEFINE old == node.ids
           after == [k \in DOMAIN old |-> IdRemove(old[k], id, match)]
<1>1. old \in Seq(IdNodes) /\ \A k \in DOMAIN old : old[k] \in IdNodes
  BY LenProperties, ElementOfSeq DEF BaseNodes
<1>2. ASSUME NEW k \in DOMAIN old PROVE after[k] = Miss(old[k])
  <2>1. CASE old[k].id = id
    <3>1. IdHolds(id)[old[k]] = Range(old[k].handlers)
      BY <1>1, <2>1 DEF IdHolds
    <3>2. Range(old[k].handlers) \cap match = {}
      BY <3>1, PartOfTotal
    <3> QED
      BY <2>1, <3>2, HandlersMiss DEF IdRemove
  <2>2. CASE old[k].id # id
    BY <2>2 DEF IdRemove, Miss
  <2> QED
    BY <2>1, <2>2
<1>3. Nowhere(old, after)
  <2> HIDE DEF after
  <2> QED
    BY <1>2, MissIs DEF Nowhere
<1>4. Walk(old, after) = [ok |-> FALSE, list |-> old]
  <2> HIDE DEF after
  <2> QED
    BY <1>1, <1>3, WalkNone
<1>5. [node EXCEPT !.ids = old] = node
  BY DEF BaseNodes
<1> DEFINE sub == Walk(old, after)
<1>6. IdsRemove(node, id, match) = [ok |-> sub.ok, node |-> [node EXCEPT !.ids = sub.list]]
  BY DEF IdsRemove
<1>7. sub.ok = FALSE /\ sub.list = old
  BY <1>4
<1> HIDE DEF sub
<1> QED
  BY <1>5, <1>6, <1>7 DEF Miss

LEMMA BaseMiss ==
  ASSUME NEW node \in BaseNodes, NEW id, NEW match, BaseHolds(id)[node] \cap match = {}
  PROVE  BaseRemove(node, id, match) = Miss(node)
<1>1. CASE id = ANY
  BY <1>1, HandlersMiss DEF BaseRemove, BaseHolds
<1>2. CASE id # ANY
  BY <1>2, IdsMiss DEF BaseRemove, BaseHolds
<1> QED
  BY <1>1, <1>2

LEMMA LoopMiss ==
  ASSUME NEW node \in LoopNodes, NEW key, NEW match, LoopHolds(key)[node] \cap match = {}
  PROVE  LoopRemove(node, key, match) = Miss(node)
<1> DEFINE old == node.bases
           after == [k \in DOMAIN old |->
                       IF old[k].base = key[1] THEN BaseRemove(old[k], key[2], match)
                       ELSE [ok |-> FALSE, node |-> old[k]]]
<1>1. CASE key[1] = ANY
  BY <1>1, HandlersMiss DEF LoopRemove, LoopHolds
<1>2. CASE key[1] # ANY
  <2>1. old \in Seq(BaseNodes) /\ \A k \in DOMAIN old : old[k] \in BaseNodes
    BY LenProperties, ElementOfSeq DEF LoopNodes
  <2>2. Total(InBaseHolds(key), old) \cap match = {}
    BY <1>2 DEF LoopHolds
  <2>3. ASSUME NEW k \in DOMAIN old PROVE after[k] = Miss(old[k])
    <3>1. CASE old[k].base = key[1]
      <4>1. InBaseHolds(key)[old[k]] = BaseHolds(key[2])[old[k]]
        BY <2>1, <3>1 DEF InBaseHolds
      <4>2. BaseHolds(key[2])[old[k]] \cap match = {}
        BY <2>2, <4>1, PartOfTotal
      <4> QED
        BY <2>1, <3>1, <4>2, BaseMiss
    <3>2. CASE old[k].base # key[1]
      BY <3>2 DEF Miss
    <3> QED
      BY <3>1, <3>2
  <2>4. Nowhere(old, after)
    <3> HIDE DEF after
    <3> QED
      BY <2>3, MissIs DEF Nowhere
  <2>5. Walk(old, after) = [ok |-> FALSE, list |-> old]
    <3> HIDE DEF after
    <3> QED
      BY <2>1, <2>4, WalkNone
  <2>6. [node EXCEPT !.bases = old] = node
    BY DEF LoopNodes
  <2>7. LoopRemove(node, key, match) = BasesRemove(node, key, match)
    BY <1>2 DEF LoopRemove
  <2> DEFINE sub == Walk(old, after)
  <2>8. BasesRemove(node, key, match) = [ok |-> sub.ok, node |-> [node EXCEPT !.bases = sub.list]]
    BY DEF BasesRemove
  <2>9. sub.ok = FALSE /\ sub.list = old
    BY <2>5
  <2> HIDE DEF sub
  <2> QED
    BY <2>6, <2>7, <2>8, <2>9 DEF Miss
<1> QED
  BY <1>1, <1>2

LEMMA RemovedMiss ==
  ASSUME NEW nodes \in Seq(LoopNodes), NEW key, NEW match, Total(LoopHolds(key), nodes) \cap match = {}
  PROVE  Removed(nodes, key, match) = nodes
<1> DEFINE after == [k \in DOMAIN nodes |-> LoopRemove(nodes[k], key, match)]
<1>1. \A k \in DOMAIN nodes : nodes[k] \in LoopNodes
  BY LenProperties, ElementOfSeq
<1>2. \A k \in DOMAIN nodes : LoopHolds(key)[nodes[k]] \cap match = {}
  BY PartOfTotal
<1>3. \A k \in DOMAIN nodes : after[k] = Miss(nodes[k])
  BY <1>1, <1>2, LoopMiss
<1> HIDE DEF after
<1>4. Nowhere(nodes, after)
  BY <1>3, MissIs DEF Nowhere
<1>5. Walk(nodes, after) = [ok |-> FALSE, list |-> nodes]
  BY <1>4, WalkNone
<1> QED
  BY <1>5 DEF Removed, after

-----------------------------------------------------------------------------
(* A removal at the key at which a context is registered                   *)

OfCtx(c) == {e \in Entries : e.ctx = c}
CutWhere(P, new, old, c) == IF P THEN Cut(new, old, c) ELSE new = old

(* What matches is what has the context, as far as the node holds it.      *)
Meant(match, c, H) == match \subseteq OfCtx(c) /\ H \cap OfCtx(c) \subseteq match

(* What is in a list but for what has the context stays in it. *)
LEMMA WalkHolds ==
  ASSUME NEW T, NEW old \in Seq(T), NEW after, NEW p \in DOMAIN old, after[p].node \in T,
         OnlyAt(p, old, after), NEW f, NEW S, f[old[p]] \subseteq f[after[p].node] \cup S,
         \A n \in T : Empty(n) => f[n] = {}
  PROVE  Total(f, old) \subseteq Total(f, Walk(old, after).list) \cup S
<1> DEFINE r == Walk(old, after).list
<1>1. DOMAIN old = 1 .. Len(old) /\ \A k \in DOMAIN old : old[k] \in T
  BY LenProperties, ElementOfSeq
<1>2. \A k \in 1 .. Len(old) : after[k].node \in T
  BY <1>1 DEF OnlyAt
<1> HIDE DEF r
<1>3. r \in Seq(T) /\ WalkLeaves(r, old, after)
  BY <1>2, WalkIs DEF r
<1>4. DOMAIN r = 1 .. Len(r)
  BY <1>3, LenProperties
<1>5. PICK from \in [1 .. Len(r) -> 1 .. Len(old)] :
        /\ \A k \in 1 .. Len(r) : r[k] = old[from[k]] \/ r[k] = after[from[k]].node
        /\ \A k \in 1 .. Len(old) :
             \/ after[k].ok /\ Empty(after[k].node)
             \/ \E j \in 1 .. Len(r) : from[j] = k
  BY <1>3 DEF WalkLeaves
<1>6. \A k \in 1 .. Len(old) : f[old[k]] \subseteq f[after[k].node] \cup S
  BY <1>1 DEF OnlyAt
<1> SUFFICES ASSUME NEW k \in 1 .. Len(old), NEW y \in f[old[k]], y \notin S PROVE y \in Total(f, r)
  BY <1>1 DEF Total, r
<1>7. y \in f[after[k].node]
  BY <1>6
<1>8. PICK j \in 1 .. Len(r) : from[j] = k
  BY <1>2, <1>5, <1>7
<1>9. y \in f[r[j]]
  BY <1>5, <1>7, <1>8
<1> QED
  BY <1>4, <1>9 DEF Total

(* What is cut in one node is cut in the list. *)
LEMMA WalkCutsWhere ==
  ASSUME NEW T, NEW f, Maps(f, T, Seq(Entries)), NEW s \in Seq(T), NEW after, NEW p \in DOMAIN s,
         after[p].node \in T, OnlyAt(p, s, after),
         \A n \in T : Empty(n) => f[n] = <<>>,
         NEW c, \A k \in 1 .. p - 1 : f[s[k]] \in Seq(Others(c)),
         NEW P, CutWhere(P, f[after[p].node], f[s[p]], c)
  PROVE  CutWhere(P, Cat(f, Walk(s, after).list), Cat(f, s), c)
<1>1. /\ f[after[p].node] = f[s[p]] => Cat(f, Walk(s, after).list) = Cat(f, s)
      /\ Cut(f[after[p].node], f[s[p]], c) => Cut(Cat(f, Walk(s, after).list), Cat(f, s), c)
  BY WalkCuts
<1> QED
  BY <1>1 DEF CutWhere

(* handler_instances_remove cuts the entry out of the handlers. *)
WithHandlers(node, l) == [node EXCEPT !.handlers = l]
HandlersCuts(new, old, c) ==
  /\ new \in Seq(Entries) /\ Cut(new, old, c) /\ Ctxs(new) \subseteq Ctxs(old)
  /\ Range(old) \subseteq Range(new) \cup OfCtx(c)

LEMMA HandlersCut ==
  ASSUME NEW node, node.handlers \in Seq(Entries), NEW match, NEW c,
         Meant(match, c, Range(node.handlers)), c \in Ctxs(node.handlers)
  PROVE  \E l : /\ HandlersCuts(l, node.handlers, c)
                /\ HandlersRemove(node, match).node = WithHandlers(node, l)
<1> DEFINE old == node.handlers
           found == Positions(old, LAMBDA e : e \in match)
           p == Min(found)
           l == RemoveAt(old, p)
<1>1. DOMAIN old = 1 .. Len(old) /\ Len(old) \in Nat /\ \A k \in DOMAIN old : old[k] \in Entries
  BY LenProperties, ElementOfSeq
<1>2. found \subseteq DOMAIN old /\ \A k \in DOMAIN old : k \in found <=> old[k] \in match
  BY DEF Positions
<1>3. \A k \in DOMAIN old : old[k] \in match <=> old[k].ctx = c
  BY <1>1 DEF Meant, OfCtx, Range
<1>4. found # {}
  BY <1>2, <1>3 DEF Ctxs
<1>5. HandlersRemove(node, match).node = WithHandlers(node, l)
  BY <1>4 DEF HandlersRemove, WithHandlers
<1>6. p \in found /\ \A k \in found : p <= k
  <2>1. found \in SUBSET (1 .. Len(old))
    BY <1>1, <1>2
  <2> HIDE DEF found
  <2> QED
    BY <1>1, <1>4, <2>1, MinMaxArePositions
<1> HIDE DEF p, found
<1> DEFINE a == SubSeq(old, 1, p - 1)
           b == SubSeq(old, p + 1, Len(old))
<1>7. p \in DOMAIN old /\ old[p] \in Entries /\ old[p].ctx = c
  BY <1>1, <1>2, <1>3, <1>6
<1>8. Split(old, p, Entries, a, b)
  BY <1>7, SplitAt
<1>9. l = a \o b
  BY DEF RemoveAt
<1> HIDE DEF a, b, l
<1>10. /\ a \in Seq(Entries) /\ Len(a) = p - 1 /\ b \in Seq(Entries)
       /\ \A k \in 1 .. p - 1 : a[k] = old[k]
       /\ old = (a \o <<old[p]>>) \o b
  <2>1. old = [old EXCEPT ![p] = old[p]]
    BY <1>7
  <2>2. [old EXCEPT ![p] = old[p]] = (a \o <<old[p]>>) \o b
    BY <1>7, <1>8 DEF Split
  <2> QED
    BY <1>8, <2>1, <2>2 DEF Split
<1>11. a \in Seq(Others(c))
  <2>1. \A k \in 1 .. p - 1 : k \in DOMAIN old /\ old[k].ctx # c
    BY <1>1, <1>2, <1>3, <1>6, <1>7
  <2>2. \A k \in 1 .. Len(a) : a[k] \in Others(c)
    BY <1>1, <1>10, <2>1 DEF Others
  <2>3. a = [k \in 1 .. Len(a) |-> a[k]] /\ Len(a) \in Nat
    BY <1>10, IsASeq, LenProperties
  <2> QED
    BY <2>2, <2>3
<1>12. Cut(l, old, c)
  BY <1>7, <1>9, <1>10, <1>11 DEF Cut
<1>13. /\ l \in Seq(Entries) /\ Len(l) = Len(old) - 1
       /\ \A j \in 1 .. Len(old) - 1 : l[j] = IF j < p THEN old[j] ELSE old[j + 1]
  BY <1>1, <1>7, RemoveAtIs DEF l
<1>14. DOMAIN l = 1 .. Len(old) - 1
  BY <1>13, LenProperties
<1>15. Ctxs(l) \subseteq Ctxs(old)
  <2>1. ASSUME NEW j \in DOMAIN l PROVE \E k \in DOMAIN old : l[j] = old[k]
    <3>1. j \in DOMAIN old /\ j + 1 \in DOMAIN old
      BY <1>1, <1>14
    <3> QED
      BY <1>13, <1>14, <3>1
  <2> QED
    BY <2>1 DEF Ctxs
<1>16. Range(old) \subseteq Range(l) \cup OfCtx(c)
  <2>1. ASSUME NEW k \in DOMAIN old, k # p PROVE \E j \in DOMAIN l : l[j] = old[k]
    <3>1. CASE k < p
      <4>1. k \in 1 .. Len(old) - 1 /\ l[k] = old[k]
        BY <1>1, <1>7, <1>13, <3>1
      <4> QED
        BY <1>14, <4>1
    <3>2. CASE ~(k < p)
      <4>1. k - 1 \in 1 .. Len(old) - 1 /\ ~(k - 1 < p) /\ (k - 1) + 1 = k
        BY <1>1, <1>7, <2>1, <3>2
      <4>2. l[k - 1] = old[k]
        BY <1>13, <4>1
      <4> QED
        BY <1>14, <4>1, <4>2
    <3> QED
      BY <3>1, <3>2
  <2>2. old[p] \in OfCtx(c)
    BY <1>7 DEF OfCtx
  <2> QED
    BY <2>1, <2>2 DEF Range
<1> QED
  BY <1>5, <1>12, <1>13, <1>15, <1>16 DEF HandlersCuts

(* What a node holds at a key are entries whose contexts are in it. *)
LEMMA HoldsAre ==
  /\ \A id : \A n \in IdNodes : \A e \in IdHolds(id)[n] : e \in Entries /\ e.ctx \in IdC[n]
  /\ \A id : \A n \in GoodBases : \A e \in BaseHolds(id)[n] : e \in Entries /\ e.ctx \in BaseC[n]
  /\ \A key : \A n \in GoodBases : \A e \in InBaseHolds(key)[n] : e \in Entries /\ e.ctx \in BaseC[n]
  /\ \A key : \A n \in GoodLoops : \A e \in LoopHolds(key)[n] : e \in Entries /\ e.ctx \in LoopC[n]
<1>0. \A l \in Seq(Entries) : \A e \in Range(l) : e \in Entries /\ e.ctx \in Ctxs(l)
  BY LenProperties, ElementOfSeq DEF Range, Ctxs
<1>1. ASSUME NEW id, NEW n \in IdNodes, NEW e \in IdHolds(id)[n] PROVE e \in Entries /\ e.ctx \in IdC[n]
  <2>1. e \in Range(n.handlers) /\ IdC[n] = Ctxs(n.handlers)
    BY DEF IdHolds, IdC
  <2> QED
    BY <1>0, <2>1, NodesAre
<1>2. ASSUME NEW id, NEW n \in GoodBases, NEW e \in BaseHolds(id)[n] PROVE e \in Entries /\ e.ctx \in BaseC[n]
  <2>1. BaseC[n] = Ctxs(n.handlers) \cup Total(IdC, n.ids) /\ n \in BaseNodes
    BY NodesAre DEF BaseC
  <2>2. CASE id = ANY
    BY <1>0, <2>1, <2>2, NodesAre DEF BaseHolds
  <2>3. CASE id # ANY
    <3>1. PICK k \in DOMAIN n.ids : e \in IdHolds(id)[n.ids[k]]
      BY <2>1, <2>3 DEF BaseHolds, Total
    <3>2. n.ids[k] \in IdNodes
      BY NodesAre, LenProperties, ElementOfSeq
    <3>3. e \in Entries /\ e.ctx \in IdC[n.ids[k]]
      BY <1>1, <3>1, <3>2
    <3> QED
      BY <2>1, <3>3, PartOfTotal
  <2> QED
    BY <2>2, <2>3
<1>3. ASSUME NEW key, NEW n \in GoodBases, NEW e \in InBaseHolds(key)[n]
      PROVE  e \in Entries /\ e.ctx \in BaseC[n]
  <2>1. e \in BaseHolds(key[2])[n]
    BY <1>3, NodesAre DEF InBaseHolds
  <2> QED
    BY <1>2, <2>1
<1>4. ASSUME NEW key, NEW n \in GoodLoops, NEW e \in LoopHolds(key)[n]
      PROVE  e \in Entries /\ e.ctx \in LoopC[n]
  <2>1. LoopC[n] = Ctxs(n.handlers) \cup Total(BaseC, n.bases) /\ n \in LoopNodes
    BY NodesAre DEF LoopC
  <2>2. CASE key[1] = ANY
    BY <1>0, <2>1, <2>2, NodesAre DEF LoopHolds
  <2>3. CASE key[1] # ANY
    <3>1. PICK k \in DOMAIN n.bases : e \in InBaseHolds(key)[n.bases[k]]
      BY <2>1, <2>3 DEF LoopHolds, Total
    <3>2. n.bases[k] \in GoodBases
      BY NodesAre, LenProperties, ElementOfSeq
    <3>3. e \in Entries /\ e.ctx \in BaseC[n.bases[k]]
      BY <1>3, <3>1, <3>2
    <3> QED
      BY <2>1, <3>3, PartOfTotal
  <2> QED
    BY <2>2, <2>3
<1> QED
  BY <1>1, <1>2, <1>3, <1>4

(* Entries among contexts without c are entries of others. *)
LEMMA AmongOthers == \A C, c : c \notin C => Seq(Among(C)) \subseteq Seq(Others(c))
<1> SUFFICES ASSUME NEW C, NEW c, c \notin C PROVE Seq(Among(C)) \subseteq Seq(Others(c))
  OBVIOUS
<1>1. Among(C) \subseteq Others(c)
  BY DEF Among, Others
<1> QED
  BY <1>1, SeqMonotonic

(* The one node of a list that has the context, and the others, in which   *)
(* nothing matches                                                         *)
Place(p, s, c, g, H, match, T) ==
  /\ p \in DOMAIN s /\ s[p] \in T /\ c \in g[s[p]] /\ (\E e \in H[s[p]] : e.ctx = c)
  /\ Meant(match, c, H[s[p]])
  /\ \A k \in DOMAIN s : k # p => s[k] \in T /\ c \notin g[s[k]] /\ H[s[k]] \cap match = {}

LEMMA PlaceExists ==
  ASSUME NEW T, NEW s \in Seq(T), NEW g, Apart(g, s), NEW H,
         \A n \in T : \A e \in H[n] : e \in Entries /\ e.ctx \in g[n],
         NEW c, \E e \in Total(H, s) : e.ctx = c, NEW match, Meant(match, c, Total(H, s))
  PROVE  \E p : Place(p, s, c, g, H, match, T)
<1>1. PICK p \in DOMAIN s : \E e \in H[s[p]] : e.ctx = c
  BY DEF Total
<1>2. \A k \in DOMAIN s : s[k] \in T
  BY LenProperties, ElementOfSeq
<1>3. c \in g[s[p]]
  BY <1>1, <1>2
<1>4. ASSUME NEW k \in DOMAIN s, k # p PROVE c \notin g[s[k]] /\ H[s[k]] \cap match = {}
  <2>1. c \notin g[s[k]]
    BY <1>3, <1>4 DEF Apart
  <2> QED
    BY <1>2, <2>1 DEF Meant, OfCtx
<1>5. Meant(match, c, H[s[p]])
  BY <1>1, PartOfTotal DEF Meant
<1> QED
  BY <1>1, <1>2, <1>3, <1>4, <1>5 DEF Place

(* A removal at one id *)
IdCuts(x, n, id, c) ==
  /\ x \in IdNodes /\ IdC[x] \subseteq IdC[n]
  /\ \A ev \in Events : CutWhere(id = ev[2], IdSeg(ev)[x], IdSeg(ev)[n], c)
  /\ IdHolds(id)[n] \subseteq IdHolds(id)[x] \cup OfCtx(c)

LEMMA IdCut ==
  ASSUME NEW n \in IdNodes, NEW id, NEW c, \E e \in IdHolds(id)[n] : e.ctx = c,
         NEW match, Meant(match, c, IdHolds(id)[n])
  PROVE  IdCuts(IdRemove(n, id, match).node, n, id, c)
<1>1. n.id = id /\ IdHolds(id)[n] = Range(n.handlers) /\ n.handlers \in Seq(Entries)
  BY NodesAre DEF IdHolds
<1>2. c \in Ctxs(n.handlers) /\ Meant(match, c, Range(n.handlers))
  BY <1>1 DEF Range, Ctxs
<1>3. PICK l : /\ HandlersCuts(l, n.handlers, c)
               /\ HandlersRemove(n, match).node = WithHandlers(n, l)
  BY <1>1, <1>2, HandlersCut
<1> DEFINE x == [n EXCEPT !.handlers = l]
<1>4. IdRemove(n, id, match).node = x
  BY <1>1, <1>3 DEF IdRemove, WithHandlers
<1>5. x \in IdNodes /\ x.handlers = l /\ x.id = n.id
  BY <1>3 DEF IdNodes, HandlersCuts
<1> HIDE DEF x
<1>6. IdC[x] \subseteq IdC[n]
  BY <1>3, <1>5 DEF IdC, HandlersCuts
<1>7. ASSUME NEW ev \in Events PROVE CutWhere(id = ev[2], IdSeg(ev)[x], IdSeg(ev)[n], c)
  BY <1>1, <1>3, <1>5 DEF CutWhere, IdSeg, HandlersCuts
<1>8. IdHolds(id)[n] \subseteq IdHolds(id)[x] \cup OfCtx(c)
  BY <1>1, <1>3, <1>5 DEF IdHolds, HandlersCuts
<1> QED
  BY <1>4, <1>5, <1>6, <1>7, <1>8 DEF IdCuts

(* ... in the list of the ids of a base *)
IdsCut(new, old, id, c) ==
  /\ new \in Seq(IdNodes) /\ Apart(IdC, new) /\ Total(IdC, new) \subseteq Total(IdC, old)
  /\ \A ev \in Events : CutWhere(id = ev[2], Cat(IdSeg(ev), new), Cat(IdSeg(ev), old), c)
  /\ Total(IdHolds(id), old) \subseteq Total(IdHolds(id), new) \cup OfCtx(c)

LEMMA IdsRemoveCuts ==
  ASSUME NEW old \in Seq(IdNodes), Apart(IdC, old), NEW id, NEW c,
         \E e \in Total(IdHolds(id), old) : e.ctx = c,
         NEW match, Meant(match, c, Total(IdHolds(id), old)),
         NEW after, after = [k \in DOMAIN old |-> IdRemove(old[k], id, match)]
  PROVE  IdsCut(Walk(old, after).list, old, id, c)
<1> DEFINE new == Walk(old, after).list
           T == IdNodes
           g == IdC
           H == IdHolds(id)
<1>1. PICK p : Place(p, old, c, g, H, match, T)
  <2>1. \A n \in T : \A e \in H[n] : e \in Entries /\ e.ctx \in g[n]
    BY HoldsAre
  <2>2. old \in Seq(T) /\ Apart(g, old) /\ (\E e \in Total(H, old) : e.ctx = c) /\ Meant(match, c, Total(H, old))
    OBVIOUS
  <2> HIDE DEF T, g, H
  <2> QED
    BY <2>1, <2>2, PlaceExists
<1>2. p \in DOMAIN old /\ old[p] \in IdNodes
  BY <1>1 DEF Place
<1>3. OnlyAt(p, old, after)
  <2> SUFFICES ASSUME NEW k \in DOMAIN old, k # p
               PROVE  after[k].ok = FALSE /\ after[k].node = old[k]
    BY DEF OnlyAt
  <2>1. old[k] \in IdNodes /\ IdHolds(id)[old[k]] \cap match = {}
    BY <1>1 DEF Place
  <2>2. CASE old[k].id = id
    <3>1. Range(old[k].handlers) \cap match = {}
      BY <2>1, <2>2 DEF IdHolds
    <3>2. after[k] = Miss(old[k])
      BY <2>2, <3>1, HandlersMiss DEF IdRemove
    <3> QED
      BY <3>2, MissIs
  <2>3. CASE old[k].id # id
    BY <2>3 DEF IdRemove
  <2> QED
    BY <2>2, <2>3
<1> DEFINE x == after[p].node
<1>4. IdCuts(x, old[p], id, c)
  <2>1. (\E e \in IdHolds(id)[old[p]] : e.ctx = c) /\ Meant(match, c, IdHolds(id)[old[p]])
    BY <1>1 DEF Place
  <2>2. IdCuts(IdRemove(old[p], id, match).node, old[p], id, c)
    BY <1>2, <2>1, IdCut
  <2> QED
    BY <1>2, <2>2
<1>5. x \in T /\ g[x] \subseteq g[old[p]] /\ H[old[p]] \subseteq H[x] \cup OfCtx(c)
  BY <1>4 DEF IdCuts
<1>6. new \in Seq(T) /\ Apart(g, new) /\ Total(g, new) \subseteq Total(g, old)
  <2> HIDE DEF T, g
  <2> QED
    BY <1>2, <1>3, <1>5, WalkKeepsApart DEF T, g
<1>7. Total(H, old) \subseteq Total(H, new) \cup OfCtx(c)
  <2>1. \A n \in T : Empty(n) => H[n] = {}
    BY EmptyIs DEF IdHolds, Range
  <2>2. old \in Seq(T)
    OBVIOUS
  <2> DEFINE S == OfCtx(c)
  <2> HIDE DEF T, H, S
  <2> QED
    BY <1>2, <1>3, <1>5, <2>1, <2>2, WalkHolds DEF S
<1>8. ASSUME NEW ev \in Events PROVE CutWhere(id = ev[2], Cat(IdSeg(ev), new), Cat(IdSeg(ev), old), c)
  <2> DEFINE f == IdSeg(ev)
             P == id = ev[2]
  <2>1. CutWhere(P, f[x], f[old[p]], c)
    BY <1>4 DEF IdCuts
  <2>2. ASSUME NEW k \in 1 .. p - 1 PROVE f[old[k]] \in Seq(Others(c))
    <3>1. k \in DOMAIN old /\ k # p
      BY <1>2, LenProperties
    <3>2. old[k] \in IdNodes /\ c \notin IdC[old[k]]
      BY <1>1, <3>1 DEF Place
    <3>3. f[old[k]] \in Seq(Among(IdC[old[k]]))
      BY <3>2, SegsAre
    <3> QED
      BY <3>2, <3>3, AmongOthers
  <2>3. Maps(f, T, Seq(Entries)) /\ \A n \in T : Empty(n) => f[n] = <<>>
    BY SegsMap, EmptyCallsNothing
  <2>4. old \in Seq(T)
    OBVIOUS
  <2> HIDE DEF T, f, P
  <2>5. CutWhere(P, Cat(f, new), Cat(f, old), c)
    BY <1>2, <1>3, <1>5, <2>1, <2>2, <2>3, <2>4, WalkCutsWhere
  <2> QED
    BY <2>5 DEF f, P
<1> QED
  BY <1>6, <1>7, <1>8 DEF IdsCut

(* base_node_remove_handler *)
BaseCuts(x, n, id, c) ==
  /\ x \in GoodBases /\ x.base = n.base /\ BaseC[x] \subseteq BaseC[n]
  /\ \A ev \in Events :
       CutWhere(n.base = ev[1] /\ id \in {ANY, ev[2]}, BaseSeg(ev)[x], BaseSeg(ev)[n], c)
  /\ BaseHolds(id)[n] \subseteq BaseHolds(id)[x] \cup OfCtx(c)

LEMMA BaseCut ==
  ASSUME NEW n \in GoodBases, NEW id \in Ids \cup {ANY}, NEW c, \E e \in BaseHolds(id)[n] : e.ctx = c,
         NEW match, Meant(match, c, BaseHolds(id)[n])
  PROVE  BaseCuts(BaseRemove(n, id, match).node, n, id, c)
<1> DEFINE x == BaseRemove(n, id, match).node
<1>1. /\ n \in BaseNodes /\ n.handlers \in Seq(Entries) /\ n.ids \in Seq(IdNodes) /\ Apart(IdC, n.ids)
      /\ BaseC[n] = Ctxs(n.handlers) \cup Total(IdC, n.ids)
      /\ Ctxs(n.handlers) \cap Total(IdC, n.ids) = {}
  BY NodesAre DEF GoodBases, BaseC
<1>2. CASE id = ANY
  <2>1. BaseHolds(id)[n] = Range(n.handlers)
    BY <1>1, <1>2 DEF BaseHolds
  <2>2. c \in Ctxs(n.handlers) /\ Meant(match, c, Range(n.handlers))
    BY <2>1 DEF Range, Ctxs
  <2>3. PICK l : /\ HandlersCuts(l, n.handlers, c)
                 /\ HandlersRemove(n, match).node = WithHandlers(n, l)
    BY <1>1, <2>2, HandlersCut
  <2>4. x = [n EXCEPT !.handlers = l]
    BY <1>2, <2>3 DEF BaseRemove, WithHandlers
  <2> HIDE DEF x
  <2>5. /\ l \in Seq(Entries) /\ Cut(l, n.handlers, c) /\ Ctxs(l) \subseteq Ctxs(n.handlers)
        /\ Range(n.handlers) \subseteq Range(l) \cup OfCtx(c)
    BY <2>3 DEF HandlersCuts
  <2>6. x \in BaseNodes /\ x.handlers = l /\ x.ids = n.ids /\ x.base = n.base
    BY <1>1, <2>4, <2>5 DEF BaseNodes
  <2>7. x \in GoodBases
    BY <1>1, <2>5, <2>6 DEF GoodBases
  <2>8. BaseC[x] \subseteq BaseC[n]
    BY <1>1, <2>5, <2>6, <2>7 DEF BaseC
  <2>9. ASSUME NEW ev \in Events
        PROVE  CutWhere(n.base = ev[1] /\ id \in {ANY, ev[2]}, BaseSeg(ev)[x], BaseSeg(ev)[n], c)
    <3> DEFINE b == Cat(IdSeg(ev), n.ids)
    <3>1. b \in Seq(Entries)
      BY <1>1, SegsMap, CatMaps
    <3>2. /\ BaseSeg(ev)[x] = IF n.base # ev[1] THEN <<>> ELSE l \o b
          /\ BaseSeg(ev)[n] = IF n.base # ev[1] THEN <<>> ELSE n.handlers \o b
      BY <2>6, <2>7 DEF BaseSeg
    <3> HIDE DEF b
    <3>3. Cut(l \o b, n.handlers \o b, c)
      BY <1>1, <2>5, <3>1, CutBefore
    <3> QED
      BY <1>2, <3>2, <3>3 DEF CutWhere
  <2>10. BaseHolds(id)[n] \subseteq BaseHolds(id)[x] \cup OfCtx(c)
    BY <1>2, <2>1, <2>5, <2>6 DEF BaseHolds
  <2> QED
    BY <2>6, <2>7, <2>8, <2>9, <2>10 DEF BaseCuts, x
<1>3. CASE id # ANY
  <2> DEFINE after == [k \in DOMAIN n.ids |-> IdRemove(n.ids[k], id, match)]
             ids == Walk(n.ids, after).list
  <2>1. BaseHolds(id)[n] = Total(IdHolds(id), n.ids)
    BY <1>1, <1>3 DEF BaseHolds
  <2>2. x = [n EXCEPT !.ids = ids]
    BY <1>3 DEF BaseRemove, IdsRemove
  <2>3. IdsCut(ids, n.ids, id, c)
    <3> DEFINE a == after
    <3>1. a = [k \in DOMAIN n.ids |-> IdRemove(n.ids[k], id, match)]
      OBVIOUS
    <3> HIDE DEF a
    <3>2. IdsCut(Walk(n.ids, a).list, n.ids, id, c)
      BY <1>1, <2>1, <3>1, IdsRemoveCuts
    <3> QED
      BY <3>2 DEF a
  <2> HIDE DEF x, ids
  <2>4. /\ ids \in Seq(IdNodes) /\ Apart(IdC, ids) /\ Total(IdC, ids) \subseteq Total(IdC, n.ids)
        /\ Total(IdHolds(id), n.ids) \subseteq Total(IdHolds(id), ids) \cup OfCtx(c)
    BY <2>3 DEF IdsCut
  <2>5. x \in BaseNodes /\ x.handlers = n.handlers /\ x.ids = ids /\ x.base = n.base
    BY <1>1, <2>2, <2>4 DEF BaseNodes
  <2>6. x \in GoodBases
    BY <1>1, <2>4, <2>5 DEF GoodBases
  <2>7. BaseC[x] \subseteq BaseC[n]
    BY <1>1, <2>4, <2>5, <2>6 DEF BaseC
  <2>8. n.handlers \in Seq(Others(c))
    <3>1. PICK k \in DOMAIN n.ids : \E e \in IdHolds(id)[n.ids[k]] : e.ctx = c
      BY <2>1 DEF Total
    <3>2. n.ids[k] \in IdNodes
      BY <1>1, LenProperties, ElementOfSeq
    <3>3. c \in IdC[n.ids[k]]
      BY <3>1, <3>2, HoldsAre
    <3>4. c \notin Ctxs(n.handlers)
      BY <1>1, <3>3, PartOfTotal
    <3>5. n.handlers \in Seq(Among(Ctxs(n.handlers)))
      BY <1>1, EntriesAmong
    <3> QED
      BY <3>4, <3>5, AmongOthers
  <2>9. ASSUME NEW ev \in Events
        PROVE  CutWhere(n.base = ev[1] /\ id \in {ANY, ev[2]}, BaseSeg(ev)[x], BaseSeg(ev)[n], c)
    <3> DEFINE a == n.handlers
               b == Cat(IdSeg(ev), n.ids)
               d == Cat(IdSeg(ev), ids)
    <3>1. a \in Seq(Others(c)) /\ b \in Seq(Entries) /\ d \in Seq(Entries)
      BY <1>1, <2>4, <2>8, SegsMap, CatMaps
    <3>2. CutWhere(id = ev[2], d, b, c)
      BY <2>3 DEF IdsCut
    <3>3. /\ BaseSeg(ev)[x] = IF n.base # ev[1] THEN <<>> ELSE a \o d
          /\ BaseSeg(ev)[n] = IF n.base # ev[1] THEN <<>> ELSE a \o b
      BY <2>5, <2>6 DEF BaseSeg
    <3> HIDE DEF a, b, d
    <3>4. Cut(d, b, c) => Cut(a \o d, a \o b, c)
      BY <3>1, CutBehind
    <3>5. id \in {ANY, ev[2]} <=> id = ev[2]
      BY <1>3
    <3> QED
      BY <3>2, <3>3, <3>4, <3>5 DEF CutWhere
  <2>10. BaseHolds(id)[n] \subseteq BaseHolds(id)[x] \cup OfCtx(c)
    BY <1>3, <2>1, <2>4, <2>5 DEF BaseHolds
  <2> QED
    BY <2>5, <2>6, <2>7, <2>9, <2>10 DEF BaseCuts, x
<1> QED
  BY <1>2, <1>3

(* ... in the list of the bases of a loop node *)
BasesCut(new, old, key, c) ==
  /\ new \in Seq(GoodBases) /\ Apart(BaseC, new) /\ Total(BaseC, new) \subseteq Total(BaseC, old)
  /\ \A ev \in Events : CutWhere(Reaches(key, ev), Cat(BaseSeg(ev), new), Cat(BaseSeg(ev), old), c)
  /\ Total(InBaseHolds(key), old) \subseteq Total(InBaseHolds(key), new) \cup OfCtx(c)

LEMMA BasesRemoveCuts ==
  ASSUME NEW old \in Seq(GoodBases), Apart(BaseC, old), NEW key \in Keys, key[1] # ANY, NEW c,
         \E e \in Total(InBaseHolds(key), old) : e.ctx = c,
         NEW match, Meant(match, c, Total(InBaseHolds(key), old)),
         NEW after, after = [k \in DOMAIN old |->
                               IF old[k].base = key[1] THEN BaseRemove(old[k], key[2], match)
                               ELSE [ok |-> FALSE, node |-> old[k]]]
  PROVE  BasesCut(Walk(old, after).list, old, key, c)
<1> DEFINE new == Walk(old, after).list
           T == GoodBases
           g == BaseC
           H == InBaseHolds(key)
<1>1. PICK p : Place(p, old, c, g, H, match, T)
  <2>1. \A n \in T : \A e \in H[n] : e \in Entries /\ e.ctx \in g[n]
    BY HoldsAre
  <2>2. old \in Seq(T) /\ Apart(g, old) /\ (\E e \in Total(H, old) : e.ctx = c) /\ Meant(match, c, Total(H, old))
    OBVIOUS
  <2> HIDE DEF T, g, H
  <2> QED
    BY <2>1, <2>2, PlaceExists
<1>2. p \in DOMAIN old /\ old[p] \in GoodBases /\ \A n \in GoodBases : n \in BaseNodes
  BY <1>1, NodesAre DEF Place
<1>3. OnlyAt(p, old, after)
  <2> SUFFICES ASSUME NEW k \in DOMAIN old, k # p
               PROVE  after[k].ok = FALSE /\ after[k].node = old[k]
    BY DEF OnlyAt
  <2>1. old[k] \in BaseNodes /\ InBaseHolds(key)[old[k]] \cap match = {}
    BY <1>1, <1>2 DEF Place
  <2>2. CASE old[k].base = key[1]
    <3>1. BaseHolds(key[2])[old[k]] \cap match = {}
      BY <2>1, <2>2 DEF InBaseHolds
    <3>2. after[k] = Miss(old[k])
      BY <2>1, <2>2, <3>1, BaseMiss
    <3> QED
      BY <3>2, MissIs
  <2>3. CASE old[k].base # key[1]
    BY <2>3
  <2> QED
    BY <2>2, <2>3
<1> DEFINE x == after[p].node
           n == old[p]
<1>4. n.base = key[1] /\ n \in GoodBases /\ n \in BaseNodes /\ InBaseHolds(key)[n] = BaseHolds(key[2])[n]
  BY <1>1, <1>2 DEF Place, InBaseHolds
<1>5. BaseCuts(x, n, key[2], c)
  <2>1. (\E e \in BaseHolds(key[2])[n] : e.ctx = c) /\ Meant(match, c, BaseHolds(key[2])[n])
    BY <1>1, <1>4 DEF Place
  <2>2. key[2] \in Ids \cup {ANY}
    BY DEF Keys, Events
  <2>3. after[p].node = BaseRemove(n, key[2], match).node
    BY <1>2, <1>4
  <2> HIDE DEF n
  <2>4. BaseCuts(BaseRemove(n, key[2], match).node, n, key[2], c)
    BY <1>4, <2>1, <2>2, BaseCut
  <2> QED
    BY <2>3, <2>4
<1>6. x \in T /\ g[x] \subseteq g[old[p]] /\ H[old[p]] \subseteq H[x] \cup OfCtx(c)
  <2>1. x \in GoodBases /\ x.base = key[1] /\ BaseC[x] \subseteq BaseC[n]
        /\ BaseHolds(key[2])[n] \subseteq BaseHolds(key[2])[x] \cup OfCtx(c)
    BY <1>4, <1>5 DEF BaseCuts
  <2> HIDE DEF x
  <2>2. InBaseHolds(key)[x] = BaseHolds(key[2])[x]
    BY <1>2, <2>1 DEF InBaseHolds
  <2> QED
    BY <1>4, <2>1, <2>2
<1>7. new \in Seq(T) /\ Apart(g, new) /\ Total(g, new) \subseteq Total(g, old)
  <2> HIDE DEF T, g
  <2> QED
    BY <1>2, <1>3, <1>6, WalkKeepsApart DEF T, g
<1>8. Total(H, old) \subseteq Total(H, new) \cup OfCtx(c)
  <2>1. \A m \in T : Empty(m) => H[m] = {}
    BY <1>2, EmptyHoldsNothing
  <2>2. old \in Seq(T)
    OBVIOUS
  <2> DEFINE S == OfCtx(c)
  <2>3. p \in DOMAIN old /\ after[p].node \in T /\ H[old[p]] \subseteq H[after[p].node] \cup S
    BY <1>2, <1>6
  <2> HIDE DEF T, H, S, n, x
  <2>4. Total(H, old) \subseteq Total(H, Walk(old, after).list) \cup S
    BY ONLY <1>3, <2>1, <2>2, <2>3, WalkHolds
  <2> QED
    BY <2>4 DEF S
<1>9. ASSUME NEW ev \in Events
      PROVE  CutWhere(Reaches(key, ev), Cat(BaseSeg(ev), new), Cat(BaseSeg(ev), old), c)
  <2> DEFINE f == BaseSeg(ev)
             P == Reaches(key, ev)
  <2>1. CutWhere(P, f[x], f[old[p]], c)
    <3>1. P <=> key[1] = ev[1] /\ key[2] \in {ANY, ev[2]}
      BY ReachesIs
    <3>2. CutWhere(n.base = ev[1] /\ key[2] \in {ANY, ev[2]}, f[x], f[n], c)
      BY <1>5 DEF BaseCuts
    <3> QED
      BY <1>4, <3>1, <3>2 DEF CutWhere
  <2>2. ASSUME NEW k \in 1 .. p - 1 PROVE f[old[k]] \in Seq(Others(c))
    <3>1. k \in DOMAIN old /\ k # p
      BY <1>2, LenProperties
    <3>2. old[k] \in GoodBases /\ c \notin BaseC[old[k]]
      BY <1>1, <3>1 DEF Place
    <3>3. f[old[k]] \in Seq(Among(BaseC[old[k]]))
      BY <3>2, SegsAre
    <3> QED
      BY <3>2, <3>3, AmongOthers
  <2>3. Maps(f, T, Seq(Entries)) /\ \A m \in T : Empty(m) => f[m] = <<>>
    BY SegsMap, EmptyCallsNothing
  <2>4. old \in Seq(T)
    OBVIOUS
  <2> HIDE DEF T, f, P
  <2>5. CutWhere(P, Cat(f, new), Cat(f, old), c)
    BY <1>2, <1>3, <1>6, <2>1, <2>2, <2>3, <2>4, WalkCutsWhere
  <2> QED
    BY <2>5 DEF f, P
<1> QED
  BY <1>7, <1>8, <1>9 DEF BasesCut

(* loop_node_remove_handler *)
LoopCuts(x, n, key, c) ==
  /\ x \in GoodLoops /\ LoopC[x] \subseteq LoopC[n]
  /\ \A ev \in Events : CutWhere(Reaches(key, ev), LoopSeg(ev)[x], LoopSeg(ev)[n], c)
  /\ LoopHolds(key)[n] \subseteq LoopHolds(key)[x] \cup OfCtx(c)

LEMMA LoopCut ==
  ASSUME NEW n \in GoodLoops, NEW key \in Keys, NEW c, \E e \in LoopHolds(key)[n] : e.ctx = c,
         NEW match, Meant(match, c, LoopHolds(key)[n])
  PROVE  LoopCuts(LoopRemove(n, key, match).node, n, key, c)
<1> DEFINE x == LoopRemove(n, key, match).node
<1>1. /\ n \in LoopNodes /\ n.handlers \in Seq(Entries) /\ n.bases \in Seq(GoodBases)
      /\ Apart(BaseC, n.bases)
      /\ LoopC[n] = Ctxs(n.handlers) \cup Total(BaseC, n.bases)
      /\ Ctxs(n.handlers) \cap Total(BaseC, n.bases) = {}
  BY NodesAre DEF GoodLoops, LoopC
<1>2. CASE key[1] = ANY
  <2>1. LoopHolds(key)[n] = Range(n.handlers)
    BY <1>1, <1>2 DEF LoopHolds
  <2>2. c \in Ctxs(n.handlers) /\ Meant(match, c, Range(n.handlers))
    BY <2>1 DEF Range, Ctxs
  <2>3. PICK l : /\ HandlersCuts(l, n.handlers, c)
                 /\ HandlersRemove(n, match).node = WithHandlers(n, l)
    BY <1>1, <2>2, HandlersCut
  <2>4. x = [n EXCEPT !.handlers = l]
    BY <1>2, <2>3 DEF LoopRemove, WithHandlers
  <2> HIDE DEF x
  <2>5. /\ l \in Seq(Entries) /\ Cut(l, n.handlers, c) /\ Ctxs(l) \subseteq Ctxs(n.handlers)
        /\ Range(n.handlers) \subseteq Range(l) \cup OfCtx(c)
    BY <2>3 DEF HandlersCuts
  <2>6. x \in LoopNodes /\ x.handlers = l /\ x.bases = n.bases
    BY <1>1, <2>4, <2>5 DEF LoopNodes
  <2>7. x \in GoodLoops
    BY <1>1, <2>5, <2>6 DEF GoodLoops
  <2>8. LoopC[x] \subseteq LoopC[n]
    BY <1>1, <2>5, <2>6, <2>7 DEF LoopC
  <2>9. ASSUME NEW ev \in Events
        PROVE  CutWhere(Reaches(key, ev), LoopSeg(ev)[x], LoopSeg(ev)[n], c)
    <3> DEFINE b == Cat(BaseSeg(ev), n.bases)
    <3>1. b \in Seq(Entries)
      BY <1>1, SegsMap, CatMaps
    <3>2. LoopSeg(ev)[x] = l \o b /\ LoopSeg(ev)[n] = n.handlers \o b
      BY <2>6, <2>7 DEF LoopSeg
    <3> HIDE DEF b
    <3>3. Cut(l \o b, n.handlers \o b, c)
      BY <1>1, <2>5, <3>1, CutBefore
    <3>4. Reaches(key, ev)
      BY <1>2, ReachesIs
    <3> QED
      BY <3>2, <3>3, <3>4 DEF CutWhere
  <2>10. LoopHolds(key)[n] \subseteq LoopHolds(key)[x] \cup OfCtx(c)
    BY <1>2, <2>1, <2>5, <2>6 DEF LoopHolds
  <2> QED
    BY <2>7, <2>8, <2>9, <2>10 DEF LoopCuts, x
<1>3. CASE key[1] # ANY
  <2> DEFINE after == [k \in DOMAIN n.bases |->
                         IF n.bases[k].base = key[1] THEN BaseRemove(n.bases[k], key[2], match)
                         ELSE [ok |-> FALSE, node |-> n.bases[k]]]
             bases == Walk(n.bases, after).list
  <2>1. LoopHolds(key)[n] = Total(InBaseHolds(key), n.bases)
    BY <1>1, <1>3 DEF LoopHolds
  <2>2. x = [n EXCEPT !.bases = bases]
    BY <1>3 DEF LoopRemove, BasesRemove
  <2>3. BasesCut(bases, n.bases, key, c)
    <3> DEFINE a == after
               old == n.bases
    <3>1. a = [k \in DOMAIN old |->
                 IF old[k].base = key[1] THEN BaseRemove(old[k], key[2], match)
                 ELSE [ok |-> FALSE, node |-> old[k]]]
      OBVIOUS
    <3>2. /\ old \in Seq(GoodBases) /\ Apart(BaseC, old)
          /\ \E e \in Total(InBaseHolds(key), old) : e.ctx = c
          /\ Meant(match, c, Total(InBaseHolds(key), old))
      BY <1>1, <2>1
    <3> HIDE DEF a, old
    <3>3. BasesCut(Walk(old, a).list, old, key, c)
      BY <1>3, <3>1, <3>2, BasesRemoveCuts
    <3> QED
      BY <3>3 DEF a, old
  <2> HIDE DEF x, bases
  <2>4. /\ bases \in Seq(GoodBases) /\ Apart(BaseC, bases) /\ Total(BaseC, bases) \subseteq Total(BaseC, n.bases)
        /\ Total(InBaseHolds(key), n.bases) \subseteq Total(InBaseHolds(key), bases) \cup OfCtx(c)
    BY <2>3 DEF BasesCut
  <2>5. x \in LoopNodes /\ x.handlers = n.handlers /\ x.bases = bases
    <3>1. GoodBases \subseteq BaseNodes
      BY NodesAre
    <3>2. bases \in Seq(BaseNodes)
      BY <2>4, <3>1, SeqMonotonic
    <3> QED
      BY <1>1, <2>2, <3>2 DEF LoopNodes
  <2>6. x \in GoodLoops
    BY <1>1, <2>4, <2>5 DEF GoodLoops
  <2>7. LoopC[x] \subseteq LoopC[n]
    BY <1>1, <2>4, <2>5, <2>6 DEF LoopC
  <2>8. n.handlers \in Seq(Others(c))
    <3>1. PICK k \in DOMAIN n.bases : \E e \in InBaseHolds(key)[n.bases[k]] : e.ctx = c
      BY <2>1 DEF Total
    <3>2. n.bases[k] \in GoodBases
      BY <1>1, LenProperties, ElementOfSeq
    <3>3. c \in BaseC[n.bases[k]]
      BY <3>1, <3>2, HoldsAre
    <3>4. c \notin Ctxs(n.handlers)
      BY <1>1, <3>3, PartOfTotal
    <3>5. n.handlers \in Seq(Among(Ctxs(n.handlers)))
      BY <1>1, EntriesAmong
    <3> QED
      BY <3>4, <3>5, AmongOthers
  <2>9. ASSUME NEW ev \in Events
        PROVE  CutWhere(Reaches(key, ev), LoopSeg(ev)[x], LoopSeg(ev)[n], c)
    <3> DEFINE a == n.handlers
               b == Cat(BaseSeg(ev), n.bases)
               d == Cat(BaseSeg(ev), bases)
    <3>1. a \in Seq(Others(c)) /\ b \in Seq(Entries) /\ d \in Seq(Entries)
      BY <1>1, <2>4, <2>8, SegsMap, CatMaps
    <3>2. CutWhere(Reaches(key, ev), d, b, c)
      BY <2>3 DEF BasesCut
    <3>3. LoopSeg(ev)[x] = a \o d /\ LoopSeg(ev)[n] = a \o b
      BY <2>5, <2>6 DEF LoopSeg
    <3> HIDE DEF a, b, d
    <3>4. Cut(d, b, c) => Cut(a \o d, a \o b, c)
      BY <3>1, CutBehind
    <3> QED
      BY <3>2, <3>3, <3>4 DEF CutWhere
  <2>10. LoopHolds(key)[n] \subseteq LoopHolds(key)[x] \cup OfCtx(c)
    BY <1>3, <2>1, <2>4, <2>5 DEF LoopHolds
  <2> QED
    BY <2>6, <2>7, <2>9, <2>10 DEF LoopCuts, x
<1> QED
  BY <1>2, <1>3

(* handler_instances_remove for a key, over the whole registry *)
NodesCut(new, old, key, c) ==
  /\ Good(new)
  /\ \A ev \in Events : CutWhere(Reaches(key, ev), Cat(LoopSeg(ev), new), Cat(LoopSeg(ev), old), c)
  /\ Total(LoopHolds(key), old) \subseteq Total(LoopHolds(key), new) \cup OfCtx(c)

LEMMA RemovedCuts ==
  ASSUME NEW old, Good(old), NEW key \in Keys, NEW c, \E e \in Total(LoopHolds(key), old) : e.ctx = c,
         NEW match, Meant(match, c, Total(LoopHolds(key), old))
  PROVE  NodesCut(Removed(old, key, match), old, key, c)
<1> DEFINE after == [k \in DOMAIN old |-> LoopRemove(old[k], key, match)]
           new == Walk(old, after).list
           T == GoodLoops
           g == LoopC
           H == LoopHolds(key)
<1>0. Removed(old, key, match) = new
  BY DEF Removed
<1>1. PICK p : Place(p, old, c, g, H, match, T)
  <2>1. \A n \in T : \A e \in H[n] : e \in Entries /\ e.ctx \in g[n]
    BY HoldsAre
  <2>2. old \in Seq(T) /\ Apart(g, old) /\ (\E e \in Total(H, old) : e.ctx = c) /\ Meant(match, c, Total(H, old))
    BY DEF Good
  <2> HIDE DEF T, g, H
  <2> QED
    BY <2>1, <2>2, PlaceExists
<1>2. p \in DOMAIN old /\ old[p] \in GoodLoops /\ \A n \in GoodLoops : n \in LoopNodes
  BY <1>1, NodesAre DEF Place
<1>3. OnlyAt(p, old, after)
  <2> SUFFICES ASSUME NEW k \in DOMAIN old, k # p
               PROVE  after[k].ok = FALSE /\ after[k].node = old[k]
    BY DEF OnlyAt
  <2>1. old[k] \in LoopNodes /\ LoopHolds(key)[old[k]] \cap match = {}
    BY <1>1, <1>2 DEF Place
  <2>2. after[k] = Miss(old[k])
    BY <2>1, LoopMiss
  <2> QED
    BY <2>2, MissIs
<1> DEFINE x == after[p].node
           n == old[p]
<1>5. LoopCuts(x, n, key, c)
  <2>1. n \in GoodLoops /\ (\E e \in LoopHolds(key)[n] : e.ctx = c) /\ Meant(match, c, LoopHolds(key)[n])
    BY <1>1 DEF Place
  <2>2. after[p].node = LoopRemove(n, key, match).node
    BY <1>2
  <2> HIDE DEF n
  <2>3. LoopCuts(LoopRemove(n, key, match).node, n, key, c)
    BY <2>1, LoopCut
  <2> QED
    BY <2>2, <2>3
<1>6. x \in T /\ g[x] \subseteq g[old[p]] /\ H[old[p]] \subseteq H[x] \cup OfCtx(c)
  BY <1>5 DEF LoopCuts
<1>4. old \in Seq(T) /\ Apart(g, old)
  BY DEF Good
<1> HIDE DEF after, n, x
<1>7. new \in Seq(T) /\ Apart(g, new)
  <2> HIDE DEF T, g
  <2> QED
    BY <1>2, <1>3, <1>4, <1>6, WalkKeepsApart DEF x
<1>8. Total(H, old) \subseteq Total(H, new) \cup OfCtx(c)
  <2>1. \A m \in T : Empty(m) => H[m] = {}
    BY <1>2, EmptyHoldsNothing
  <2> DEFINE S == OfCtx(c)
  <2>3. p \in DOMAIN old /\ after[p].node \in T /\ H[old[p]] \subseteq H[after[p].node] \cup S
    BY <1>2, <1>6 DEF x
  <2> HIDE DEF T, H, S
  <2>4. Total(H, old) \subseteq Total(H, Walk(old, after).list) \cup S
    BY ONLY <1>3, <1>4, <2>1, <2>3, WalkHolds
  <2> QED
    BY <2>4 DEF S
<1>9. ASSUME NEW ev \in Events
      PROVE  CutWhere(Reaches(key, ev), Cat(LoopSeg(ev), new), Cat(LoopSeg(ev), old), c)
  <2> DEFINE f == LoopSeg(ev)
             P == Reaches(key, ev)
  <2>1. CutWhere(P, f[after[p].node], f[old[p]], c)
    BY <1>5 DEF LoopCuts, n, x
  <2>2. ASSUME NEW k \in 1 .. p - 1 PROVE f[old[k]] \in Seq(Others(c))
    <3>1. k \in DOMAIN old /\ k # p
      BY <1>2, <1>4, LenProperties
    <3>2. old[k] \in GoodLoops /\ c \notin LoopC[old[k]]
      BY <1>1, <3>1 DEF Place
    <3>3. f[old[k]] \in Seq(Among(LoopC[old[k]]))
      BY <3>2, SegsAre
    <3> QED
      BY <3>2, <3>3, AmongOthers
  <2>3. Maps(f, T, Seq(Entries)) /\ \A m \in T : Empty(m) => f[m] = <<>>
    BY SegsMap, EmptyCallsNothing
  <2>4. after[p].node \in T
    BY <1>6 DEF x
  <2> HIDE DEF T, f, P
  <2>5. CutWhere(P, Cat(f, new), Cat(f, old), c)
    BY <1>2, <1>3, <1>4, <2>1, <2>2, <2>3, <2>4, WalkCutsWhere
  <2> QED
    BY <2>5 DEF f, P
<1> QED
  BY <1>0, <1>7, <1>8, <1>9 DEF NodesCut, Good

-----------------------------------------------------------------------------
(* In such a registry a context is registered at one key, and whatever is  *)
(* in a node is registered at some key.                                    *)

LEMMA OneKey ==
  ASSUME NEW nodes, Good(nodes), NEW a \in Keys, NEW b \in Keys,
         NEW d \in Total(LoopHolds(a), nodes), NEW e \in Total(LoopHolds(b), nodes), d.ctx = e.ctx
  PROVE  a = b
<1>1. nodes \in Seq(GoodLoops) /\ Apart(LoopC, nodes) /\ \A k \in DOMAIN nodes : nodes[k] \in GoodLoops
  BY LenProperties, ElementOfSeq DEF Good
<1>2. PICK j \in DOMAIN nodes, k \in DOMAIN nodes : d \in LoopHolds(a)[nodes[j]] /\ e \in LoopHolds(b)[nodes[k]]
  BY DEF Total
<1>3. d.ctx \in LoopC[nodes[j]] /\ d.ctx \in LoopC[nodes[k]]
  BY <1>1, <1>2, HoldsAre
<1>4. j = k
  BY <1>1, <1>3 DEF Apart
<1> DEFINE n == nodes[j]
<1>5. n \in GoodLoops /\ d \in LoopHolds(a)[n] /\ e \in LoopHolds(b)[n]
  BY <1>1, <1>2, <1>4
<1> HIDE DEF n
<1>6. /\ n \in LoopNodes /\ n.bases \in Seq(GoodBases) /\ Apart(BaseC, n.bases)
      /\ Ctxs(n.handlers) \cap Total(BaseC, n.bases) = {}
      /\ \A i \in DOMAIN n.bases : n.bases[i] \in GoodBases
  BY <1>5, NodesAre, LenProperties, ElementOfSeq DEF GoodLoops
<1>7. /\ \A key \in Keys : key[1] = ANY => key = <<ANY, ANY>>
      /\ \A k1, k2 \in Keys : k1[1] = k2[1] /\ k1[2] = k2[2] => k1 = k2
  BY AnyAssumption DEF Keys, Events
<1>8. ASSUME NEW key, NEW x \in LoopHolds(key)[n]
      PROVE  IF key[1] = ANY THEN x.ctx \in Ctxs(n.handlers)
             ELSE \E i \in DOMAIN n.bases : x \in InBaseHolds(key)[n.bases[i]] /\ x.ctx \in BaseC[n.bases[i]]
  <2>1. CASE key[1] = ANY
    BY <1>6, <1>8, <2>1 DEF LoopHolds, Range, Ctxs
  <2>2. CASE key[1] # ANY
    <3>1. PICK i \in DOMAIN n.bases : x \in InBaseHolds(key)[n.bases[i]]
      BY <1>6, <1>8, <2>2 DEF LoopHolds, Total
    <3>2. x.ctx \in BaseC[n.bases[i]]
      BY <1>6, <3>1, HoldsAre
    <3> QED
      BY <2>2, <3>1, <3>2
  <2> QED
    BY <2>1, <2>2
<1>9. a[1] = ANY <=> b[1] = ANY
  BY <1>5, <1>6, <1>8, PartOfTotal
<1>10. CASE a[1] = ANY
  BY <1>7, <1>9, <1>10
<1>11. CASE a[1] # ANY
  <2>1. PICK i \in DOMAIN n.bases : d \in InBaseHolds(a)[n.bases[i]] /\ d.ctx \in BaseC[n.bases[i]]
    BY <1>5, <1>8, <1>11
  <2>2. PICK l \in DOMAIN n.bases : e \in InBaseHolds(b)[n.bases[l]] /\ e.ctx \in BaseC[n.bases[l]]
    BY <1>5, <1>8, <1>9, <1>11
  <2>3. i = l
    BY <1>6, <2>1, <2>2 DEF Apart
  <2> DEFINE m == n.bases[i]
  <2>4. m \in GoodBases /\ d \in InBaseHolds(a)[m] /\ e \in InBaseHolds(b)[m]
    BY <1>6, <2>1, <2>2, <2>3
  <2> HIDE DEF m
  <2>5. /\ m \in BaseNodes /\ m.ids \in Seq(IdNodes) /\ Apart(IdC, m.ids)
        /\ Ctxs(m.handlers) \cap Total(IdC, m.ids) = {}
        /\ \A k1 \in DOMAIN m.ids : m.ids[k1] \in IdNodes
    BY <2>4, NodesAre, LenProperties, ElementOfSeq DEF GoodBases
  <2>6. m.base = a[1] /\ m.base = b[1] /\ d \in BaseHolds(a[2])[m] /\ e \in BaseHolds(b[2])[m]
    BY <2>4, <2>5 DEF InBaseHolds
  <2>7. ASSUME NEW id, NEW x \in BaseHolds(id)[m]
        PROVE  IF id = ANY THEN x.ctx \in Ctxs(m.handlers)
               ELSE \E k1 \in DOMAIN m.ids : m.ids[k1].id = id /\ x.ctx \in IdC[m.ids[k1]]
    <3>1. CASE id = ANY
      BY <2>5, <2>7, <3>1 DEF BaseHolds, Range, Ctxs
    <3>2. CASE id # ANY
      <4>1. PICK k1 \in DOMAIN m.ids : x \in IdHolds(id)[m.ids[k1]]
        BY <2>5, <2>7, <3>2 DEF BaseHolds, Total
      <4>2. x.ctx \in IdC[m.ids[k1]] /\ m.ids[k1].id = id
        BY <2>5, <4>1, HoldsAre DEF IdHolds
      <4> QED
        BY <3>2, <4>2
    <3> QED
      BY <3>1, <3>2
  <2>8. a[2] = b[2]
    <3>1. a[2] = ANY <=> b[2] = ANY
      BY <2>5, <2>6, <2>7, PartOfTotal
    <3>2. CASE a[2] # ANY
      <4>1. PICK k1 \in DOMAIN m.ids : m.ids[k1].id = a[2] /\ d.ctx \in IdC[m.ids[k1]]
        BY <2>6, <2>7, <3>2
      <4>2. PICK k2 \in DOMAIN m.ids : m.ids[k2].id = b[2] /\ e.ctx \in IdC[m.ids[k2]]
        BY <2>6, <2>7, <3>1, <3>2
      <4> QED
        BY <2>5, <4>1, <4>2 DEF Apart
    <3> QED
      BY <3>1, <3>2
  <2> QED
    BY <1>7, <2>6, <2>8
<1> QED
  BY <1>10, <1>11

LEMMA SomeKey ==
  ASSUME NEW nodes, Good(nodes), NEW c \in Total(LoopC, nodes)
  PROVE  \E key \in Keys : \E e \in Total(LoopHolds(key), nodes) : e.ctx = c
<1>1. PICK j \in DOMAIN nodes : c \in LoopC[nodes[j]]
  BY DEF Total
<1> DEFINE n == nodes[j]
<1>2. n \in GoodLoops
  BY LenProperties, ElementOfSeq DEF Good
<1>3. \A key : LoopHolds(key)[n] \subseteq Total(LoopHolds(key), nodes)
  BY PartOfTotal
<1> HIDE DEF n
<1>4. n \in LoopNodes /\ LoopC[n] = Ctxs(n.handlers) \cup Total(BaseC, n.bases)
  BY <1>2, NodesAre DEF LoopC
<1>5. CASE c \in Ctxs(n.handlers)
  <2> DEFINE key == <<ANY, ANY>>
  <2>1. key \in Keys /\ key[1] = ANY
    BY DEF Keys
  <2>2. \E e \in Range(n.handlers) : e.ctx = c
    BY <1>5 DEF Range, Ctxs
  <2>3. LoopHolds(key)[n] = Range(n.handlers)
    BY <1>4, <2>1 DEF LoopHolds
  <2> QED
    BY <1>3, <2>1, <2>2, <2>3
<1>6. CASE c \in Total(BaseC, n.bases)
  <2>1. PICK i \in DOMAIN n.bases : c \in BaseC[n.bases[i]]
    BY <1>6 DEF Total
  <2> DEFINE m == n.bases[i]
  <2>2. m \in GoodBases /\ m \in BaseNodes /\ m.base \in Bases
    BY <1>2, NodesAre, LenProperties, ElementOfSeq
  <2>3. \A key : InBaseHolds(key)[m] \subseteq Total(InBaseHolds(key), n.bases)
    BY PartOfTotal
  <2>4. c \in BaseC[m]
    BY <2>1
  <2> HIDE DEF m
  <2>5. BaseC[m] = Ctxs(m.handlers) \cup Total(IdC, m.ids)
    BY <2>2 DEF BaseC
  <2>6. ASSUME NEW key \in Keys, key[1] = m.base, \E e \in BaseHolds(key[2])[m] : e.ctx = c
        PROVE  \E e \in Total(LoopHolds(key), nodes) : e.ctx = c
    <3>1. InBaseHolds(key)[m] = BaseHolds(key[2])[m]
      BY <2>2, <2>6 DEF InBaseHolds
    <3>2. key[1] # ANY
      BY <2>2, <2>6, AnyAssumption
    <3>3. LoopHolds(key)[n] = Total(InBaseHolds(key), n.bases)
      BY <1>4, <3>2 DEF LoopHolds
    <3> QED
      BY <1>3, <2>3, <2>6, <3>1, <3>3
  <2>7. CASE c \in Ctxs(m.handlers)
    <3> DEFINE key == <<m.base, ANY>>
    <3>1. key \in Keys /\ key[1] = m.base /\ key[2] = ANY
      BY <2>2 DEF Keys
    <3>2. \E e \in BaseHolds(key[2])[m] : e.ctx = c
      BY <2>2, <2>7 DEF BaseHolds, Range, Ctxs
    <3> QED
      BY <2>6, <3>1, <3>2
  <2>8. CASE c \in Total(IdC, m.ids)
    <3>1. PICK k \in DOMAIN m.ids : c \in IdC[m.ids[k]]
      BY <2>8 DEF Total
    <3> DEFINE q == m.ids[k]
               key == <<m.base, q.id>>
    <3>2. q \in IdNodes /\ q.id \in Ids /\ q.id # ANY
      BY <2>2, NodesAre, LenProperties, ElementOfSeq, AnyAssumption
    <3>3. key \in Keys /\ key[1] = m.base /\ key[2] = q.id
      BY <2>2, <3>2 DEF Keys, Events
    <3>4. \E e \in IdHolds(q.id)[q] : e.ctx = c
      BY <3>1, <3>2 DEF IdHolds, IdC, Range, Ctxs
    <3>5. IdHolds(q.id)[q] \subseteq Total(IdHolds(q.id), m.ids)
      BY PartOfTotal
    <3>6. BaseHolds(q.id)[m] = Total(IdHolds(q.id), m.ids)
      BY <2>2, <3>2 DEF BaseHolds
    <3> QED
      BY <2>6, <3>3, <3>4, <3>5, <3>6
  <2> QED
    BY <2>4, <2>5, <2>7, <2>8
<1> QED
  BY <1>1, <1>4, <1>5, <1>6 DEF n

-----------------------------------------------------------------------------
(* What is called, as contexts *)

(* One entry more calls one context more. *)
LEMMA ContextsGrow ==
  ASSUME NEW l \in Seq(Entries), NEW entry \in Entries, NEW P
  PROVE  ContextList(l \o Only(P, entry)) = ContextList(l) \o (IF P THEN <<entry.ctx>> ELSE <<>>)
<1> DEFINE q == ContextList(l)
           d == <<entry.ctx>>
           e == <<entry>>
<1>1. Len(l) \in Nat /\ DOMAIN l = 1 .. Len(l) /\ \A k \in 1 .. Len(l) : l[k] \in Entries
  BY LenProperties, ElementOfSeq
<1>2. q \in Seq(Contexts) /\ Len(q) = Len(l) /\ \A k \in 1 .. Len(l) : q[k] = l[k].ctx
  BY <1>1 DEF ContextList, Entries
<1>3. CASE ~P
  BY <1>2, <1>3, ConcatEmptySeq DEF Only
<1>4. CASE P
  <2>1. /\ e \in Seq(Entries) /\ Len(e) = 1 /\ e[1] = entry
        /\ d \in Seq(Contexts) /\ Len(d) = 1 /\ d[1] = entry.ctx
    BY DEF Entries
  <2>2. Only(P, entry) = e /\ (IF P THEN <<entry.ctx>> ELSE <<>>) = d
    BY <1>4 DEF Only
  <2> HIDE DEF q, d, e
  <2>3. /\ l \o e \in Seq(Entries) /\ Len(l \o e) = Len(l) + 1
        /\ \A k \in 1 .. Len(l) + 1 : (l \o e)[k] = IF k <= Len(l) THEN l[k] ELSE e[k - Len(l)]
    <3>1. /\ l \o e \in Seq(Entries) /\ Len(l \o e) = Len(l) + Len(e)
          /\ \A k \in 1 .. Len(l) + Len(e) : (l \o e)[k] = IF k <= Len(l) THEN l[k] ELSE e[k - Len(l)]
      BY <2>1, ConcatProperties
    <3> QED
      BY <2>1, <3>1
  <2>4. /\ q \o d \in Seq(Contexts) /\ Len(q \o d) = Len(l) + 1
        /\ \A k \in 1 .. Len(l) + 1 : (q \o d)[k] = IF k <= Len(l) THEN q[k] ELSE d[k - Len(l)]
    <3>1. /\ q \o d \in Seq(Contexts) /\ Len(q \o d) = Len(q) + Len(d)
          /\ \A k \in 1 .. Len(q) + Len(d) : (q \o d)[k] = IF k <= Len(q) THEN q[k] ELSE d[k - Len(q)]
      <4> DEFINE T == Contexts
      <4>1. q \in Seq(T) /\ d \in Seq(T)
        BY <1>2, <2>1 DEF q
      <4> HIDE DEF T
      <4>2. /\ q \o d \in Seq(T) /\ Len(q \o d) = Len(q) + Len(d)
            /\ \A k \in 1 .. Len(q) + Len(d) : (q \o d)[k] = IF k <= Len(q) THEN q[k] ELSE d[k - Len(q)]
        BY <4>1, ConcatProperties
      <4> QED
        BY <4>2 DEF T
    <3> QED
      BY <1>2, <2>1, <3>1 DEF q
  <2> DEFINE u == l \o e
             v == q \o d
             n == Len(l) + 1
  <2>5. ASSUME NEW k \in 1 .. n PROVE u[k].ctx = v[k]
    <3>1. CASE k <= Len(l)
      BY <1>1, <1>2, <2>3, <2>4, <3>1
    <3>2. CASE ~(k <= Len(l))
      <4>1. k - Len(l) = 1
        BY <1>1, <3>2
      <4> QED
        BY <2>1, <2>3, <2>4, <3>2, <4>1
    <3> QED
      BY <3>1, <3>2
  <2>6. DOMAIN u = 1 .. n /\ DOMAIN v = 1 .. n /\ v = [k \in DOMAIN v |-> v[k]]
    BY <2>3, <2>4, LenProperties, IsASeq
  <2> HIDE DEF u, v, n
  <2>7. ContextList(u) = v
    BY <2>5, <2>6 DEF ContextList
  <2> QED
    BY <2>2, <2>7 DEF u, v, q
<1> QED
  BY <1>3, <1>4

(* An entry that is cut out is the first with its context that was called. *)
LEMMA ContextsCut ==
  ASSUME NEW old \in Seq(Entries), NEW new, NEW c, Cut(new, old, c)
  PROVE  ContextList(new) = RemoveFirst(ContextList(old), c)
<1>1. PICK A \in Seq(Others(c)), B \in Seq(Entries), e \in Entries :
        e.ctx = c /\ old = (A \o <<e>>) \o B /\ new = A \o B
  BY DEF Cut
<1>2. A \in Seq(Entries) /\ Len(A) \in Nat /\ Len(B) \in Nat /\ \A k \in 1 .. Len(A) : A[k] \in Others(c)
  BY SeqMonotonic, LenProperties, ElementOfSeq DEF Others
<1> DEFINE a == Len(A)
           b == Len(B)
           y == <<e>>
           A1 == A \o y
<1>3. y \in Seq(Entries) /\ Len(y) = 1 /\ y[1] = e
  OBVIOUS
<1> HIDE DEF y
<1>4. /\ A1 \in Seq(Entries) /\ Len(A1) = a + 1
      /\ \A k \in 1 .. a + 1 : A1[k] = IF k <= a THEN A[k] ELSE e
  <2>1. /\ A1 \in Seq(Entries) /\ Len(A1) = a + Len(y)
        /\ \A k \in 1 .. a + Len(y) : A1[k] = IF k <= a THEN A[k] ELSE y[k - a]
    BY <1>2, <1>3, ConcatProperties
  <2>2. \A k \in 1 .. a + 1 : ~(k <= a) => k - a = 1
    BY <1>2
  <2> QED
    BY <1>3, <2>1, <2>2
<1> HIDE DEF A1
<1>5. /\ old \in Seq(Entries) /\ Len(old) = (a + 1) + b
      /\ \A k \in 1 .. (a + 1) + b : old[k] = IF k <= a + 1 THEN A1[k] ELSE B[k - (a + 1)]
  <2>1. old = A1 \o B
    BY <1>1 DEF A1, y
  <2>2. /\ Len(A1 \o B) = Len(A1) + Len(B)
        /\ \A k \in 1 .. Len(A1) + Len(B) : (A1 \o B)[k] = IF k <= Len(A1) THEN A1[k] ELSE B[k - Len(A1)]
    BY <1>4, ConcatProperties
  <2> QED
    BY <1>4, <2>1, <2>2
<1>6. /\ new \in Seq(Entries) /\ Len(new) = a + b
      /\ \A k \in 1 .. a + b : new[k] = IF k <= a THEN A[k] ELSE B[k - a]
  BY <1>1, <1>2, ConcatProperties
<1>7. a \in Nat /\ b \in Nat
  BY <1>2
<1> HIDE DEF a, b
<1> DEFINE q == ContextList(old)
           n == (a + 1) + b
           p == a + 1
<1>8. DOMAIN old = 1 .. n /\ \A k \in 1 .. n : old[k] \in Entries
  BY <1>5, LenProperties, ElementOfSeq
<1>9. q \in Seq(Contexts) /\ Len(q) = n /\ \A k \in 1 .. n : q[k] = old[k].ctx
  <2>1. n \in Nat
    BY <1>7
  <2> HIDE DEF n
  <2> QED
    BY <1>8, <2>1 DEF ContextList, Entries
<1>10. /\ p \in 1 .. n /\ q[p] = c
       /\ \A k \in 1 .. a : k \in 1 .. n /\ q[k] = A[k].ctx /\ q[k] # c
  <2>1. p \in 1 .. n /\ p \in 1 .. a + 1 /\ ~(p <= a)
    BY <1>7
  <2>2. q[p] = c
    <3>1. old[p] = A1[p] /\ A1[p] = e
      BY <1>4, <1>5, <2>1
    <3> QED
      BY <1>1, <1>9, <2>1, <3>1
  <2>3. ASSUME NEW k \in 1 .. a PROVE k \in 1 .. n /\ q[k] = A[k].ctx /\ q[k] # c
    <3>1. k \in 1 .. n /\ k \in 1 .. a + 1 /\ k <= a /\ k <= a + 1
      BY <1>7
    <3>2. q[k] = A[k].ctx
      BY <1>4, <1>5, <1>9, <3>1
    <3> QED
      BY <1>2, <3>1, <3>2 DEF Others, a
  <2> QED
    BY <2>1, <2>2, <2>3
<1> HIDE DEF q
<1> DEFINE I == {i \in 1 .. Len(q) : q[i] = c}
<1>11. RemoveFirst(q, c) = RemoveAt(q, Min(I)) /\ I # {}
  BY <1>9, <1>10 DEF RemoveFirst, SelectInSeq
<1>12. Min(I) = p
  <2>1. I \in SUBSET (1 .. n) /\ n \in Nat /\ p \in I /\ \A i \in I : p <= i
    BY <1>7, <1>9, <1>10
  <2> HIDE DEF I, n, p
  <2>2. Min(I) \in I /\ \A i \in I : Min(I) <= i
    BY <2>1, MinMaxArePositions
  <2> DEFINE m == Min(I)
  <2>3. m \in 1 .. n /\ p \in 1 .. n /\ m <= p /\ p <= m
    BY <2>1, <2>2
  <2> HIDE DEF m
  <2>4. m = p
    BY <2>1, <2>3
  <2> QED
    BY <2>4 DEF m
<1> DEFINE r == RemoveAt(q, p)
<1>13. /\ r \in Seq(Contexts) /\ Len(r) = n - 1
       /\ \A j \in 1 .. n - 1 : r[j] = IF j < p THEN q[j] ELSE q[j + 1]
  <2>1. p \in 1 .. Len(q)
    BY <1>9, <1>10
  <2> HIDE DEF p, n
  <2> QED
    BY <1>9, <2>1, RemoveAtIs
<1> HIDE DEF r
<1>14. n - 1 = a + b
  BY <1>7
<1>15. ASSUME NEW j \in 1 .. a + b PROVE r[j] = new[j].ctx
  <2>1. CASE j <= a
    <3>1. j \in 1 .. a /\ j \in 1 .. n - 1 /\ j < p
      BY <1>7, <2>1
    <3> QED
      BY <1>6, <1>10, <1>13, <2>1, <3>1
  <2>2. CASE ~(j <= a)
    <3>1. /\ j \in 1 .. n - 1 /\ ~(j < p) /\ j + 1 \in 1 .. n /\ ~(j + 1 <= a + 1)
          /\ (j + 1) - (a + 1) = j - a
      BY <1>7, <2>2
    <3>2. r[j] = old[j + 1].ctx
      BY <1>9, <1>13, <3>1
    <3>3. old[j + 1] = B[j - a]
      BY <1>5, <3>1
    <3> QED
      BY <1>6, <2>2, <3>2, <3>3
  <2> QED
    BY <2>1, <2>2
<1>16. DOMAIN r = 1 .. a + b /\ DOMAIN new = 1 .. a + b /\ r = [j \in DOMAIN r |-> r[j]]
  <2>1. DOMAIN r = 1 .. Len(r) /\ DOMAIN new = 1 .. Len(new) /\ r = [j \in 1 .. Len(r) |-> r[j]]
    BY <1>6, <1>13, LenProperties, IsASeq
  <2> QED
    BY <1>6, <1>13, <1>14, <2>1
<1>17. ContextList(new) = r
  BY <1>15, <1>16 DEF ContextList
<1> QED
  BY <1>11, <1>12, <1>17 DEF r, q

-----------------------------------------------------------------------------
(* With the instance API a context is in one place of the registry, and a  *)
(* handle that is held is registered for its key.                          *)
HandlesAreRegistered ==
  \A h \in held : \E e \in Total(LoopHolds(h.key), loop_nodes) : e.ctx = h.ctx
InstancesInvariant ==
  TypeOK /\ (api = "instance" => Good(loop_nodes) /\ HandlesAreRegistered)

(* What is called and what is registered can be read off the nodes, before *)
(* a step and after it.                                                    *)
NodesTell ==
  /\ HoldingsAreRegistered
  /\ api = "instance" => \A ev \in Events : Plan(ev) = Cat(LoopSeg(ev), loop_nodes)

LEMMA InvariantTells == InstancesInvariant => NodesTell
<1> SUFFICES ASSUME InstancesInvariant PROVE NodesTell
  OBVIOUS
<1>1. HoldingsAreRegistered
  BY RegisteredAtIs DEF InstancesInvariant, TypeOK, HoldingsAreRegistered
<1>2. api = "instance" => loop_nodes \in Seq(GoodLoops)
  BY DEF InstancesInvariant, Good
<1> QED
  BY <1>1, <1>2, PlanIs DEF NodesTell

LEMMA MatchesIs == \A key, ev : Instances!Matches(key, ev) <=> Reaches(key, ev)
BY DEF Instances!Matches, Reaches

LEMMA RemoveFirstIs == \A s, x : Instances!RemoveFirst(s, x) = RemoveFirst(s, x)
BY DEF Instances!RemoveFirst, RemoveFirst, Instances!SelectInSeq, SelectInSeq,
       Instances!RemoveAt, RemoveAt, Instances!Min, Min

(* The contexts in the nodes are those of the registrations. *)
LEMMA FreshContext ==
  ASSUME NodesTell, Good(loop_nodes), NEW c \in Contexts \ {e.ctx : e \in AllEntries}
  PROVE  c \notin Total(LoopC, loop_nodes)
<1> SUFFICES ASSUME c \in Total(LoopC, loop_nodes) PROVE FALSE
  OBVIOUS
<1>1. PICK key \in Keys : \E e \in Total(LoopHolds(key), loop_nodes) : e.ctx = c
  BY SomeKey
<1>2. RegisteredAt(key) = Total(LoopHolds(key), loop_nodes)
  BY DEF NodesTell, HoldingsAreRegistered
<1> QED
  BY <1>1, <1>2 DEF AllEntries

LEMMA RegisterImplements ==
  ASSUME InstancesInvariant, NodesTell, RegisterInstance
  PROVE  InstancesInvariant' /\ (NodesTell' => Instances!Next)
<1>1. PICK key \in Keys, f \in InstanceCallbacks, a \in Args, c \in Contexts \ {e.ctx : e \in AllEntries} :
        /\ loop_nodes' = Added(loop_nodes, key, [ctx |-> c, function |-> f, arg |-> a], FALSE)
        /\ held' = held \cup {[ctx |-> c, key |-> key]}
  BY DEF RegisterInstance, InstanceRegister
<1> DEFINE entry == [ctx |-> c, function |-> f, arg |-> a]
           h == [ctx |-> c, key |-> key]
<1>2. api = "instance" /\ api' = "instance" /\ Good(loop_nodes) /\ HandlesAreRegistered
  BY DEF RegisterInstance, InstancesInvariant
<1>3. entry \in Entries /\ entry.ctx = c
  BY InstanceCallbacksAssumption DEF Entries
<1>4. loop_nodes' = Added(loop_nodes, key, entry, FALSE)
  BY <1>1
<1> HIDE DEF entry
<1>5. c \notin Total(LoopC, loop_nodes)
  BY <1>2, FreshContext
<1>6. NodesGain(loop_nodes', loop_nodes, key, entry)
  BY <1>2, <1>3, <1>4, <1>5, AddedIs
<1>7. Good(loop_nodes')
  BY <1>6 DEF NodesGain
<1>8. HandlesAreRegistered'
  <2> SUFFICES ASSUME NEW g \in held' PROVE \E e \in Total(LoopHolds(g.key), loop_nodes') : e.ctx = g.ctx
    BY DEF HandlesAreRegistered
  <2>1. CASE g \in held
    <3>1. PICK e \in Total(LoopHolds(g.key), loop_nodes) : e.ctx = g.ctx
      BY <1>2, <2>1 DEF HandlesAreRegistered
    <3> QED
      BY <1>6, <3>1 DEF NodesGain
  <2>2. CASE g = h
    BY <1>3, <1>6, <2>2 DEF NodesGain
  <2> QED
    BY <1>1, <2>1, <2>2
<1>9. InstancesInvariant'
  <2>1. TypeOK'
    BY StepIsTyped DEF InstancesInvariant, ApiNext
  <2> QED
    BY <1>7, <1>8, <2>1 DEF InstancesInvariant
<1>10. h \in [ctx : Contexts, key : Instances!Keys]
  BY DEF Keys, Events, Instances!Keys, Instances!Events
<1>11. h.ctx \notin {g.ctx : g \in held}
  <2> SUFFICES ASSUME NEW g \in held, g.ctx = c PROVE FALSE
    OBVIOUS
  <2>1. g.key \in Keys
    BY DEF InstancesInvariant, TypeOK
  <2>2. PICK e \in Total(LoopHolds(g.key), loop_nodes) : e.ctx = c
    BY <1>2 DEF HandlesAreRegistered
  <2>3. e \in RegisteredAt(g.key)
    BY <2>1, <2>2 DEF NodesTell, HoldingsAreRegistered
  <2> QED
    BY <2>1, <2>2, <2>3 DEF AllEntries
<1>12. ASSUME NodesTell' PROVE Called' = Instances!With(h)
  <2>1. /\ Called = [ev \in Events |-> ContextList(Cat(LoopSeg(ev), loop_nodes))]
        /\ Called' = [ev \in Events |-> ContextList(Cat(LoopSeg(ev), loop_nodes'))]
    BY <1>2, <1>12 DEF Called, NodesTell
  <2>2. ASSUME NEW ev \in Events
        PROVE  ContextList(Cat(LoopSeg(ev), loop_nodes'))
                 = Called[ev] \o IF Instances!Matches(key, ev) THEN <<c>> ELSE <<>>
    <3> DEFINE l == Cat(LoopSeg(ev), loop_nodes)
               P == Reaches(key, ev)
    <3>1. Cat(LoopSeg(ev), loop_nodes') = l \o Only(P, entry)
      BY <1>6 DEF NodesGain, Grows
    <3>2. l \in Seq(Entries)
      BY <1>2, SegsMap, CatMaps DEF Good
    <3>3. P <=> Instances!Matches(key, ev)
      BY MatchesIs
    <3>4. Called[ev] = ContextList(l)
      BY <2>1
    <3> HIDE DEF l, P
    <3>5. ContextList(l \o Only(P, entry)) = ContextList(l) \o (IF P THEN <<entry.ctx>> ELSE <<>>)
      BY <1>3, <3>2, ContextsGrow
    <3> QED
      BY <1>3, <3>1, <3>3, <3>4, <3>5
  <2>3. Instances!With(h) =
          [ev \in Events |-> Called[ev] \o IF Instances!Matches(key, ev) THEN <<c>> ELSE <<>>]
    BY DEF Instances!With, Instances!Events, Events
  <2> HIDE DEF h
  <2> QED
    BY <2>1, <2>2, <2>3
<1>13. ASSUME NodesTell' PROVE Instances!Register(h)
  BY <1>1, <1>11, <1>12, <1>13 DEF Instances!Register
<1> QED
  BY <1>9, <1>10, <1>13 DEF Instances!Next

LEMMA UnregisterImplements ==
  ASSUME InstancesInvariant, NodesTell, UnregisterInstance
  PROVE  InstancesInvariant' /\ (NodesTell' => [Instances!Next]_(Instances!vars))
<1>1. PICK h \in held, key \in Keys : InstanceUnregister(h, key)
  BY DEF UnregisterInstance
<1> DEFINE c == h.ctx
           match == {e \in AllEntries : e.ctx = h.ctx}
<1>2. /\ loop_nodes' = Removed(loop_nodes, key, match)
      /\ held' = IF key = h.key THEN held \ {h} ELSE held
  BY <1>1 DEF InstanceUnregister
<1>3. api = "instance" /\ api' = "instance" /\ Good(loop_nodes) /\ HandlesAreRegistered
  BY DEF UnregisterInstance, InstancesInvariant
<1>4. TypeOK /\ TypeOK'
  BY StepIsTyped DEF InstancesInvariant, ApiNext
<1>5. \A k \in Keys : RegisteredAt(k) = Total(LoopHolds(k), loop_nodes)
  BY DEF NodesTell, HoldingsAreRegistered
<1>6. \A n \in GoodLoops : n \in LoopNodes
  BY NodesAre
<1>7. loop_nodes \in Seq(LoopNodes) /\ loop_nodes \in Seq(GoodLoops)
  BY <1>3, <1>4 DEF Good, TypeOK
<1>8. \A g \in held : g.key \in Keys /\ g = [ctx |-> g.ctx, key |-> g.key]
  BY <1>4 DEF TypeOK
<1>9. \A k \in Keys : \A e \in Total(LoopHolds(k), loop_nodes) : e \in Entries
  <2> SUFFICES ASSUME NEW k \in Keys, NEW e \in Total(LoopHolds(k), loop_nodes) PROVE e \in Entries
    OBVIOUS
  <2>1. PICK j \in DOMAIN loop_nodes : e \in LoopHolds(k)[loop_nodes[j]]
    BY DEF Total
  <2>2. loop_nodes[j] \in GoodLoops
    BY <1>7, LenProperties, ElementOfSeq
  <2> QED
    BY <2>1, <2>2, HoldsAre
<1>10. match \subseteq OfCtx(c) /\ \A k \in Keys : Total(LoopHolds(k), loop_nodes) \cap OfCtx(c) \subseteq match
  BY <1>5, <1>9 DEF AllEntries, OfCtx
<1>11. PICK mine \in Total(LoopHolds(h.key), loop_nodes) : mine.ctx = c
  BY <1>3 DEF HandlesAreRegistered
<1> HIDE DEF match
<1>12. CASE key # h.key
  <2>1. Total(LoopHolds(key), loop_nodes) \cap match = {}
    <3> SUFFICES ASSUME NEW e \in Total(LoopHolds(key), loop_nodes), e \in match PROVE FALSE
      OBVIOUS
    <3>1. e.ctx = mine.ctx
      BY <1>10, <1>11 DEF OfCtx
    <3> QED
      BY <1>3, <1>8, <1>11, <1>12, <3>1, OneKey
  <2>2. loop_nodes' = loop_nodes
    BY <1>2, <1>7, <2>1, RemovedMiss
  <2>3. held' = held
    BY <1>2, <1>12
  <2>4. InstancesInvariant'
    BY <1>3, <1>4, <2>2, <2>3 DEF InstancesInvariant, HandlesAreRegistered
  <2>5. NodesTell' => Called' = Called
    BY <1>3, <2>2 DEF Called, NodesTell
  <2> QED
    BY <2>3, <2>4, <2>5 DEF Instances!vars
<1>13. CASE key = h.key
  <2>1. Meant(match, c, Total(LoopHolds(key), loop_nodes))
    BY <1>10 DEF Meant
  <2>2. NodesCut(loop_nodes', loop_nodes, key, c)
    BY <1>2, <1>3, <1>11, <1>13, <2>1, RemovedCuts
  <2>3. Good(loop_nodes') /\ Total(LoopHolds(key), loop_nodes) \subseteq Total(LoopHolds(key), loop_nodes') \cup OfCtx(c)
    BY <2>2 DEF NodesCut
  <2>4. \A k \in Keys : k # key => Total(LoopHolds(k), loop_nodes') = Total(LoopHolds(k), loop_nodes)
    BY <1>2, <1>7, RemovedKeeps
  <2>5. HandlesAreRegistered'
    <3> SUFFICES ASSUME NEW g \in held' PROVE \E e \in Total(LoopHolds(g.key), loop_nodes') : e.ctx = g.ctx
      BY DEF HandlesAreRegistered
    <3>1. g \in held /\ g # h
      BY <1>2, <1>13
    <3>2. PICK e \in Total(LoopHolds(g.key), loop_nodes) : e.ctx = g.ctx
      BY <1>3, <3>1 DEF HandlesAreRegistered
    <3>3. CASE g.key # key
      BY <1>8, <2>4, <3>1, <3>2, <3>3
    <3>4. CASE g.key = key
      <4>1. g.ctx # h.ctx
        BY <1>8, <1>13, <3>1, <3>4
      <4>2. e \notin OfCtx(c)
        BY <3>2, <4>1 DEF OfCtx
      <4> QED
        BY <2>3, <3>2, <3>4, <4>2
    <3> QED
      BY <3>3, <3>4
  <2>6. InstancesInvariant'
    BY <1>4, <2>3, <2>5 DEF InstancesInvariant
  <2>7. ASSUME NodesTell' PROVE Called' = Instances!Without(h)
    <3>1. /\ Called = [ev \in Events |-> ContextList(Cat(LoopSeg(ev), loop_nodes))]
          /\ Called' = [ev \in Events |-> ContextList(Cat(LoopSeg(ev), loop_nodes'))]
      BY <1>3, <2>7 DEF Called, NodesTell
    <3>2. ASSUME NEW ev \in Events
          PROVE  ContextList(Cat(LoopSeg(ev), loop_nodes'))
                   = IF Instances!Matches(h.key, ev) THEN RemoveFirst(Called[ev], h.ctx) ELSE Called[ev]
      <4> DEFINE l == Cat(LoopSeg(ev), loop_nodes)
                 m == Cat(LoopSeg(ev), loop_nodes')
                 P == Reaches(key, ev)
      <4>1. CutWhere(P, m, l, c)
        BY <2>2 DEF NodesCut
      <4>2. l \in Seq(Entries)
        BY <1>7, SegsMap, CatMaps
      <4>3. P <=> Instances!Matches(key, ev)
        BY MatchesIs
      <4>4. Called[ev] = ContextList(l)
        BY <3>1
      <4> HIDE DEF l, m, P
      <4>5. Cut(m, l, c) => ContextList(m) = RemoveFirst(ContextList(l), c)
        BY <4>2, ContextsCut
      <4> QED
        BY <1>13, <4>1, <4>3, <4>4, <4>5 DEF CutWhere, m
    <3>3. Instances!Without(h) =
            [ev \in Events |->
               IF Instances!Matches(h.key, ev) THEN RemoveFirst(Called[ev], h.ctx) ELSE Called[ev]]
      BY RemoveFirstIs DEF Instances!Without, Instances!Events, Events
    <3> QED
      BY <3>1, <3>2, <3>3
  <2>8. NodesTell' => Instances!Unregister(h)
    BY <1>2, <1>13, <2>7 DEF Instances!Unregister
  <2> QED
    BY <2>6, <2>8 DEF Instances!Next
<1> QED
  BY <1>12, <1>13

LEMMA StepImplements ==
  ASSUME InstancesInvariant, NodesTell, [ApiNext]_<<vars, api>>
  PROVE  InstancesInvariant' /\ (NodesTell' => [Instances!Next]_(Instances!vars))
<1>1. TypeOK'
  BY StepIsTyped DEF InstancesInvariant
<1>2. CASE RegisterInstance
  BY <1>2, RegisterImplements
<1>3. CASE UnregisterInstance
  BY <1>3, UnregisterImplements
<1>4. CASE RegisterLegacy \/ UnregisterLegacy
  <2>1. api = "legacy" /\ api' = api /\ held' = held
    BY <1>4 DEF RegisterLegacy, UnregisterLegacy, LegacyRegister, LegacyUnregister
  <2>2. Called' = Called
    BY <2>1 DEF Called
  <2> QED
    BY <1>1, <2>1, <2>2 DEF InstancesInvariant, Instances!vars
<1>5. CASE Clear
  <2>1. loop_nodes' = <<>> /\ held' = {} /\ api' = api
    BY <1>5 DEF Clear, RemoveAll
  <2>2. Good(<<>>)
    BY EmptyList, EmptySeq DEF Good
  <2>3. InstancesInvariant'
    BY <1>1, <2>1, <2>2 DEF InstancesInvariant, HandlesAreRegistered
  <2>4. Called' = [ev \in Events |-> <<>>]
    <3>1. CASE api' = "legacy"
      BY <3>1 DEF Called
    <3>2. CASE api' # "legacy"
      <4>1. \A ev : Plan(ev)' = <<>>
        BY <2>1 DEF Plan, FlattenSeq
      <4>2. ContextList(<<>>) = <<>>
        BY DEF ContextList
      <4> QED
        BY <3>2, <4>1, <4>2 DEF Called
    <3> QED
      BY <3>1, <3>2
  <2>5. Instances!Clear
    BY <2>1, <2>4 DEF Instances!Clear, Instances!Events, Events
  <2> QED
    BY <2>3, <2>5 DEF Instances!Next
<1>6. CASE UNCHANGED <<vars, api>>
  <2>1. loop_nodes' = loop_nodes /\ held' = held /\ api' = api
    BY <1>6 DEF vars
  <2>2. Called' = Called
    BY <2>1 DEF Called, Plan
  <2> QED
    BY <1>1, <2>1, <2>2 DEF InstancesInvariant, HandlesAreRegistered, Instances!vars
<1> QED
  BY <1>2, <1>3, <1>4, <1>5, <1>6 DEF ApiNext

(* Through the instance API the nodes do what EventHandlers promises: each *)
(* event calls the registrations in force that match it, in the order in   *)
(* which they were made.                                                   *)
THEOREM RegistryImplementsHandlers == ApiSpec => InstancesImplementHandlers
<1>1. ApiInit => InstancesInvariant /\ Instances!Init
  <2> SUFFICES ASSUME ApiInit PROVE InstancesInvariant /\ Instances!Init
    OBVIOUS
  <2>1. loop_nodes = <<>> /\ held = {}
    BY DEF ApiInit, Init
  <2>2. Good(<<>>)
    BY EmptyList, EmptySeq DEF Good
  <2>3. InstancesInvariant
    BY <2>1, <2>2, EmptySeq DEF InstancesInvariant, TypeOK, HandlesAreRegistered
  <2>4. \A ev : Plan(ev) = <<>>
    BY <2>1 DEF Plan, FlattenSeq
  <2>5. ContextList(<<>>) = <<>>
    BY DEF ContextList
  <2>6. Called = [ev \in Instances!Events |-> <<>>]
    BY <2>4, <2>5 DEF Called, Events, Instances!Events
  <2> QED
    BY <2>1, <2>3, <2>6 DEF Instances!Init
<1>2. InstancesInvariant => NodesTell
  BY InvariantTells
<1>3. InstancesInvariant /\ NodesTell /\ [ApiNext]_<<vars, api>>
        => InstancesInvariant' /\ (NodesTell' => [Instances!Next]_(Instances!vars))
  BY StepImplements
<1> QED
  BY <1>1, <1>2, <1>3, PTL DEF ApiSpec, InstancesImplementHandlers, Instances!Spec

=============================================================================
