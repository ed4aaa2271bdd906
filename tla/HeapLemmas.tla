----------------------------- MODULE HeapLemmas -----------------------------
(***************************************************************************)
(* Lemmas about the operators of module Heap, for a heap of any size.      *)
(***************************************************************************)
EXTENDS Heap, TLAPS

(* Marking stays within the slots it may visit, starts at every entry point *)
(* and misses no child: the set `mark` computes is closed.                  *)
LEMMA ReachableClosed ==
  ASSUME NEW h, NEW vals, NEW stop
  PROVE  /\ Reachable(h, vals, stop) \subseteq Slots(h) \ stop
         /\ Handles(vals) \cap (Slots(h) \ stop) \subseteq Reachable(h, vals, stop)
         /\ Closed(h, Reachable(h, vals, stop), stop)
<1> DEFINE room  == Slots(h) \ stop
           entry == Handles(vals) \cap room
           OK(S) == entry \subseteq S /\ Closed(h, S, stop)
           R == Reachable(h, vals, stop)
<1>1. R = {i \in room : \A S \in SUBSET room : OK(S) => i \in S}
  BY DEF Reachable
<1> HIDE DEF R, room
<1>2. R \subseteq room /\ entry \subseteq R
  BY <1>1
<1>3. Closed(h, R, stop)
  <2> SUFFICES ASSUME NEW i \in R, NEW j \in Children(h, i) \cap Slots(h), j \notin stop
               PROVE  j \in R
    BY DEF Closed
  <2>1. j \in room
    BY DEF room
  <2>2. ASSUME NEW S \in SUBSET room, OK(S) PROVE j \in S
    <3>1. i \in S
      BY <1>1, <2>2
    <3> QED BY <3>1, <2>2 DEF Closed
  <2> QED BY <1>1, <2>1, <2>2
<1> QED BY <1>2, <1>3 DEF R, room

(* Marking visits nothing it need not: any closed set of slots that holds   *)
(* the entry points holds all that is marked.                               *)
LEMMA ReachableLeast ==
  ASSUME NEW h, NEW vals, NEW stop,
         NEW S \in SUBSET (Slots(h) \ stop),
         Handles(vals) \cap (Slots(h) \ stop) \subseteq S, Closed(h, S, stop)
  PROVE  Reachable(h, vals, stop) \subseteq S
BY DEF Reachable

(* What more entry points reach is more.                                    *)
LEMMA ReachMono ==
  ASSUME NEW h, NEW A, NEW B, Handles(A) \subseteq Handles(B)
  PROVE  Reach(h, A) \subseteq Reach(h, B)
<1>1. Handles(A) \cap (Slots(h) \ {}) \subseteq Reach(h, B)
  BY ReachableClosed DEF Reach
<1>2. Closed(h, Reach(h, B), {}) /\ Reach(h, B) \in SUBSET (Slots(h) \ {})
  BY ReachableClosed DEF Reach
<1> QED BY <1>1, <1>2, ReachableLeast DEF Reach

(* Two sets of entry points reach together what each reaches alone, which is *)
(* why marking the roots one after the other marks them all.                 *)
LEMMA ReachUnion ==
  ASSUME NEW h, NEW A, NEW B
  PROVE  Reach(h, A \cup B) \subseteq Reach(h, A) \cup Reach(h, B)
<1> DEFINE S == Reach(h, A) \cup Reach(h, B)
<1>1. /\ Closed(h, Reach(h, A), {}) /\ Closed(h, Reach(h, B), {})
      /\ S \in SUBSET (Slots(h) \ {})
  BY ReachableClosed DEF Reach
<1>2. Closed(h, S, {})
  BY <1>1 DEF Closed
<1>3. Handles(A) \cap (Slots(h) \ {}) \subseteq Reach(h, A)
      /\ Handles(B) \cap (Slots(h) \ {}) \subseteq Reach(h, B)
  BY ReachableClosed DEF Reach
<1>4. Handles(A \cup B) \cap (Slots(h) \ {}) \subseteq S
  BY <1>3 DEF Handles
<1> QED BY <1>1, <1>2, <1>4, ReachableLeast DEF Reach

(* Reachability depends on the objects only, never on marks or free slots.  *)
LEMMA ReachObjects ==
  ASSUME NEW g, NEW h, NEW vals, g.objects = h.objects
  PROVE  Reach(g, vals) = Reach(h, vals) /\ Slots(g) = Slots(h)
BY DEF Reach, Reachable, Closed, Children, Slots

(* A depth-first walk: to visit an unmarked entry point, mark it, walk from  *)
(* its children and then from the other entry points, marks what is          *)
(* reachable from all of them.                                               *)
MarksAfter(h, stop, vals) == stop \cup Reachable(h, vals, stop)
Unvisited(h, stop, v) == v # Prim /\ v.index \in Slots(h) \ stop
Visited(h, stop, v) ==
  MarksAfter(h, stop \cup {v.index}, Values(h.objects[v.index].elems))

LEMMA WalkFirst ==
  ASSUME NEW h, NEW stop, NEW v, NEW rest, Unvisited(h, stop, v)
  PROVE  MarksAfter(h, stop, {v} \cup rest) = MarksAfter(h, Visited(h, stop, v), rest)
<1> DEFINE i == v.index
           vals == {v} \cup rest
           elems == Values(h.objects[i].elems)
           one == stop \cup {i}
           first == MarksAfter(h, one, elems)
           A == Reachable(h, elems, one)
           B == Reachable(h, rest, first)
           R == Reachable(h, vals, stop)
<1>0. /\ Handles(vals) = {i} \cup Handles(rest) /\ Handles(elems) = Children(h, i)
      /\ i \in Slots(h) /\ i \notin stop
  BY DEF Unvisited, Handles, Children
<1>1. /\ A \subseteq Slots(h) \ one /\ Children(h, i) \cap (Slots(h) \ one) \subseteq A
      /\ Closed(h, A, one)
  BY ReachableClosed, <1>0
<1>2. /\ B \subseteq Slots(h) \ first /\ Handles(rest) \cap (Slots(h) \ first) \subseteq B
      /\ Closed(h, B, first)
  BY ReachableClosed
<1>3. /\ R \subseteq Slots(h) \ stop /\ Handles(vals) \cap (Slots(h) \ stop) \subseteq R
      /\ Closed(h, R, stop)
  BY ReachableClosed
<1>4. first = one \cup A
  BY DEF MarksAfter
<1> HIDE DEF A, B, R, vals, elems, i, first
<1>5. R \subseteq first \cup B
  <2> DEFINE S == {i} \cup A \cup B
  <2>1. S \in SUBSET (Slots(h) \ stop)
    BY <1>0, <1>1, <1>2, <1>4
  <2>2. Handles(vals) \cap (Slots(h) \ stop) \subseteq S
    BY <1>0, <1>2, <1>4
  <2>3. ASSUME NEW j \in S PROVE Children(h, j) \cap Slots(h) \subseteq S \cup stop
    BY <1>1, <1>2, <1>4 DEF Closed
  <2>4. Closed(h, S, stop)
    BY <2>3 DEF Closed
  <2>5. R \subseteq S
    BY <2>1, <2>2, <2>4, ReachableLeast DEF R
  <2> QED
    BY <2>5, <1>4
<1>6. A \subseteq R
  <2> DEFINE S == R \ one
  <2>1. i \in R
    BY <1>0, <1>3
  <2>2. Handles(elems) \cap (Slots(h) \ one) \subseteq S
    BY <1>0, <1>3, <2>1 DEF Closed
  <2>3. Closed(h, S, one)
    BY <1>3 DEF Closed
  <2>4. S \in SUBSET (Slots(h) \ one)
    BY <1>3
  <2> QED
    BY <2>2, <2>3, <2>4, ReachableLeast DEF A
<1>7. B \subseteq R
  <2> DEFINE S == R \ first
  <2>1. Handles(rest) \cap (Slots(h) \ first) \subseteq S
    BY <1>0, <1>3, <1>4
  <2>2. Closed(h, S, first)
    BY <1>3, <1>4 DEF Closed
  <2>3. S \in SUBSET (Slots(h) \ first)
    BY <1>3
  <2> QED
    BY <2>1, <2>2, <2>3, ReachableLeast DEF B
<1>8. i \in R
  BY <1>0, <1>3
<1>9. stop \cup R = first \cup B
  BY <1>3, <1>5, <1>6, <1>7, <1>8, <1>4
<1> QED
  BY <1>9 DEF A, B, R, vals, i, elems, first, MarksAfter, Visited

(* What storing an object in the slot the free list offers leaves behind.   *)
LEMMA PutHeap ==
  ASSUME NEW h, IsHeap(h), NEW i \in Nat, FreshSlot(h, i), NEW obj \in HeapObject
  PROVE  /\ IsHeap(Put(h, i, obj))
         /\ Slots(Put(h, i, obj)) = Slots(h) \cup {i}
         /\ Put(h, i, obj).objects[i] = obj
         /\ \A j \in Slots(h) \ {i} : Put(h, i, obj).objects[j] = h.objects[j]
         /\ Put(h, i, obj).free = h.free \ {i}
<1> DEFINE p == Put(h, i, obj)
<1>0. h.objects \in Seq(HeapObject) /\ h.marked \subseteq Nat /\ h.free \subseteq Nat
      /\ h.marked \subseteq DOMAIN h.objects /\ h.free \subseteq DOMAIN h.objects
  BY DEF IsHeap, Slots
<1>1. p.marked = h.marked \ {i} /\ p.free = h.free \ {i}
      /\ p = [objects |-> p.objects, marked |-> p.marked, free |-> p.free]
  BY DEF Put
<1>2. CASE i \in DOMAIN h.objects
  <2>1. p.objects = [h.objects EXCEPT ![i] = obj]
    BY <1>2 DEF Put, Slots
  <2>2. p.objects \in Seq(HeapObject) /\ DOMAIN p.objects = DOMAIN h.objects
    BY <2>1, <1>0, <1>2
  <2>3. p.objects[i] = obj /\ \A j \in DOMAIN h.objects \ {i} : p.objects[j] = h.objects[j]
    BY <2>1, <1>0, <1>2
  <2>4. IsHeap(p)
    BY <1>0, <1>1, <2>2 DEF IsHeap, Slots
  <2> QED BY <1>1, <1>2, <2>2, <2>3, <2>4 DEF Slots
<1>3. CASE i \notin DOMAIN h.objects
  <2>1. i = Len(h.objects) + 1 /\ p.objects = Append(h.objects, obj)
    BY <1>3, <1>0 DEF Put, Slots, FreshSlot
  <2>2. p.objects \in Seq(HeapObject) /\ DOMAIN p.objects = DOMAIN h.objects \cup {i}
    <3>1. /\ Append(h.objects, obj) \in Seq(HeapObject)
          /\ Len(Append(h.objects, obj)) = i
      BY <2>1, <1>0
    <3>2. /\ DOMAIN Append(h.objects, obj) = 1..i
          /\ DOMAIN h.objects = 1..Len(h.objects) /\ Len(h.objects) \in Nat
      BY <3>1, <1>0
    <3>3. 1..i = (1..Len(h.objects)) \cup {i}
      BY <3>2, <2>1
    <3> QED BY <3>1, <3>2, <3>3, <2>1
  <2>3. p.objects[i] = obj /\ \A j \in DOMAIN h.objects \ {i} : p.objects[j] = h.objects[j]
    BY <2>1, <1>0
  <2>4. IsHeap(p)
    BY <1>0, <1>1, <2>2 DEF IsHeap, Slots
  <2> QED BY <1>1, <2>2, <2>3, <2>4 DEF Slots
<1> QED BY <1>2, <1>3

(* A new object brings into reach itself and what its elements reached, and *)
(* nothing else.                                                            *)
LEMMA PutReach ==
  ASSUME NEW h, IsHeap(h), NEW i \in Nat, FreshSlot(h, i), NEW obj \in HeapObject,
         NEW A, NEW B, Values(obj.elems) \subseteq A \cup {Prim},
         Handles(B) \subseteq Handles(A) \cup {i}
  PROVE  Reach(Put(h, i, obj), B) \subseteq Reach(h, A) \cup {i}
<1> DEFINE p == Put(h, i, obj)
           S == Reach(h, A) \cup {i}
<1> HIDE DEF p
<1>1. /\ Slots(p) = Slots(h) \cup {i} /\ p.objects[i] = obj
      /\ \A j \in Slots(h) \ {i} : p.objects[j] = h.objects[j]
  BY PutHeap DEF p
<1>2. /\ Reach(h, A) \subseteq Slots(h) /\ Closed(h, Reach(h, A), {})
      /\ Handles(A) \cap Slots(h) \subseteq Reach(h, A)
  BY ReachableClosed DEF Reach
<1>3. Handles(B) \cap Slots(p) \subseteq S
  BY <1>1, <1>2
<1>4. ASSUME NEW j \in S PROVE Children(p, j) \cap Slots(p) \subseteq S
  <2>1. CASE j = i
    <3>1. Children(p, j) = Handles(Values(obj.elems))
      BY <2>1, <1>1 DEF Children
    <3>2. Handles(Values(obj.elems)) \subseteq Handles(A)
      BY DEF Handles
    <3> QED BY <3>1, <3>2, <1>1, <1>2
  <2>2. CASE j # i
    <3>1. Children(p, j) = Children(h, j)
      BY <2>2, <1>1, <1>2 DEF Children
    <3>2. Children(h, j) \cap Slots(h) \subseteq Reach(h, A)
      BY <2>2, <1>2 DEF Closed
    <3> QED BY <3>1, <3>2, <1>1
  <2> QED BY <2>1, <2>2
<1>5. Closed(p, S, {})
  BY <1>4 DEF Closed
<1>6. Reach(p, B) \subseteq S
  BY <1>1, <1>2, <1>3, <1>5, ReachableLeast DEF Reach
<1> QED BY <1>6 DEF p

(* A collection keeps exactly what its roots reach: marks left from earlier *)
(* do not matter, no object moves or changes.                               *)
LEMMA SweepMarked ==
  ASSUME NEW h, IsHeap(h), NEW vals,
         NEW g, g = Sweep(MarkFrom(ResetMarks(h), vals))
  PROVE  /\ IsHeap(g) /\ g.objects = h.objects
         /\ g.free = Slots(h) \ Reach(h, vals)
<1> DEFINE r == ResetMarks(h)
           m == MarkFrom(r, vals)
           HeapRecord == [objects : Seq(HeapObject), marked : SUBSET Nat, free : SUBSET Nat]
<1>0. h \in HeapRecord
  BY DEF IsHeap
<1>1. r \in HeapRecord /\ r.objects = h.objects /\ r.marked = {}
  BY <1>0 DEF ResetMarks
<1> HIDE DEF r
<1>2. Slots(r) = Slots(h) /\ Reach(r, vals) = Reach(h, vals)
  BY <1>1, ReachObjects
<1>3. Slots(h) \subseteq Nat /\ Reach(h, vals) \subseteq Slots(h)
  BY <1>0, ReachableClosed DEF Slots, Reach
<1>4. m \in HeapRecord /\ m.objects = h.objects /\ m.marked = Reach(h, vals)
  <2>1. Reachable(r, vals, r.marked) = Reach(h, vals)
    BY <1>1, <1>2 DEF Reach
  <2> QED BY <1>1, <1>3, <2>1 DEF MarkFrom
<1> HIDE DEF m
<1>5. Slots(m) = Slots(h)
  BY <1>4 DEF Slots
<1>6. g \in HeapRecord /\ g.objects = h.objects /\ g.marked = {}
      /\ g.free = Slots(h) \ Reach(h, vals)
  BY <1>3, <1>4, <1>5 DEF Sweep, m, r
<1>7. Slots(g) = Slots(h)
  BY <1>6 DEF Slots
<1> QED BY <1>6, <1>7 DEF IsHeap
=============================================================================
