-------------------------------- MODULE Heap --------------------------------
(***************************************************************************)
(* The arena of src/heap.rs as a value: what one call of each method of    *)
(* `Heap` returns.  A heap is a record                                     *)
(*                                                                         *)
(*   objects   the Vec<HeapObject>, slot idx being element idx + 1;        *)
(*   marked    the slots whose entry of `marked: Vec<bool>` is true;       *)
(*   free      the slots of `free_slots`.                                  *)
(*                                                                         *)
(* `free_slots` is a Vec used as a stack, yet the set loses nothing:       *)
(* `sweep` rebuilds it in ascending order and only `pop` shortens it, so   *)
(* its top is always its maximum.  Module HeapVec keeps the vectors and    *)
(* the recursion of the source, and is proved to implement this one.       *)
(***************************************************************************)
EXTENDS Naturals, Sequences, FiniteSets

CONSTANTS Prim,      \* any Value that is not a heap handle (Int, Float, Bool, Null)
          MaxSlots   \* bound: slots the arena may grow to (the Vec has none)

Kinds == {"String", "List"}
Ref == [kind : Kinds, index : Nat \ {0}]     \* Value::String(gc) / Value::List(gc)
Value == Ref \cup {Prim}
HeapObject == [kind : Kinds, elems : Seq(Value)]

ASSUME HeapConstants == MaxSlots \in Nat /\ Prim \notin Ref

NewHeap == [objects |-> <<>>, marked |-> {}, free |-> {}]

Slots(h) == DOMAIN h.objects
IsHeap(h) ==
  /\ h \in [objects : Seq(HeapObject), marked : SUBSET Nat, free : SUBSET Nat]
  /\ h.marked \subseteq Slots(h)
  /\ h.free \subseteq Slots(h)

-----------------------------------------------------------------------------
(* What a set of values refers to, and what an object refers to.           *)

Values(s) == {s[k] : k \in DOMAIN s}
Handles(vals) == {v.index : v \in vals \ {Prim}}
Children(h, i) == Handles(Values(h.objects[i].elems))

\* heap.get: the handle resolves only to an object of its own type.  Freeness
\* is not looked at: a swept slot still resolves.
Resolves(h, v) ==
  v # Prim => v.index \in Slots(h) /\ h.objects[v.index].kind = v.kind

Closed(h, S, stop) == \A i \in S : Children(h, i) \cap Slots(h) \subseteq S \cup stop

\* The slots a depth-first walk from vals visits when it turns back at `stop`:
\* the least set that holds the entry points and is closed under Children.
Reachable(h, vals, stop) ==
  LET room  == Slots(h) \ stop
      entry == Handles(vals) \cap room
  IN  {i \in room : \A S \in SUBSET room : entry \subseteq S /\ Closed(h, S, stop) => i \in S}

Reach(h, vals) == Reachable(h, vals, {})

-----------------------------------------------------------------------------
(* alloc_string / alloc_list, mark_value, reset_marks, sweep.              *)

FreshSlot(h, i) ==
  \/ h.free = {} /\ i = Len(h.objects) + 1 /\ i <= MaxSlots
  \/ i \in h.free /\ \A j \in h.free : j <= i

\* Faulty variant of Put: reads the last free slot without popping it.
PutKeepsFree(h, i, obj) ==
  [h EXCEPT !.objects = IF i \in Slots(h) THEN [@ EXCEPT ![i] = obj] ELSE Append(@, obj),
            !.marked = @ \ {i}]

Put(h, i, obj) ==
  [objects |-> IF i \in Slots(h) THEN [h.objects EXCEPT ![i] = obj]
                                 ELSE Append(h.objects, obj),
   marked  |-> h.marked \ {i},
   free    |-> h.free \ {i}]

SetElems(h, i, es) == [h EXCEPT !.objects[i].elems = es]      \* through get_mut

\* Faulty variant of MarkFrom: does not descend into lists.
MarkEntries(h, vals) == [h EXCEPT !.marked = @ \cup (Handles(vals) \cap Slots(h))]
MarkFrom(h, vals) == [h EXCEPT !.marked = @ \cup Reachable(h, vals, @)]

\* Faulty variant of ResetMarks: leaves the marks of the last traversal.
KeepMarks(h) == h
ResetMarks(h) == [h EXCEPT !.marked = {}]

\* Faulty variant of Sweep: scans one index too many.
SweepPastEnd(h) == [h EXCEPT !.free = (1..Len(h.objects) + 1) \ h.marked, !.marked = {}]
Sweep(h) == [h EXCEPT !.free = Slots(h) \ h.marked, !.marked = {}]

LiveCount(h) == Len(h.objects) - Cardinality(h.free)
=============================================================================
