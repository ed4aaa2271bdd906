------------------------------ MODULE HeapVec ------------------------------
(***************************************************************************)
(* src/heap.rs with the vectors and the recursion it has: `marked` is a    *)
(* vector of flags as long as `objects`, `free_slots` a stack of indices,  *)
(* and `mark` a depth-first walk.  It implements HeapApi, so the set       *)
(* operators of module Heap are what this code computes.                   *)
(***************************************************************************)
EXTENDS Heap, SequencesExt

CONSTANTS Args, Lists     \* as in HeapApi

ASSUME VecConstants == Args \subseteq Value /\ Lists \subseteq Seq(Value)

VARIABLES objects, marked, free_slots

vecs == <<objects, marked, free_slots>>

Abstract == [objects |-> objects,
             marked  |-> {i \in DOMAIN marked : marked[i]},
             free    |-> ToSet(free_slots)]

Api == INSTANCE HeapApi WITH heap <- Abstract

-----------------------------------------------------------------------------
\* alloc_string and alloc_list differ in the object only.
Alloc(obj) ==
  IF free_slots # <<>>
  THEN LET idx == Last(free_slots) IN
       /\ free_slots' = Front(free_slots)
       /\ objects' = [objects EXCEPT ![idx] = obj]
       /\ marked' = [marked EXCEPT ![idx] = FALSE]
  ELSE /\ Len(objects) < MaxSlots
       /\ objects' = Append(objects, obj)
       /\ marked' = Append(marked, FALSE)
       /\ UNCHANGED free_slots

\* mark(idx) on the flags m; `each` is its loop over the elements of the object.
\* Faulty variant of Mark: does not descend into lists.
MarkShallow(each, m, idx) == IF idx \notin DOMAIN m THEN m ELSE [m EXCEPT ![idx] = TRUE]
Mark(each, m, idx) ==
  IF idx \notin DOMAIN m \/ m[idx] THEN m
  ELSE each[<<[m EXCEPT ![idx] = TRUE], objects[idx].elems>>]

\* The loop over the elements: the flags, and the elements still to come.
Marks == [DOMAIN objects -> BOOLEAN]
MarkEach[work \in Marks \X Seq(Value)] ==
  LET m == work[1]  refs == work[2] IN
  IF refs = <<>> THEN m
  ELSE MarkEach[<<IF Head(refs) = Prim THEN m ELSE Mark(MarkEach, m, Head(refs).index),
                  Tail(refs)>>]

MarkValue(v) ==
  /\ marked' = IF v = Prim THEN marked ELSE Mark(MarkEach, marked, v.index)
  /\ UNCHANGED <<objects, free_slots>>

ResetFlags ==
  /\ marked' = [i \in DOMAIN marked |-> FALSE]
  /\ UNCHANGED <<objects, free_slots>>

\* What the loop of sweep has pushed after its first k turns.
Unmarked[k \in 0..Len(marked)] ==
  IF k = 0 THEN <<>>
  ELSE IF marked[k] THEN Unmarked[k - 1] ELSE Append(Unmarked[k - 1], k)

\* Faulty variant of SweepFlags: extends the free list instead of rebuilding it.
SweepExtends ==
  /\ free_slots' = free_slots \o Unmarked[Len(marked)]
  /\ marked' = [i \in DOMAIN marked |-> FALSE]
  /\ UNCHANGED objects

SweepFlags ==
  /\ free_slots' = Unmarked[Len(marked)]
  /\ marked' = [i \in DOMAIN marked |-> FALSE]
  /\ UNCHANGED objects

SetList(i, es) ==
  /\ objects[i].kind = "List"
  /\ objects' = [objects EXCEPT ![i].elems = es]
  /\ UNCHANGED <<marked, free_slots>>

VecInit == objects = <<>> /\ marked = <<>> /\ free_slots = <<>>

VecNext ==
  \/ Alloc([kind |-> "String", elems |-> <<>>])
  \/ \E es \in Lists : \/ Alloc([kind |-> "List", elems |-> es])
                       \/ \E i \in DOMAIN objects : SetList(i, es)
  \/ \E v \in Args : MarkValue(v)
  \/ ResetFlags
  \/ SweepFlags

VecSpec == VecInit /\ [][VecNext]_vecs
-----------------------------------------------------------------------------
\* The flags are as many as the objects, and the free list is ascending: no slot
\* is on it twice (two allocations never get the same slot), pop takes its
\* largest, and len()'s saturating_sub never saturates.
FreeListSound ==
  /\ Len(marked) = Len(objects)
  /\ \A j, k \in DOMAIN free_slots : j < k => free_slots[j] < free_slots[k]
  /\ ToSet(free_slots) \subseteq DOMAIN objects

\* Every method does to the vectors what Heap says it does to the sets: `mark` marks what
\* Reachable has, and `sweep` frees the rest.  (TLC takes no property through an
\* instance name, so it is given one here.)
ImplementsHeap == Api!ApiSpec
=============================================================================
