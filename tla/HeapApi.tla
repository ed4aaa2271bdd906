------------------------------ MODULE HeapApi ------------------------------
(***************************************************************************)
(* What the arena promises its callers: one action per method of Heap that *)
(* changes it, each a single assignment with the operators of module Heap. *)
(* The arguments are arbitrary; VmGc is the caller the source has.         *)
(***************************************************************************)
EXTENDS Heap

CONSTANTS Args,   \* bound: the values a caller may mark
          Lists   \* bound: the element lists it may store

VARIABLE heap

Alloc(obj) == \E i \in 1..MaxSlots : FreshSlot(heap, i) /\ heap' = Put(heap, i, obj)

ApiInit == heap = NewHeap

ApiNext ==
  \/ Alloc([kind |-> "String", elems |-> <<>>])
  \/ \E es \in Lists : Alloc([kind |-> "List", elems |-> es])
  \/ \E i \in Slots(heap), es \in Lists :                       \* get_mut
       /\ heap.objects[i].kind = "List"
       /\ heap' = SetElems(heap, i, es)
  \/ \E v \in Args : heap' = MarkFrom(heap, {v})                \* mark_value
  \/ heap' = ResetMarks(heap)
  \/ heap' = Sweep(heap)                                        \* collect_garbage_after_mark

ApiSpec == ApiInit /\ [][ApiNext]_heap
=============================================================================
