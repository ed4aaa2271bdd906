------------------------------- MODULE MCHeap -------------------------------
(***************************************************************************)
(* The heap of src/heap.rs twice over: as a VM with two tasks uses it,     *)
(* under a host that pins and under one that does not, up to its snapshots *)
(* and their files (VmGc, HeapSnapshot, HeapFile); and as the vectors and  *)
(* the recursion it is made of, up to its values in module files (HeapVec, *)
(* HeapCodec).  A behaviour is of one of the two.                          *)
(***************************************************************************)
EXTENDS HeapFile, MCHeapVec

\* Bounds of the VM: two slots, one less than the vectors have.  A host that pins has no
\* constants.  One that does not has them; its stack and the list in its first slot hold
\* at most a handle, that in the second nothing, and no locals are changed or left behind.
OneHandle(s) == Len(s) <= 1 /\ Prim \notin Values(s)
Bounded ==
  /\ Slots(heap') \subseteq 1..2
  /\ IF pins THEN code' = {}
     ELSE /\ OneHandle(stack')
          /\ \A i \in Slots(heap') : LET es == heap'.objects[i].elems IN
                                     IF i = 1 THEN OneHandle(es) ELSE es = <<>>
          /\ locals' \in {<<>>, Fresh} /\ \A t \in completed' : registry'[t].locals = <<>>

MCInit == Init /\ VecInit
MCNext ==
  \/ objects = <<>> /\ Next /\ Bounded /\ UNCHANGED vecs
  \/ heap = NewHeap /\ pins /\ Init /\ VecNext /\ UNCHANGED vars
MCSpec == MCInit /\ [][MCNext]_<<vars, vecs>>
=============================================================================
