----------------------------- MODULE MCHeapVec -----------------------------
(***************************************************************************)
(* HeapVec on three slots, with a handle past the end of a shorter arena   *)
(* and lists that give chains, sharing, cycles and self-loops.  Which kind *)
(* a handle has makes no difference to marking or sweeping.                *)
(***************************************************************************)
EXTENDS HeapCodec

To(i) == [kind |-> "List", index |-> i]
MCArgs == {Prim} \cup {To(i) : i \in 1..MaxSlots}
MCLists == {<<>>, <<To(1)>>, <<To(2)>>, <<Prim, To(3)>>, <<To(1), To(2)>>, <<To(2), To(3)>>, <<To(3), To(1)>>}
=============================================================================
