---------------------------- MODULE HeapSnapshot ----------------------------
(***************************************************************************)
(* What Snapshot::capture writes of a VM and what restore_into and         *)
(* restore_task_tree rebuild from it (src/snapshot.rs), as functions of    *)
(* the state of VmGc: every state VmGc reaches is a state to snapshot.     *)
(* Handles are written as positions of objects in the heap section, which  *)
(* holds the marked slots in ascending order, and read back as slots of a  *)
(* fresh arena.                                                            *)
(***************************************************************************)
EXTENDS VmGc, Functions

Pos(h, i) == Cardinality({j \in h.marked : j <= i})          \* gc_to_pos
AtPos(h, p) == CHOOSE i \in h.marked : Pos(h, i) = p

\* Faulty variant of WriteRef: writes the slot instead of the position.
WriteSlot(h, v) == v
WriteRef(h, v) == IF v = Prim THEN v ELSE [v EXCEPT !.index = Pos(h, @)]
WriteValues(h, s) == [k \in DOMAIN s |-> WriteRef(h, s[k])]

\* The heap, stack, frame and task sections.  Of the other tasks only those that
\* are not Running are written.
SnapshotOf(h) ==
  [objects |-> [p \in 1..Cardinality(h.marked) |->
                  LET obj == h.objects[AtPos(h, p)] IN
                  [kind |-> obj.kind, elems |-> WriteValues(h, obj.elems)]],
   stack   |-> WriteValues(h, stack),
   locals  |-> WriteValues(h, locals),
   saved   |-> [t \in completed |-> [stack  |-> WriteValues(h, registry[t].stack),
                                     locals |-> WriteValues(h, registry[t].locals)]]]

\* read_value_ref knows the positions of the objects before this one only.
ReadsBack(snap) ==
  \A p \in DOMAIN snap.objects :
    \A v \in Values(snap.objects[p].elems) : v # Prim => v.index < p

RestoredHeap(snap) == [NewHeap EXCEPT !.objects = snap.objects]
-----------------------------------------------------------------------------
CanCapture == ~panicked /\ CodeReadable /\ Encodable(MarkAllTaskRoots(heap))
Captured == SnapshotOf(MarkAllTaskRoots(heap))

\* The stacks and locals of the current task and of the completed ones, each with what
\* the snapshot has for it.
RootLists(snap) ==
  {<<stack, snap.stack>>, <<locals, snap.locals>>}
    \cup {<<registry[t].stack, snap.saved[t].stack>> : t \in completed}
    \cup {<<registry[t].locals, snap.saved[t].locals>> : t \in completed}

Corresponds(f, v, w) ==
  \/ v = Prim /\ w = Prim
  \/ v # Prim /\ w # Prim /\ v.kind = w.kind /\ f[v.index] = w.index
AllCorrespond(f, s, s2) ==
  Len(s) = Len(s2) /\ \A k \in DOMAIN s : Corresponds(f, s[k], s2[k])

Isomorphic(g, h, lists) ==
  LET roots(side) == UNION {Values(pair[side]) : pair \in lists} IN
  \E f \in Bijection(Reach(g, roots(1)), Reach(h, roots(2))) :
     /\ \A pair \in lists : AllCorrespond(f, pair[1], pair[2])
     /\ \A i \in DOMAIN f : /\ g.objects[i].kind = h.objects[f[i]].kind
                            /\ AllCorrespond(f, g.objects[i].elems, h.objects[f[i]].elems)

\* A restored VM sees the object graph the captured one saw: the same shapes and
\* kinds, the same sharing, from the same stack, locals and completed tasks,
\* whatever slots the objects had and whatever stale marks the capture found.
RestoreIsomorphic ==
  CanCapture /\ ReadsBack(Captured) =>
    Isomorphic(heap, RestoredHeap(Captured), RootLists(Captured))
=============================================================================
