------------------------------ MODULE HeapFile ------------------------------
(***************************************************************************)
(* The snapshots of HeapSnapshot as bytes: every heap that VmGc reaches is *)
(* written to a file, and read back as read_from_file and restore_into     *)
(* would.                                                                  *)
(***************************************************************************)
EXTENDS HeapSnapshot, SnapshotFile

\* A TaskId is a u64, and the registry is a HashMap.
ASSUME FileConstants == IsFiniteSet(Tasks) /\ Tasks \subseteq Nat

ValueField(v) == IF v = Prim THEN NullValue ELSE [t |-> v.kind, v |-> v.index]
ValueFields(s) == [k \in DOMAIN s |-> ValueField(s[k])]
FrameFields(s) == <<[function |-> 0, ip |-> 0, locals |-> ValueFields(s)]>>
ObjectField(obj) == [kind |-> obj.kind, data |-> ValueFields(obj.elems)]
TaskField(t, entry) ==
  [id |-> t, parent |-> <<>>, status |-> 2, pc |-> <<>>, children |-> <<>>,
   stack |-> ValueFields(entry.stack), frames |-> FrameFields(entry.locals), handles |-> <<>>]
Fields(snap) ==
  LET ids == Seqs!SetToSeq(DOMAIN snap.saved) IN
  [hash |-> 0, time |-> 0, objects |-> [p \in DOMAIN snap.objects |-> ObjectField(snap.objects[p])],
   frames |-> FrameFields(snap.locals), stack |-> ValueFields(snap.stack), handles |-> <<>>,
   tasks |-> [k \in DOMAIN ids |-> TaskField(ids[k], snap.saved[ids[k]])]]
-----------------------------------------------------------------------------
\* The marks are those a capture makes, and would make again.
JustCaptured == CanCapture /\ heap = MarkAllTaskRoots(heap)

\* snapshot.rs, restore_into, "rebuild heap: read objects, build pos -> Gc map", with the
\* map it has so far: a heap comes back from the file with every reference in it, in the
\* stack, in the frames and in the parked tasks, unless a list refers to itself or to an
\* object in a higher slot; then, and only then, resuming fails, with InvalidHeapPosition.
FileKeepsGraph ==
  JustCaptured =>
    \A snap \in {Captured} : \A s \in {Fields(snap)} : \A data \in {WriteToFile(s)} :
      LET read == ReadSnapshot(data) IN
      IF ReadsBack(snap) THEN Same(read, s) ELSE read.error = BadPosition
=============================================================================
