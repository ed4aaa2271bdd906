----------------------------- MODULE ResumeFile -----------------------------
(***************************************************************************)
(* The snapshots of Resume as bytes: the task section of every tree that   *)
(* the scheduler can leave behind, written and read back.                  *)
(***************************************************************************)
EXTENDS Resume, SnapshotFile

\* The entries of a table, in the order of a HashMap, which may be any.
Listed(ids, EntryOf(_)) == LET s == Seqs!SetToSeq(ids) IN [k \in DOMAIN s |-> EntryOf(s[k])]

\* The values of Tasks as Int and Null; a handle is a file, whose fields are in module
\* FileHandles; the pc of Yielded is never read.
ValueField(v) == IF v = Null THEN NullValue ELSE [t |-> "Int", v |-> v]
ValueFields(s) == [k \in DOMAIN s |-> ValueField(s[k])]
FrameFields(s) == [k \in DOMAIN s |-> [function |-> 0, ip |-> s[k], locals |-> <<>>]]
HandleField(h) ==
  [id |-> h, kind |-> 0, strategy |-> 0, params |-> <<0, 0>>, cached |-> <<>>, position |-> <<0>>]
HandleFields(ids) == Listed(ids, HandleField)
TaskField(t, entry) ==
  [id |-> t, parent |-> IF entry.parent = NoTask THEN <<>> ELSE <<entry.parent>>,
   status |-> IF entry.status = "Yielded" THEN 1 ELSE 2,
   pc |-> IF entry.status = "Yielded" THEN <<0>> ELSE <<>>,
   children |-> entry.children, stack |-> ValueFields(entry.stack),
   frames |-> FrameFields(entry.frames), handles |-> HandleFields(entry.handles)]
Fields(snap) ==
  [hash |-> 0, time |-> 0, objects |-> <<>>, frames |-> FrameFields(snap.frames),
   stack |-> ValueFields(snap.stack), handles |-> HandleFields(snap.handles),
   tasks |-> Listed(DOMAIN snap.tasks, LAMBDA t : TaskField(t, snap.tasks[t]))]
-----------------------------------------------------------------------------
\* snapshot.rs, task_section, "count(u32) | task entries": a file of any tree of tasks
\* that Yield or the host leaves, with whatever is parked in its entries, reads back as
\* the same tree.  read_from_bytes skips over the entries that restore_task_tree reads.
FileKeepsTree == [][saved' # saved => FileReadsBack({Fields(saved'.snap)})]_rvars
=============================================================================
