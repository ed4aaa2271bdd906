------------------------------- MODULE Resume -------------------------------
(***************************************************************************)
(* Snapshots of the task tree, crashes and resume: restore_into,           *)
(* restore_task_tree and restore_io_handles of src/snapshot.rs, as         *)
(* VM::resume calls them, over the scheduler of module Tasks.  The host    *)
(* keeps one snapshot in a file, which outlives the process: it is the     *)
(* vm.snapshot of some Yield, or one that it made with create_snapshot.    *)
(***************************************************************************)
EXTENDS Tasks, FiniteSetsExt

CONSTANT MaxRestarts   \* bound: processes after the first

ASSUME ResumeConstants == MaxRestarts \in Nat

VARIABLES saved,     \* the snapshot in the file
          origin,    \* history: the VM at the Yield of the root that took vm.snapshot
          restarts   \* how often the process was started anew

rvars == <<vars, saved, origin, restarts>>

VmState == [registry |-> registry, frames |-> frames, stack |-> stack, handles |-> handles]

\* A snapshot can list children that it does not have, and WaitChildren makes one of
\* them the current task.
ResumeTypeOK ==
  /\ IsRegistry(registry) /\ Root \in DOMAIN registry /\ current \in TaskId
  /\ frames \in Seq(Nat) /\ stack \in Seq(Values) /\ handles \subseteq Nat
  /\ nextTask \in TaskId /\ nextHandle \in Nat /\ waits \in Seq(Activation)
  /\ running \in BOOLEAN /\ inRun \in BOOLEAN /\ failing \in BOOLEAN
  /\ snapshot # NoTask => IsSnapshot(snapshot)
  /\ saved # NoTask => IsSnapshot(saved.snap)
  /\ restarts \in 0..MaxRestarts

ResumeInit == Init /\ saved = NoTask /\ origin = NoTask /\ restarts = 0

-----------------------------------------------------------------------------
\* A step of the scheduler.  What is remembered of a child's Yield is nothing: the
\* frames in its snapshot are not the root's.
VmStep ==
  /\ Next /\ UNCHANGED <<saved, restarts>>
  /\ origin' = IF OpYield /\ ~failing' THEN IF current = Root THEN VmState' ELSE NoTask
                                       ELSE origin

\* write_to_file of vm.snapshot.
HostSave ==
  /\ ~inRun /\ snapshot # NoTask
  /\ saved' = [snap |-> snapshot, of |-> origin]
  /\ UNCHANGED <<vars, origin, restarts>>

HostCreateSnapshot ==
  /\ ~inRun
  /\ UNCHANGED <<vars, origin, restarts>>
  /\ saved' = [snap |-> Captured(registry), of |-> NoTask]

\* The process ends, at any point, and a new one makes a new VM.
HostRestart ==
  /\ restarts < MaxRestarts /\ restarts' = restarts + 1
  /\ registry' = [t \in {Root} |-> NewTask(NoTask)] /\ current' = Root
  /\ frames' = <<>> /\ stack' = <<>> /\ handles' = {} /\ running' = FALSE
  /\ snapshot' = NoTask /\ origin' = NoTask
  /\ nextTask' = 1 /\ nextHandle' = 0
  /\ waits' = <<>> /\ inRun' = FALSE /\ failing' = FALSE
  /\ UNCHANGED saved

-----------------------------------------------------------------------------
\* Mutants of RestoredTree: the links of the current task are not restored; the
\* registry is replaced, although the snapshot may not have the current task.
TreeBelowCurrent(snap) ==
  [t \in DOMAIN registry \cup DOMAIN snap.tasks |->
     IF t \in DOMAIN snap.tasks \ {current} THEN snap.tasks[t] ELSE registry[t]]

TreeReplaced(snap) == snap.tasks

\* restore_task_tree: of the current task the links, the status and the handles; of
\* any other everything.  Tasks the snapshot does not have stay as they are.
RestoredTree(snap) ==
  [t \in DOMAIN registry \cup DOMAIN snap.tasks |->
     IF t \notin DOMAIN snap.tasks THEN registry[t]
     ELSE IF t # current THEN snap.tasks[t]
     ELSE [registry[t] EXCEPT !.children = snap.tasks[t].children,
                              !.status   = snap.tasks[t].status,
                              !.handles  = snap.tasks[t].handles]]

\* The VM's own table: replaced by the current task's when the snapshot has it, then
\* restore_io_handles adds the global section; only register_handle moves the counter.
RestoredHandles(snap) ==
  snap.handles \cup IF current \in DOMAIN snap.tasks THEN snap.tasks[current].handles ELSE handles
\* Mutant of NextHandleAfter: the counter of the VM is forgotten.
NextHandleOf(snap) == Max({0} \cup {h + 1 : h \in snap.handles})
NextHandleAfter(snap) == Max({nextHandle} \cup {h + 1 : h \in snap.handles})

Reconnected(snap) == snap.handles \cup UNION {snap.tasks[t].handles : t \in DOMAIN snap.tasks}

\* VM::resume.  Any handle may fail to reconnect: then it returns before run(), with
\* the state restored.
HostResume ==
  /\ ~inRun /\ saved # NoTask
  /\ LET snap == saved.snap IN
     /\ frames' = snap.frames /\ stack' = snap.stack /\ running' = TRUE
     /\ registry' = RestoredTree(snap)
     /\ handles' = RestoredHandles(snap) /\ nextHandle' = NextHandleAfter(snap)
     /\ inRun' \in IF Reconnected(snap) = {} THEN {TRUE} ELSE BOOLEAN
  /\ UNCHANGED <<current, snapshot, nextTask, waits, failing, saved, origin, restarts>>

ResumeNext == VmStep \/ HostSave \/ HostCreateSnapshot \/ HostRestart \/ HostResume

ResumeSpec == ResumeInit /\ [][ResumeNext]_rvars
-----------------------------------------------------------------------------
\* snapshot.rs, Snapshot: "everything needed to reconstruct the VM and resume
\* execution from a yield point".  A snapshot the root's Yield took brings back the
\* root's stack, frames and handles and every task that is not Running, as they were,
\* in a new process or over whatever the same VM did since.
RootSnapshotRestores ==
  [][HostResume /\ saved.of # NoTask =>
       LET was == saved.of IN
       /\ frames' = was.frames /\ stack' = was.stack /\ handles' = was.handles
       /\ registry'[Root].children = was.registry[Root].children
       /\ registry'[Root].handles = handles'
       /\ \A t \in DOMAIN was.registry \ {Root} :
            was.registry[t].status # "Running" => registry'[t] = was.registry[t]]_rvars

\* A child or an I/O handle gets an id that no task and no table of handles has.
NewIds ==
  /\ OpSpawn /\ ~failing' => nextTask \notin DOMAIN registry
  /\ OpOpen => \A t \in DOMAIN registry : nextHandle \notin HandlesOf(t)

\* As long as the process lives, resuming however old a snapshot over the VM leads to
\* no id given out twice, although it puts back links, statuses and handles.
NewIdsInOneProcess == [][restarts = 0 => NewIds]_rvars

\* The same in every process.  task.rs, TaskId: "Unique identifier for a task in the
\* VM"; vm.rs, next_handle_id: "Monotonic counter for the next `HandleId` allocation".
IdsStayUnique == [][NewIds]_rvars
=============================================================================
