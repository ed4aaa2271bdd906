# Pausible in TLA+

Pausible is a bytecode virtual machine in Rust whose programs can stop at a
`Yield`, be written to a file as a snapshot, and be resumed in another process.
It has a garbage-collected heap, a tree of tasks (`Spawn`, `WaitChildren`) and
I/O handles that are reconnected on resume. This directory models the parts of
it in which order, nesting and stale state decide what is correct, checks them
with TLC, and proves the main invariants with TLAPS.

## The system

| Part | Source | State | Operations |
|---|---|---|---|
| Heap | `src/heap.rs` | `objects`, `marked`, `free_slots` | `alloc_string`, `alloc_list`, `get`, `get_mut`, `mark`, `mark_value`, `sweep`, `reset_marks` |
| VM roots and collection | `src/vm.rs` | stack, frame locals, function table, saved stacks | `alloc_*`, `maybe_gc`, `collect_garbage`, `mark_roots`, `mark_all_task_roots` |
| Task tree and scheduler | `src/task.rs`, `src/vm.rs` | `task_registry`, `current_task_id`, `running`, the Rust stack | `Spawn`, `WaitChildren`, `Yield`, `Return`, `Halt`, `prepare`, `run` |
| Snapshot | `src/snapshot.rs` | the sections of a snapshot, a file of them | `capture`, `write_to_file`, `read_from_file` |
| Resume | `src/snapshot.rs`, `src/vm.rs` | | `restore_into`, `restore_task_tree`, `restore_io_handles`, `resume` |
| I/O handles | `src/io.rs`, `src/vm.rs` | one table per task, `next_handle_id` | open, read, write, seek, connect, request, close, `reconnect_handle` |
| Interpreter and values | `src/vm.rs`, `src/opcode.rs`, `src/value.rs` | frames, stack, instruction pointer | one arm of `VM::step` per opcode, the operators of `Value` |
| Module format | `src/chunk.rs` | | `serialize_module`, `deserialize_module` |
| Value serializer | `src/serialize.rs` | the object maps of `SerCtx` and `DeCtx` | `serialize`, `deserialize` |

Everything runs in one thread. The parts interact through the VM: opcodes
allocate in the heap; `WaitChildren` saves the parent in the registry and calls
`run()` of each child *from inside* `step()`, so the Rust call stack is part of
the state; `Yield` captures a snapshot of the heap, the stack, the frames and
the registry; `resume` overwrites the same fields and calls `run()`. The host
calls `prepare`, `run`, `resume`, `create_snapshot`, `alloc_*` and
`collect_garbage` between runs, in any order, and may change public fields.

What is hard here:

- a task's state lives in the VM while it runs and in the registry while it does
  not, and nested runs, errors and yields move it at different points;
- a collection can run while handles sit where it does not look, and freed slots
  are reused under the same index, possibly for an object of the other type;
- a snapshot numbers objects by position, so slots, marks left by an earlier
  capture and the order of slots all matter;
- a resume mixes restored state with what the VM had, in the same process or in a
  new one, and may stop half way when a handle does not reconnect;
- a snapshot file is overwritten in place, and three readers must agree on where
  each of its variable parts ends;
- a reconnection acts on the world again: it opens the file, the stream, and sends
  the request once more.

## Modules

| Module | What it is | Extends / instantiates |
|---|---|---|
| `Heap` | the arena as a value: what every method of `heap.rs` returns | |
| `HeapApi` | the same as a specification: what the arena promises its callers | `Heap` |
| `HeapVec` | the vectors and the recursive `mark` of the source | `Heap`; implements `HeapApi` |
| `VmGc` | who holds handles, and which holders a collection scans | `Heap` |
| `HeapSnapshot` | what a capture writes of a heap and what a restore rebuilds | `VmGc` |
| `Tasks` | the task tree, the scheduler and the handle tables | implements `ForkJoin` |
| `ForkJoin` | the abstract specification of structured concurrency | |
| `Resume`, `MCResume` | snapshots in a file, crashes, a second process, resume | `Tasks` |
| `FileHandles` | a file handle across reads, writes, yields and resumes | |
| `Connections` | a TCP or HTTP handle and its peer, across the same | |
| `MCFileHandles` | a handle that is a file or a connection | `FileHandles`, `Connections` |
| `SnapshotFile` | the fields of a snapshot file: writer and readers | |
| `HeapFile`, `ResumeFile` | the files of all heaps, and of all task trees, that are reached | `HeapSnapshot`, `Resume`; `SnapshotFile` |
| `ModuleFile` | the fields of a module file and of serialized values | `SnapshotFile` |
| `HeapCodec`, `MCHeapVec` | both for all arenas that are reached | `HeapVec`, `ModuleFile` |
| `MCHeap` | the heap as a VM uses it, or the vectors it is made of | `HeapFile`, `MCHeapVec` |
| `Values` | the values of the machine and their operators | |
| `Interpreter` | `VM::step` as a function from machine to machine | `Values`, `SnapshotFile` |
| `Program`, `MCProgram` | programs that lose their process and are resumed | `Interpreter` |
| `HeapLemmas`, `VmGcProofs` | proofs about `Heap`, `VmGc`, `HeapSnapshot` and `HeapFile` | |
| `HeapVecProofs` | proofs about `HeapVec`, `ModuleFile` and `HeapCodec` | |
| `TasksProofs` | proofs about `Tasks` | |
| `FileProofs` | proofs about `SnapshotFile`, used by the next two, `HeapVecProofs` and `VmGcProofs` | |
| `ProgramProofs` | proofs about `Values`, `Interpreter` and `Program` | |
| `SnapshotProofs` | proofs about `Tasks`, `Resume` and `ResumeFile` | |
| `HandlesProofs` | proofs about `FileHandles` and `Connections` | |

### Heap, HeapApi, HeapVec

A heap is a record of objects, marked slots and free slots, and each method is an
operator from heap to heap. `Reachable` says declaratively what `mark` computes
recursively: the least set of slots that holds the entry points and is closed
under children, where a traversal turns back at slots that are already marked
(stale marks cut a traversal short, as in the source). `HeapVec` keeps
`marked: Vec<bool>`, the `free_slots` stack and the recursion, and implements
`HeapApi`: the recursion is a recursive function over the flags and the elements still
to visit, the loop of `sweep` one over its turns. The data of a string is left out:
nothing here depends on it.

### VmGc

State: the heap, the stack and the locals of the current task, what the registry
saved for each task, the handles embedded in the function table, the handle a
host variable has, and whether the process died in an `expect`. Actions: the
opcodes that allocate, move or drop a handle; entering, leaving, failing and
skipping a child in `WaitChildren` (its results are pushed as each child ends,
where the source collects them first: they are in no root meanwhile, and no
collection can run meanwhile either); the host's `alloc_*` with its `maybe_gc`,
`get_list_mut`, `add_function`; a collection; and the marking of a capture,
which panics when a function constant or an element cannot be written.

`pins` is the host's discipline, chosen at the start from the constant `Hosts` and
never changed. With `TRUE` the host keeps whatever it needs reachable from the stack or
the locals when it collects, and allocates below the threshold; with `FALSE` it does
what it likes. `NoDangling` and `TypedHandles` are about the first, all else about both.

### Tasks and ForkJoin

State: the registry, the current task, the fields of the VM, the two id counters,
`waits` (the activations of `WaitChildren` on the Rust stack, with the children
still to do and the results so far), whether `run()` of the host has not
returned, and whether an `Err` is on its way up. One action per opcode that the
scheduler can tell apart and per turn of the loop of `WaitChildren`. The function
table is open: the opcode at an instruction pointer is any opcode, so TLC looks
at every program of the given length, including those a compiler would never
emit. `OpFails` is every `Err` an opcode can return after popping some operands.
Values are tagged with the task that made them. `ForkJoin` knows only parents,
completed tasks and the active one.

### HeapSnapshot and Resume

`HeapSnapshot` has no actions of its own: in every state of `VmGc` it computes
the snapshot that `capture` would write and the heap `restore_into` would build,
with handles as positions. `Resume` adds to `Tasks` a file with one snapshot, the
host's `create_snapshot`, a process that ends at any step and starts anew, and
`resume` as one action: the three restore functions in the order of the source,
then `run()`, or the early return when some handle failed to reconnect.
`saved.of` and `origin` are history variables. `MCResume` runs it on a family of
programs instead of an open function table: the root spawns, waits, opens, and
yields or halts before it waits again. A snapshot can list children that it does
not have; after a resume in a new process `WaitChildren` makes such a child
current over an empty frame stack, and its error ends the parent's wait.

### FileHandles

One handle of kind File and the file it names. State: the file's content and
whether its path still names it; the handle in the VM's table and its copy in the
root's registry entry, each with mode, strategy, position, open `File` (as its
cursor) and cache; the root's status; the snapshot. Actions: `FileOpen` (and the
host's `create_handle` with any strategy), `FileRead`, `FileWrite` that succeeds,
fails half way or meets a reopened file, `FileSeek` with its cast to `u64`,
`FileClose`, a `Yield` of the root, the host's `create_snapshot`, `resume`, a new
process, and others who rewrite or remove the file at any time. Positions are
`0..Width-1`, the upper half is refused by `lseek`, and the greatest is the value
that a snapshot uses for "no position". Each copy carries two history fields:
`due`, where a reader that was never interrupted would go on, and `seen`, the
data last read or written. Opening fails only for a missing file. A second handle,
and the id a handle gets, are in `Tasks` and `Resume`.

### Connections

One handle of kind TcpStream or HttpConnection and its peer, in the same four
places as the file handle (VM, registry entry, two sections of a snapshot). The
peer may change its answer, be out of reach, or be reached while its answer is
lost; `received` counts what reaches it. A clone of a stream is a handle without
one, as in `io.rs`; the bytes on the wire are opaque. `Nothing` is used where
`FileHandles` has `None`, and shared names have a prefix, so that `MCFileHandles`
can extend both; it gives the table one of the two kinds, never both, as nothing
in the code relates two handles except their ids.

### SnapshotFile, HeapFile, ResumeFile

A file is a sequence of fields, one per integer and one per byte of a string, with
the magic, the version and the tags of the source. `WriteToFile` is
`write_to_file` with the serializers it calls; `ReadSnapshot` is
`read_from_bytes`, with the skip functions that find the sections' ends, followed
by the readers that `resume` uses, each with the errors it returns and the one
place that panics. `HeapFile` evaluates it in every state of `HeapSnapshot`,
`ResumeFile` at every save of `Resume`: the inputs of the codec are exactly the
heaps and trees that the VM can be in.

### ModuleFile, HeapCodec

`SerializeModule` and `DeserializeModule` for functions with every kind of
operand, over arenas that hold the constants. `HeapCodec` runs them on each arena
that `HeapVec` reaches. `serialize.rs` writes the same fields; what it has besides
are the maps from objects to numbers, `SerMap` and `DeMap`. The source recurses into the
elements of a list. The modules have functions of the depth instead, so that they can be
proved about: `Writer(objs)[n]` is `write_value` for values at most `n` lists deep,
`Reader(data)[n]` is `read_value` where `n` fields are left (each list takes one),
and likewise `EndsWithin`, `Recorder` and `Likes`, which compares a value with its copy.
`Refers` and `EndsWithin` say for which values `write_value` neither panics nor runs on
without end: handles resolve, and lists do not contain themselves.

### Values, Interpreter, Program

`Values` has an `i64` of `2 * HalfRange` values, with the difference between a
build with overflow checks and one without, and an `f64` of small whole numbers,
infinities and NaN. `Interpreter!Step` has one case per opcode for a program without
child tasks, with the frames, the arena, the buffers of the standard streams and
the root's registry entry, and what capture, `restore_into`, `restore_task_tree`
and `restore_io_handles` do to these. The opcodes that only touch tasks, files or
peers are in `Tasks`, `FileHandles` and `Connections`. `Program` adds the host: it
saves to one file, may lose the process at any point, also in the middle of the
write, starts the same or another build, of the same or another program, and
resumes. History variables run the same program without interruption (`ideal`)
and say which processes resumed something the documents do not promise
(`astray`): stale handles, a constant pushed after a resume, a run past `Halt`.

## What the runs show

| Run | Module | Properties | Instance |
|---|---|---|---|
| `tasks` | `Tasks` | `TypeOK`, `TreeConsistent`, `WaitChain`, `DepthBounded`, `StackIsolation`, `HandlesOwnedOnce`, `SnapshotClosed`, `CompletedIsFinal`, `OneResultPerChild`, `ImplementsForkJoin` | 4 tasks, depth 3, functions of 3 instructions, stack 2, 1 I/O handle; 1.4 million states |
| `returns` | `Tasks` | `ParentsUntouched`, `FramesLostOnlyByError`, `RunReturnsToHost` | 2 tasks, 2 frames each (calls, repeated `prepare`), forward jumps; 147 thousand states |
| `heap` | `MCHeap` | `TypeOK`, `NoDangling`, `TypedHandles`, `RestoreIsomorphic`, `FileKeepsGraph`, `DanglesOnlyUnscanned`, `NoFloatingGarbage`; `FreeListSound`, `ImplementsHeap`, `ModuleReadsBack`, `CutModuleRefused` | 2 tasks, 2 slots, lists of 1; a host that pins with stack 2 and 1 local, or one that does not with stack 1 and 1 constant in the code; or the vectors, with 3 slots and lists that form chains, cycles and sharing; 363 thousand states |
| `resume` | `MCResume` | `ResumeTypeOK`, `RootSnapshotRestores`, `NewIdsInOneProcess`, `FileKeepsTree` | 3 tasks, functions of 7 instructions, 2 I/O handles, 2 processes; 464 thousand states |
| `files` | `MCFileHandles` | `FileTypeOK`, `NothingSkipped`, `CacheCurrent`, `YieldRestoresFile`, `ResumedIsReadable`, `OneReplayPerResume` | file of up to 1 byte, positions 0..7, one mode for each strategy; a peer with 2 answers, reached up to 4 times; 491 thousand states |
| `program` | `MCProgram` | `ProgramTypeOK`, `OnTrack`, `SavedReadsBack`, `WholeSnapshotOnly` | 6 programs, 8 integers, floats up to 2, 60 instructions, 2 processes; 43 thousand states |
| `handles`, `capture`, `yielding`, `ids`, `maps`, `streams` | | see below | each finds a counterexample |

What they show beyond their names: `tasks` and `returns` that structured
concurrency holds for every program, also for one that no compiler emits, through
errors and yields; `heap` that a host which keeps what it needs in a root never
meets a freed or retyped object, what exactly another host can lose, that the heap
survives capture, file and restore, and that the vectors are what the rest takes them
for; `resume` what a `Yield`
promises to the process after it; `files` what an I/O handle is worth after a
resume; `program` that a resumed run is indistinguishable from one that was never
interrupted, and that a file cut by a crash never passes for a snapshot.

Why these bounds are enough for the cases that matter: two slots suffice for a
list that holds a string, for reuse of a freed slot under another type, for an
element in a higher slot and for a self-loop (`Bounded` in `MCHeap` has the bounds
of each host: the constants come with the one that does not pin; the constants of the
other are one more thing that `Pinned` has it keep in a root, and are in the theorems
only); two tasks for a handle that only a
parked stack has. Depth three is the first with a waiting task between the root
and the running one, and four tasks the first with siblings below it. Functions of
three instructions let a task spawn, wait and yield or wait again; a child can end
in every way at every point. Two processes are one resume away from the first;
functions of seven instructions are the first in which a root yields, spawns,
halts and is resumed into a wait. A file of one byte can be empty, grow, shrink,
and be read from its end, past its end and from its start; positions up to 7 have
one that is refused and the one that means none. A peer that is reached four times
can be resumed three times. The programs of `program` are six because their
instructions are not open: between them they use every opcode of `Interpreter`,
both ends of the integers, both results that differ between builds, strings,
lists, nested frames, and errors after which the host goes on; 60 instructions are
more than an uninterrupted run of any takes. The bounds are the CONSTANTS
`MaxSlots`, `MaxStack`, `MaxElems`, `MaxCode` (with `Bounded` in `MCHeap`), `MaxTasks`, `MaxFrames`, `CodeLen`,
`MaxHandles`, `Targets`, `MaxRestarts`, `Bytes`, `MaxLen`, `Width`, `Kinds`,
`Answers`, `Payloads`, `MaxReceived`, `MaxSteps`, `Infinity`, and `FewSteps` in
`MCProgram` (a second process resumes within 3 instructions); `HalfRange` is 2^63
made small; `MaxDepth` and `GcThreshold` are limits of the source (256) made
small. An open program can stop early (a full stack, no ids left), and a host owes
the VM nothing, so deadlock is not checked.

Fairness: `FairSpec` is weak fairness of `Vm`, the steps of a call of `run()`. A
call of `run()` is one thread that nothing in the program blocks but I/O calls,
which are single steps here; the host is under no obligation. `RunReturnsToHost`
is checked on code without backward jumps, as a loop in the program is the
program's own.

### Disagreements with the documents

Each has a run of its own that ends in a counterexample, except the last group.

- `handles` / `HandlesStayValid`: `AGENT.md:25` says a `Gc<T>` handle is valid
  after any number of collections. `alloc_*` may free the very slot it returns
  (`vm.rs:280`), and `mark_roots` (`vm.rs:361`) does not see the saved stacks of
  other tasks nor the constants in the function table. `DanglesOnlyUnscanned`
  is the exact positive statement: nothing else is ever lost.
- `capture` / `CaptureNeverPanics`: a list whose element lies in a higher slot
  panics in `capture` though nothing was freed (`snapshot.rs:237`, `:248`).
- `yielding` / `YieldSuspends`: a child's `Yield` completes the child and the
  program goes on (`docs/DESIGN.md:122`, `vm.rs:864`).
- `ids` / `IdsStayUnique`: a second process gives out ids of restored handles
  and tasks again (`vm.rs:156`, `task.rs:6`).
- `maps` / `MapsCorrespond`: `serialize.rs:66-68` calls the object map of `DeCtx` the
  counterpart of that of `SerCtx` (`:24-29`), which translates its numbers back.
  `SerCtx` numbers a list before its elements and an object once, `DeCtx` a list after
  its elements and an object at every occurrence (`:267`), so that the number of a list
  with a string in it is read as that of the string. `NumbersAgreeOnOneObject` is the
  exact statement.
- `streams` / `StreamsRestored`: after a `Yield`'s resume the stream that was reconnected
  is in the registry entry, and the VM has a clone without one (`snapshot.rs:1378`,
  `io.rs:175`): reads and writes fail although the report is `Ok`. The comment at
  `snapshot.rs:1371` restores the handle to the VM "for immediate I/O operations",
  `docs/PHASE3.md:76` has a `TcpStream` restored by its strategy, and
  `docs/DESIGN.md:226` an automatic reconnection. `StreamsEndAtYield` is what holds.
- Read from the source while modelling, without a run of its own:
  - *Tasks.* Opcodes that allocate never collect (`AGENT.md:28`); a second
    `WaitChildren` pops further values of a completed child, which the comment at
    `vm.rs:832` calls idempotent; a child that halts is `Completed` with frames
    left (`task.rs:36`); a task can return over children that never ran
    (`docs/DESIGN.md:87`).
  - *Snapshots.* A list that contains itself, or an object in a higher slot, is
    refused on resume (`snapshot.rs:1572`; `FileKeepsGraph` says that nothing else
    is). `create_snapshot` after a `Yield` takes the handles from the registry
    entry, which has them as the `Yield` did (`snapshot.rs:279`), and not as in "the
    current VM state" (`vm.rs:448`); a root that yielded,
    spawned and halted is captured with a list of children that are `Running` and
    so not in the snapshot, and a wait in the next process ends in an empty frame
    stack (`vm.rs:831`; the `resume` run goes there). A root with completed children
    that calls `create_snapshot` while `Running` loses them.
  - *Snapshot files.* A file cut inside its task section can panic at
    `data[start..pos]` (`snapshot.rs:427`) where `read_from_file` documents a
    `SnapshotError` (`snapshot.rs:372`); one that lacks only the count of an empty
    task section is accepted, and is whole for all that matters.
  - *After a resume* the constants of the code are looked up in the snapshot's
    heap, by the slot they had in the heap it replaced; and a snapshot of a
    program that has halted can be resumed past its `Halt`.
  - *Files.* A handle from the global section keeps an open `File`, and each
    `FileRead` through it gives the same data again while `docs/PHASE3.md:71` has
    reads go on (`vm.rs:920`; `NothingSkipped` is what holds), and each `FileWrite`
    through it fails, as `reconnect_handle` opens for reading only; a `Cached` handle is
    reconnected although `io.rs:14` says that none is attempted, so a missing
    file stops the resume (`snapshot.rs:906`); a file that became shorter is reported
    `Ok`, where `docs/PHASE3.md:81` has `Failed` or `Degraded`.
  - *Connections.* `last_request` and `last_response` are
    written but dropped on reconnection (`docs/PHASE3.md:42`); a POST is sent again with
    another content type than `http_post` gave it, where `io.rs:10` has
    "Re-issue the original request"; and `VM::resume` drops the `DataDiverged`
    that a changed answer is reported as (`docs/DESIGN.md:79`).

## What is proved

For every value of the constants, with the assumptions `HeapConstants`,
`GcConstants`, `TaskConstants` and, for files of heaps, `FileConstants` (types of the
constants, distinct model values, task ids that are numbers and finitely many):

- `HeapVecProofs!FreeListIsSound`, `VectorsImplementHeap`: `FreeListSound` and
  `ImplementsHeap`, for an arena of any size (and `VecConstants`: the arguments are
  values). That the recursive `mark` computes `Reachable` is an induction on the number
  of unmarked slots and then on the elements still to come (`MarkEachWalks`), and rests
  on one fact about reachability (`WalkFirst`): marking an unvisited entry point, walking
  from its children and then from the other entry points marks what is reachable from
  all. The same argument, with the result it is to have in the place of the recursion, shows that
  the recursion has a result at all. The loop of `sweep` is an induction on its turns
  (`SweepCollects`); that its list is ascending is what makes the `pop` of an
  allocation the `FreshSlot` of `Heap`, its maximum.
- `HeapVecProofs!ModulesReadBack`, `CutModulesAreRefused`: `ModuleReadsBack` and
  `CutModuleRefused`, for an arena of any size and lists nested to any depth. `Outcome`
  is what every reader owes, whether its data goes on or was cut: where the file goes so
  far, it ends at the writer's end with a value that is a copy *in the heap as it has
  grown*, and where it does not, it fails with `UnexpectedEof`. A reader allocates while
  it reads, so that a copy has to stay one when the heap grows (`LikesGrow`); that is
  what lets one loop lemma (`LoopRight`) serve the elements of a list, the operands of an
  opcode, the opcodes of a function, its four parts and the functions of a module.
  `ValuesRight` is the induction on the depth of a value, `FunctionsRight` and
  `ModulesRight` hold for any functions whose operands can be written, of which those
  that `HeapCodec` writes are one case.
- `HeapVecProofs!NumbersAgreeOnOneObject`: how far the finding of `maps` goes; the
  numbers agree for exactly the values with which one object is read. The object that
  `DeCtx` numbers first is one whose elements had all been read, so it has no handles
  among them, in any heap that a reader leaves (`Heaps`); `SerCtx` numbers the outermost
  first (`SerMapFirst`). If the numbers agree, the outermost is a copy of something
  without handles, and has none itself (`PlainCopy`), so that it is the only object.
- `VmGcProofs!TypeCorrect`: `VmGc` keeps its types.
- `VmGcProofs!DanglingOnlyFromUnscanned`: the action property
  `DanglesOnlyUnscanned`. Every step is either gentle (whatever dangles after it
  dangled before it, and typing of handles is kept) or a collection; the gentle
  steps rest on the fact that no step but an allocation makes new handles
  reachable (`QuietStep`), and that a reused slot is reachable only through its
  new handle (`PutReach`). A collection frees exactly the slots outside
  `Reach(heap, Active)` (`SweepMarked`).
- `VmGcProofs!PinnedHostIsSafe`, `HandlesKeepTheirType`: `NoDangling` and
  `TypedHandles`. Neither is inductive alone: without `NoDangling` the slot an
  allocation reuses might be reachable and change type under a handle, and
  without `TypedHandles` a list update might reach an object of the wrong kind.
- `VmGcProofs!CollectionsAreComplete`: `NoFloatingGarbage`. A collection resets the
  marks before it marks, so that nothing a capture left cuts its walk short, and
  sweeps every slot that the walk did not reach.
- `VmGcProofs!SnapshotKeepsGraph`: `RestoreIsomorphic`, for any host, pinning or not,
  since it needs `TypeOK` only. The position of a slot in the file is its rank among
  the marked slots; ranks increase strictly and leave no gap (`Ranks`), so writing is
  a bijection of the marked slots with the restored arena. The marked slots are closed
  under children (`MarkedClosed`), and so what is reachable after the restore is the
  positions of what was reachable before (`RestoredReach`), and the isomorphism is
  the writer's own table. Marks that an earlier capture left only add objects.
- `VmGcProofs!HeapsReadBack`: `FileKeepsGraph`, for any host. The lemmas of `FileProofs`
  (below) need to know that what is written has the shape of a snapshot
  (`CapturedIsFile`): each reference is a position in the heap section, as every position up
  to the number of marked objects is taken (`PositionsTaken`), and a string has no elements
  (`StringsEmpty`, an invariant of its own). Then `ReadsBack` is the lemmas' condition
  on the order of the objects, `FileHeap`, said of values instead of fields.
- `SnapshotProofs!TreesReadBack`: `FileKeepsTree` of `ResumeSpec`. `RInv` has what the
  writer is given: ids, statuses and positions that are numbers, finitely many tasks and
  handles, stacks of values.
- `FileProofs!SnapshotReadsBack`, `SnapshotStops`: for every snapshot, of whatever size,
  that `IsFileSnapshot` says can be written: if each object refers to objects before it
  only, what is read from its file is the snapshot; if some object does not, the error is
  `InvalidHeapPosition`. `Lies(data, p, w)` says that what was written as `w` is in the
  data at `p`. For each kind of entry there is one lemma that a writer's fields, wherever
  they lie, are skipped exactly and read as what was written (`EntryBack`); a loop of
  skips or reads over entries of which this holds has it as well (`ListIsBack`), so that
  the five sections end where the next begins, and each reader finds its own. That a
  loop stops at the first entry that fails, and passes its error on, is
  `ReadManyBreaks`. The loops are recursive functions of the number of turns; an
  induction on it is a least counterexample.
- `FileProofs!PrefixRead`: a beginning of a file of such a snapshot is read as the whole
  or not at all. A skip moves on without looking whether the data goes that far, so that
  it may end beyond the data; `Leads` says that it then ends nowhere that a later read
  succeeds, and `EndsOr` that the section is either found where it is in the whole file
  or refused. There is one lemma of that kind for each entry, and `FileCut` for the file.
  What can be cut off without a trace is the count of tasks at the end of a file
  without any, which the reader never looks at.
- `ProgramProofs!ProgramTypes`: `ProgramTypeOK` of `Spec` in `Program`, with
  `ValueConstants`, `ProgramConstants` and `HostPrograms`: programs are of the opcodes
  modelled, with operands of their types. `Inv` says that the VM is a machine
  (`IsMachine`): that each operator of `Values` returns a value, a type error or a panic,
  whatever the width of the integers (`ArithmeticResult`), makes every opcode lead from
  machine to machine (`ExecuteStep`); a snapshot refers to its own objects only
  (`CapturedIs`), since a capture keeps what is marked and renumbers what is kept
  without gaps, and what is restored from it is a machine again (`RestoredIs`).
- `ProgramProofs!SnapshotsReadBack`, `CutFilesRefused`: `SavedReadsBack` and
  `WholeSnapshotOnly`. `Inv` has what is in the file: a beginning of the snapshot last
  written. With `PrefixRead`, what reads at all reads as the whole (`AllOrNothing`).
- `ProgramProofs!StaysOnTrack`: `OnTrack`, with the same assumptions and `NameIsCode`:
  the hash of the code has no collisions, and for one piece of code the host registers
  streams of the same ids. A resume renumbers slots, and an allocation that follows takes
  another slot than it does in the run without interruption; so the two machines are
  never equal, but `Moves` says that they differ by a strictly increasing map of slots, the
  same for frames, stack and objects. Each opcode leads two machines that differ so to two
  that differ so (`PairStep`), by the same map: beyond the ends of the arenas it goes on
  without gaps, so that it is right for what both allocate. A capture puts a marked slot at
  its rank, and increasing maps preserve ranks (`SameRank`), so that what is restored
  differs from the run by another such map (`CaptureAlike`). `Track` adds what a snapshot, in memory or in the file,
  was taken with, and is inductive with `Inv`.

- `TasksProofs!SchedulerTypes`, `StrictTree`, `NestedRunsFollowTree`: `TypeOK`,
  `TreeConsistent` and `WaitChain` from the inductive invariant `IInv`. The tree
  alone is not inductive: that links go to tasks which exist needs the registry's
  domain to be `0..nextTask-1`; the wait chain needs that the current task is the
  child of the top activation, that children still to do are children of its
  parent, and that these belong to a registered task; those are the conjuncts of
  `IInv`.
- `TasksProofs!SchedulerIsForkJoin`: every behaviour of `Tasks` is a behaviour of
  `ForkJoin` under the mapping in `Tasks` (a task between two children of its
  own is the active one). Each step maps to one abstract step or a stutter.

- `TasksProofs!ParentsLeftAlone`, `CompletedStays`, `HandlesHaveOneOwner`,
  `OnlyErrorsLoseFrames`: what is parked in the registry. Each step changes at
  most one entry (`OneEntry`): that of the task in control, of the child that
  `WaitChildren` has come to, or of the parent it goes back to. A waiting parent
  is none of these, as it is older than every task below it, and a `Completed`
  child is skipped. That no handle has two owners is not inductive: entering a
  child moves its table from the entry into the VM, so the invariant `HInv` adds
  that the entry of a running child holds no handles, that every handle is below
  `nextHandle`, and when an error can be on its way.
- `TasksProofs!DepthIsBounded` (for `MaxDepth > 0`, as the source has 256),
  `StacksAreIsolated`, `ResultsMatchChildren`: what follows the tree upwards. The
  line of a task's ancestors is a recursive function; what is needed of it is
  proved from the fact that a non-empty set of tasks has a least member, which the
  library states without an operator parameter. The parent of the k-th activation
  of `WaitChildren` has depth k, so the depth limit of `Spawn` bounds the recursion
  of `run()`. `Isolated` says of every stack, saved or not, and of the results
  collected so far, that each value was made by the task or below it; with it,
  `ResultsMatch` says which child each collected result belongs to.
- `SnapshotProofs!YieldedTreeIsClosed`: `SnapshotClosed`. `Yield` tests only the
  direct children of the root, so a task deeper down could be in a snapshot
  without its parent. `KInv` shows why it is not: below each task everything is
  `Clean` (completed, childless, or on the line of waiting parents), or the task is
  `Stuck` (an error went through it, it has no frames, and it can never complete).
- `SnapshotProofs!YieldsComeBack`, `IdsNewInOneProcess`: `RootSnapshotRestores` and
  `NewIdsInOneProcess` of `ResumeSpec`. Little of what `Spec` keeps survives a resume
  over a VM that went on: `RInv` keeps that entries are records of a task, that the
  root is current whenever the VM is idle, that the snapshot in memory and in
  the file fit the VM that their `Yield` found, and that in the first process
  the counters are above every id held anywhere.
- `SnapshotProofs!ResumedTypes`: `ResumeTypeOK` of `ResumeSpec`. After the resume of an
  old snapshot few conjuncts of `IInv` hold; what the types need is in `RInv`: a
  current task without an entry has no frames, so that its only step is the failing
  fetch. The counter a resume sets is a maximum over the handles known, which is a
  number because they are finitely many (`FinitelyMany`).

- `HandlesProofs!FileTypes`, `NoByteLeftOut`, `CachesFollow`,
  `YieldsRestore`, `ResumesAreReadable`: all five properties of `FileHandles`,
  under `FileConstants`, for every length of the file and width of a position. The
  invariant says of *every* copy of the handle (the VM's, the entry's, the two
  sections of a snapshot) what the properties say of the VM's, since any of them
  may become the VM's again, and that a snapshot taken by a `Yield` has the handle
  in one section only, without a `File`.
- `HandlesProofs!RequestsReplayedOnce`: `OneReplayPerResume`, for every peer, without
  an assumption. The invariant is that a snapshot has the handle with its task or in the
  global section and not in both.
- `HandlesProofs!StreamsEndAtYield`: how far the finding of `streams` goes. It is no matter
  of a schedule or of the peer: no resume of a `Yield`'s snapshot ever gives the VM a
  stream, and each gives it the request that an HTTP handle had.

`HeapLemmas` has the facts about `Reachable` these use: it is closed, least,
monotone, distributes over union, is found by a depth-first walk, and what `Put` and
`Sweep` do to it.

Only model-checked:

- `RunReturnsToHost`: liveness (the prover has no ENABLED).

## Not modelled

Every component is modelled; what is left out of them:

- formatting of values and errors, `Display`, and the `Chunk` builder, a vector that is
  pushed to; the deadline of a Timer handle, which nothing reads;
- rounding of fractions and `-0.0`;
- the bytes within a field (fixed widths, little endian), and what HTTP and TCP put on
  the wire;
- the limits of the Rust stack, which `mark` and nested runs consume, and memory;
- counters that wrap after 2^32 handles or 2^64 tasks;
- a host that changes the VM's public fields other than by pushing on the stack;
- files that another program writes: what `read_from_file` and `deserialize_module`
  make of data that no writer of this crate began.
