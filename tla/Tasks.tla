------------------------------- MODULE Tasks --------------------------------
(***************************************************************************)
(* The task tree and its scheduler: src/task.rs and the task opcodes of    *)
(* VM::step.  A VM runs one task at a time.  WaitChildren parks the parent *)
(* in the registry and calls run() once per child from inside step(), so   *)
(* the Rust stack holds one activation of WaitChildren for every waiting   *)
(* task: that stack is the variable `waits`.                               *)
(*                                                                         *)
(* The function table is left open: the opcode at an ip is any opcode, so  *)
(* every sequence of opcodes is some program's.  A frame is its ip, a      *)
(* value is the task whose Push made it or Null, and a handle is its id.   *)
(***************************************************************************)
EXTENDS Integers, Sequences, FiniteSets

CONSTANTS NoTask,      \* None of Option<TaskId>
          Null,        \* Value::Null
          MaxDepth,    \* depth limit of Spawn (256 in the source)
          MaxTasks,    \* bound: task ids are 0..MaxTasks-1
          MaxStack,    \* bound: operand stack length
          MaxFrames,   \* bound: frames of one task
          CodeLen,     \* bound: instructions of a function
          MaxHandles,  \* bound: handle ids are 0..MaxHandles-1
          Targets      \* targets of the jumps in the code

ASSUME TaskConstants ==
  /\ {MaxDepth, MaxTasks, MaxStack, MaxFrames, CodeLen, MaxHandles} \subseteq Nat
  /\ MaxTasks > 0 /\ Targets \subseteq Nat
  /\ NoTask \notin Nat /\ Null \notin Nat

VARIABLES registry,   \* vm.task_registry
          current,    \* vm.current_task_id
          frames, stack, handles, running, snapshot,     \* the fields of VM
          nextTask, nextHandle,                          \* next_task_id, next_handle_id
          waits,      \* the activations of WaitChildren on the Rust stack
          inRun,      \* a call of VM::run by the host has not returned
          failing     \* an Err is on its way up to the host

machine == <<frames, stack, handles, running>>
counters == <<nextTask, nextHandle>>
control == <<waits, inRun, failing>>
vars == <<registry, current, machine, snapshot, counters, control>>

Root == 0                                   \* TaskId::root()
TaskId == Nat
Values == Nat \cup {Null}
Status == {"Running", "Yielded", "Completed"}
Task == [parent : TaskId \cup {NoTask}, children : Seq(TaskId), status : Status,
         stack : Seq(Values), frames : Seq(Nat), handles : SUBSET Nat]
Activation == [parent : TaskId, todo : Seq(TaskId), child : TaskId \cup {NoTask},
               rets : Seq(Values)]
NewTask(p) == [parent |-> p, children |-> <<>>, status |-> "Running",
               stack |-> <<>>, frames |-> <<>>, handles |-> {}]

IsRegistry(reg) == DOMAIN reg \subseteq TaskId /\ reg \in [DOMAIN reg -> Task]
IsSnapshot(snap) ==
  /\ snap \in [frames : Seq(Nat), stack : Seq(Values), handles : SUBSET Nat,
              tasks : {snap.tasks}]
  /\ IsRegistry(snap.tasks)

TypeOK ==
  /\ IsRegistry(registry) /\ current \in DOMAIN registry
  /\ frames \in Seq(Nat) /\ stack \in Seq(Values) /\ handles \subseteq Nat
  /\ snapshot = NoTask \/ IsSnapshot(snapshot)
  /\ nextTask \in TaskId /\ nextHandle \in Nat
  /\ waits \in Seq(Activation)
  /\ running \in BOOLEAN /\ inRun \in BOOLEAN /\ failing \in BOOLEAN
-----------------------------------------------------------------------------
Elems(s) == {s[k] : k \in DOMAIN s}
Last(s) == s[Len(s)]
Front(s) == SubSeq(s, 1, Len(s) - 1)
Top(s) == IF s = <<>> THEN Null ELSE Last(s)              \* pop().unwrap_or(Null)
Rest(s) == IF s = <<>> THEN s ELSE Front(s)

Completed(t) == t \in DOMAIN registry /\ registry[t].status = "Completed"

\* The tasks from t up to the root: compute_task_depth counts them.
Line(t) ==
  LET up[u \in DOMAIN registry] ==
        {u} \cup IF registry[u].parent \in DOMAIN registry THEN up[registry[u].parent] ELSE {}
  IN  up[t]
Depth(t) == Cardinality(Line(t))

\* Mutants of SavedAs: the entry written is the root's; the frames are dropped.
SavedInRoot(reg, t, stk, frs, hdl) ==
  [reg EXCEPT ![Root].stack = stk, ![Root].frames = frs, ![Root].handles = hdl]
SavedNoFrames(reg, t, stk, frs, hdl) == [reg EXCEPT ![t].stack = stk, ![t].handles = hdl]

\* save_current_task moves stack, frames and handles out of the VM.
SavedAs(reg, t, stk, frs, hdl) ==
  IF t \in DOMAIN reg
  THEN [reg EXCEPT ![t].stack = stk, ![t].frames = frs, ![t].handles = hdl] ELSE reg

\* restore_task moves them back and leaves the registry entry empty.
Restore(reg, t) ==
  /\ current' = t
  /\ IF t \in DOMAIN reg
     THEN /\ stack' = reg[t].stack /\ frames' = reg[t].frames /\ handles' = reg[t].handles
          /\ registry' = SavedAs(reg, t, <<>>, <<>>, {})
     ELSE registry' = reg /\ UNCHANGED <<stack, frames, handles>>
-----------------------------------------------------------------------------
Init ==
  /\ registry = [t \in {Root} |-> NewTask(NoTask)]
  /\ current = Root
  /\ frames = <<0>> /\ stack = <<>> /\ handles = {} /\ running = TRUE   \* prepare(main)
  /\ snapshot = NoTask
  /\ nextTask = 1 /\ nextHandle = 0
  /\ waits = <<>> /\ inRun = FALSE /\ failing = FALSE
-----------------------------------------------------------------------------
(* VM::step.                                                               *)

BetweenChildren == waits # <<>> /\ Last(waits).child = NoTask
Executing == inRun /\ running /\ ~failing /\ ~BetweenChildren

\* The prelude of step: an opcode is fetched and the ip of the frame advanced.
Fetchable == frames # <<>> /\ Last(frames) < CodeLen
Fetch == Executing /\ Fetchable
SetIp(ip) == [frames EXCEPT ![Len(frames)] = ip]
Advanced == SetIp(Last(frames) + 1)

\* EmptyFrameStack or InvalidIp.
FetchFails ==
  /\ Executing /\ ~Fetchable
  /\ failing' = TRUE
  /\ UNCHANGED <<registry, current, machine, snapshot, counters, waits, inRun>>

\* Any opcode that returns Err: stack underflow, a type mismatch, an I/O error,
\* InvalidFunction.  It may have popped operands.
Popped(n) == SubSeq(stack, 1, Len(stack) - n)
OpFails ==
  /\ Fetch /\ frames' = Advanced /\ \E n \in 0..Len(stack) : stack' = Popped(n)
  /\ failing' = TRUE
  /\ UNCHANGED <<registry, current, handles, running, snapshot, counters, waits, inRun>>

\* Push, Pop, Dup, the arithmetic, comparison and logic, Load, Store, the I/O that
\* opens and closes nothing, a jump not taken: up to two operands for up to one result.
OpData ==
  /\ Fetch /\ frames' = Advanced
  /\ \E n \in 0..2, out \in {<<>>, <<current>>} :
       n <= Len(stack) /\ stack' = Popped(n) \o out /\ Len(stack') <= MaxStack
  /\ UNCHANGED <<registry, current, handles, running, snapshot, counters, control>>

\* Jump; JumpIfTrue and JumpIfFalse pop the condition.
OpJump(ip) ==
  /\ Fetch /\ frames' = SetIp(ip) /\ stack' \in {stack, Rest(stack)}
  /\ UNCHANGED <<registry, current, handles, running, snapshot, counters, control>>

\* Call moves the arguments into the locals of the new frame.
OpCall ==
  /\ Fetch /\ Len(frames) < MaxFrames /\ frames' = Append(Advanced, 0)
  /\ \E arity \in 0..Len(stack) : stack' = Popped(arity)
  /\ UNCHANGED <<registry, current, handles, running, snapshot, counters, control>>

OpReturn ==
  /\ Fetch /\ frames' = Front(frames)
  /\ running' = (frames' # <<>>)
  /\ UNCHANGED <<registry, current, stack, handles, snapshot, counters, control>>

OpHalt ==
  /\ Fetch /\ frames' = Advanced /\ running' = FALSE
  /\ UNCHANGED <<registry, current, stack, handles, snapshot, counters, control>>

\* FileOpen, TcpConnect, HttpGet, HttpPost: create_handle.  FileClose, TcpClose: close_handle.
OpOpen ==
  /\ Fetch /\ frames' = Advanced
  /\ nextHandle < MaxHandles /\ nextHandle' = nextHandle + 1
  /\ handles' = handles \cup {nextHandle}
  /\ Len(stack) < MaxStack /\ stack' = Append(stack, current)
  /\ UNCHANGED <<registry, current, running, snapshot, nextTask, control>>

OpClose(h) ==
  /\ Fetch /\ frames' = Advanced
  /\ handles' = handles \ {h}
  /\ Len(stack) < MaxStack /\ stack' = Append(stack, current)
  /\ UNCHANGED <<registry, current, running, snapshot, counters, control>>
-----------------------------------------------------------------------------
\* Mutants of Spawn: one level too many; a child that starts as a copy of its parent;
\* a child that is not registered, or not among its parent's children.
TooDeepByOne == Depth(current) > MaxDepth
Forked == [NewTask(current) EXCEPT !.frames = <<0>>, !.stack = stack, !.handles = handles]
Unregistered(t, entry) == registry
Unlinked(reg, t) == reg

\* compute_task_depth() against the limit.
TooDeep == Depth(current) >= MaxDepth

\* The child gets a frame of its own and nothing of its parent's; it is registered,
\* and put last in the children of the current task.
NewChild == [NewTask(current) EXCEPT !.frames = <<0>>]
Registered(t, entry) ==
  [u \in DOMAIN registry \cup {t} |-> IF u = t THEN entry ELSE registry[u]]
Linked(reg, t) == [reg EXCEPT ![current].children = Append(@, t)]

OpSpawn ==
  /\ Fetch /\ frames' = Advanced
  /\ IF TooDeep
     THEN failing' = TRUE /\ UNCHANGED <<registry, nextTask>>          \* TaskTreeTooDeep
     ELSE /\ nextTask < MaxTasks /\ nextTask' = nextTask + 1
          /\ registry' = Linked(Registered(nextTask, NewChild), nextTask)
          /\ UNCHANGED failing
  /\ UNCHANGED <<current, stack, handles, running, snapshot, nextHandle, waits, inRun>>

\* Mutant of Uncompleted: Yield tests no child.
NoneUncompleted == {}
Uncompleted == {c \in Elems(registry[current].children) :
                  c \in DOMAIN registry /\ registry[c].status # "Completed"}

\* Snapshot::capture, as to the tasks: the VM's own stack and frames, the handles
\* the current task's entry does not list, and every entry that is not Running.
Captured(reg) ==
  LET kept == {t \in DOMAIN reg : reg[t].status # "Running"}
  IN  [frames |-> frames', stack |-> stack, handles |-> handles \ reg[current].handles,
       tasks |-> [t \in kept |-> reg[t]]]

OpYield ==
  /\ Fetch /\ frames' = Advanced
  /\ IF Uncompleted # {}
     THEN failing' = TRUE /\ UNCHANGED <<registry, running, snapshot>> \* UncompletedChildren
     ELSE /\ registry' = [registry EXCEPT ![current].status = "Yielded",
                                          ![current].handles = handles]
          /\ snapshot' = Captured(registry')
          /\ running' = FALSE
          /\ UNCHANGED failing
  /\ UNCHANGED <<current, stack, handles, counters, waits, inRun>>
-----------------------------------------------------------------------------
(* WaitChildren: save the parent, then one turn of its loop per child.     *)

OpWait ==
  /\ Fetch
  /\ Len(stack) + Len(registry[current].children) <= MaxStack
  /\ registry' = SavedAs(registry, current, stack, Advanced, handles)
  /\ waits' = Append(waits, [parent |-> current, todo |-> registry[current].children,
                             child |-> NoTask, rets |-> <<>>])
  /\ stack' = <<>> /\ frames' = <<>> /\ handles' = {}
  /\ UNCHANGED <<current, running, snapshot, counters, inRun, failing>>

\* The activation on top of the Rust stack, and its next child.
Wait == Last(waits)
Child == Head(Wait.todo)
AtChild == BetweenChildren /\ ~failing /\ Wait.todo # <<>>
SetWait(w) == [waits EXCEPT ![Len(waits)] = w]
CollectedFirst(w, v) == [w EXCEPT !.rets = <<v>> \o @]         \* mutant: wrong order
Collected(w, v) == [w EXCEPT !.rets = Append(@, v)]          \* return_values.push

\* Mutants of the loop: it does not go on to the next child; it runs a child again;
\* an error leaves the failed child current.
WaitSkipStays ==
  /\ AtChild /\ Completed(Child)
  /\ registry' = [registry EXCEPT ![Child].stack = Rest(@)]
  /\ UNCHANGED <<current, machine, snapshot, counters, control>>
WaitEnterAny ==
  /\ AtChild
  /\ Restore(registry, Child)
  /\ running' = TRUE
  /\ waits' = SetWait([Wait EXCEPT !.todo = Tail(@), !.child = Child])
  /\ UNCHANGED <<snapshot, counters, inRun, failing>>
WaitFailsInPlace ==
  /\ waits # <<>> /\ Wait.child # NoTask /\ failing
  /\ running' = TRUE
  /\ waits' = Front(waits)
  /\ UNCHANGED <<registry, current, stack, frames, handles, snapshot, counters, inRun, failing>>

\* An already Completed child: pop what is left on its saved stack.
WaitSkip ==
  /\ AtChild /\ Completed(Child)
  /\ registry' = [registry EXCEPT ![Child].stack = Rest(@)]
  /\ waits' = SetWait(Collected([Wait EXCEPT !.todo = Tail(@)], Top(registry[Child].stack)))
  /\ UNCHANGED <<current, machine, snapshot, counters, inRun, failing>>

WaitEnter ==
  /\ AtChild /\ ~Completed(Child)
  /\ Restore(registry, Child)
  /\ running' = TRUE
  /\ waits' = SetWait([Wait EXCEPT !.todo = Tail(@), !.child = Child])
  /\ UNCHANGED <<snapshot, counters, inRun, failing>>

ChildRunning == waits # <<>> /\ Wait.child # NoTask

\* run() of the child returned Ok, by Return, Halt or Yield.
WaitLeave ==
  /\ ChildRunning /\ ~failing /\ ~running
  /\ LET done == IF Wait.child \in DOMAIN registry
                 THEN [registry EXCEPT ![Wait.child].status = "Completed"] ELSE registry
     IN  registry' = SavedAs(done, current, Rest(stack), frames, handles)
  /\ waits' = SetWait(Collected([Wait EXCEPT !.child = NoTask], Top(stack)))
  /\ stack' = <<>> /\ frames' = <<>> /\ handles' = {}
  /\ UNCHANGED <<current, running, snapshot, counters, inRun, failing>>

\* run() of the child returned Err: back to the parent, the child is not saved.
WaitFails ==
  /\ ChildRunning /\ failing
  /\ Restore(registry, Wait.parent)
  /\ running' = TRUE
  /\ waits' = Front(waits)
  /\ UNCHANGED <<snapshot, counters, inRun, failing>>

WaitDone ==
  /\ BetweenChildren /\ ~failing /\ Wait.todo = <<>>
  /\ current' = Wait.parent
  /\ LET p == registry[Wait.parent]
     IN  stack' = p.stack \o Wait.rets /\ frames' = p.frames /\ handles' = p.handles
  /\ registry' = SavedAs(registry, Wait.parent, <<>>, <<>>, {})
  /\ running' = TRUE
  /\ waits' = Front(waits)
  /\ UNCHANGED <<snapshot, counters, inRun, failing>>
-----------------------------------------------------------------------------
(* The host: prepare(main) and run().                                      *)

HostPrepare ==
  /\ ~inRun /\ Len(frames) < MaxFrames
  /\ frames' = Append(frames, 0) /\ running' = TRUE
  /\ UNCHANGED <<registry, current, stack, handles, snapshot, counters, control>>

HostRun ==
  /\ ~inRun /\ running /\ inRun' = TRUE
  /\ UNCHANGED <<registry, current, machine, snapshot, counters, waits, failing>>

RunReturns ==
  /\ inRun /\ waits = <<>> /\ (failing \/ ~running)
  /\ inRun' = FALSE /\ failing' = FALSE
  /\ UNCHANGED <<registry, current, machine, snapshot, counters, waits>>
-----------------------------------------------------------------------------
Opcode ==
  \/ FetchFails \/ OpFails \/ OpData \/ OpCall \/ OpReturn \/ OpHalt
  \/ OpOpen \/ OpSpawn \/ OpYield \/ OpWait
  \/ \E ip \in Targets : OpJump(ip)
  \/ \E h \in handles : OpClose(h)

WaitLoop == WaitSkip \/ WaitEnter \/ WaitLeave \/ WaitFails \/ WaitDone

Vm == Opcode \/ WaitLoop \/ RunReturns
Host == HostPrepare \/ HostRun

Next == Vm \/ Host
Spec == Init /\ [][Next]_vars

\* One thread runs a call of run() to its end; the host owes nothing.
FairSpec == Spec /\ WF_vars(Vm)
-----------------------------------------------------------------------------
\* task.rs: tasks form a strict tree.  The links of parents and children agree,
\* a child is listed once, by one parent, and is younger than it; ids are unique.
TreeConsistent ==
  /\ DOMAIN registry = 0..nextTask - 1
  /\ registry[Root].parent = NoTask
  /\ \A t \in DOMAIN registry \ {Root} :
       LET p == registry[t].parent IN
       p \in 0..t - 1 /\ \E k \in DOMAIN registry[p].children : registry[p].children[k] = t
  /\ \A t \in DOMAIN registry :
       LET cs == registry[t].children IN
       /\ \A k \in DOMAIN cs : cs[k] \in DOMAIN registry /\ registry[cs[k]].parent = t
       /\ \A j, k \in DOMAIN cs : cs[j] = cs[k] => j = k

\* The Rust stack is the line of tasks from the root to the running one: every
\* activation of WaitChildren runs a child of its own parent, and the parent of the
\* next activation is that child.
WaitChain ==
  /\ waits = <<>> => current = Root
  /\ waits # <<>> => waits[1].parent = Root /\ (Wait.child # NoTask => current = Wait.child)
  /\ \A k \in DOMAIN waits :
       /\ waits[k].parent \in DOMAIN registry
       /\ waits[k].child # NoTask =>
            waits[k].child \in DOMAIN registry
            /\ registry[waits[k].child].parent = waits[k].parent
       /\ k < Len(waits) => waits[k].child = waits[k + 1].parent

\* Spawn's limit bounds every task, so compute_task_depth ends and so does the
\* recursion of run() in WaitChildren, which follows the tree.
DepthBounded ==
  /\ \A t \in DOMAIN registry : Depth(t) <= MaxDepth
  /\ Len(waits) <= MaxDepth

\* What a task would find were it to run now: its own state, or the VM's.
Parked(t) == t # current \/ BetweenChildren
StackOf(t) == IF Parked(t) THEN registry[t].stack ELSE stack
HandlesOf(t) == IF Parked(t) THEN registry[t].handles ELSE handles

\* save_current_task and restore_task keep tasks apart: whatever is on a task's
\* stack was pushed by it or by a descendant it waited for.
StackIsolation ==
  \A t \in DOMAIN registry : \A v \in Elems(StackOf(t)) : v = Null \/ t \in Line(v)

\* No I/O handle is in the tables of two tasks, although Yield copies the table.
HandlesOwnedOnce ==
  \A t, u \in DOMAIN registry : t # u => HandlesOf(t) \cap HandlesOf(u) = {}

\* Yield tests direct children only, yet what it writes of a tree is closed: a root
\* that yields comes with the parent of every task in its snapshot, down whatever
\* branches failed or were never waited for.
SnapshotClosed ==
  LET tasks == snapshot.tasks
      RootYields == \A t \in DOMAIN tasks : t = Root <=> tasks[t].status = "Yielded"
  IN  snapshot # NoTask /\ Root \in DOMAIN tasks /\ RootYields =>
        \A t \in DOMAIN tasks \ {Root} :
          LET p == tasks[t].parent IN
          p \in DOMAIN tasks /\ \E k \in DOMAIN tasks[p].children : tasks[p].children[k] = t

\* A parent finds its stack and frames as WaitChildren saved them, whatever its
\* descendants do meanwhile, Yield and errors included.
ParentsUntouched ==
  [][\A k \in DOMAIN waits \cap DOMAIN waits' :
       LET p == waits[k].parent IN
       waits'[k].parent = p /\ registry'[p].stack = registry[p].stack
                            /\ registry'[p].frames = registry[p].frames]_vars

\* A Completed task never runs again, however often its parent waits for it.
CompletedIsFinal ==
  [][\A t \in DOMAIN registry : Completed(t) =>
       /\ Completed(t)' /\ registry'[t].frames = registry[t].frames
       /\ registry'[t].children = registry[t].children
       /\ current' = t => current = t]_vars

\* WaitChildren pushes exactly one value per child, in the order they were spawned:
\* the k-th is Null or was made by the k-th child or below it.
OneResultPerChild ==
  [][WaitDone =>
       LET p == registry[Wait.parent]  base == Len(p.stack) IN
       /\ Len(stack') = base + Len(p.children)
       /\ \A k \in DOMAIN p.children :
            LET v == stack'[base + k] IN v = Null \/ p.children[k] \in Line(v)]_vars

\* A task runs out of frames by its own Return, or because a child of a waiting
\* parent failed.  No other step can leave a task that has not completed for a later
\* WaitChildren to run on an empty frame stack.
FramesOf(t) == IF Parked(t) THEN registry[t].frames ELSE frames
FramesLostOnlyByError ==
  [][\A t \in DOMAIN registry :
       FramesOf(t) # <<>> /\ FramesOf(t)' = <<>> => WaitFails \/ (t = current /\ OpReturn)]_vars

\* The tree, the completed tasks and the task in control implement ForkJoin: saving,
\* restoring and the loop of WaitChildren never show a second way to switch tasks.
FJ == INSTANCE ForkJoin WITH
        TaskIds <- 0..MaxTasks - 1,
        parent <- [t \in DOMAIN registry |-> registry[t].parent],
        done   <- {t \in DOMAIN registry : registry[t].status = "Completed"},
        active <- IF BetweenChildren THEN Wait.parent ELSE current
ImplementsForkJoin == FJ!FJSpec

\* A call of run() returns: code without loops cannot wait, complete or fail for ever.
RunReturnsToHost == inRun ~> ~inRun
-----------------------------------------------------------------------------
(* What a document says, checked by a run of its own.                      *)

\* DESIGN.md 2.5: after Yield the program ends or waits to be resumed.  Nothing
\* here resumes it, so a task that yielded cannot get to be Completed.
YieldSuspends ==
  [][\A t \in DOMAIN registry : registry[t].status = "Yielded" => ~Completed(t)']_vars
=============================================================================
