-------------------------------- MODULE VmGc --------------------------------
(***************************************************************************)
(* Who holds heap handles in a VM, and which of the holders its collector  *)
(* scans (src/vm.rs).  A handle can sit in                                 *)
(*   - the operand stack and the frame locals of the current task, the     *)
(*     roots of collect_garbage;                                           *)
(*   - the stack and locals the registry saved for the other tasks;        *)
(*   - the instructions of the function table (Push(String gc), paths,     *)
(*     urls);                                                              *)
(*   - a Rust variable of the host, which got it from alloc_*.             *)
(* Opcodes allocate through self.heap and never collect; the host          *)
(* allocates through VM::alloc_* , which may collect before it returns the *)
(* handle.  The host runs only between two calls of run(), when the root   *)
(* task is the current one: WaitChildren always restores its parent.       *)
(***************************************************************************)
EXTENDS Heap

CONSTANTS Tasks,        \* task ids
          Root,         \* TaskId::root()
          GcThreshold,  \* DEFAULT_GC_THRESHOLD (256 in the source)
          NumLocals,    \* Function::num_locals, one for all functions
          MaxStack,     \* bound: operand stack length
          MaxElems,     \* bound: list length
          MaxCode,      \* bound: handles embedded in the function table
          Hosts         \* which hosts there are: TRUE is one that pins (see Pinned)

ASSUME GcConstants ==
  Root \in Tasks /\ {GcThreshold, NumLocals, MaxStack, MaxElems, MaxCode} \subseteq Nat
  /\ Hosts \subseteq BOOLEAN

VARIABLES heap,      \* vm.heap
          stack,     \* vm.stack
          locals,    \* the locals of vm.frames, as one sequence
          registry,  \* task -> the stack and locals saved for it
          completed, \* the tasks with status Completed
          current,   \* vm.current_task_id
          code,      \* handles in the instructions of vm.functions
          held,      \* the handle the host last got from alloc_*
          panicked,  \* the process died in an expect()
          pins       \* whether the host keeps what it needs in a root; never changes

vars == <<heap, stack, locals, registry, completed, current, code, held, panicked, pins>>
task == <<registry, completed, current>>

Saved == [stack : Seq(Value), locals : Seq(Value)]

TypeOK ==
  /\ IsHeap(heap)
  /\ stack \in Seq(Value) /\ locals \in Seq(Value)
  /\ registry \in [Tasks -> Saved]
  /\ completed \subseteq Tasks /\ current \in Tasks
  /\ code \subseteq Ref
  /\ held \in Value
  /\ panicked \in BOOLEAN /\ pins \in Hosts

Taken == [stack |-> <<>>, locals |-> <<>>]           \* what mem::take leaves
Fresh == [k \in 1..NumLocals |-> Prim]                \* vec![Value::Null; num_locals]
Spawned == [stack |-> <<>>, locals |-> Fresh]        \* one frame

Init ==
  /\ heap = NewHeap
  /\ stack = <<>> /\ locals = Fresh                        \* prepare(main)
  /\ registry = [t \in Tasks |-> IF t = Root THEN Taken ELSE Spawned]
  /\ completed = {} /\ current = Root
  /\ code = {} /\ held = Prim /\ panicked = FALSE
  /\ pins \in Hosts

-----------------------------------------------------------------------------
Active    == Values(stack) \cup Values(locals)
Parked    == UNION {Values(registry[t].stack) \cup Values(registry[t].locals) : t \in Tasks}
Unscanned == Parked \cup code \cup {held}
Holders   == Active \cup Unscanned

\* What the host can read to build a list with, or to change one.
Visible == Active \cup {held, Prim}
ElemLists == UNION {[1..n -> Visible] : n \in 0..MaxElems}

Push(v) == Len(stack) < MaxStack /\ stack' = Append(stack, v)
Top(s) == IF s = <<>> THEN Prim ELSE s[Len(s)]            \* pop().unwrap_or(Null)
Rest(s) == IF s = <<>> THEN s ELSE SubSeq(s, 1, Len(s) - 1)

\* Faulty variant of MarkRoots: forgets the frames.
MarkStack(h) == MarkFrom(h, Values(stack))
MarkRoots(h) == MarkFrom(h, Active)
Collect(h) == Sweep(MarkRoots(ResetMarks(h)))
ShouldGc(h) == LiveCount(h) > GcThreshold

\* Every handle a collection does not scan is also reachable from a root: the
\* host keeps on the stack whatever it still needs.  Such a host also stays under
\* the threshold, as the handle alloc_* is about to return is in no root.
Pinned == Reach(heap, Unscanned) \subseteq Reach(heap, Active)
-----------------------------------------------------------------------------
(* Opcodes of the current task.                                            *)

\* FileRead, StdinRead, TcpRead (a list of Int), HttpGet, HttpPost (a string).
OpAlloc(k) ==
  /\ \E i \in 1..MaxSlots :
       /\ FreshSlot(heap, i)
       /\ heap' = Put(heap, i, [kind |-> k, elems |-> <<>>])
       /\ Push([kind |-> k, index |-> i])
  /\ UNCHANGED <<locals, task, code, held, panicked>>

OpPushConst(v) == v \in code /\ Push(v) /\ UNCHANGED <<heap, locals, task, code, held, panicked>>

OpPop ==
  /\ stack # <<>> /\ stack' = Rest(stack)
  /\ UNCHANGED <<heap, locals, task, code, held, panicked>>

OpStore(k) ==
  /\ stack # <<>> /\ k \in DOMAIN locals
  /\ locals' = [locals EXCEPT ![k] = Top(stack)]
  /\ stack' = Rest(stack)
  /\ UNCHANGED <<heap, task, code, held, panicked>>

OpLoad(k) ==
  /\ k \in DOMAIN locals /\ Push(locals[k])
  /\ UNCHANGED <<heap, locals, task, code, held, panicked>>

-----------------------------------------------------------------------------
(* WaitChildren, one child at a time: save_current_task, restore_task and  *)
(* run() of the child, then its outcome.                                   *)

EnterChild(t) ==
  /\ current = Root /\ t # Root /\ t \notin completed
  /\ stack' = registry[t].stack /\ locals' = registry[t].locals
  /\ registry' = [registry EXCEPT ![Root] = [stack |-> stack, locals |-> locals],
                                  ![t] = Taken]
  /\ current' = t
  /\ UNCHANGED <<completed, heap, code, held, panicked>>

RestoreRoot(result) ==
  /\ current' = Root
  /\ Len(registry[Root].stack) + Len(result) <= MaxStack
  /\ stack' = registry[Root].stack \o result
  /\ locals' = registry[Root].locals

\* The child stopped: by Return its frames are gone, by Halt or Yield they stay.
\* Its top of stack goes to the parent, the rest is saved with it.
LeaveChild(frames) ==
  /\ current # Root
  /\ RestoreRoot(<<Top(stack)>>)
  /\ registry' = [registry EXCEPT ![Root] = Taken,
                                  ![current] = [stack |-> Rest(stack), locals |-> frames]]
  /\ completed' = completed \cup {current}
  /\ UNCHANGED <<heap, code, held, panicked>>

\* run() of the child failed: the parent is restored, the child is not saved.
FailChild ==
  /\ current # Root
  /\ RestoreRoot(<<>>)
  /\ registry' = [registry EXCEPT ![Root] = Taken]
  /\ UNCHANGED <<completed, heap, code, held, panicked>>

\* A later WaitChildren over a Completed child pops what it left behind.
RewaitChild(t) ==
  /\ current = Root /\ t # Root /\ t \in completed
  /\ Push(Top(registry[t].stack))
  /\ registry' = [registry EXCEPT ![t].stack = Rest(@)]
  /\ UNCHANGED <<heap, locals, completed, current, code, held, panicked>>
-----------------------------------------------------------------------------
(* The host, between two runs.                                             *)

\* VM::alloc_string / VM::alloc_list: allocate, maybe_gc, return the handle.
HostAlloc(k, es) ==
  /\ current = Root /\ (k = "String" => es = <<>>)
  /\ \E i \in 1..MaxSlots :
       /\ FreshSlot(heap, i)
       /\ LET h == Put(heap, i, [kind |-> k, elems |-> es])
          IN  /\ pins => ~ShouldGc(h)
              /\ heap' = IF ShouldGc(h) THEN Collect(h) ELSE h
       /\ held' = [kind |-> k, index |-> i]
  /\ UNCHANGED <<stack, locals, task, code, panicked>>

HostPush ==
  /\ current = Root /\ held # Prim /\ Push(held)
  /\ UNCHANGED <<heap, locals, task, code, held, panicked>>

HostDrop ==
  /\ current = Root /\ held # Prim /\ held' = Prim
  /\ UNCHANGED <<heap, stack, locals, task, code, panicked>>

\* add_function with an instruction that holds the handle.
HostAddFunction ==
  /\ current = Root /\ held # Prim /\ Cardinality(code) < MaxCode
  /\ code' = code \cup {held}
  /\ UNCHANGED <<heap, stack, locals, task, held, panicked>>

\* get_list_mut gives the host the element vector of a list.
HostSetList(v, es) ==
  /\ current = Root
  /\ v \in Visible \ {Prim} /\ v.kind = "List" /\ Resolves(heap, v)
  /\ heap' = SetElems(heap, v.index, es)
  /\ UNCHANGED <<stack, locals, task, code, held, panicked>>

CollectGarbage ==
  /\ current = Root /\ (pins => Pinned)
  /\ heap' = Collect(heap)
  /\ UNCHANGED <<stack, locals, task, code, held, panicked>>

-----------------------------------------------------------------------------
(* Snapshot::capture, from Yield or create_snapshot.                       *)

\* code_hash writes every embedded constant out in full, lists recursively, and
\* expects each handle to resolve; a list that contains itself never ends.
CodeReadable ==
  LET used == Reach(heap, code) IN
  /\ \A v \in code : Resolves(heap, v)
  /\ \A i \in used : /\ \A v \in Values(heap.objects[i].elems) : Resolves(heap, v)
                     /\ i \notin Reach(heap, Values(heap.objects[i].elems))

\* Marked objects are written by ascending slot; a handle is written as the
\* position of its object, which must have been given one by then.
Encodable(h) ==
  /\ Handles(Active \cup Parked) \subseteq h.marked
  /\ \A i \in h.marked : Children(h, i) \subseteq {j \in h.marked : j <= i}

\* mark_all_task_roots starts from the marks the last capture left behind.
MarkAllTaskRoots(h) == MarkFrom(h, Active \cup Parked)

Capture ==
  /\ IF CodeReadable
     THEN /\ heap' = MarkAllTaskRoots(heap)
          /\ panicked' = ~Encodable(heap')
     ELSE heap' = heap /\ panicked' = TRUE
  /\ UNCHANGED <<stack, locals, task, code, held>>
-----------------------------------------------------------------------------
Opcodes ==
  \/ \E k \in Kinds : OpAlloc(k)
  \/ \E v \in code : OpPushConst(v)
  \/ OpPop
  \/ \E k \in DOMAIN locals : OpStore(k) \/ OpLoad(k)

Switches ==
  \/ \E t \in Tasks : EnterChild(t) \/ RewaitChild(t)
  \/ \E frames \in {<<>>, locals} : LeaveChild(frames)
  \/ FailChild

Host ==
  \/ \E es \in ElemLists : \/ \E k \in Kinds : HostAlloc(k, es)
                           \/ \E v \in Visible : HostSetList(v, es)
  \/ HostPush \/ HostDrop \/ HostAddFunction

Next ==
  /\ ~panicked /\ UNCHANGED pins
  /\ Opcodes \/ Switches \/ Host \/ CollectGarbage \/ Capture

Spec == Init /\ [][Next]_vars
-----------------------------------------------------------------------------
\* Slots on the free list that some holder still reaches.
Dangling == {i \in heap.free : i \in Reach(heap, Holders)}

\* No handle that anyone holds, or can read through a list, is to a freed slot:
\* the next allocation would give that slot to another object.  What the code
\* promises of heap.rs's sweep and vm.rs's root scan to a host that pins.
NoDangling == pins => Dangling = {}

\* With such a host every handle in reach resolves with the type it was made with, so
\* get_string, get_list and FileOpen's heap.get never see another object under it.
AllTyped ==
  /\ \A v \in Holders : Resolves(heap, v)
  /\ \A i \in Reach(heap, Holders) :
       \A v \in Values(heap.objects[i].elems) : Resolves(heap, v)
TypedHandles == pins => AllTyped

\* No step but a collection makes a handle dangle, and a collection only one
\* that its root scan (stack and frame locals of the current task) cannot see.
DanglesOnlyUnscanned ==
  [][LET lost == Dangling' \ Dangling IN
       lost # {} => /\ CollectGarbage \/ \E k \in Kinds, es \in ElemLists : HostAlloc(k, es)
                    /\ lost \subseteq Reach(heap', Unscanned') \ Reach(heap', Active')]_vars

\* A collection leaves nothing allocated that no root reaches, whatever marks a
\* capture left behind before it.
NoFloatingGarbage ==
  [][CollectGarbage => Slots(heap') \ heap'.free \subseteq Reach(heap', Active')]_vars

-----------------------------------------------------------------------------
(* What the documents say of handles and collections, checked against the  *)
(* code by runs of their own.                                              *)

\* AGENT.md: a Gc handle stays valid after any number of collections.  Here of the
\* handles the VM itself has: what the registry keeps for the other tasks, the
\* constants of its functions, and the handle alloc_* is about to return.
HandlesStayValid ==
  [][/\ CollectGarbage => Handles(Parked \cup code) \cap heap'.free \subseteq heap.free
     /\ \A k \in Kinds, es \in ElemLists : HostAlloc(k, es) => held'.index \notin heap'.free]_vars

\* Snapshot::capture: "Panics if a Gc handle points to a freed slot - this
\* indicates a GC bug and should never happen with a healthy VM".
CaptureNeverPanics == ~panicked
=============================================================================
