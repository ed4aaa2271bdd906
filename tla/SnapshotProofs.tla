--------------------------- MODULE SnapshotProofs ---------------------------
(***************************************************************************)
(* Proofs about snapshots.  What Yield writes of a tree is closed under    *)
(* parents, although it tests the direct children of the task only: a task *)
(* below which something was run and not completed has failed itself, and  *)
(* can never complete.  And resume, in module Resume: it brings back what  *)
(* the root's Yield found, and ids stay unique while the process lives.    *)
(***************************************************************************)
EXTENDS ResumeFile, TasksProofs, FileProofs

\* The task in control and the parents that wait.
OnLine(u) == u = current \/ \E k \in DOMAIN waits : waits[k].parent = u

\* A child that can be below a task that completes, or above nothing.
Good(u) == Completed(u) \/ registry[u].children = <<>> \/ OnLine(u)
Clean(t) == \A u \in DOMAIN registry : registry[u].parent = t => Good(u)

\* A task that can only fail: it has no frames, or an error is on its way through it.
Stuck(t) ==
  /\ ~Completed(t) /\ \A k \in DOMAIN waits : waits[k].parent # t
  /\ IF ~BetweenChildren /\ current = t THEN failing \/ (running /\ frames = <<>>)
     ELSE registry[t].frames = <<>>

CleanOrStuck == \A t \in DOMAIN registry \ {Root} : Clean(t) \/ Stuck(t)

\* Between two children, the task that ran last is the waiting one or has completed.
LastDone == BetweenChildren => current = Wait.parent \/ Completed(current)

\* The entry of a child that runs has no frames.
ChildFramesEmpty == waits # <<>> /\ Wait.child # NoTask => registry[current].frames = <<>>

KInv == HInv /\ CleanOrStuck /\ LastDone /\ ChildFramesEmpty
-----------------------------------------------------------------------------
\* Only the failed child leaves the line without having completed.
LEMMA LineKept ==
  ASSUME IInv, LastDone, [Next]_vars, NEW u \in DOMAIN registry, OnLine(u),
         ~(WaitFails /\ u = current)
  PROVE  OnLine(u)' \/ Completed(u)
<1>1. CASE current' = current /\ SameParents
  BY <1>1 DEF OnLine, SameParents
<1>2. CASE WaitEnter
  <2>1. AtItsChild /\ BetweenChildren /\ SameParents /\ waits # <<>>
    BY <1>2, EnterEntry DEF AtItsChild, BetweenChildren
  <2>2. Len(waits) \in DOMAIN waits /\ Wait = waits[Len(waits)]
    BY <2>1, TopWait
  <2> QED
    BY <2>1, <2>2 DEF OnLine, LastDone, SameParents
<1>3. CASE WaitFails \/ WaitDone
  <2>1. /\ Back /\ waits # <<>>
        /\ \A k \in DOMAIN waits : k # Len(waits) => k \in DOMAIN waits' /\ waits'[k] = waits[k]
    BY <1>3, BackEntry, WaitUpdates DEF Back, IInv
  <2>2. Wait = waits[Len(waits)] /\ current' = Wait.parent
    BY <2>1, TopWait DEF Back
  <2>3. CASE u = current
    BY <1>3, <2>2, <2>3 DEF OnLine, LastDone, WaitDone
  <2>4. CASE \E k \in DOMAIN waits : waits[k].parent = u
    BY <2>1, <2>2, <2>4 DEF OnLine
  <2> QED
    BY <2>3, <2>4 DEF OnLine
<1>4. CASE OpSpawn \/ OpYield \/ OpWait \/ WaitSkip \/ WaitLeave
  <2>1. current' = current /\ SameParents
    BY <1>4, SpawnEntry, YieldEntry, WaitEntry, SkipEntry, LeaveEntry
    DEF SameParents, AtItsChild, InControl
  <2> QED
    BY <1>1, <2>1
<1>5. CASE \/ FetchFails \/ OpFails \/ OpData \/ OpCall \/ OpReturn \/ OpHalt \/ OpOpen
           \/ \E ip \in Targets : OpJump(ip)
           \/ \E h \in handles : OpClose(h)
           \/ HostPrepare \/ HostRun \/ RunReturns \/ UNCHANGED vars
  BY <1>1, <1>5, Plain DEF Untouched, SameParents
<1> QED
  BY <1>2, <1>3, <1>4, <1>5, Steps DEF WaitLoop

LEMMA GoodKept ==
  ASSUME IInv, LastDone, [Next]_vars, NEW u \in DOMAIN registry, Good(u),
         ~(WaitFails /\ u = current)
  PROVE  Good(u)'
<1>1. Completed(u) => Completed(u)'
  BY DoneStays DEF Completed
<1>2. CASE OnLine(u)
  BY <1>1, <1>2, LineKept DEF Good
<1>3. CASE registry[u].children = <<>>
  <2>1. CASE OpSpawn /\ u = current
    BY <2>1, SpawnEntry DEF Good, OnLine
  <2>2. CASE ~(OpSpawn /\ u = current)
    BY <1>3, <2>2, ChildrenKept DEF Good
  <2> QED
    BY <2>1, <2>2
<1> QED
  BY <1>1, <1>2, <1>3 DEF Good

LEMMA CleanKept ==
  ASSUME IInv, IInv', LastDone, [Next]_vars, NEW t \in DOMAIN registry, Clean(t),
         ~(WaitFails /\ t = Wait.parent)
  PROVE  Clean(t)'
<1>1. ASSUME NEW u \in DOMAIN registry, registry[u].parent = t PROVE Good(u)'
  <2>1. Good(u)
    BY <1>1 DEF Clean
  <2>2. ~(WaitFails /\ u = current)
    BY <1>1, TopWait DEF WaitFails, ChildRunning
  <2> QED
    BY <2>1, <2>2, GoodKept
<1>2. ASSUME NEW u \in DOMAIN registry' \ DOMAIN registry PROVE Good(u)'
  <2>1. registry'[u].children = <<>>
    BY <1>2, NewTasks DEF NewChild, NewTask
  <2> QED
    BY <2>1 DEF Good
<1>3. \A u \in DOMAIN registry : registry'[u].parent = registry[u].parent
  BY LinesStay
<1> QED
  BY <1>1, <1>2, <1>3 DEF Clean

\* Only WaitLeave completes a task.
LEMMA NotCompleted ==
  ASSUME IInv, [Next]_vars, NEW u \in DOMAIN registry, ~Completed(u), ~(WaitLeave /\ u = current)
  PROVE  ~Completed(u)'
<1>1. CASE OpSpawn
  BY <1>1, SpawnEntry DEF OnlyEntry, Completed
<1>2. CASE OpYield
  BY <1>2, YieldEntry DEF OnlyEntry, Completed
<1>3. CASE OpWait
  BY <1>3, WaitEntry DEF OnlyEntry, SameLife, Completed
<1>4. CASE WaitLoop
  BY <1>4, SkipEntry, EnterEntry, LeaveEntry, BackEntry
  DEF WaitLoop, OnlyEntry, SameLife, InControl, Back, AtItsChild, Completed
<1>5. CASE \/ FetchFails \/ OpFails \/ OpData \/ OpCall \/ OpReturn \/ OpHalt \/ OpOpen
           \/ \E ip \in Targets : OpJump(ip)
           \/ \E h \in handles : OpClose(h)
           \/ HostPrepare \/ HostRun \/ RunReturns \/ UNCHANGED vars
  BY <1>5, Plain DEF Untouched, Completed
<1> QED
  BY <1>1, <1>2, <1>3, <1>4, <1>5, Steps

\* A stuck task in control does not get at an opcode.
LEMMA NoFetch == ASSUME NEW t, Stuck(t), Fetch PROVE t # current
  BY DEF Stuck, Fetch, Fetchable, Executing

LEMMA PlainStuck ==
  ASSUME IInv, Control, NEW t \in DOMAIN registry \ {Root}, Stuck(t),
         \/ FetchFails \/ OpFails \/ OpData \/ OpCall \/ OpReturn \/ OpHalt \/ OpOpen
         \/ \E ip \in Targets : OpJump(ip)
         \/ \E h \in handles : OpClose(h)
         \/ HostPrepare \/ HostRun \/ RunReturns \/ UNCHANGED vars
  PROVE  Stuck(t)'
<1>1. UNCHANGED <<registry, current, waits>>
  BY Plain DEF Untouched
<1>2. CASE BetweenChildren \/ current # t
  BY <1>1, <1>2 DEF Stuck, Completed, BetweenChildren
<1>3. CASE ~(BetweenChildren \/ current # t)
  <2>1. inRun /\ waits # <<>> /\ (failing \/ (running /\ frames = <<>>))
    BY <1>3 DEF Stuck, Control, IInv, WaitChain
  <2>2. ~Fetch
    BY <1>3, NoFetch
  <2>3. \/ FetchFails
        \/ UNCHANGED vars
    BY <2>1, <2>2 DEF OpFails, OpData, OpCall, OpReturn, OpHalt, OpOpen, OpJump, OpClose,
                      HostPrepare, HostRun, RunReturns
  <2>4. failing' \/ (running' /\ frames' = <<>>)
    BY <2>1, <2>3 DEF FetchFails, vars, machine, control
  <2> QED
    BY <1>1, <1>3, <2>4 DEF Stuck, Completed, BetweenChildren
<1> QED
  BY <1>2, <1>3

\* SetWait gives no parent a place that it had not.
LEMMA SetParents ==
  ASSUME IInv, waits # <<>>, WaitSkip \/ WaitEnter \/ WaitLeave
  PROVE  \A k \in DOMAIN waits' : k \in DOMAIN waits /\ waits'[k].parent = waits[k].parent
<1>1. PICK w : waits' = SetWait(w)
  BY DEF WaitSkip, WaitEnter, WaitLeave
<1>2. DOMAIN waits' = DOMAIN waits
  BY <1>1, WaitUpdates DEF IInv
<1> QED
  BY <1>2, SkipEntry, EnterEntry, LeaveEntry DEF AtItsChild, InControl, SameParents

LEMMA StuckKept ==
  ASSUME IInv, Control, ChildFramesEmpty, [Next]_vars,
         NEW t \in DOMAIN registry \ {Root}, Stuck(t)
  PROVE  Stuck(t)'
<1>1. ~Completed(t)'
  BY NotCompleted DEF Stuck, WaitLeave, ChildRunning, BetweenChildren, Wait
<1>2. CASE OpSpawn
  <2>1. t # current /\ waits' = waits /\ current' = current /\ registry'[t] = registry[t]
    BY <1>2, NoFetch, SpawnEntry DEF OpSpawn, OnlyEntry
  <2> QED
    BY <1>1, <2>1 DEF Stuck
<1>3. CASE OpYield
  <2>1. t # current /\ waits' = waits /\ current' = current /\ registry'[t] = registry[t]
    BY <1>3, NoFetch, YieldEntry DEF OpYield, OnlyEntry
  <2> QED
    BY <1>1, <2>1 DEF Stuck
<1>4. CASE OpWait
  <2>1. t # current /\ current' = current /\ registry'[t] = registry[t]
    BY <1>4, NoFetch, WaitEntry DEF OpWait, OnlyEntry
  <2>2. \A k \in DOMAIN waits' : waits'[k].parent \in {waits[j].parent : j \in DOMAIN waits} \cup {current}
    <3> DEFINE w == [parent |-> current, todo |-> registry[current].children,
                     child |-> NoTask, rets |-> <<>>]
    <3>1. waits' = Append(waits, w) /\ waits \in Seq(Activation) /\ w.parent = current
      BY <1>4 DEF OpWait, IInv, TypeOK
    <3> HIDE DEF w
    <3> QED
      BY <3>1
  <2> QED
    BY <1>1, <2>1, <2>2 DEF Stuck
<1>5. CASE WaitSkip
  <2>1. /\ BetweenChildren /\ BetweenChildren' /\ registry'[t].frames = registry[t].frames
        /\ current' = current
    BY <1>5, SkipEntry
  <2>2. \A k \in DOMAIN waits' : waits'[k].parent # t
    BY <1>5, SetParents DEF WaitSkip, AtChild, BetweenChildren, Stuck
  <2> QED
    BY <1>1, <2>1, <2>2 DEF Stuck
<1>6. CASE WaitEnter
  <2>1. /\ BetweenChildren /\ ~BetweenChildren' /\ current' = Child
        /\ frames' = registry[Child].frames /\ OnlyEntry(Child) /\ running' = TRUE
    BY <1>6, EnterEntry DEF AtItsChild, WaitEnter
  <2>2. \A k \in DOMAIN waits' : waits'[k].parent # t
    BY <1>6, SetParents DEF WaitEnter, AtChild, BetweenChildren, Stuck
  <2>3. registry[t].frames = <<>>
    BY <2>1 DEF Stuck
  <2>4. CASE t = Child
    BY <1>1, <2>1, <2>2, <2>3, <2>4 DEF Stuck
  <2>5. CASE t # Child
    BY <1>1, <2>1, <2>2, <2>3, <2>5 DEF Stuck, OnlyEntry
  <2> QED
    BY <2>4, <2>5
<1>7. CASE WaitLeave
  <2>1. ~BetweenChildren /\ BetweenChildren' /\ OnlyEntry(current)
    BY <1>7, LeaveEntry DEF InControl
  <2>2. t # current
    BY <1>7, <2>1 DEF Stuck, WaitLeave
  <2>3. \A k \in DOMAIN waits' : waits'[k].parent # t
    BY <1>7, SetParents DEF WaitLeave, ChildRunning, Stuck
  <2> QED
    BY <1>1, <2>1, <2>2, <2>3 DEF Stuck, OnlyEntry
<1>8. CASE WaitFails \/ WaitDone
  <2>1. /\ current' = Wait.parent /\ OnlyEntry(Wait.parent) /\ waits # <<>>
        /\ \A k \in DOMAIN waits' : k \in DOMAIN waits /\ waits'[k] = waits[k]
    BY <1>8, BackEntry, WaitUpdates DEF Back, IInv
  <2>2. t # Wait.parent
    BY <2>1, TopWait DEF Stuck
  <2>3. registry[t].frames = <<>>
    BY <1>8 DEF Stuck, ChildFramesEmpty, WaitFails, ChildRunning, WaitDone
  <2> QED
    BY <1>1, <2>1, <2>2, <2>3 DEF Stuck, OnlyEntry
<1>9. CASE \/ FetchFails \/ OpFails \/ OpData \/ OpCall \/ OpReturn \/ OpHalt \/ OpOpen
           \/ \E ip \in Targets : OpJump(ip)
           \/ \E h \in handles : OpClose(h)
           \/ HostPrepare \/ HostRun \/ RunReturns \/ UNCHANGED vars
  BY <1>9, PlainStuck
<1> QED
  BY <1>2, <1>3, <1>4, <1>5, <1>6, <1>7, <1>8, <1>9, Steps DEF WaitLoop

\* A child's error makes its parent stuck.
LEMMA FailedParent ==
  ASSUME IInv, WaitFails, NEW t, t = Wait.parent
  PROVE  Stuck(t)'
<1>1. /\ current' = t /\ ~BetweenChildren' /\ failing' /\ waits # <<>>
      /\ waits' = Front(waits)
  BY BackEntry DEF Back, WaitFails, ChildRunning
<1>2. \A k \in DOMAIN waits' : waits'[k].parent # t
  <2>1. \A k \in DOMAIN waits' : k \in DOMAIN Front(waits) /\ waits'[k] = waits[k]
    BY <1>1, WaitUpdates DEF IInv
  <2>2. \A k \in DOMAIN Front(waits) : waits[k].parent < Wait.parent
    BY <1>1, Older
  <2>3. \A k \in DOMAIN Front(waits) : waits[k].parent \in Nat /\ Wait.parent \in Nat
    BY <1>1, <2>1, Older, WaitUpdates DEF IInv
  <2> QED
    BY <2>1, <2>2, <2>3
<1>3. ~Completed(t)
  BY <1>1, TopWait DEF IInv, NotDone
<1>4. ~Completed(t)'
  <2>1. t \in DOMAIN registry /\ ~WaitLeave /\ [Next]_vars
    BY <1>1, TopWait DEF WaitFails, WaitLeave, Next, Vm, WaitLoop
  <2> QED
    BY <1>3, <2>1, NotCompleted
<1> QED
  BY <1>1, <1>2, <1>4 DEF Stuck

LEMMA CleanStep ==
  ASSUME KInv, IInv', [Next]_vars
  PROVE  CleanOrStuck'
<1>1. IInv /\ Control /\ CleanOrStuck /\ LastDone /\ ChildFramesEmpty
  BY DEF KInv, HInv
<1>2. ASSUME NEW t \in DOMAIN registry \ {Root} PROVE Clean(t)' \/ Stuck(t)'
  <2>1. CASE Stuck(t)
    BY <1>1, <2>1, StuckKept
  <2>2. CASE WaitFails /\ t = Wait.parent
    BY <1>1, <2>2, FailedParent
  <2>3. CASE Clean(t) /\ ~(WaitFails /\ t = Wait.parent)
    BY <1>1, <2>3, CleanKept
  <2> QED
    BY <1>1, <2>1, <2>2, <2>3 DEF CleanOrStuck
<1>3. ASSUME NEW t \in DOMAIN registry' \ DOMAIN registry PROVE Clean(t)'
  <2>1. \A u \in DOMAIN registry' : registry'[u].parent # t
    <3>1. \A u \in DOMAIN registry : registry'[u].parent = registry[u].parent
      BY <1>1, LinesStay
    <3>2. \A u \in DOMAIN registry \ {Root} : registry[u].parent \in DOMAIN registry
      BY <1>1, ParentsExist DEF IInv
    <3>3. registry[Root].parent # t
      <4>1. registry[Root].parent = NoTask /\ t \in Nat
        BY <1>1 DEF IInv, TreeConsistent, TypeOK, IsRegistry, TaskId
      <4> QED
        BY <4>1, TaskConstants
    <3>4. \A u \in DOMAIN registry' \ DOMAIN registry : registry'[u].parent = current
      BY <1>1, NewTasks DEF NewChild, NewTask
    <3>5. current \in DOMAIN registry
      BY <1>1, Registry
    <3> QED
      BY <3>1, <3>2, <3>3, <3>4, <3>5
  <2> QED
    BY <2>1 DEF Clean
<1> QED
  BY <1>2, <1>3 DEF CleanOrStuck

LEMMA LastDoneStep ==
  ASSUME IInv, LastDone, [Next]_vars
  PROVE  LastDone'
<1>1. CASE OpSpawn
  BY <1>1, SpawnEntry DEF LastDone, BetweenChildren
<1>2. CASE OpYield
  BY <1>2, YieldEntry DEF LastDone, BetweenChildren
<1>3. CASE OpWait
  <2> DEFINE w == [parent |-> current, todo |-> registry[current].children,
                   child |-> NoTask, rets |-> <<>>]
  <2>1. waits' = Append(waits, w) /\ waits \in Seq(Activation) /\ current' = current
        /\ w.parent = current
    BY <1>3 DEF OpWait, IInv, TypeOK
  <2> HIDE DEF w
  <2>2. waits'[Len(waits')] = w
    BY <2>1
  <2> QED
    BY <2>1, <2>2 DEF LastDone, Wait, Last
<1>4. CASE WaitSkip
  <2>1. /\ current' = current /\ BetweenChildren /\ waits # <<>> /\ current \in DOMAIN registry
    BY <1>4, SkipEntry, Registry DEF BetweenChildren
  <2>2. Wait.parent' = Wait.parent
    <3>1. PICK w : waits' = SetWait(w)
      BY <1>4 DEF WaitSkip
    <3>2. Len(waits') = Len(waits) /\ Len(waits) \in DOMAIN waits'
      BY <2>1, <3>1, WaitUpdates, TopWait DEF IInv
    <3>3. waits'[Len(waits)].parent = waits[Len(waits)].parent
      BY <1>4, <2>1, <3>2, SetParents
    <3> QED
      BY <3>2, <3>3 DEF Wait, Last
  <2>3. Completed(current) => Completed(current)'
    BY <2>1, DoneStays DEF Completed
  <2> QED
    BY <2>1, <2>2, <2>3 DEF LastDone
<1>5. CASE WaitEnter \/ WaitFails \/ WaitDone
  BY <1>5, EnterEntry, BackEntry DEF LastDone
<1>6. CASE WaitLeave
  <2>1. current' = current /\ current \in DOMAIN registry'
        /\ registry'[current].status = "Completed"
    BY <1>6, LeaveEntry, Registry DEF InControl
  <2> QED
    BY <2>1 DEF LastDone, Completed
<1>7. CASE \/ FetchFails \/ OpFails \/ OpData \/ OpCall \/ OpReturn \/ OpHalt \/ OpOpen
           \/ \E ip \in Targets : OpJump(ip)
           \/ \E h \in handles : OpClose(h)
           \/ HostPrepare \/ HostRun \/ RunReturns \/ UNCHANGED vars
  BY <1>7, Plain DEF Untouched, LastDone, BetweenChildren, Completed, Wait
<1> QED
  BY <1>1, <1>2, <1>3, <1>4, <1>5, <1>6, <1>7, Steps DEF WaitLoop

LEMMA FramesStep ==
  ASSUME IInv, ChildFramesEmpty, [Next]_vars
  PROVE  ChildFramesEmpty'
<1>1. CASE OpSpawn
  BY <1>1, SpawnEntry DEF ChildFramesEmpty, Wait
<1>2. CASE OpYield
  BY <1>2, YieldEntry DEF ChildFramesEmpty, Wait
<1>3. CASE OpWait \/ WaitSkip \/ WaitLeave
  BY <1>3, WaitEntry, SkipEntry, LeaveEntry DEF ChildFramesEmpty, BetweenChildren, Wait
<1>4. CASE WaitEnter
  BY <1>4, EnterEntry DEF ChildFramesEmpty
<1>5. CASE WaitFails \/ WaitDone
  BY <1>5, BackEntry DEF ChildFramesEmpty, Back
<1>6. CASE \/ FetchFails \/ OpFails \/ OpData \/ OpCall \/ OpReturn \/ OpHalt \/ OpOpen
           \/ \E ip \in Targets : OpJump(ip)
           \/ \E h \in handles : OpClose(h)
           \/ HostPrepare \/ HostRun \/ RunReturns \/ UNCHANGED vars
  BY <1>6, Plain DEF Untouched, ChildFramesEmpty, Wait
<1> QED
  BY <1>1, <1>2, <1>3, <1>4, <1>5, <1>6, Steps DEF WaitLoop

-----------------------------------------------------------------------------
\* When a root yields, every task with children has completed, except for itself.
LEMMA ParentsDone ==
  ASSUME KInv, current = Root, ~BetweenChildren, Uncompleted = {},
         NEW t \in DOMAIN registry \ {Root}, registry[t].parent # Root
  PROVE  Completed(registry[t].parent)
<1> DEFINE HasChild(u) == \E c \in DOMAIN registry \ {Root} : registry[c].parent = u
           Bad == {u \in DOMAIN registry \ {Root} : ~Completed(u) /\ HasChild(u)}
<1>1. IInv /\ CleanOrStuck /\ TypeOK /\ TreeConsistent /\ DOMAIN registry \subseteq Nat
  BY Registry DEF KInv, HInv, IInv
<1>2. waits = <<>>
  <2> SUFFICES ASSUME waits # <<>> PROVE FALSE
    OBVIOUS
  <2>1. Wait.child # NoTask
    BY DEF BetweenChildren, Wait
  <2> QED
    BY <1>1, <2>1, TopWait, NotRoot
<1>3. ASSUME NEW u \in DOMAIN registry \ {Root}, registry[u].parent = Root
      PROVE  Completed(u)
  <2>1. \E k \in DOMAIN registry[Root].children : registry[Root].children[k] = u
    BY <1>1, <1>3 DEF TreeConsistent
  <2> QED
    BY <2>1 DEF Uncompleted, Elems, Completed
<1>4. ASSUME NEW u \in DOMAIN registry \ {Root}, HasChild(u)
      PROVE  registry[u].children # <<>>
  <2>1. PICK c \in DOMAIN registry \ {Root} : registry[c].parent = u
    BY <1>4
  <2>2. \E k \in DOMAIN registry[u].children : registry[u].children[k] = c
    BY <1>1, <2>1 DEF TreeConsistent
  <2> QED
    BY <2>2
<1> HIDE DEF HasChild
<1>5. Bad = {}
  <2> SUFFICES ASSUME Bad # {} PROVE FALSE
    OBVIOUS
  <2>1. PICK m \in Bad : \A k \in Bad : m <= k
    <3>1. Bad \subseteq Nat
      BY <1>1
    <3> HIDE DEF Bad
    <3> QED
      BY <3>1, Least
  <2>2. m \in DOMAIN registry \ {Root} /\ ~Completed(m) /\ registry[m].children # <<>>
    BY <1>4, <2>1
  <2>3. PICK p \in DOMAIN registry : p = registry[m].parent /\ p < m /\ p \in Nat /\ m \in Nat
    BY <1>1, <2>2, ParentsExist
  <2>4. p # Root
    BY <1>3, <2>2, <2>3
  <2>5. HasChild(p)
    BY <2>2, <2>3 DEF HasChild
  <2>6. Completed(p)
    BY <2>1, <2>3, <2>4, <2>5
  <2>7. Clean(p)
    BY <1>1, <2>4, <2>6 DEF CleanOrStuck, Stuck
  <2>8. Good(m)
    BY <2>2, <2>3, <2>7 DEF Clean
  <2>9. ~OnLine(m)
    BY <1>2, <2>2 DEF OnLine
  <2> QED
    BY <2>2, <2>8, <2>9 DEF Good
<1>6. registry[t].parent \in DOMAIN registry /\ HasChild(registry[t].parent)
  BY <1>1, ParentsExist DEF HasChild
<1> QED
  BY <1>5, <1>6

LEMMA ClosedStep ==
  ASSUME KInv, IInv', SnapshotClosed, [Next]_vars
  PROVE  SnapshotClosed'
<1>1. CASE snapshot' = snapshot
  BY <1>1 DEF SnapshotClosed
<1>2. CASE snapshot' # snapshot
  <2>1. OpYield
    BY <1>2, Steps DEF OpOpen, OpSpawn, OpWait, WaitLoop, FetchFails, OpFails, OpData, OpCall,
       OpReturn, OpHalt, OpJump, OpClose, HostPrepare, HostRun, RunReturns, vars, machine,
       WaitSkip, WaitEnter, WaitLeave, WaitFails, WaitDone
  <2>2. /\ Uncompleted = {} /\ snapshot' = Captured(registry') /\ ~BetweenChildren
        /\ registry'[current].status = "Yielded"
    <3>1. /\ snapshot' = Captured(registry') /\ Uncompleted = {} /\ ~BetweenChildren
          /\ registry' = [registry EXCEPT ![current].status = "Yielded",
                                          ![current].handles = handles]
      BY <1>2, <2>1 DEF OpYield, Fetch, Executing
    <3>2. current \in DOMAIN registry /\ registry[current] \in Task
      BY Registry DEF KInv, HInv
    <3> QED
      BY <3>1, <3>2 DEF Task
  <2> DEFINE kept == {t \in DOMAIN registry' : registry'[t].status # "Running"}
  <2>3. snapshot'.tasks = [t \in kept |-> registry'[t]]
    BY <2>2 DEF Captured
  <2>4. IInv /\ current \in DOMAIN registry' /\ DOMAIN registry' = DOMAIN registry
        /\ OnlyEntry(current)
    <3>1. IInv
      BY DEF KInv, HInv
    <3>2. OnlyEntry(current) /\ DOMAIN registry' = DOMAIN registry
      BY <2>1, <3>1, YieldEntry
    <3>3. current \in DOMAIN registry
      BY <3>1, Registry
    <3> QED
      BY <3>1, <3>2, <3>3
  <2> SUFFICES ASSUME \A t \in kept : t = Root <=> registry'[t].status = "Yielded",
                      NEW t \in kept \ {Root}
               PROVE  LET p == registry'[t].parent IN
                      p \in kept /\ \E k \in DOMAIN registry'[p].children :
                                      registry'[p].children[k] = t
    <3>1. PICK k : k = kept
      OBVIOUS
    <3>2. PICK tasks : tasks = snapshot'.tasks
      OBVIOUS
    <3>3. /\ DOMAIN tasks = k /\ k \subseteq DOMAIN registry'
          /\ \A u \in k : tasks[u] = registry'[u] /\ registry'[u].parent = tasks[u].parent
      BY <2>3, <3>1, <3>2
    <3> HIDE DEF kept
    <3> QED
      BY <3>1, <3>2, <3>3 DEF SnapshotClosed
  <2>5. current = Root
    BY <2>2, <2>4
  <2>6. PICK p : p = registry'[t].parent /\ p = registry[t].parent
    BY <2>4, LinesStay
  <2>7. p \in DOMAIN registry /\ \E k \in DOMAIN registry'[p].children : registry'[p].children[k] = t
    <3>1. t \in DOMAIN registry \ {Root} /\ t \in DOMAIN registry' \ {Root}
      BY <2>4
    <3>2. p \in DOMAIN registry
      BY <2>4, <2>6, <3>1, ParentsExist DEF IInv
    <3>3. \E k \in DOMAIN registry[p].children : registry[p].children[k] = t
      BY <2>4, <2>6, <3>1 DEF IInv, TreeConsistent
    <3>4. registry'[p].children = registry[p].children
      BY <2>1, <2>4, <3>2, YieldEntry DEF OnlyEntry
    <3> HIDE DEF kept
    <3> QED
      BY <3>2, <3>3, <3>4
  <2>8. registry'[p].status # "Running"
    <3>1. CASE p = Root
      BY <2>2, <2>5, <3>1
    <3>2. CASE p # Root
      <4>1. Completed(p)
        BY <2>2, <2>4, <2>5, <2>6, <3>2, ParentsDone
      <4> QED
        BY <2>4, <2>5, <2>7, <3>2, <4>1 DEF OnlyEntry, Completed
    <3> QED
      BY <3>1, <3>2
  <2> QED
    BY <2>4, <2>6, <2>7, <2>8
<1> QED
  BY <1>1, <1>2

\* A root that yields writes a whole tree, whatever failed or was never waited for below
\* it, although Yield looks at its direct children only: a resume finds the parent of
\* every task it restores.
THEOREM YieldedTreeIsClosed == Spec => []SnapshotClosed
<1>1. Init => CleanOrStuck /\ LastDone /\ ChildFramesEmpty /\ SnapshotClosed
  BY DEF Init, CleanOrStuck, LastDone, ChildFramesEmpty, SnapshotClosed, BetweenChildren
<1>2. KInv /\ IInv' /\ [Next]_vars => CleanOrStuck' /\ LastDone' /\ ChildFramesEmpty'
  BY CleanStep, LastDoneStep, FramesStep DEF KInv, HInv
<1>3. KInv /\ IInv' /\ SnapshotClosed /\ [Next]_vars => SnapshotClosed'
  BY ClosedStep
<1>4. KInv <=> HInv /\ CleanOrStuck /\ LastDone /\ ChildFramesEmpty
  BY DEF KInv
<1> QED
  BY <1>1, <1>2, <1>3, <1>4, Invariant, HandlesInvariant, PTL DEF Spec

-----------------------------------------------------------------------------
(* Resume.  A resume can put any snapshot over any tree, so that little of *)
(* IInv survives it: the entries are records of a task's fields, with      *)
(* handles from a given set, and the root is the task of an idle VM.       *)

FieldsOver(S) ==
  [parent : S, children : S, status : S, stack : S, frames : S, handles : S]
IsEntry(e) == \E S : e \in FieldsOver(S)
Entries(reg, H) ==
  /\ reg = [t \in DOMAIN reg |-> reg[t]]
  /\ \A t \in DOMAIN reg : IsEntry(reg[t]) /\ reg[t].handles \subseteq H

LEMMA OneSet ==
  ASSUME NEW e, IsEntry(e), NEW x, NEW y, NEW z
  PROVE  \E T : e \in FieldsOver(T) /\ x \in T /\ y \in T /\ z \in T
<1>1. PICK S : e \in FieldsOver(S)
  BY DEF IsEntry
<1>2. e \in FieldsOver(S \cup {x, y, z})
  BY <1>1 DEF FieldsOver
<1> QED
  BY <1>2

\* One entry of a registry replaced.
LEMMA EntryPut ==
  ASSUME NEW H, NEW reg, Entries(reg, H), NEW t \in DOMAIN reg,
         NEW e, IsEntry(e), e.handles \subseteq H
  PROVE  Entries([reg EXCEPT ![t] = e], H) /\ DOMAIN [reg EXCEPT ![t] = e] = DOMAIN reg
BY DEF Entries

LEMMA SavedEntries ==
  ASSUME NEW H, NEW reg, Entries(reg, H), NEW t, NEW stk, NEW frs, NEW hdl, hdl \subseteq H
  PROVE  /\ Entries(SavedAs(reg, t, stk, frs, hdl), H)
         /\ DOMAIN SavedAs(reg, t, stk, frs, hdl) = DOMAIN reg
<1>1. CASE t \notin DOMAIN reg
  BY <1>1 DEF SavedAs
<1>2. CASE t \in DOMAIN reg
  <2>1. PICK x : x = reg[t]
    OBVIOUS
  <2>2. PICK e : e = [x EXCEPT !.stack = stk, !.frames = frs, !.handles = hdl]
    OBVIOUS
  <2>3. SavedAs(reg, t, stk, frs, hdl) = [reg EXCEPT ![t] = e]
    BY <1>2, <2>1, <2>2 DEF SavedAs
  <2>4. IsEntry(x)
    BY <1>2, <2>1 DEF Entries
  <2>5. IsEntry(e) /\ e.handles = hdl
    <3>1. PICK T : x \in FieldsOver(T) /\ stk \in T /\ frs \in T /\ hdl \in T
      BY <2>4, OneSet
    <3>2. e \in FieldsOver(T) /\ e.handles = hdl
      BY <2>2, <3>1 DEF FieldsOver
    <3> QED
      BY <3>2 DEF IsEntry
  <2>6. Entries([reg EXCEPT ![t] = e], H) /\ DOMAIN [reg EXCEPT ![t] = e] = DOMAIN reg
    BY <1>2, <2>5, EntryPut
  <2> QED
    BY <2>3, <2>6, Zenon
<1> QED
  BY <1>1, <1>2


\* The steps of Tasks: tables of handles get the VM's own or none, and Spawn adds the
\* next task.
TaskAdded ==
  \/ DOMAIN registry' = DOMAIN registry /\ nextTask' = nextTask
  \/ DOMAIN registry' = DOMAIN registry \cup {nextTask} /\ nextTask' = nextTask + 1

LEMMA PlainEntries ==
  ASSUME NEW H, Entries(registry, H), handles \subseteq H, OpOpen => nextHandle \in H,
         \/ FetchFails \/ OpFails \/ OpData \/ OpCall \/ OpReturn \/ OpHalt \/ OpOpen
         \/ \E ip \in Targets : OpJump(ip)
         \/ \E h \in handles : OpClose(h)
         \/ HostPrepare \/ HostRun \/ RunReturns \/ UNCHANGED vars
  PROVE  Entries(registry', H) /\ handles' \subseteq H /\ TaskAdded
<1>1. registry' = registry
  BY Plain DEF Untouched
<1>2. handles' \subseteq H /\ nextTask' = nextTask
  BY DEF FetchFails, OpFails, OpData, OpCall, OpReturn, OpHalt, OpOpen, OpJump, OpClose,
     HostPrepare, HostRun, RunReturns, machine, counters, vars
<1> QED
  BY <1>1, <1>2 DEF TaskAdded

LEMMA SpawnEntries ==
  ASSUME NEW H, Entries(registry, H), handles \subseteq H, OpSpawn
  PROVE  Entries(registry', H) /\ handles' \subseteq H /\ TaskAdded
<1>1. handles' = handles
  BY DEF OpSpawn
<1>2. CASE TooDeep
  BY <1>1, <1>2 DEF OpSpawn, TaskAdded
<1>3. CASE ~TooDeep
  <2>1. PICK reg : reg = Registered(nextTask, NewChild)
    OBVIOUS
  <2>2. NewChild \in FieldsOver({current, <<>>, "Running", << 0 >>, {}}) /\ NewChild.handles = {}
    BY DEF NewChild, NewTask, FieldsOver
  <2>3. IsEntry(NewChild)
    BY <2>2 DEF IsEntry
  <2>4. Entries(reg, H) /\ DOMAIN reg = DOMAIN registry \cup {nextTask}
    BY <2>1, <2>2, <2>3 DEF Registered, Entries
  <2>5. nextTask' = nextTask + 1 /\ registry' = Linked(reg, nextTask)
    BY <1>3, <2>1 DEF OpSpawn
  <2>6. Entries(registry', H) /\ DOMAIN registry' = DOMAIN reg
    <3>1. CASE current \in DOMAIN reg
      <4>1. PICK x, cs : x = reg[current] /\ cs = Append(x.children, nextTask)
        OBVIOUS
      <4>2. PICK e : e = [x EXCEPT !.children = cs]
        OBVIOUS
      <4>3. registry' = [reg EXCEPT ![current] = e]
        BY <2>5, <3>1, <4>1, <4>2 DEF Linked
      <4>4. PICK T : x \in FieldsOver(T) /\ cs \in T
        BY <2>4, <3>1, <4>1, OneSet DEF Entries
      <4>5. e \in FieldsOver(T) /\ e.handles = x.handles
        BY <4>2, <4>4 DEF FieldsOver
      <4>6. IsEntry(e) /\ e.handles \subseteq H
        BY <2>4, <3>1, <4>1, <4>5 DEF IsEntry, Entries
      <4> QED
        BY <2>4, <3>1, <4>3, <4>6, EntryPut
    <3>2. CASE current \notin DOMAIN reg
      BY <2>4, <2>5, <3>2 DEF Linked, Entries
    <3> QED
      BY <3>1, <3>2
  <2> QED
    BY <1>1, <2>4, <2>5, <2>6 DEF TaskAdded
<1> QED
  BY <1>2, <1>3

LEMMA YieldEntries ==
  ASSUME NEW H, Entries(registry, H), handles \subseteq H, OpYield
  PROVE  /\ Entries(registry', H) /\ handles' \subseteq H /\ TaskAdded
         /\ ~failing' /\ current \in DOMAIN registry =>
              registry'[current].status = "Yielded" /\ registry'[current].handles = handles
<1>1. handles' = handles /\ nextTask' = nextTask /\ ~failing
  BY DEF OpYield, counters, Fetch, Executing
<1>2. CASE Uncompleted # {}
  BY <1>1, <1>2 DEF OpYield, TaskAdded
<1>3. CASE Uncompleted = {} /\ current \notin DOMAIN registry
  BY <1>1, <1>3 DEF OpYield, Entries, TaskAdded
<1>4. CASE Uncompleted = {} /\ current \in DOMAIN registry
  <2>1. PICK x : x = registry[current]
    OBVIOUS
  <2>2. PICK e : e = [x EXCEPT !.status = "Yielded", !.handles = handles]
    OBVIOUS
  <2>3. registry' = [registry EXCEPT ![current] = e]
    BY <1>4, <2>1, <2>2 DEF OpYield
  <2>4. PICK T : x \in FieldsOver(T) /\ "Yielded" \in T /\ handles \in T
    BY <1>4, <2>1, OneSet DEF Entries
  <2>5. e \in FieldsOver(T) /\ e.handles = handles /\ e.status = "Yielded"
    BY <2>2, <2>4 DEF FieldsOver
  <2>6. IsEntry(e)
    BY <2>5 DEF IsEntry
  <2>7. Entries(registry', H) /\ DOMAIN registry' = DOMAIN registry
    BY <1>4, <2>3, <2>5, <2>6, EntryPut
  <2>8. registry'[current] = e
    BY <1>4, <2>3
  <2> QED
    BY <1>1, <2>5, <2>7, <2>8 DEF TaskAdded
<1> QED
  BY <1>2, <1>3, <1>4

LEMMA WaitEntries ==
  ASSUME NEW H, Entries(registry, H), handles \subseteq H, OpWait \/ WaitLoop,
         waits # <<>> => Wait.parent \in DOMAIN registry
  PROVE  Entries(registry', H) /\ handles' \subseteq H /\ TaskAdded
<1>1. nextTask' = nextTask
  BY DEF OpWait, WaitLoop, WaitSkip, WaitEnter, WaitLeave, WaitFails, WaitDone, counters
<1>2. CASE OpWait
  BY <1>1, <1>2, SavedEntries DEF OpWait, TaskAdded
<1>3. CASE WaitSkip
  <2>1. Child \in DOMAIN registry /\ handles' = handles
    BY <1>3 DEF WaitSkip, Completed, machine
  <2>2. PICK x, stk : x = registry[Child] /\ stk = Rest(x.stack)
    OBVIOUS
  <2>3. PICK e : e = [x EXCEPT !.stack = stk]
    OBVIOUS
  <2>4. registry' = [registry EXCEPT ![Child] = e]
    BY <1>3, <2>1, <2>2, <2>3 DEF WaitSkip
  <2>5. PICK T : x \in FieldsOver(T) /\ stk \in T
    BY <2>1, <2>2, OneSet DEF Entries
  <2>6. e \in FieldsOver(T) /\ e.handles = x.handles
    BY <2>3, <2>5 DEF FieldsOver
  <2>7. IsEntry(e) /\ e.handles \subseteq H
    BY <2>1, <2>2, <2>6 DEF IsEntry, Entries
  <2> QED
    BY <1>1, <2>1, <2>4, <2>7, EntryPut DEF TaskAdded
<1>4. ASSUME NEW t, Restore(registry, t)
      PROVE  Entries(registry', H) /\ handles' \subseteq H /\ TaskAdded
  <2>1. CASE t \in DOMAIN registry
    <3>1. registry' = SavedAs(registry, t, <<>>, <<>>, {}) /\ handles' = registry[t].handles
      BY <1>4, <2>1 DEF Restore
    <3>2. handles' \subseteq H
      BY <2>1, <3>1 DEF Entries
    <3> QED
      BY <1>1, <3>1, <3>2, SavedEntries DEF TaskAdded
  <2>2. CASE t \notin DOMAIN registry
    BY <1>1, <1>4, <2>2 DEF Restore, TaskAdded
  <2> QED
    BY <2>1, <2>2
<1>5. CASE WaitEnter \/ WaitFails
  BY <1>4, <1>5 DEF WaitEnter, WaitFails
<1>6. CASE WaitLeave
  <2>1. PICK done : done = IF Wait.child \in DOMAIN registry
                           THEN [registry EXCEPT ![Wait.child].status = "Completed"] ELSE registry
    OBVIOUS
  <2>2. Entries(done, H) /\ DOMAIN done = DOMAIN registry
    <3>1. CASE Wait.child \in DOMAIN registry
      <4>1. PICK x : x = registry[Wait.child]
        OBVIOUS
      <4>2. PICK e : e = [x EXCEPT !.status = "Completed"]
        OBVIOUS
      <4>3. done = [registry EXCEPT ![Wait.child] = e]
        BY <2>1, <3>1, <4>1, <4>2
      <4>4. PICK T : x \in FieldsOver(T) /\ "Completed" \in T
        BY <3>1, <4>1, OneSet DEF Entries
      <4>5. e \in FieldsOver(T) /\ e.handles = x.handles
        BY <4>2, <4>4 DEF FieldsOver
      <4>6. IsEntry(e) /\ e.handles \subseteq H
        BY <3>1, <4>1, <4>5 DEF IsEntry, Entries
      <4> QED
        BY <3>1, <4>3, <4>6, EntryPut
    <3>2. CASE Wait.child \notin DOMAIN registry
      BY <2>1, <3>2
    <3> QED
      BY <3>1, <3>2
  <2>3. registry' = SavedAs(done, current, Rest(stack), frames, handles) /\ handles' = {}
    BY <1>6, <2>1 DEF WaitLeave
  <2> QED
    BY <1>1, <2>2, <2>3, SavedEntries DEF TaskAdded
<1>7. CASE WaitDone
  <2>1. /\ Wait.parent \in DOMAIN registry /\ handles' = registry[Wait.parent].handles
        /\ registry' = SavedAs(registry, Wait.parent, <<>>, <<>>, {})
    BY <1>7 DEF WaitDone, BetweenChildren
  <2>2. handles' \subseteq H
    BY <2>1 DEF Entries
  <2> QED
    BY <1>1, <2>1, <2>2, SavedEntries DEF TaskAdded
<1> QED
  BY <1>2, <1>3, <1>5, <1>6, <1>7 DEF WaitLoop

LEMMA EntriesStep ==
  ASSUME NEW H, Entries(registry, H), handles \subseteq H, OpOpen => nextHandle \in H, Next,
         waits # <<>> => Wait.parent \in DOMAIN registry
  PROVE  Entries(registry', H) /\ handles' \subseteq H /\ TaskAdded
<1>1. [Next]_vars
  OBVIOUS
<1> QED
  BY <1>1, Steps, PlainEntries, SpawnEntries, YieldEntries, WaitEntries


Turns(S) == [parent : S, todo : S, child : S, rets : S]
Turn(w) == \E S : w \in Turns(S)

\* The Rust stack and the task in control, whatever a resume left in the registry: a
\* child the registry does not have comes to an empty frame stack.
Calm ==
  /\ Root \in DOMAIN registry /\ NoTask \notin DOMAIN registry
  /\ \E S : waits \in Seq(S)
  /\ waits = <<>> => current = Root
  /\ waits # <<>> => waits[1].parent = Root
  /\ ~inRun => waits = <<>>
  /\ \A k \in DOMAIN waits :
       /\ waits[k].parent \in DOMAIN registry /\ Turn(waits[k])
       /\ k < Len(waits) => waits[k].child # NoTask
  /\ BetweenChildren => frames = <<>>
  /\ current \in DOMAIN registry \/ frames = <<>>

LEMMA CalmTop ==
  ASSUME Calm, waits # <<>>
  PROVE  /\ Len(waits) \in DOMAIN waits /\ Wait = waits[Len(waits)]
         /\ Wait.parent \in DOMAIN registry /\ Turn(Wait)
         /\ Front(waits) # <<>> => Front(waits)[1] = waits[1]
         /\ Front(waits) = <<>> => Wait = waits[1]
         /\ \E S : Front(waits) \in Seq(S)
         /\ DOMAIN Front(waits) = DOMAIN waits \ {Len(waits)}
         /\ Len(Front(waits)) = Len(waits) - 1
         /\ \A k \in DOMAIN Front(waits) : Front(waits)[k] = waits[k]
<1>1. PICK S : waits \in Seq(S)
  BY DEF Calm
<1>2. Len(waits) \in DOMAIN waits /\ Wait = waits[Len(waits)]
  BY <1>1 DEF Wait, Last
<1>3. Front(waits) = [k \in 1..Len(waits) - 1 |-> waits[k]]
  BY <1>1 DEF Front
<1>4. Len(waits) \in Nat /\ Len(waits) >= 1 /\ DOMAIN waits = 1..Len(waits)
  BY <1>1
<1>5. \A k \in DOMAIN waits : waits[k] \in S
  BY <1>1
<1>6. Front(waits) \in Seq(S)
  BY <1>3, <1>4, <1>5
<1>7. /\ Len(Front(waits)) = Len(waits) - 1
      /\ DOMAIN Front(waits) = DOMAIN waits \ {Len(waits)}
      /\ \A k \in DOMAIN Front(waits) : Front(waits)[k] = waits[k]
  BY <1>3, <1>4
<1>8. /\ Front(waits) = <<>> => Len(waits) = 1
      /\ Front(waits) # <<>> => 1 \in DOMAIN Front(waits)
  BY <1>4, <1>6, <1>7
<1>9. Wait.parent \in DOMAIN registry /\ Turn(Wait)
  BY <1>2 DEF Calm
<1> QED
  BY <1>2, <1>6, <1>7, <1>8, <1>9

\* The steps that leave the activations alone.
LEMMA PlainCalm ==
  ASSUME Calm, TaskAdded, NoTask \notin DOMAIN registry',
         waits' = waits, current' = current,
         inRun' = inRun \/ inRun' = TRUE \/ waits = <<>>,
         frames' = frames \/ (~BetweenChildren /\ current \in DOMAIN registry)
  PROVE  Calm'
<1>1. DOMAIN registry \subseteq DOMAIN registry'
  BY DEF TaskAdded
<1>2. BetweenChildren' = BetweenChildren
  BY DEF BetweenChildren
<1> QED
  BY <1>1, <1>2 DEF Calm

LEMMA PushCalm ==
  ASSUME Calm, OpWait, TaskAdded, NoTask \notin DOMAIN registry'
  PROVE  Calm'
<1> DEFINE w == [parent |-> current, todo |-> registry[current].children,
                 child |-> NoTask, rets |-> <<>>]
<1>1. DOMAIN registry \subseteq DOMAIN registry' /\ current \in DOMAIN registry
  BY DEF TaskAdded, OpWait, Fetch, Fetchable, Calm
<1>2. /\ waits' = Append(waits, w) /\ frames' = <<>> /\ ~BetweenChildren /\ inRun' = inRun
      /\ current' = current /\ inRun
  BY DEF OpWait, Fetch, Executing
<1>3. w.parent = current /\ Turn(w)
  <2>1. w \in Turns({current, registry[current].children, NoTask, <<>>})
    BY DEF Turns
  <2> QED
    BY <2>1 DEF Turn
<1> HIDE DEF w
<1>4. PICK S : waits \in Seq(S)
  BY DEF Calm
<1>5. /\ waits' \in Seq(S \cup {w}) /\ Len(waits') = Len(waits) + 1 /\ waits'[Len(waits')] = w
      /\ \A k \in DOMAIN waits' : k = Len(waits') \/ (k \in DOMAIN waits /\ waits'[k] = waits[k])
      /\ waits # <<>> => 1 \in DOMAIN waits /\ waits'[1] = waits[1]
      /\ waits = <<>> => waits'[1] = w
  <2>1. waits \in Seq(S \cup {w})
    BY <1>4
  <2> QED
    BY <1>2, <2>1
<1>6. waits # <<>> => waits[Len(waits)].child # NoTask
  BY <1>2 DEF BetweenChildren, Last
<1>7. \A k \in DOMAIN waits' :
        /\ waits'[k].parent \in DOMAIN registry' /\ Turn(waits'[k])
        /\ k < Len(waits') => waits'[k].child # NoTask
  BY <1>1, <1>3, <1>4, <1>5, <1>6 DEF Calm
<1>8. waits' # <<>> /\ waits'[1].parent = Root
  BY <1>3, <1>5 DEF Calm
<1> QED
  BY <1>1, <1>2, <1>5, <1>7, <1>8 DEF Calm

LEMMA TurnCalm ==
  ASSUME Calm, NEW w, waits # <<>>, waits' = SetWait(w), w.parent = Wait.parent, Turn(w),
         TaskAdded, NoTask \notin DOMAIN registry', inRun' = inRun,
         frames' = <<>> \/ (w.child # NoTask /\ current' \in DOMAIN registry)
  PROVE  Calm'
<1>1. DOMAIN registry \subseteq DOMAIN registry'
  BY DEF TaskAdded
<1>2. PICK S : waits \in Seq(S)
  BY DEF Calm
<1>3. /\ waits' \in Seq(S \cup {w}) /\ DOMAIN waits' = DOMAIN waits /\ waits'[Len(waits)] = w
      /\ \A k \in DOMAIN waits \ {Len(waits)} : waits'[k] = waits[k]
      /\ Len(waits') = Len(waits) /\ waits' # <<>> /\ 1 \in DOMAIN waits
  BY <1>2 DEF SetWait
<1>4. Wait = waits[Len(waits)] /\ Len(waits) \in DOMAIN waits
  BY CalmTop
<1>5. \A k \in DOMAIN waits' :
        waits'[k].parent = waits[k].parent /\ (Turn(waits[k]) => Turn(waits'[k]))
  BY <1>3, <1>4
<1>6. BetweenChildren' => w.child = NoTask
  BY <1>3 DEF BetweenChildren, Last
<1> QED
  BY <1>1, <1>3, <1>5, <1>6 DEF Calm

LEMMA PopCalm ==
  ASSUME Calm, WaitFails \/ WaitDone, TaskAdded, NoTask \notin DOMAIN registry'
  PROVE  Calm'
<1>1. /\ waits # <<>> /\ waits' = Front(waits) /\ inRun' = inRun /\ current' = Wait.parent
  BY DEF WaitFails, WaitDone, ChildRunning, BetweenChildren, Restore
<1>2. DOMAIN registry \subseteq DOMAIN registry'
  BY DEF TaskAdded
<1>3. ~BetweenChildren'
  BY <1>1, CalmTop DEF BetweenChildren, Last, Calm
<1>4. current' \in DOMAIN registry' /\ (waits' = <<>> => current' = Root)
  BY <1>1, <1>2, CalmTop DEF Calm
<1>5. \A k \in DOMAIN waits' : waits'[k] = waits[k] /\ k \in DOMAIN waits /\ k < Len(waits)
  BY <1>1, CalmTop
<1>6. \E S : waits' \in Seq(S)
  BY <1>1, CalmTop
<1>7. waits' # <<>> => waits'[1].parent = Root
  BY <1>1, CalmTop DEF Calm
<1>8. ~inRun' => waits' = <<>>
  BY <1>1 DEF Calm
<1> QED
  BY <1>2, <1>3, <1>4, <1>5, <1>6, <1>7, <1>8 DEF Calm


LEMMA OneTurnSet ==
  ASSUME NEW w, Turn(w), NEW x, NEW y
  PROVE  \E T : w \in Turns(T) /\ x \in T /\ y \in T
<1>1. PICK S : w \in Turns(S)
  BY DEF Turn
<1>2. w \in Turns(S \cup {x, y})
  BY <1>1 DEF Turns
<1> QED
  BY <1>2

LEMMA CalmStep ==
  ASSUME Calm, Next, TaskAdded, NoTask \notin DOMAIN registry'
  PROVE  Calm'
<1>1. CASE OpWait
  BY <1>1, PushCalm
<1>2. CASE WaitFails \/ WaitDone
  BY <1>2, PopCalm
<1>3. CASE WaitSkip \/ WaitEnter \/ WaitLeave
  <2>1. /\ waits # <<>> /\ inRun' = inRun
        /\ WaitSkip \/ WaitEnter => BetweenChildren /\ frames = <<>>
    BY <1>3 DEF WaitSkip, WaitEnter, WaitLeave, AtChild, ChildRunning, BetweenChildren, Calm
  <2>2. PICK x, td : x = Wait /\ td = Tail(Wait.todo)
    OBVIOUS
  <2>3. Turn(x)
    BY <2>1, <2>2, CalmTop
  <2>4. CASE WaitSkip
    <3>1. PICK v, w : /\ v = Top(registry[Child].stack)
                      /\ w = Collected([x EXCEPT !.todo = td], v)
      OBVIOUS
    <3>2. waits' = SetWait(w) /\ frames' = <<>>
      BY <2>1, <2>2, <2>4, <3>1 DEF WaitSkip, machine
    <3>3. w.parent = x.parent /\ Turn(w)
      <4>1. PICK T : x \in Turns(T) /\ td \in T /\ Append(x.rets, v) \in T
        BY <2>3, OneTurnSet
      <4>2. w \in Turns(T) /\ w.parent = x.parent
        BY <3>1, <4>1 DEF Turns, Collected
      <4> QED
        BY <4>2 DEF Turn
    <3> QED
      BY <2>1, <2>2, <3>2, <3>3, TurnCalm
  <2>5. CASE WaitEnter
    <3>1. PICK w : w = [x EXCEPT !.todo = td, !.child = Child]
      OBVIOUS
    <3>2. waits' = SetWait(w) /\ current' = Child
      BY <2>2, <2>5, <3>1 DEF WaitEnter, Restore
    <3>3. w.parent = x.parent /\ w.child = Child /\ Turn(w)
      <4>1. PICK T : x \in Turns(T) /\ td \in T /\ Child \in T
        BY <2>3, OneTurnSet
      <4>2. w \in Turns(T) /\ w.parent = x.parent /\ w.child = Child
        BY <3>1, <4>1 DEF Turns
      <4> QED
        BY <4>2 DEF Turn
    <3>4. frames' = <<>> \/ (Child \in DOMAIN registry /\ Child # NoTask)
      BY <2>1, <2>5 DEF WaitEnter, Restore, Calm
    <3> QED
      BY <2>1, <2>2, <3>2, <3>3, <3>4, TurnCalm
  <2>6. CASE WaitLeave
    <3>1. PICK v, w : v = Top(stack) /\ w = Collected([x EXCEPT !.child = NoTask], v)
      OBVIOUS
    <3>2. waits' = SetWait(w) /\ frames' = <<>>
      BY <2>2, <2>6, <3>1 DEF WaitLeave
    <3>3. w.parent = x.parent /\ Turn(w)
      <4>1. PICK T : x \in Turns(T) /\ NoTask \in T /\ Append(x.rets, v) \in T
        BY <2>3, OneTurnSet
      <4>2. w \in Turns(T) /\ w.parent = x.parent
        BY <3>1, <4>1 DEF Turns, Collected
      <4> QED
        BY <4>2 DEF Turn
    <3> QED
      BY <2>1, <2>2, <3>2, <3>3, TurnCalm
  <2> QED
    BY <1>3, <2>4, <2>5, <2>6
<1>4. CASE OpSpawn \/ OpYield
  <2>1. /\ UNCHANGED <<waits, current, inRun>> /\ ~BetweenChildren /\ frames # <<>>
    BY <1>4 DEF OpSpawn, OpYield, Fetch, Executing, Fetchable
  <2> QED
    BY <2>1, PlainCalm DEF Calm
<1>5. CASE OpFails \/ OpData \/ OpCall \/ OpReturn \/ OpHalt \/ OpOpen
           \/ (\E ip \in Targets : OpJump(ip)) \/ \E h \in handles : OpClose(h)
  <2>1. /\ UNCHANGED <<waits, current, inRun>> /\ ~BetweenChildren /\ frames # <<>>
    BY <1>5 DEF OpFails, OpData, OpCall, OpReturn, OpHalt, OpOpen, OpJump, OpClose,
       Fetch, Executing, Fetchable, control
  <2> QED
    BY <2>1, PlainCalm DEF Calm
<1>6. CASE FetchFails \/ HostPrepare \/ HostRun \/ RunReturns
  <2>1. /\ UNCHANGED <<waits, current>>
        /\ inRun' = inRun \/ inRun' = TRUE \/ waits = <<>>
        /\ frames' = frames \/ waits = <<>>
    BY <1>6 DEF FetchFails, HostPrepare, HostRun, RunReturns, machine, control, Calm
  <2>2. waits = <<>> => ~BetweenChildren /\ current \in DOMAIN registry
    BY DEF BetweenChildren, Calm
  <2> QED
    BY <2>1, <2>2, PlainCalm
<1> QED
  BY <1>1, <1>2, <1>3, <1>4, <1>5, <1>6 DEF Next, Vm, Host, Opcode, WaitLoop


-----------------------------------------------------------------------------
(* What the file and the VM hold, and the two promises of a resume.        *)

\* The tasks and the I/O handles that the VM and its snapshots know of.
Holds(snap, H, D) ==
  /\ snap.handles \subseteq H /\ DOMAIN snap.tasks \subseteq D /\ Entries(snap.tasks, H)
AllIn(H, D) ==
  /\ Entries(registry, H) /\ handles \subseteq H /\ DOMAIN registry \subseteq D
  /\ snapshot # NoTask => Holds(snapshot, H, D)
  /\ saved # NoTask => Holds(saved.snap, H, D)

\* A snapshot that the root's Yield took, and the VM as it found it.
Fits(snap, was) ==
  /\ snap.frames = was.frames /\ snap.stack = was.stack /\ snap.handles = {}
  /\ Root \in DOMAIN snap.tasks /\ snap.tasks[Root].handles = was.handles
  /\ snap.tasks[Root].children = was.registry[Root].children
  /\ \A t \in DOMAIN was.registry \ {Root} :
       was.registry[t].status # "Running" =>
         t \in DOMAIN snap.tasks /\ snap.tasks[t] = was.registry[t]

FitsInv ==
  /\ origin # NoTask => Fits(snapshot, origin)
  /\ saved # NoTask /\ saved.of # NoTask => Fits(saved.snap, saved.of)

\* In the first process the counters are above whatever is held.
CountersAhead == restarts = 0 => nextHandle \in Nat /\ AllIn(0..nextHandle - 1, 0..nextTask - 1)

RInv ==
  /\ \E H : AllIn(H, Nat)
  /\ nextTask \in Nat /\ restarts \in Nat
  /\ Calm /\ FitsInv /\ CountersAhead

LEMMA HoldsMore ==
  ASSUME NEW H, NEW D, NEW G, NEW E, H \subseteq G, D \subseteq E, AllIn(H, D)
  PROVE  AllIn(G, E)
<1>1. ASSUME NEW reg, Entries(reg, H) PROVE Entries(reg, G)
  BY <1>1 DEF Entries
<1>2. ASSUME NEW snap, Holds(snap, H, D) PROVE Holds(snap, G, E)
  BY <1>1, <1>2 DEF Holds
<1> QED
  BY <1>1, <1>2 DEF AllIn

LEMMA SnapshotStep ==
  ASSUME Next
  PROVE  \/ OpYield /\ ~failing' /\ snapshot' = Captured(registry')
         \/ ~(OpYield /\ ~failing') /\ snapshot' = snapshot
<1>1. CASE OpYield
  BY <1>1 DEF OpYield, Fetch, Executing
<1>2. CASE ~OpYield /\ (OpSpawn \/ OpWait \/ WaitLoop)
  BY <1>2 DEF OpSpawn, OpWait, WaitLoop, WaitSkip, WaitEnter, WaitLeave, WaitFails, WaitDone
<1>3. CASE /\ ~OpYield
           /\ \/ FetchFails \/ OpFails \/ OpData \/ OpCall \/ OpReturn \/ OpHalt \/ OpOpen
              \/ \E ip \in Targets : OpJump(ip)
              \/ \E h \in handles : OpClose(h)
              \/ HostPrepare \/ HostRun \/ RunReturns
  BY <1>3 DEF FetchFails, OpFails, OpData, OpCall, OpReturn, OpHalt, OpOpen, OpJump, OpClose,
       HostPrepare, HostRun, RunReturns, machine
<1> QED
  BY <1>1, <1>2, <1>3 DEF Next, Vm, Host, Opcode


LEMMA VmIn ==
  ASSUME NEW H, NEW D, AllIn(H, D), Calm, Next, saved' = saved,
         OpOpen => nextHandle \in H, nextTask' # nextTask => nextTask \in D, nextTask \in Nat
  PROVE  AllIn(H, D)' /\ TaskAdded
<1>1. waits # <<>> => Wait.parent \in DOMAIN registry
  BY CalmTop
<1>2. Entries(registry', H) /\ handles' \subseteq H /\ TaskAdded
  BY <1>1, EntriesStep DEF AllIn
<1>3. DOMAIN registry' \subseteq D
  BY <1>2 DEF TaskAdded, AllIn
<1>4. ASSUME snapshot' = Captured(registry'), OpYield
      PROVE  Holds(snapshot', H, D)
  <2>1. PICK reg : reg = registry'
    OBVIOUS
  <2>2. snapshot' = Captured(reg) /\ Entries(reg, H) /\ DOMAIN reg \subseteq D
    BY <1>2, <1>3, <1>4, <2>1
  <2>3. handles \subseteq H
    BY DEF AllIn
  <2> QED
    BY <2>2, <2>3 DEF Captured, Holds, Entries
<1> QED
  BY <1>2, <1>3, <1>4, SnapshotStep DEF AllIn

LEMMA ResumeIn ==
  ASSUME NEW H, NEW D, AllIn(H, D), Calm, HostResume
  PROVE  /\ AllIn(H, D)' /\ current = Root /\ DOMAIN registry \subseteq DOMAIN registry'
         /\ Root \in DOMAIN saved.snap.tasks =>
              /\ registry'[Root].children = saved.snap.tasks[Root].children
              /\ registry'[Root].handles = saved.snap.tasks[Root].handles
         /\ \A t \in DOMAIN saved.snap.tasks \ {Root} : registry'[t] = saved.snap.tasks[t]
<1>1. PICK snap : snap = saved.snap
  OBVIOUS
<1>2. /\ registry' = RestoredTree(snap) /\ handles' = RestoredHandles(snap)
      /\ snapshot' = snapshot /\ saved' = saved /\ saved # NoTask /\ waits = <<>>
  BY <1>1 DEF HostResume, Calm
<1>3. current = Root /\ Root \in DOMAIN registry
  BY <1>2 DEF Calm
<1>4. Holds(snap, H, D) /\ Entries(registry, H) /\ handles \subseteq H /\ DOMAIN registry \subseteq D
  BY <1>1, <1>2 DEF AllIn
<1>5. PICK x, e : /\ x = registry[Root]
                  /\ e = [x EXCEPT !.children = snap.tasks[Root].children,
                                   !.status   = snap.tasks[Root].status,
                                   !.handles  = snap.tasks[Root].handles]
  OBVIOUS
<1>6. IsEntry(e) /\ e.children = snap.tasks[Root].children /\ e.handles = snap.tasks[Root].handles
  <2>1. PICK cs, st, hdl : /\ cs = snap.tasks[Root].children /\ st = snap.tasks[Root].status
                           /\ hdl = snap.tasks[Root].handles
    OBVIOUS
  <2>2. PICK T : x \in FieldsOver(T) /\ cs \in T /\ st \in T /\ hdl \in T
    BY <1>3, <1>4, <1>5, OneSet DEF Entries
  <2>3. e = [x EXCEPT !.children = cs, !.status = st, !.handles = hdl]
    BY <1>5, <2>1
  <2>4. e \in FieldsOver(T) /\ e.children = cs /\ e.handles = hdl
    BY <2>2, <2>3 DEF FieldsOver
  <2> QED
    BY <2>1, <2>4 DEF IsEntry
<1>7. registry' = [t \in DOMAIN registry \cup DOMAIN snap.tasks |->
                     IF t \notin DOMAIN snap.tasks THEN registry[t]
                     ELSE IF t # Root THEN snap.tasks[t] ELSE e]
  BY <1>2, <1>3, <1>5 DEF RestoredTree
<1>8. Root \in DOMAIN snap.tasks => e.handles \subseteq H
  BY <1>4, <1>6 DEF Holds, Entries
<1>9. Entries(registry', H) /\ DOMAIN registry' \subseteq D
  BY <1>4, <1>6, <1>7, <1>8 DEF Holds, Entries
<1>10. handles' \subseteq H
  BY <1>2, <1>3, <1>4 DEF RestoredHandles, Holds, Entries
<1>11. AllIn(H, D)'
  BY <1>2, <1>9, <1>10 DEF AllIn
<1> QED
  BY <1>1, <1>3, <1>6, <1>7, <1>11


\* The Yield of the root that takes the snapshot which a resume promises to restore.
LEMMA YieldFits ==
  ASSUME NEW H, Entries(registry, H), handles \subseteq H, Root \in DOMAIN registry,
         current = Root, OpYield, ~failing', snapshot' = Captured(registry')
  PROVE  Fits(snapshot', VmState')
<1>1. PICK reg : reg = registry'
  OBVIOUS
<1>2. /\ Entries(reg, H) /\ Root \in DOMAIN reg
      /\ reg[Root].status = "Yielded" /\ reg[Root].handles = handles
  BY <1>1, YieldEntries DEF TaskAdded
<1>3. handles' = handles /\ stack' = stack
  BY DEF OpYield
<1>4. snapshot' = Captured(reg)
  BY <1>1
<1>5. /\ snapshot'.frames = frames' /\ snapshot'.stack = stack /\ snapshot'.handles = {}
      /\ \A t \in DOMAIN reg : reg[t].status # "Running" =>
           t \in DOMAIN snapshot'.tasks /\ snapshot'.tasks[t] = reg[t]
  BY <1>2, <1>4 DEF Captured
<1>6. /\ VmState'.frames = frames' /\ VmState'.stack = stack /\ VmState'.handles = handles
      /\ VmState'.registry = reg
  BY <1>1, <1>3 DEF VmState
<1> QED
  BY <1>2, <1>5, <1>6 DEF Fits

LEMMA FitsStep ==
  ASSUME RInv, [ResumeNext]_rvars
  PROVE  FitsInv'
<1>1. FitsInv /\ Calm /\ \E H : AllIn(H, Nat)
  BY DEF RInv
<1>2. CASE VmStep
  <2>1. saved' = saved /\ Next
    BY <1>2 DEF VmStep
  <2>2. CASE OpYield /\ ~failing' /\ current = Root /\ snapshot' = Captured(registry')
    <3>1. origin' = VmState'
      BY <1>2, <2>2 DEF VmStep
    <3>2. Fits(snapshot', VmState')
      BY <1>1, <2>2, YieldFits DEF AllIn, Calm
    <3> QED
      BY <1>1, <2>1, <3>1, <3>2 DEF FitsInv
  <2>3. CASE OpYield /\ ~failing' /\ current # Root
    BY <1>1, <1>2, <2>1, <2>3 DEF FitsInv, VmStep
  <2>4. CASE ~(OpYield /\ ~failing') /\ snapshot' = snapshot
    BY <1>1, <1>2, <2>1, <2>4 DEF FitsInv, VmStep
  <2> QED
    BY <2>1, <2>2, <2>3, <2>4, SnapshotStep
<1>3. CASE HostSave
  BY <1>1, <1>3 DEF HostSave, FitsInv, vars, machine
<1>4. CASE HostCreateSnapshot
  BY <1>1, <1>4 DEF HostCreateSnapshot, FitsInv, vars, machine
<1>5. CASE HostRestart
  BY <1>1, <1>5 DEF HostRestart, FitsInv
<1>6. CASE HostResume
  BY <1>1, <1>6 DEF HostResume, FitsInv
<1>7. CASE UNCHANGED rvars
  BY <1>1, <1>7 DEF rvars, vars, machine, FitsInv
<1> QED
  BY <1>2, <1>3, <1>4, <1>5, <1>6, <1>7 DEF ResumeNext

\* The steps of the host that change neither the VM nor what it holds.
LEMMA WriteIn ==
  ASSUME NEW H, NEW D, AllIn(H, D), HostSave \/ HostCreateSnapshot \/ UNCHANGED rvars
  PROVE  AllIn(H, D)'
<1>1. UNCHANGED vars
  BY DEF HostSave, HostCreateSnapshot, rvars
<1>2. UNCHANGED <<registry, handles, snapshot, frames>>
  BY <1>1 DEF vars, machine
<1>3. Holds(Captured(registry), H, D)
  BY DEF AllIn, Captured, Holds, Entries
<1>4. saved' # NoTask => Holds(saved'.snap, H, D)
  BY <1>3 DEF AllIn, HostSave, HostCreateSnapshot, rvars
<1> QED
  BY <1>2, <1>4 DEF AllIn

\* A new process has the root alone, and the file.
LEMMA RestartIn ==
  ASSUME NEW H, NEW D, AllIn(H, D), Root \in D, HostRestart
  PROVE  AllIn(H, D)' /\ Calm'
<1>1. NewTask(NoTask) \in FieldsOver({NoTask, <<>>, "Running", {}}) /\ NewTask(NoTask).handles = {}
  BY DEF NewTask, FieldsOver
<1>2. IsEntry(NewTask(NoTask))
  BY <1>1 DEF IsEntry
<1>3. /\ registry' = [t \in {Root} |-> NewTask(NoTask)] /\ handles' = {}
      /\ snapshot' = NoTask /\ saved' = saved
  BY DEF HostRestart
<1>4. Entries(registry', H) /\ DOMAIN registry' = {Root}
  BY <1>1, <1>2, <1>3 DEF Entries
<1>5. AllIn(H, D)'
  BY <1>3, <1>4 DEF AllIn
<1>6. waits' = <<>> /\ current' = Root
  BY DEF HostRestart
<1>7. <<>> \in Seq({})
  OBVIOUS
<1>8. Calm'
  BY <1>4, <1>6, <1>7, TaskConstants DEF Calm, BetweenChildren, Root
<1> QED
  BY <1>5, <1>8


\* Only what opens a handle or spawns moves a counter.
LEMMA CounterStep ==
  ASSUME Next
  PROVE  nextHandle' = nextHandle \/ (OpOpen /\ nextHandle' = nextHandle + 1)
<1>1. CASE OpOpen
  BY <1>1 DEF OpOpen
<1>2. CASE OpSpawn \/ OpYield \/ OpWait \/ WaitLoop
  BY <1>2 DEF OpSpawn, OpYield, OpWait, WaitLoop, WaitSkip, WaitEnter, WaitLeave, WaitFails,
       WaitDone, counters
<1>3. CASE \/ FetchFails \/ OpFails \/ OpData \/ OpCall \/ OpReturn \/ OpHalt
           \/ \E ip \in Targets : OpJump(ip)
           \/ \E h \in handles : OpClose(h)
           \/ HostPrepare \/ HostRun \/ RunReturns
  BY <1>3 DEF FetchFails, OpFails, OpData, OpCall, OpReturn, OpHalt, OpJump, OpClose,
       HostPrepare, HostRun, RunReturns, counters
<1> QED
  BY <1>1, <1>2, <1>3 DEF Next, Vm, Host, Opcode

\* In one process a resume does not move the counter of handles.
LEMMA CounterStays ==
  ASSUME NEW snap, nextHandle \in Nat, snap.handles \subseteq 0..nextHandle - 1
  PROVE  NextHandleAfter(snap) = nextHandle
<1> DEFINE S == {nextHandle} \cup {h + 1 : h \in snap.handles}
<1>1. nextHandle \in S /\ \A y \in S : y \in Nat /\ nextHandle >= y
  OBVIOUS
<1>2. NextHandleAfter(snap) = CHOOSE x \in S : \A y \in S : x >= y
  BY DEF NextHandleAfter, Max
<1> HIDE DEF S
<1>3. PICK m : m = CHOOSE x \in S : \A y \in S : x >= y
  OBVIOUS
<1>4. m \in S /\ \A y \in S : m >= y
  BY <1>1, <1>3
<1>5. m = nextHandle
  BY <1>1, <1>4
<1> QED
  BY <1>2, <1>3, <1>5

LEMMA VmKeeps ==
  ASSUME RInv, VmStep
  PROVE  (\E H : AllIn(H, Nat)') /\ nextTask' \in Nat /\ Calm' /\ CountersAhead'
<1>1. Next /\ saved' = saved /\ restarts' = restarts /\ Calm /\ nextTask \in Nat
  BY DEF VmStep, RInv
<1>2. PICK H : AllIn(H, Nat)
  BY DEF RInv
<1>3. PICK G : H \subseteq G /\ nextHandle \in G
  <2>1. H \subseteq H \cup {nextHandle} /\ nextHandle \in H \cup {nextHandle}
    OBVIOUS
  <2> QED
    BY <2>1
<1>4. AllIn(G, Nat)' /\ TaskAdded
  <2>1. AllIn(G, Nat)
    BY <1>2, <1>3, HoldsMore
  <2> QED
    BY <1>1, <1>3, <2>1, VmIn
<1>5. nextTask' \in Nat /\ nextTask' >= nextTask
  BY <1>1, <1>4 DEF TaskAdded
<1>6. NoTask \notin DOMAIN registry'
  BY <1>4, TaskConstants DEF AllIn
<1>7. Calm'
  BY <1>1, <1>4, <1>6, CalmStep
<1>8. ASSUME restarts = 0
      PROVE  nextHandle' \in Nat /\ AllIn(0..nextHandle - 1, 0..nextTask - 1)'
  <2>1. nextHandle \in Nat /\ AllIn(0..nextHandle - 1, 0..nextTask - 1)
    BY <1>8 DEF RInv, CountersAhead
  <2>2. PICK nh, nt : nh = nextHandle' /\ nt = nextTask'
    OBVIOUS
  <2>3. nh \in Nat /\ nh >= nextHandle /\ (OpOpen => nh = nextHandle + 1)
    BY <1>1, <2>1, <2>2, CounterStep DEF OpOpen
  <2>4. nt >= nextTask /\ nt \in Nat /\ (nt # nextTask => nt = nextTask + 1)
    BY <1>4, <1>5, <2>2 DEF TaskAdded
  <2>5. AllIn(0..nh - 1, 0..nt - 1)
    <3>1. PICK h, t : h = nextHandle /\ t = nextTask
      OBVIOUS
    <3>2. 0..h - 1 \subseteq 0..nh - 1 /\ 0..t - 1 \subseteq 0..nt - 1
      BY <1>1, <2>1, <2>3, <2>4, <3>1
    <3>3. PICK A, B, C, E : A = 0..h - 1 /\ B = 0..t - 1 /\ C = 0..nh - 1 /\ E = 0..nt - 1
      OBVIOUS
    <3>4. A \subseteq C /\ B \subseteq E /\ AllIn(A, B)
      BY <2>1, <3>1, <3>2, <3>3
    <3>5. AllIn(C, E)
      BY <3>4, HoldsMore
    <3> QED
      BY <3>3, <3>5
  <2>6. (OpOpen => nextHandle \in 0..nh - 1) /\ (nextTask' # nextTask => nextTask \in 0..nt - 1)
    <3>1. nh = nextHandle + 1 => nextHandle \in 0..nh - 1
      BY <2>1
    <3>2. nt = nextTask + 1 => nextTask \in 0..nt - 1
      BY <1>1
    <3> QED
      BY <2>2, <2>3, <2>4, <3>1, <3>2
  <2>7. AllIn(0..nh - 1, 0..nt - 1)'
    BY <1>1, <2>5, <2>6, VmIn
  <2> QED
    BY <2>2, <2>3, <2>7 DEF AllIn
<1> QED
  BY <1>1, <1>4, <1>5, <1>7, <1>8 DEF CountersAhead


LEMMA ResumeKeeps ==
  ASSUME RInv, HostResume
  PROVE  (\E H : AllIn(H, Nat)') /\ nextTask' \in Nat /\ Calm' /\ CountersAhead'
<1>1. /\ nextTask' = nextTask /\ nextTask \in Nat /\ restarts' = restarts /\ Calm
      /\ waits' = waits /\ waits = <<>> /\ current' = current
      /\ saved # NoTask /\ nextHandle' = NextHandleAfter(saved.snap)
  BY DEF HostResume, RInv, Calm
<1>2. PICK H : AllIn(H, Nat)
  BY DEF RInv
<1>3. AllIn(H, Nat)' /\ current = Root /\ DOMAIN registry \subseteq DOMAIN registry'
  BY <1>1, <1>2, ResumeIn
<1>4. NoTask \notin DOMAIN registry'
  BY <1>3, TaskConstants DEF AllIn
<1>5. Calm'
  BY <1>1, <1>3, <1>4 DEF Calm, BetweenChildren
<1>6. ASSUME restarts = 0
      PROVE  nextHandle' \in Nat /\ AllIn(0..nextHandle - 1, 0..nextTask - 1)'
  <2>1. PICK h, t : h = nextHandle /\ t = nextTask
    OBVIOUS
  <2>2. h \in Nat /\ AllIn(0..h - 1, 0..t - 1)
    BY <1>6, <2>1 DEF RInv, CountersAhead
  <2>3. nextHandle' = h
    BY <1>1, <2>1, <2>2, CounterStays DEF AllIn, Holds
  <2>4. AllIn(0..h - 1, 0..t - 1)'
    BY <1>1, <2>2, ResumeIn
  <2> QED
    BY <1>1, <2>1, <2>2, <2>3, <2>4 DEF AllIn
<1> QED
  BY <1>1, <1>3, <1>5, <1>6 DEF CountersAhead

LEMMA OthersKeep ==
  ASSUME RInv, HostSave \/ HostCreateSnapshot \/ HostRestart \/ UNCHANGED rvars
  PROVE  (\E H : AllIn(H, Nat)') /\ nextTask' \in Nat /\ Calm' /\ CountersAhead'
<1>1. PICK H : AllIn(H, Nat)
  BY DEF RInv
<1>2. Calm /\ nextTask \in Nat /\ restarts \in Nat
  BY DEF RInv
<1>3. CASE HostRestart
  <2>1. nextTask' = 1 /\ restarts' # 0
    BY <1>2, <1>3 DEF HostRestart
  <2> QED
    BY <1>1, <1>3, <2>1, RestartIn DEF CountersAhead, Root
<1>4. CASE HostSave \/ HostCreateSnapshot \/ UNCHANGED rvars
  <2>1. UNCHANGED vars /\ restarts' = restarts
    BY <1>4 DEF HostSave, HostCreateSnapshot, rvars
  <2>2. UNCHANGED <<registry, current, frames, waits, inRun, nextTask, nextHandle>>
    BY <2>1 DEF vars, machine, control, counters
  <2>3. Calm'
    BY <1>2, <2>2 DEF Calm, BetweenChildren
  <2>4. ASSUME restarts = 0
        PROVE  nextHandle' \in Nat /\ AllIn(0..nextHandle - 1, 0..nextTask - 1)'
    <3>1. PICK h, t : h = nextHandle /\ t = nextTask
      OBVIOUS
    <3>2. h \in Nat /\ AllIn(0..h - 1, 0..t - 1)
      BY <2>4, <3>1 DEF RInv, CountersAhead
    <3>3. AllIn(0..h - 1, 0..t - 1)'
      BY <1>4, <3>2, WriteIn
    <3> QED
      BY <2>2, <3>1, <3>2, <3>3 DEF AllIn
  <2> QED
    BY <1>1, <1>2, <1>4, <2>1, <2>2, <2>3, <2>4, WriteIn DEF CountersAhead
<1> QED
  BY <1>3, <1>4

LEMMA ResumeInvariant == ResumeSpec => []RInv
<1>1. ResumeInit => RInv
  <2> SUFFICES ASSUME ResumeInit PROVE RInv
    OBVIOUS
  <2>1. NewTask(NoTask) \in FieldsOver({NoTask, <<>>, "Running", {}}) /\ NewTask(NoTask).handles = {}
    BY DEF NewTask, FieldsOver
  <2>2. IsEntry(NewTask(NoTask))
    BY <2>1 DEF IsEntry
  <2>3. /\ registry = [t \in {Root} |-> NewTask(NoTask)] /\ handles = {} /\ waits = <<>>
        /\ snapshot = NoTask /\ saved = NoTask /\ origin = NoTask /\ current = Root
        /\ nextTask = 1 /\ nextHandle = 0 /\ restarts = 0
    BY DEF ResumeInit, Init
  <2>4. \A H : Entries(registry, H) /\ DOMAIN registry = {Root}
    BY <2>1, <2>2, <2>3 DEF Entries
  <2>5. \A H, D : Root \in D => AllIn(H, D)
    BY <2>3, <2>4 DEF AllIn
  <2>6. 0 \in 0..nextTask - 1 /\ nextHandle \in Nat
    BY <2>3
  <2>7. CountersAhead
    BY <2>5, <2>6 DEF CountersAhead, Root
  <2>8. <<>> \in Seq({})
    OBVIOUS
  <2>9. Calm
    BY <2>3, <2>4, <2>8, TaskConstants DEF Calm, BetweenChildren, Root
  <2>10. FitsInv
    BY <2>3 DEF FitsInv
  <2>11. AllIn({}, Nat)
    BY <2>5 DEF Root
  <2> QED
    BY <2>3, <2>7, <2>9, <2>10, <2>11 DEF RInv
<1>2. RInv /\ [ResumeNext]_rvars => RInv'
  <2> SUFFICES ASSUME RInv, [ResumeNext]_rvars PROVE RInv'
    OBVIOUS
  <2>1. (\E H : AllIn(H, Nat)') /\ nextTask' \in Nat /\ Calm' /\ CountersAhead'
    BY VmKeeps, ResumeKeeps, OthersKeep DEF ResumeNext
  <2>2. restarts' \in Nat
    <3>1. VmStep \/ HostSave \/ HostCreateSnapshot \/ HostResume \/ UNCHANGED rvars =>
            restarts' = restarts
      BY DEF VmStep, HostSave, HostCreateSnapshot, HostResume, rvars
    <3>2. HostRestart => restarts' = restarts + 1
      BY DEF HostRestart
    <3>3. restarts \in Nat
      BY DEF RInv
    <3> QED
      BY <3>1, <3>2, <3>3 DEF ResumeNext
  <2> QED
    BY <2>1, <2>2, FitsStep DEF RInv
<1> QED
  BY <1>1, <1>2, PTL DEF ResumeSpec

\* Whatever the same VM did since, or in a new process: a resume from a snapshot of the
\* root's Yield has its stack, frames, handles and links, and every task not Running.
THEOREM YieldsComeBack == ResumeSpec => RootSnapshotRestores
<1>1. ASSUME RInv, HostResume, saved.of # NoTask
      PROVE  LET was == saved.of IN
             /\ frames' = was.frames /\ stack' = was.stack /\ handles' = was.handles
             /\ registry'[Root].children = was.registry[Root].children
             /\ registry'[Root].handles = handles'
             /\ \A t \in DOMAIN was.registry \ {Root} :
                  was.registry[t].status # "Running" => registry'[t] = was.registry[t]
  <2>1. PICK snap, was : snap = saved.snap /\ was = saved.of
    OBVIOUS
  <2>2. Fits(snap, was) /\ Calm /\ \E H : AllIn(H, Nat)
    BY <1>1, <2>1 DEF RInv, FitsInv, HostResume
  <2>3. frames' = snap.frames /\ stack' = snap.stack /\ handles' = RestoredHandles(snap)
    BY <1>1, <2>1 DEF HostResume
  <2>4. /\ current = Root /\ registry'[Root].children = snap.tasks[Root].children
        /\ registry'[Root].handles = snap.tasks[Root].handles
        /\ \A t \in DOMAIN snap.tasks \ {Root} : registry'[t] = snap.tasks[t]
    BY <1>1, <2>1, <2>2, ResumeIn DEF Fits
  <2>5. handles' = was.handles
    BY <2>2, <2>3, <2>4 DEF RestoredHandles, Fits
  <2> QED
    BY <2>1, <2>2, <2>3, <2>4, <2>5 DEF Fits
<1>2. RInv /\ [ResumeNext]_rvars =>
        [HostResume /\ saved.of # NoTask =>
           LET was == saved.of IN
           /\ frames' = was.frames /\ stack' = was.stack /\ handles' = was.handles
           /\ registry'[Root].children = was.registry[Root].children
           /\ registry'[Root].handles = handles'
           /\ \A t \in DOMAIN was.registry \ {Root} :
                was.registry[t].status # "Running" => registry'[t] = was.registry[t]]_rvars
  BY <1>1
<1> QED
  BY <1>2, ResumeInvariant, PTL DEF ResumeSpec, RootSnapshotRestores

\* Whatever old snapshots are resumed over the VM, the process they were taken in gives
\* no id of a task or a handle out again.
THEOREM IdsNewInOneProcess == ResumeSpec => NewIdsInOneProcess
<1>1. ASSUME RInv, restarts = 0, OpSpawn PROVE nextTask \notin DOMAIN registry
  <2>1. DOMAIN registry \subseteq 0..nextTask - 1 /\ nextTask \in Nat
    BY <1>1 DEF RInv, CountersAhead, AllIn
  <2> QED
    BY <2>1
<1>2. ASSUME RInv, restarts = 0, NEW t \in DOMAIN registry PROVE nextHandle \notin HandlesOf(t)
  <2>1. nextHandle \in Nat /\ HandlesOf(t) \subseteq 0..nextHandle - 1
    BY <1>2 DEF RInv, CountersAhead, AllIn, Entries, HandlesOf
  <2> QED
    BY <2>1
<1>3. RInv /\ [ResumeNext]_rvars => [restarts = 0 => NewIds]_rvars
  BY <1>1, <1>2 DEF NewIds
<1> QED
  BY <1>3, ResumeInvariant, PTL DEF ResumeSpec, NewIdsInOneProcess

-----------------------------------------------------------------------------
(* Types after a resume.  The counter of handles is the largest of a set,  *)
(* so it is a number only because the handles ever given out are finitely  *)
(* many, like the tasks; and the current task need not be registered.      *)

FinitelyMany == \E n \in Nat : AllIn(0..n, 0..n)

LEMMA Largest ==
  ASSUME NEW n \in Nat, NEW S, S \subseteq 0..n, S # {}
  PROVE  Max(S) \in S
<1> DEFINE T == {n - x : x \in S}
<1>1. T \subseteq Nat /\ T # {}
  <2>1. \A x \in S : x \in Nat /\ n - x \in Nat
    OBVIOUS
  <2>2. PICK x : x \in S
    OBVIOUS
  <2> QED
    BY <2>1, <2>2
<1>2. PICK m \in T : \A k \in T : m <= k
  BY <1>1, Least
<1>3. PICK x \in S : m = n - x
  BY <1>2
<1>4. ASSUME NEW y \in S PROVE x >= y
  <2>1. n - y \in T
    OBVIOUS
  <2>2. n - x <= n - y
    BY <1>2, <1>3, <2>1
  <2> QED
    BY <2>2
<1>5. \E z \in S : \A y \in S : z >= y
  BY <1>4
<1> HIDE DEF T
<1> QED
  BY <1>5 DEF Max

LEMMA CounterIsNumber ==
  ASSUME nextHandle \in Nat, NEW n \in Nat, NEW snap, snap.handles \subseteq 0..n
  PROVE  NextHandleAfter(snap) \in Nat
<1> DEFINE S == {nextHandle} \cup {h + 1 : h \in snap.handles}
<1>1. PICK m \in Nat : m = nextHandle + n + 1
  OBVIOUS
<1>2. S \subseteq 0..m /\ S # {}
  BY <1>1
<1>3. NextHandleAfter(snap) = Max(S)
  BY DEF NextHandleAfter
<1> HIDE DEF S
<1>4. PICK x : x = Max(S) /\ x \in S
  BY <1>2, Largest
<1>5. x \in 0..m
  BY <1>2, <1>4
<1> QED
  BY <1>3, <1>4, <1>5

\* A step of the scheduler from whatever a resume left.
LEMMA VmTyped ==
  ASSUME VmTypes, Calm, Next
  PROVE  VmTypes'
<1>1. CASE WaitLoop
  BY <1>1, CalmTop, LoopTypes
<1>2. CASE ~WaitLoop /\ current \in DOMAIN registry
  <2>1. TypeOK
    BY <1>2, FieldTypes
  <2>2. TypeOK'
    BY <1>2, <2>1, PlainTypes, TreeTypes DEF Next, Vm, Host, Opcode
  <2> QED
    BY <2>2 DEF TypeOK, VmTypes, IsRegistry
<1>3. CASE ~WaitLoop /\ current \notin DOMAIN registry
  <2>1. frames = <<>> /\ waits # <<>> /\ inRun
    BY <1>3 DEF Calm
  <2>2. FetchFails
    BY <1>3, <2>1 DEF Next, Vm, Host, Opcode, OpFails, OpData, OpCall, OpReturn, OpHalt, OpOpen,
       OpSpawn, OpYield, OpWait, OpJump, OpClose, Fetch, Fetchable, HostPrepare, HostRun, RunReturns
  <2> QED
    BY <2>2 DEF FetchFails, VmTypes, machine, counters
<1> QED
  BY <1>1, <1>2, <1>3

LEMMA ResumeTyped ==
  ASSUME VmTypes, Calm, FinitelyMany, HostResume, IsSnapshot(saved.snap)
  PROVE  VmTypes'
<1>1. PICK snap : snap = saved.snap
  OBVIOUS
<1>2. /\ snap.frames \in Seq(Nat) /\ snap.stack \in Seq(Values) /\ snap.handles \subseteq Nat
      /\ IsRegistry(snap.tasks) /\ IsRegistry(registry)
  BY <1>1 DEF IsSnapshot, VmTypes
<1>3. PICK n \in Nat : AllIn(0..n, 0..n)
  BY DEF FinitelyMany
<1>4. saved # NoTask /\ registry' = RestoredTree(snap) /\ handles' = RestoredHandles(snap)
      /\ nextHandle' = NextHandleAfter(snap)
  BY <1>1 DEF HostResume
<1>5. nextHandle' \in Nat
  BY <1>1, <1>3, <1>4, CounterIsNumber DEF AllIn, Holds, VmTypes
<1>6. IsRegistry(registry')
  <2>1. current = Root /\ Root \in DOMAIN registry
    BY DEF HostResume, Calm
  <2>2. PICK x, e : /\ x = registry[Root]
                    /\ e = [x EXCEPT !.children = snap.tasks[Root].children,
                                     !.status   = snap.tasks[Root].status,
                                     !.handles  = snap.tasks[Root].handles]
    OBVIOUS
  <2>3. PICK cs, st, hdl : /\ cs = snap.tasks[Root].children
                           /\ st = snap.tasks[Root].status
                           /\ hdl = snap.tasks[Root].handles
    OBVIOUS
  <2>4. registry' = [t \in DOMAIN registry \cup DOMAIN snap.tasks |->
                       IF t \notin DOMAIN snap.tasks THEN registry[t]
                       ELSE IF t # Root THEN snap.tasks[t] ELSE e]
    BY <1>4, <2>1, <2>2 DEF RestoredTree
  <2>5. e = [x EXCEPT !.children = cs, !.status = st, !.handles = hdl]
    BY <2>2, <2>3
  <2>6. Root \in DOMAIN snap.tasks => e \in Task
    <3>1. x \in Task /\ (Root \in DOMAIN snap.tasks => snap.tasks[Root] \in Task)
      BY <1>2, <2>1, <2>2 DEF IsRegistry
    <3>2. Root \in DOMAIN snap.tasks =>
            cs \in Seq(TaskId) /\ st \in Status /\ hdl \in SUBSET Nat
      BY <2>3, <3>1 DEF Task
    <3> QED
      BY <2>5, <3>1, <3>2 DEF Task
  <2> QED
    BY <1>2, <2>4, <2>6 DEF IsRegistry
<1>7. handles' \subseteq Nat
  BY <1>2, <1>4 DEF RestoredHandles, IsRegistry, Task, VmTypes
<1>8. frames' = snap.frames /\ stack' = snap.stack /\ running' = TRUE /\ inRun' \in BOOLEAN
  BY <1>1 DEF HostResume
<1> QED
  BY <1>2, <1>5, <1>6, <1>7, <1>8 DEF HostResume, VmTypes

LEMMA ResumedInvariant == ResumeSpec => [](RInv /\ ResumeTypeOK /\ FinitelyMany)
<1>1. ResumeInit => ResumeTypeOK /\ FinitelyMany
  <2> SUFFICES ASSUME ResumeInit PROVE ResumeTypeOK /\ FinitelyMany
    OBVIOUS
  <2>1. TypeOK
    BY InitTypes DEF ResumeInit
  <2>2. ResumeTypeOK
    BY <2>1, ResumeConstants DEF ResumeInit, Init, TypeOK, ResumeTypeOK, IsRegistry
  <2>3. AllIn(0..0, 0..0)
    <3>1. NewTask(NoTask) \in FieldsOver({NoTask, <<>>, "Running", {}}) /\ NewTask(NoTask).handles = {}
      BY DEF NewTask, FieldsOver
    <3>2. IsEntry(NewTask(NoTask))
      BY <3>1 DEF IsEntry
    <3>3. /\ registry = [t \in {Root} |-> NewTask(NoTask)] /\ handles = {}
          /\ snapshot = NoTask /\ saved = NoTask
      BY DEF ResumeInit, Init
    <3> QED
      BY <3>1, <3>2, <3>3 DEF AllIn, Entries, Root
  <2> QED
    BY <2>2, <2>3 DEF FinitelyMany
<1>2. ASSUME RInv, ResumeTypeOK, FinitelyMany, [ResumeNext]_rvars
      PROVE  ResumeTypeOK' /\ FinitelyMany'
  <2>1. VmTypes /\ Calm
    BY <1>2 DEF ResumeTypeOK, VmTypes, RInv
  <2>2. PICK n \in Nat : AllIn(0..n, 0..n)
    BY <1>2 DEF FinitelyMany
  <2>3. CASE VmStep
    <3>1. Next /\ saved' = saved /\ restarts' = restarts
      BY <2>3 DEF VmStep
    <3>2. VmTypes'
      BY <2>1, <3>1, VmTyped
    <3>3. PICK m \in Nat : m = n + nextHandle + nextTask
      BY <2>1 DEF VmTypes, TaskId
    <3>4. 0..n \subseteq 0..m /\ nextHandle \in 0..m /\ nextTask \in 0..m
      BY <2>1, <3>3 DEF VmTypes, TaskId
    <3>5. AllIn(0..m, 0..m)
      BY <2>2, <3>4, HoldsMore
    <3>6. AllIn(0..m, 0..m)' /\ TaskAdded
      BY <2>1, <3>1, <3>4, <3>5, VmIn DEF VmTypes, TaskId
    <3>7. Root \in DOMAIN registry'
      BY <2>1, <3>6 DEF TaskAdded, Calm
    <3> QED
      BY <1>2, <3>1, <3>2, <3>6, <3>7 DEF VmTypes, ResumeTypeOK, FinitelyMany
  <2>4. CASE HostSave \/ HostCreateSnapshot \/ UNCHANGED rvars
    <3>1. UNCHANGED vars /\ restarts' = restarts
      BY <2>4 DEF HostSave, HostCreateSnapshot, rvars
    <3>2. /\ UNCHANGED <<registry, current, frames, stack, handles, running, snapshot>>
          /\ UNCHANGED <<nextTask, nextHandle, waits, inRun, failing>>
      BY <3>1 DEF vars, machine, counters, control
    <3>3. AllIn(0..n, 0..n)'
      BY <2>2, <2>4, WriteIn
    <3>4. IsSnapshot(Captured(registry))
      BY <2>1, <3>2 DEF Captured, IsSnapshot, IsRegistry, VmTypes
    <3>5. saved' # NoTask => IsSnapshot(saved'.snap)
      BY <1>2, <2>4, <3>4 DEF HostSave, HostCreateSnapshot, ResumeTypeOK, rvars
    <3> QED
      BY <1>2, <3>1, <3>2, <3>3, <3>5 DEF ResumeTypeOK, FinitelyMany
  <2>5. CASE HostRestart
    <3>1. AllIn(0..n, 0..n)' /\ Calm'
      BY <2>2, <2>5, RestartIn DEF Root
    <3>2. NewTask(NoTask) \in Task
      BY DEF NewTask, Task, Status, Values
    <3>3. IsRegistry(registry') /\ Root \in DOMAIN registry' /\ current' \in TaskId
      BY <2>5, <3>2 DEF HostRestart, IsRegistry, TaskId, Root
    <3>4. <<>> \in Seq(Values) /\ <<>> \in Seq(Nat) /\ <<>> \in Seq(Activation)
      OBVIOUS
    <3>5. restarts' \in 0..MaxRestarts
      BY <1>2, <2>5, ResumeConstants DEF HostRestart, ResumeTypeOK
    <3> QED
      BY <1>2, <2>5, <3>1, <3>3, <3>4, <3>5 DEF HostRestart, ResumeTypeOK, FinitelyMany, TaskId
  <2>6. CASE HostResume
    <3>1. AllIn(0..n, 0..n)' /\ DOMAIN registry \subseteq DOMAIN registry'
      BY <2>1, <2>2, <2>6, ResumeIn
    <3>2. saved # NoTask /\ saved' = saved /\ restarts' = restarts
      BY <2>6 DEF HostResume
    <3>3. VmTypes'
      BY <1>2, <2>1, <2>6, <3>2, ResumeTyped DEF ResumeTypeOK
    <3>4. Root \in DOMAIN registry'
      BY <2>1, <3>1 DEF Calm
    <3> QED
      BY <1>2, <3>1, <3>2, <3>3, <3>4 DEF VmTypes, ResumeTypeOK, FinitelyMany
  <2> QED
    BY <1>2, <2>3, <2>4, <2>5, <2>6 DEF ResumeNext
<1> QED
  BY <1>1, <1>2, ResumeInvariant, PTL DEF ResumeSpec

\* After any number of resumes, saves and restarts the fields have their types and the
\* root is registered, although a resume can list children that are in no registry.
THEOREM ResumedTypes == ResumeSpec => []ResumeTypeOK
BY ResumedInvariant, PTL

-----------------------------------------------------------------------------
(* The bytes of a tree.                                                    *)

LEMMA SmallIsListed ==
  ASSUME NEW n \in Nat, NEW S, S \subseteq 0..n
  PROVE  Seqs!SetToSeq(S) \in Seq(S)
<1>1. IsFiniteSet(0..n)
  BY 0 \in Int, n \in Int, FS_Interval
<1> QED
  BY <1>1, FS_Subset, SetIsListed

LEMMA ValuesAreFields ==
  ASSUME NEW known, NEW s \in Seq(Values)
  PROVE  ValueFields(s) \in Seq(FileValue(known))
<1>1. ASSUME NEW v \in Values PROVE ValueField(v) \in FileValue(known)
  <2>1. CASE v = Null
    BY <2>1 DEF ValueField, FileValue
  <2>2. CASE v # Null
    <3>1. v \in Int
      BY <2>2 DEF Values
    <3>2. ValueField(v) = [t |-> "Int", v |-> v]
      BY <2>2 DEF ValueField
    <3> QED
      BY <3>1, <3>2 DEF FileValue
  <2> QED
    BY <2>1, <2>2
<1>2. \A k \in DOMAIN s : ValueField(s[k]) \in FileValue(known)
  BY <1>1
<1>3. PICK ys : ys = ValueFields(s)
  OBVIOUS
<1>4. ys = [k \in DOMAIN s |-> ys[k]] /\ \A k \in DOMAIN s : ys[k] \in FileValue(known)
  BY <1>2, <1>3 DEF ValueFields
<1> QED
  BY <1>3, <1>4, EachFields

LEMMA FramesAreFields ==
  ASSUME NEW known, NEW s \in Seq(Nat)
  PROVE  FrameFields(s) \in Seq(FileFrame(known))
<1>1. PICK ys : ys = FrameFields(s)
  OBVIOUS
<1>2. \A k \in DOMAIN s : ys[k] = [function |-> 0, ip |-> s[k], locals |-> <<>>]
  BY <1>1 DEF FrameFields
<1>3. \A k \in DOMAIN s : s[k] \in Int
  OBVIOUS
<1>4. <<>> \in Seq(FileValue(known))
  OBVIOUS
<1>5. ASSUME NEW k \in DOMAIN s PROVE ys[k] \in FileFrame(known)
  <2>1. PICK none, ip : none = <<>> /\ none \in Seq(FileValue(known)) /\ ip = s[k] /\ ip \in Int
    BY <1>3, <1>4
  <2>2. ys[k] = [function |-> 0, ip |-> ip, locals |-> none]
    BY <1>2, <2>1
  <2> QED
    BY <2>1, <2>2 DEF FileFrame
<1>6. ys = [k \in DOMAIN s |-> ys[k]]
  BY <1>1 DEF FrameFields
<1> QED
  BY <1>1, <1>5, <1>6, EachFields

LEMMA HandlesAreFields ==
  ASSUME NEW n \in Nat, NEW S, S \subseteq 0..n
  PROVE  HandleFields(S) \in Seq(FileHandle)
<1>1. PICK s : s = Seqs!SetToSeq(S)
  OBVIOUS
<1>2. s \in Seq(S)
  BY <1>1, SmallIsListed
<1>3. PICK ys : ys = HandleFields(S)
  OBVIOUS
<1>4. ys = [k \in DOMAIN s |-> HandleField(s[k])]
  BY <1>1, <1>3 DEF HandleFields, Listed
<1>5. ASSUME NEW h \in S PROVE HandleField(h) \in FileHandle
  <2>1. h \in Int /\ 0 \in Int /\ 0 \in Int \ {AllOnes}
    BY DEF AllOnes
  <2>2. PICK params, cached, position : params = <<0, 0>> /\ cached = <<>> /\ position = << 0 >>
    OBVIOUS
  <2>3. params \in Seq(Int)
    BY <2>2
  <2>4. /\ cached \in {<<>>} \cup {<<bytes>> : bytes \in Seq(Int)}
        /\ position \in {<<>>} \cup {<<x>> : x \in Int \ {AllOnes}}
    BY <2>1, <2>2
  <2>5. HandleField(h) = [id |-> h, kind |-> 0, strategy |-> 0, params |-> params,
                          cached |-> cached, position |-> position]
    BY <2>2 DEF HandleField
  <2> QED
    BY <2>1, <2>3, <2>4, <2>5 DEF FileHandle
<1>6. ASSUME NEW k \in DOMAIN s PROVE ys[k] \in FileHandle
  <2>1. PICK h : h = s[k] /\ h \in S
    BY <1>2
  <2> QED
    BY <1>4, <1>5, <2>1
<1>7. ys = [k \in DOMAIN s |-> ys[k]]
  BY <1>4
<1> QED
  BY <1>2, <1>3, <1>6, <1>7, EachFields

LEMMA TaskIsFields ==
  ASSUME NEW known, NEW n \in Nat, NEW t \in 0..n, NEW entry \in Task, entry.handles \subseteq 0..n
  PROVE  TaskField(t, entry) \in FileTask(known)
<1>1. PICK x : x = TaskField(t, entry)
  OBVIOUS
<1>2. PICK parent, status, pc : /\ parent = IF entry.parent = NoTask THEN <<>> ELSE <<entry.parent>>
                                /\ status = IF entry.status = "Yielded" THEN 1 ELSE 2
                                /\ pc = IF entry.status = "Yielded" THEN << 0 >> ELSE <<>>
  OBVIOUS
<1>3. PICK stk, frs, hdl : /\ stk = ValueFields(entry.stack) /\ frs = FrameFields(entry.frames)
                           /\ hdl = HandleFields(entry.handles)
  OBVIOUS
<1>4. x = [id |-> t, parent |-> parent, status |-> status, pc |-> pc, children |-> entry.children,
           stack |-> stk, frames |-> frs, handles |-> hdl]
  BY <1>1, <1>2, <1>3 DEF TaskField
<1>5. stk \in Seq(FileValue(known)) /\ frs \in Seq(FileFrame(known)) /\ hdl \in Seq(FileHandle)
  BY <1>3, ValuesAreFields, FramesAreFields, HandlesAreFields DEF Task
<1>6. parent \in Seq(Int)
  <2>1. entry.parent # NoTask => entry.parent \in Int
    BY DEF Task, TaskId
  <2> QED
    BY <1>2, <2>1
<1>7. entry.children \in Seq(Int)
  <2>1. PICK cs : cs = entry.children /\ cs \in Seq(Nat)
    BY DEF Task, TaskId
  <2>2. cs \in Seq(Int)
    BY <2>1
  <2> QED
    BY <2>1, <2>2
<1>8. status \in Int /\ pc \in Seq(Int) /\ Len(pc) = Pc(status)
  BY <1>2 DEF Pc
<1>9. t \in Int
  OBVIOUS
<1> QED
  BY <1>1, <1>4, <1>5, <1>6, <1>7, <1>8, <1>9 DEF FileTask

LEMMA TreeIsFile ==
  ASSUME NEW snap, IsSnapshot(snap), NEW n \in Nat, Holds(snap, 0..n, 0..n)
  PROVE  IsFileSnapshot(Fields(snap)) /\ FileHeap(Fields(snap).objects)
<1>1. PICK s : s = Fields(snap)
  OBVIOUS
<1>2. PICK ids, tasks : /\ ids = Seqs!SetToSeq(DOMAIN snap.tasks)
                        /\ tasks = [k \in DOMAIN ids |-> TaskField(ids[k], snap.tasks[ids[k]])]
  OBVIOUS
<1>3. PICK stk, frs, hdl : /\ stk = ValueFields(snap.stack) /\ frs = FrameFields(snap.frames)
                           /\ hdl = HandleFields(snap.handles)
  OBVIOUS
<1>4. PICK none : none = <<>>
  OBVIOUS
<1>5. s = [hash |-> 0, time |-> 0, objects |-> none, frames |-> frs, stack |-> stk,
           handles |-> hdl, tasks |-> tasks]
  BY <1>1, <1>2, <1>3, <1>4 DEF Fields, Listed
<1>6. PICK known : known = Positions(s)
  OBVIOUS
<1>7. stk \in Seq(FileValue(known)) /\ frs \in Seq(FileFrame(known))
  BY <1>3, ValuesAreFields, FramesAreFields DEF IsSnapshot
<1>8. hdl \in Seq(FileHandle)
  BY <1>3, HandlesAreFields DEF Holds
<1>9. tasks \in Seq(FileTask(known))
  <2>1. DOMAIN snap.tasks \subseteq 0..n
    BY DEF Holds
  <2>2. ids \in Seq(DOMAIN snap.tasks)
    BY <1>2, <2>1, SmallIsListed
  <2>3. ASSUME NEW t \in DOMAIN snap.tasks PROVE TaskField(t, snap.tasks[t]) \in FileTask(known)
    <3>1. snap.tasks[t] \in Task /\ snap.tasks[t].handles \subseteq 0..n
      BY DEF IsSnapshot, IsRegistry, Holds, Entries
    <3> QED
      BY <2>1, <3>1, TaskIsFields
  <2>4. \A k \in DOMAIN ids : tasks[k] \in FileTask(known)
    BY <1>2, <2>2, <2>3
  <2>5. tasks = [k \in DOMAIN ids |-> tasks[k]]
    BY <1>2
  <2> QED
    BY <2>2, <2>4, <2>5, EachFields
<1>10. IsSequence(none) /\ DOMAIN none = {}
  BY <1>4, none \in Seq({}) DEF IsSequence
<1>11. AnyHeap(known, none) /\ FileHeap(none)
  BY <1>10 DEF AnyHeap, FileHeap
<1> QED
  BY <1>1, <1>5, <1>6, <1>7, <1>8, <1>9, <1>11 DEF IsFileSnapshot

\* Of every tree of tasks that Yield or the host puts into a file, whatever is parked in
\* its entries and however many they are, the file reads back as the same tree.
THEOREM TreesReadBack == ResumeSpec => FileKeepsTree
<1>1. ASSUME ResumeTypeOK, FinitelyMany, saved' # saved, [ResumeNext]_rvars
      PROVE  FileReadsBack({Fields(saved'.snap)})
  <2>1. PICK snap : snap = saved'.snap
    OBVIOUS
  <2>2. PICK n \in Nat : AllIn(0..n, 0..n)
    BY <1>1 DEF FinitelyMany
  <2>3. ASSUME HostSave PROVE IsSnapshot(snap) /\ Holds(snap, 0..n, 0..n)
    BY <1>1, <2>1, <2>2, <2>3 DEF ResumeTypeOK, AllIn, HostSave
  <2>4. ASSUME HostCreateSnapshot PROVE IsSnapshot(snap) /\ Holds(snap, 0..n, 0..n)
    <3>1. UNCHANGED frames /\ snap = Captured(registry)
      BY <2>1, <2>4 DEF HostCreateSnapshot, vars, machine
    <3>2. IsSnapshot(snap)
      BY <1>1, <3>1 DEF Captured, IsSnapshot, IsRegistry, ResumeTypeOK
    <3>3. Holds(snap, 0..n, 0..n)
      BY <2>2, <3>1 DEF AllIn, Captured, Holds, Entries
    <3> QED
      BY <3>2, <3>3
  <2>5. HostSave \/ HostCreateSnapshot
    BY <1>1 DEF ResumeNext, VmStep, HostRestart, HostResume, rvars
  <2>6. Same(ReadSnapshot(WriteToFile(Fields(snap))), Fields(snap))
    BY <2>3, <2>4, <2>5, TreeIsFile, SnapshotReadsBack
  <2> QED
    BY <2>1, <2>6 DEF FileReadsBack
<1>2. ResumeTypeOK /\ FinitelyMany /\ [ResumeNext]_rvars
      => [saved' # saved => FileReadsBack({Fields(saved'.snap)})]_rvars
  BY <1>1
<1> QED
  BY <1>2, ResumedInvariant, PTL DEF ResumeSpec, FileKeepsTree
=============================================================================
