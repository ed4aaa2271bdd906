---------------------------- MODULE TasksProofs -----------------------------
(***************************************************************************)
(* Proofs about Tasks, for every bound and every depth limit: types, the   *)
(* task tree and the chain of waiting parents, that the scheduler          *)
(* implements ForkJoin, what is parked in the registry, how deep the tree  *)
(* gets, and whose values are on whose stack.                              *)
(***************************************************************************)
EXTENDS Tasks, FiniteSetTheorems, WellFoundedInduction, TLAPS

-----------------------------------------------------------------------------
(* Sequences.                                                              *)

\* What Last, Front, Top and Rest return.
LEMMA EndsOfSeq ==
  ASSUME NEW S, NEW s \in Seq(S)
  PROVE  /\ s # <<>> => Last(s) \in S /\ Front(s) \in Seq(S)
         /\ Rest(s) \in Seq(S)
         /\ Top(s) \in S \cup {Null}
<1>1. s # <<>> => Len(s) \in DOMAIN s /\ Len(s) - 1 \in Nat /\ Len(s) - 1 <= Len(s)
  OBVIOUS
<1>2. s # <<>> => Last(s) \in S
  BY <1>1 DEF Last
<1>3. s # <<>> => Front(s) \in Seq(S)
  BY <1>1 DEF Front
<1> QED
  BY <1>2, <1>3 DEF Rest, Top

\* A stack of values stays one when it is popped or pushed.
LEMMA Stacks ==
  ASSUME NEW s \in Seq(Values)
  PROVE  /\ Rest(s) \in Seq(Values) /\ Top(s) \in Values
         /\ s # <<>> => Front(s) \in Seq(Values)
         /\ \A v \in Values : Append(s, v) \in Seq(Values)
<1>1. Null \in Values
  BY DEF Values
<1> QED
  BY <1>1, EndsOfSeq

\* The frame stack when an opcode has been fetched.
LEMMA Frames ==
  ASSUME TypeOK, Fetchable
  PROVE  /\ Advanced \in Seq(Nat) /\ Front(frames) \in Seq(Nat)
         /\ \A ip \in Nat : SetIp(ip) \in Seq(Nat)
         /\ Append(Advanced, 0) \in Seq(Nat)
<1>1. frames \in Seq(Nat) /\ frames # <<>>
  BY DEF TypeOK, Fetchable
<1>2. Last(frames) \in Nat /\ Front(frames) \in Seq(Nat)
  BY <1>1, EndsOfSeq
<1>3. \A ip \in Nat : SetIp(ip) \in Seq(Nat)
  BY <1>1 DEF SetIp
<1>4. Advanced \in Seq(Nat)
  BY <1>2, <1>3 DEF Advanced
<1> QED
  BY <1>2, <1>3, <1>4

-----------------------------------------------------------------------------
(* The registry.                                                           *)

SameLinks(r, s) ==
  /\ DOMAIN r = DOMAIN s
  /\ \A t \in DOMAIN s : r[t].parent = s[t].parent /\ r[t].children = s[t].children
SameTree(r, s) == SameLinks(r, s) /\ \A t \in DOMAIN s : r[t].status = s[t].status

\* Saving a task changes nothing but what is saved.
LEMMA Saving ==
  ASSUME NEW reg, IsRegistry(reg), NEW t \in TaskId, NEW stk \in Seq(Values),
         NEW frs \in Seq(Nat), NEW hdl \in SUBSET Nat
  PROVE  /\ IsRegistry(SavedAs(reg, t, stk, frs, hdl))
         /\ SameTree(SavedAs(reg, t, stk, frs, hdl), reg)
<1> DEFINE r == SavedAs(reg, t, stk, frs, hdl)
           entry == [reg[t] EXCEPT !.stack = stk, !.frames = frs, !.handles = hdl]
<1>1. CASE t \notin DOMAIN reg
  BY <1>1 DEF SavedAs, SameTree, SameLinks
<1>2. CASE t \in DOMAIN reg
  <2>1. reg[t] \in Task
    BY <1>2 DEF IsRegistry
  <2>2. entry \in Task /\ entry.parent = reg[t].parent
        /\ entry.children = reg[t].children /\ entry.status = reg[t].status
    BY <2>1 DEF Task
  <2>3. r = [reg EXCEPT ![t] = entry]
    BY <1>2, <2>1 DEF SavedAs, Task, IsRegistry
  <2> HIDE DEF entry, r
  <2> QED
    BY <2>1, <2>2, <2>3, <1>2 DEF IsRegistry, SameTree, SameLinks, r
<1> QED
  BY <1>1, <1>2

\* What restore_task sets.
LEMMA Restoring ==
  ASSUME TypeOK, NEW t \in DOMAIN registry, Restore(registry, t)
  PROVE  /\ current' = t
         /\ stack' \in Seq(Values) /\ frames' \in Seq(Nat) /\ handles' \subseteq Nat
         /\ registry' = SavedAs(registry, t, <<>>, <<>>, {})
         /\ IsRegistry(registry') /\ SameTree(registry', registry)
<1>1. IsRegistry(registry) /\ t \in TaskId
  BY DEF TypeOK, IsRegistry
<1>2. registry[t] \in Task
  BY <1>1 DEF IsRegistry
<1>3. registry' = SavedAs(registry, t, <<>>, <<>>, {})
  BY DEF Restore
<1>4. <<>> \in Seq(Values) /\ <<>> \in Seq(Nat) /\ {} \in SUBSET Nat
  OBVIOUS
<1>5. IsRegistry(registry') /\ SameTree(registry', registry)
  BY <1>1, <1>3, <1>4, Saving
<1> QED
  BY <1>2, <1>3, <1>5 DEF Restore, Task

-----------------------------------------------------------------------------
(* Types.                                                                  *)

\* What TypeOK says of the fields alone, whichever task is in control.
VmTypes ==
  /\ IsRegistry(registry) /\ current \in TaskId
  /\ frames \in Seq(Nat) /\ stack \in Seq(Values) /\ handles \subseteq Nat
  /\ snapshot = NoTask \/ IsSnapshot(snapshot)
  /\ nextTask \in TaskId /\ nextHandle \in Nat
  /\ waits \in Seq(Activation)
  /\ running \in BOOLEAN /\ inRun \in BOOLEAN /\ failing \in BOOLEAN

LEMMA FieldTypes == TypeOK <=> VmTypes /\ current \in DOMAIN registry
BY DEF TypeOK, VmTypes, IsRegistry

\* The activation WaitChildren is in, and what SetWait replaces it by.
LEMMA TopActivation ==
  ASSUME VmTypes, waits # <<>>
  PROVE  /\ Wait \in Activation /\ Front(waits) \in Seq(Activation)
         /\ \A w \in Activation : SetWait(w) \in Seq(Activation)
         /\ Wait.todo # <<>> => Child \in TaskId /\ Tail(Wait.todo) \in Seq(TaskId)
<1>1. waits \in Seq(Activation)
  BY DEF VmTypes
<1>2. Wait \in Activation /\ Front(waits) \in Seq(Activation)
  <2>1. Last(waits) \in Activation /\ Front(waits) \in Seq(Activation)
    BY <1>1, EndsOfSeq
  <2> QED
    BY <2>1 DEF Wait
<1>3. \A w \in Activation : SetWait(w) \in Seq(Activation)
  BY <1>1 DEF SetWait
<1>4. Wait.todo \in Seq(TaskId)
  BY <1>2 DEF Activation
<1> QED
  BY <1>2, <1>3, <1>4 DEF Child

LEMMA Activations ==
  ASSUME TypeOK, waits # <<>>
  PROVE  /\ Wait \in Activation /\ Front(waits) \in Seq(Activation)
         /\ \A w \in Activation : SetWait(w) \in Seq(Activation)
         /\ Wait.todo # <<>> => Child \in TaskId /\ Tail(Wait.todo) \in Seq(TaskId)
BY FieldTypes, TopActivation

LEMMA InitTypes == ASSUME Init PROVE TypeOK
<1>1. NewTask(NoTask) \in Task
  BY DEF NewTask, Task, Status, Values
<1>2. IsRegistry(registry) /\ current \in DOMAIN registry
  BY <1>1 DEF Init, IsRegistry, Root, TaskId
<1>3. <<0>> \in Seq(Nat) /\ <<>> \in Seq(Values) /\ <<>> \in Seq(Activation)
  OBVIOUS
<1> QED
  BY <1>2, <1>3 DEF Init, TypeOK, TaskId

\* What is left of the stack under the operands an opcode popped.
LEMMA Prefixes ==
  ASSUME NEW s \in Seq(Values), NEW n \in 0..Len(s)
  PROVE  SubSeq(s, 1, Len(s) - n) \in Seq(Values)
OBVIOUS

\* What an opcode pushes on it: nothing, or one value.
LEMMA Pushes ==
  ASSUME NEW s \in Seq(Values), NEW v \in Values
  PROVE  s \o <<>> \in Seq(Values) /\ s \o <<v>> \in Seq(Values)
<1>1. <<>> \in Seq(Values) /\ <<v>> \in Seq(Values)
  OBVIOUS
<1> QED
  BY <1>1

\* The opcodes and host calls that stay within one task.
LEMMA PlainTypes ==
  ASSUME TypeOK,
         \/ FetchFails \/ OpFails \/ OpData \/ OpCall \/ OpReturn \/ OpHalt \/ OpOpen
         \/ \E ip \in Targets : OpJump(ip)
         \/ \E h \in handles : OpClose(h)
         \/ HostPrepare \/ HostRun \/ RunReturns
  PROVE  TypeOK'
<1> USE DEF TypeOK, machine, counters, control
<1>1. stack \in Seq(Values) /\ current \in Values /\ frames \in Seq(Nat)
  BY DEF IsRegistry, TaskId, Values
<1>2. /\ Rest(stack) \in Seq(Values) /\ Append(stack, current) \in Seq(Values)
      /\ stack # <<>> => Front(stack) \in Seq(Values)
  BY <1>1, Stacks
<1>3. CASE FetchFails
  BY <1>3 DEF FetchFails
<1>4. CASE OpFails
  <2>1. stack' \in Seq(Values) /\ failing' = TRUE
    BY <1>1, <1>4, Prefixes DEF OpFails, Popped
  <2> QED
    BY <2>1, <1>4, Frames DEF OpFails, Fetch
<1>5. CASE OpData
  <2>1. PICK n \in 0..2, out \in {<<>>, <<current>>} :
          n <= Len(stack) /\ stack' = Popped(n) \o out
    BY <1>5 DEF OpData
  <2>2. Popped(n) \in Seq(Values)
    BY <2>1, <1>1, Prefixes DEF Popped
  <2>3. stack' \in Seq(Values)
    <3> DEFINE left == Popped(n)
    <3> HIDE DEF TypeOK, left
    <3>1. left \o <<>> \in Seq(Values) /\ left \o <<current>> \in Seq(Values)
      BY <2>2, <1>1, Pushes DEF left
    <3>2. stack' = left \o <<>> \/ stack' = left \o <<current>>
      BY <2>1 DEF left
    <3> QED
      BY <3>1, <3>2
  <2> QED
    BY <2>3, <1>5, Frames DEF OpData, Fetch
<1>7. CASE OpCall
  <2>1. stack' \in Seq(Values)
    BY <1>1, <1>7, Prefixes DEF OpCall, Popped
  <2> QED
    BY <2>1, <1>7, Frames DEF OpCall, Fetch
<1>8. CASE OpReturn
  <2>1. frames' = Front(frames) /\ running' \in BOOLEAN
    BY <1>8 DEF OpReturn
  <2> QED
    BY <2>1, <1>8, Frames DEF OpReturn, Fetch
<1>9. CASE OpHalt
  BY <1>9, Frames DEF OpHalt, Fetch
<1>10. CASE OpOpen
  <2>1. nextHandle' \in Nat /\ handles' \subseteq Nat /\ stack' \in Seq(Values)
    BY <1>2, <1>10 DEF OpOpen
  <2> QED
    BY <2>1, <1>10, Frames DEF OpOpen, Fetch
<1>11. CASE \E ip \in Targets : OpJump(ip)
  BY <1>2, <1>11, Frames, TaskConstants DEF OpJump, Fetch
<1>12. CASE \E h \in handles : OpClose(h)
  BY <1>2, <1>12, Frames DEF OpClose, Fetch
<1>13. CASE HostPrepare
  BY <1>1, <1>13 DEF HostPrepare
<1>14. CASE HostRun
  BY <1>14 DEF HostRun
<1>15. CASE RunReturns
  BY <1>15 DEF RunReturns
<1> QED
  BY <1>3, <1>4, <1>5, <1>7, <1>8, <1>9, <1>10, <1>11, <1>12, <1>13, <1>14, <1>15

-----------------------------------------------------------------------------
(* The inductive invariant.                                                *)

\* The children an activation has still to run are children of its parent.
TodoKnown ==
  \A k \in DOMAIN waits : \A c \in Elems(waits[k].todo) :
    c \in DOMAIN registry /\ registry[c].parent = waits[k].parent

\* Waiting parents get younger down the Rust stack.
Ordered ==
  \A j, k \in DOMAIN waits : j < k => waits[j].parent < waits[k].parent

\* No task on the Rust stack has completed, nor has the one in control.
NotDone ==
  /\ \A k \in DOMAIN waits : ~Completed(waits[k].parent)
  /\ ~BetweenChildren => ~Completed(current)

IInv == TypeOK /\ TreeConsistent /\ WaitChain /\ TodoKnown /\ Ordered /\ NotDone

\* What it says of the activation on top.
LEMMA TopWait ==
  ASSUME IInv, waits # <<>>
  PROVE  /\ Len(waits) \in DOMAIN waits /\ Wait = waits[Len(waits)]
         /\ Wait.parent \in DOMAIN registry /\ registry[Wait.parent] \in Task
         /\ Wait.child # NoTask =>
              /\ current = Wait.child /\ Wait.child \in DOMAIN registry
              /\ registry[Wait.child].parent = Wait.parent
         /\ Wait.todo # <<>> =>
              /\ Child \in DOMAIN registry /\ registry[Child] \in Task
              /\ registry[Child].parent = Wait.parent
              /\ \A c \in Elems(Tail(Wait.todo)) : c \in Elems(Wait.todo)
<1>1. Len(waits) \in DOMAIN waits /\ Wait = waits[Len(waits)]
  BY DEF IInv, TypeOK, Wait, Last
<1>2. Wait \in Activation
  BY Activations DEF IInv
<1>3. Wait.todo \in Seq(TaskId)
  BY <1>2 DEF Activation
<1>4. ASSUME Wait.todo # <<>>
      PROVE  Child \in Elems(Wait.todo) /\ \A c \in Elems(Tail(Wait.todo)) : c \in Elems(Wait.todo)
  BY <1>3, <1>4 DEF Child, Elems
<1>5. \A t \in DOMAIN registry : registry[t] \in Task
  BY DEF IInv, TypeOK, IsRegistry
<1>6. Wait.parent \in DOMAIN registry
  BY <1>1 DEF IInv, WaitChain
<1>7. Wait.child # NoTask =>
        /\ current = Wait.child /\ Wait.child \in DOMAIN registry
        /\ registry[Wait.child].parent = Wait.parent
  BY <1>1 DEF IInv, WaitChain
<1>8. \A c \in Elems(Wait.todo) : c \in DOMAIN registry /\ registry[c].parent = Wait.parent
  BY <1>1 DEF IInv, TodoKnown
<1> QED
  BY <1>1, <1>4, <1>5, <1>6, <1>7, <1>8

\* Types, for the opcodes of tasks.
LEMMA TreeTypes ==
  ASSUME TypeOK, OpSpawn \/ OpYield \/ OpWait
  PROVE  TypeOK'
<1> USE DEF machine, counters, control
<1>1. /\ TypeOK /\ IsRegistry(registry) /\ current \in DOMAIN registry /\ current \in TaskId
      /\ registry[current] \in Task /\ stack \in Seq(Values) /\ handles \in SUBSET Nat
      /\ frames \in Seq(Nat)
  BY DEF TypeOK, IsRegistry
<1>2. <<>> \in Seq(Values) /\ <<>> \in Seq(Nat) /\ {} \in SUBSET Nat /\ NoTask \notin TaskId
  BY TaskConstants DEF TaskId
<1>3. CASE OpSpawn
  <2>1. frames' \in Seq(Nat)
    BY <1>1, <1>3, Frames DEF OpSpawn, Fetch
  <2>2. CASE TooDeep
    BY <1>1, <1>3, <2>1, <2>2 DEF OpSpawn, TypeOK
  <2>3. CASE ~(TooDeep)
    <3> DEFINE child == NewChild
               reg == [t \in DOMAIN registry \cup {nextTask} |->
                         IF t = nextTask THEN child ELSE registry[t]]
    <3>1. child \in Task
      <4>1. <<0>> \in Seq(Nat) /\ <<>> \in Seq(TaskId)
        OBVIOUS
      <4> QED
        BY <1>1, <1>2, <4>1 DEF NewChild, NewTask, Task, Status
    <3>2. registry' = [reg EXCEPT ![current].children = Append(@, nextTask)]
          /\ nextTask' = nextTask + 1 /\ nextTask \in TaskId
      BY <1>1, <1>3, <2>3 DEF OpSpawn, TypeOK, Linked, Registered
    <3>3. IsRegistry(reg) /\ current \in DOMAIN reg
      BY <1>1, <3>1, <3>2 DEF IsRegistry
    <3>4. reg[current].children \in Seq(TaskId)
      BY <3>3 DEF IsRegistry, Task
    <3> HIDE DEF reg, child
    <3>5. [reg[current] EXCEPT !.children = Append(@, nextTask)] \in Task
      <4>1. Append(reg[current].children, nextTask) \in Seq(TaskId)
        BY <3>2, <3>4
      <4> QED
        BY <3>3, <4>1 DEF IsRegistry, Task
    <3>6. IsRegistry(registry') /\ current \in DOMAIN registry'
      BY <3>2, <3>3, <3>5 DEF IsRegistry
    <3> QED
      BY <1>1, <1>3, <2>1, <2>3, <3>2, <3>6 DEF OpSpawn, TypeOK, TaskId
  <2> QED
    BY <2>2, <2>3
<1>4. CASE OpYield
  <2>1. frames' \in Seq(Nat)
    BY <1>1, <1>4, Frames DEF OpYield, Fetch
  <2>2. CASE Uncompleted # {}
    BY <1>1, <1>4, <2>1, <2>2 DEF OpYield, TypeOK
  <2>3. CASE Uncompleted = {}
    <3>1. registry' = [registry EXCEPT ![current].status = "Yielded", ![current].handles = handles]
      BY <1>4, <2>3 DEF OpYield
    <3>2. [registry[current] EXCEPT !.status = "Yielded", !.handles = handles] \in Task
      BY <1>1 DEF Task, Status
    <3>3. IsRegistry(registry') /\ DOMAIN registry' = DOMAIN registry
      BY <1>1, <3>1, <3>2 DEF IsRegistry
    <3>4. snapshot' = Captured(registry')
      BY <1>4, <2>3 DEF OpYield
    <3>5. IsSnapshot(snapshot')
      BY <1>1, <2>1, <3>3, <3>4 DEF Captured, IsSnapshot, IsRegistry
    <3> QED
      BY <1>1, <1>4, <2>1, <2>3, <3>3, <3>5 DEF OpYield, TypeOK
  <2> QED
    BY <2>2, <2>3
<1>5. CASE OpWait
  <2>1. Advanced \in Seq(Nat) /\ registry' = SavedAs(registry, current, stack, Advanced, handles)
    BY <1>1, <1>5, Frames DEF OpWait, Fetch
  <2>2. IsRegistry(registry') /\ SameTree(registry', registry)
    BY <1>1, <2>1, Saving
  <2>3. [parent |-> current, todo |-> registry[current].children, child |-> NoTask, rets |-> <<>>]
          \in Activation
    BY <1>1, <1>2 DEF Activation, Task
  <2> QED
    BY <1>1, <1>2, <1>5, <2>2, <2>3 DEF OpWait, TypeOK, SameTree, SameLinks
<1> QED
  BY <1>3, <1>4, <1>5

\* Types, for the loop of WaitChildren.  A child that the registry does not have (a
\* resume can leave such a link) changes no entry and no field but current.
LEMMA Restored ==
  ASSUME VmTypes, NEW t \in TaskId, Restore(registry, t)
  PROVE  /\ current' = t
         /\ stack' \in Seq(Values) /\ frames' \in Seq(Nat) /\ handles' \subseteq Nat
         /\ IsRegistry(registry') /\ SameTree(registry', registry)
<1>1. IsRegistry(registry)
  BY DEF VmTypes
<1>2. <<>> \in Seq(Values) /\ <<>> \in Seq(Nat) /\ {} \in SUBSET Nat
  OBVIOUS
<1>3. CASE t \in DOMAIN registry
  <2>1. registry[t] \in Task
    BY <1>1, <1>3 DEF IsRegistry
  <2>2. registry' = SavedAs(registry, t, <<>>, <<>>, {})
    BY <1>3 DEF Restore
  <2>3. IsRegistry(registry') /\ SameTree(registry', registry)
    BY <1>1, <1>2, <2>2, Saving
  <2> QED
    BY <1>3, <2>1, <2>3 DEF Restore, Task
<1>4. CASE t \notin DOMAIN registry
  BY <1>1, <1>4 DEF Restore, VmTypes, SameTree, SameLinks
<1> QED
  BY <1>3, <1>4

LEMMA LoopTypes ==
  ASSUME VmTypes, WaitLoop, waits # <<>> => Wait.parent \in DOMAIN registry
  PROVE  VmTypes' /\ DOMAIN registry' = DOMAIN registry
<1> USE DEF machine, counters, control
<1>1. /\ VmTypes /\ IsRegistry(registry) /\ current \in TaskId
      /\ stack \in Seq(Values) /\ handles \in SUBSET Nat /\ frames \in Seq(Nat)
  BY DEF VmTypes
<1>2. <<>> \in Seq(Values) /\ <<>> \in Seq(Nat) /\ {} \in SUBSET Nat /\ NoTask \notin TaskId
  BY TaskConstants DEF TaskId
<1>3. waits # <<>> => Wait.parent \in DOMAIN registry /\ registry[Wait.parent] \in Task
  BY <1>1 DEF IsRegistry
<1>4. CASE WaitSkip
  <2>1. waits # <<>> /\ Wait.todo # <<>>
    BY <1>4 DEF WaitSkip, AtChild, BetweenChildren
  <2>2. Wait \in Activation /\ Child \in TaskId /\ Tail(Wait.todo) \in Seq(TaskId)
        /\ \A w \in Activation : SetWait(w) \in Seq(Activation)
    BY <1>1, <2>1, TopActivation
  <2>3. Child \in DOMAIN registry /\ registry[Child] \in Task
    BY <1>1, <1>4 DEF WaitSkip, Completed, IsRegistry
  <2>4. registry[Child].stack \in Seq(Values)
    BY <2>3 DEF Task
  <2>5. Rest(registry[Child].stack) \in Seq(Values) /\ Top(registry[Child].stack) \in Values
    BY <2>4, Stacks
  <2>6. [registry[Child] EXCEPT !.stack = Rest(@)] \in Task
    BY <2>3, <2>5 DEF Task
  <2>7. IsRegistry(registry') /\ DOMAIN registry' = DOMAIN registry
    BY <1>1, <1>4, <2>3, <2>6 DEF WaitSkip, IsRegistry
  <2>8. Collected([Wait EXCEPT !.todo = Tail(@)], Top(registry[Child].stack)) \in Activation
    <3>1. Append(Wait.rets, Top(registry[Child].stack)) \in Seq(Values)
      BY <2>2, <2>5 DEF Activation
    <3> QED
      BY <2>2, <3>1 DEF Activation, Collected
  <2>9. waits' \in Seq(Activation)
    BY <1>4, <2>2, <2>8 DEF WaitSkip
  <2> QED
    BY <1>1, <1>4, <2>7, <2>9 DEF WaitSkip, VmTypes
<1>5. CASE WaitEnter
  <2>1. waits # <<>> /\ Wait.todo # <<>>
    BY <1>5 DEF WaitEnter, AtChild, BetweenChildren
  <2>2. Wait \in Activation /\ Child \in TaskId /\ Tail(Wait.todo) \in Seq(TaskId)
        /\ \A w \in Activation : SetWait(w) \in Seq(Activation)
    BY <1>1, <2>1, TopActivation
  <2>4. [Wait EXCEPT !.todo = Tail(@), !.child = Child] \in Activation
    BY <2>2 DEF Activation
  <2>5. waits' \in Seq(Activation)
    BY <1>5, <2>2, <2>4 DEF WaitEnter
  <2>6. Restore(registry, Child)
    BY <1>5 DEF WaitEnter
  <2> QED
    BY <1>1, <1>5, <2>2, <2>5, <2>6, Restored DEF WaitEnter, VmTypes, SameTree, SameLinks
<1>6. CASE WaitLeave
  <2>1. waits # <<>> /\ Wait.child # NoTask
    BY <1>6 DEF WaitLeave, ChildRunning
  <2>2. Wait \in Activation /\ \A w \in Activation : SetWait(w) \in Seq(Activation)
    BY <1>1, <2>1, TopActivation
  <2>4. Rest(stack) \in Seq(Values) /\ Top(stack) \in Values
    BY <1>1, Stacks
  <2> DEFINE done == IF Wait.child \in DOMAIN registry
                     THEN [registry EXCEPT ![Wait.child].status = "Completed"] ELSE registry
  <2>5. IsRegistry(done) /\ DOMAIN done = DOMAIN registry
    <3>1. CASE Wait.child \in DOMAIN registry
      <4>1. [registry[Wait.child] EXCEPT !.status = "Completed"] \in Task
        BY <1>1, <3>1 DEF IsRegistry, Task, Status
      <4> QED
        BY <1>1, <3>1, <4>1 DEF IsRegistry
    <3> QED
      BY <1>1, <3>1
  <2>6. registry' = SavedAs(done, current, Rest(stack), frames, handles)
    BY <1>6 DEF WaitLeave
  <2> HIDE DEF done
  <2>7. IsRegistry(registry') /\ DOMAIN registry' = DOMAIN registry
    BY <1>1, <2>4, <2>5, <2>6, Saving DEF SameTree, SameLinks
  <2>8. Collected([Wait EXCEPT !.child = NoTask], Top(stack)) \in Activation
    <3>1. Append(Wait.rets, Top(stack)) \in Seq(Values)
      BY <2>2, <2>4 DEF Activation
    <3> QED
      BY <2>2, <3>1 DEF Activation, Collected
  <2>9. waits' \in Seq(Activation)
    BY <1>6, <2>2, <2>8 DEF WaitLeave
  <2> QED
    BY <1>1, <1>2, <1>6, <2>7, <2>9 DEF WaitLeave, VmTypes
<1>7. CASE WaitFails
  <2>1. waits # <<>>
    BY <1>7 DEF WaitFails, ChildRunning
  <2>2. Front(waits) \in Seq(Activation)
    BY <1>1, <2>1, TopActivation
  <2>3. Wait.parent \in TaskId /\ Restore(registry, Wait.parent)
    BY <1>1, <1>3, <1>7, <2>1 DEF WaitFails, IsRegistry
  <2> QED
    BY <1>1, <1>7, <2>2, <2>3, Restored DEF WaitFails, VmTypes, SameTree, SameLinks
<1>8. CASE WaitDone
  <2>1. waits # <<>>
    BY <1>8 DEF WaitDone, BetweenChildren
  <2>2. Wait \in Activation /\ Front(waits) \in Seq(Activation)
    BY <1>1, <2>1, TopActivation
  <2>3. Wait.parent \in DOMAIN registry /\ registry[Wait.parent] \in Task
    BY <1>3, <2>1
  <2>4. stack' \in Seq(Values) /\ frames' \in Seq(Nat) /\ handles' \subseteq Nat
    BY <1>8, <2>2, <2>3 DEF WaitDone, Task, Activation
  <2>5. IsRegistry(registry') /\ SameTree(registry', registry)
    BY <1>1, <1>2, <1>8, <2>3, Saving DEF WaitDone, IsRegistry
  <2> QED
    <3>1. current' \in TaskId
      BY <1>8, <2>2 DEF WaitDone, Activation
    <3> QED
      BY <1>1, <1>8, <2>2, <2>4, <2>5, <3>1 DEF WaitDone, VmTypes, SameTree, SameLinks
<1> QED
  BY <1>4, <1>5, <1>6, <1>7, <1>8 DEF WaitLoop

\* Types, for the actions that switch tasks or change the tree.
LEMMA SwitchTypes ==
  ASSUME IInv, OpSpawn \/ OpYield \/ OpWait \/ WaitLoop
  PROVE  TypeOK'
<1>1. TypeOK
  BY DEF IInv
<1>2. CASE OpSpawn \/ OpYield \/ OpWait
  BY <1>1, <1>2, TreeTypes
<1>3. CASE WaitLoop
  <2>1. VmTypes' /\ DOMAIN registry' = DOMAIN registry
    BY <1>1, <1>3, TopWait, FieldTypes, LoopTypes
  <2>2. current' \in DOMAIN registry
    <3>1. current' = current \/ current' = Child \/ current' = Wait.parent
      BY <1>3 DEF WaitLoop, WaitSkip, WaitEnter, WaitLeave, WaitFails, WaitDone, Restore
    <3> QED
      BY <1>1, <1>3, TopWait DEF WaitLoop, WaitSkip, WaitEnter, WaitLeave, WaitFails, WaitDone,
         AtChild, BetweenChildren, ChildRunning, Restore, TypeOK
  <2> QED
    BY <2>1, <2>2 DEF VmTypes, TypeOK
<1> QED
  BY <1>2, <1>3
-----------------------------------------------------------------------------
(* The tree and the chain of waiting parents.                              *)

\* What replacing or removing the activation on top leaves of the others.
LEMMA WaitUpdates ==
  ASSUME TypeOK, waits # <<>>
  PROVE  /\ \A w : /\ DOMAIN SetWait(w) = DOMAIN waits /\ Len(SetWait(w)) = Len(waits)
                   /\ SetWait(w) # <<>>
                   /\ SetWait(w)[Len(waits)] = w
                   /\ \A k \in DOMAIN waits \ {Len(waits)} : SetWait(w)[k] = waits[k]
         /\ Len(Front(waits)) = Len(waits) - 1
         /\ DOMAIN Front(waits) = DOMAIN waits \ {Len(waits)}
         /\ \A k \in DOMAIN Front(waits) : Front(waits)[k] = waits[k]
         /\ \A k \in DOMAIN waits : k <= Len(waits) /\ k \in Nat /\ k >= 1
<1>1. waits \in Seq(Activation) /\ Len(waits) \in DOMAIN waits
  BY DEF TypeOK
<1>2. \A w : /\ DOMAIN SetWait(w) = DOMAIN waits /\ Len(SetWait(w)) = Len(waits)
             /\ SetWait(w) # <<>>
             /\ SetWait(w)[Len(waits)] = w
             /\ \A k \in DOMAIN waits \ {Len(waits)} : SetWait(w)[k] = waits[k]
  BY <1>1 DEF SetWait
<1>3. /\ Len(Front(waits)) = Len(waits) - 1
      /\ DOMAIN Front(waits) = DOMAIN waits \ {Len(waits)}
      /\ \A k \in DOMAIN Front(waits) : Front(waits)[k] = waits[k]
  <2>1. Front(waits) = [k \in 1..Len(waits) - 1 |-> waits[k]]
    BY <1>1 DEF Front
  <2>2. Len(waits) \in Nat /\ Len(waits) >= 1 /\ DOMAIN waits = 1..Len(waits)
    BY <1>1
  <2> QED
    BY <2>1, <2>2
<1> QED
  BY <1>1, <1>2, <1>3

\* The tree does not depend on stacks, frames, handles or statuses.
LEMMA LinksKeepTree ==
  ASSUME TreeConsistent, SameLinks(registry', registry), nextTask' = nextTask,
         \A t \in DOMAIN registry \ {Root} : registry[t].parent \in DOMAIN registry,
         Root \in DOMAIN registry
  PROVE  TreeConsistent'
  BY DEF TreeConsistent, SameLinks, Root

\* Parents exist.
LEMMA ParentsExist ==
  ASSUME TypeOK, TreeConsistent
  PROVE  /\ Root \in DOMAIN registry
         /\ \A t \in DOMAIN registry \ {Root} :
              /\ registry[t].parent \in DOMAIN registry
              /\ registry[t].parent \in Nat /\ t \in Nat /\ registry[t].parent < t
<1>1. DOMAIN registry = 0..nextTask - 1 /\ nextTask \in Nat /\ current \in DOMAIN registry
  BY DEF TypeOK, TreeConsistent, TaskId
<1>2. \A t \in DOMAIN registry \ {Root} : registry[t].parent \in 0..t - 1
  BY DEF TreeConsistent
<1> QED
  BY <1>1, <1>2 DEF Root

\* What the Rust stack says is kept while no activation changes, no task changes
\* parent and none of them completes.
LEMMA ChainKept ==
  ASSUME WaitChain, TodoKnown, Ordered, NotDone, current \in DOMAIN registry,
         waits' = waits, current' = current,
         \A t \in DOMAIN registry : /\ t \in DOMAIN registry'
                                    /\ registry'[t].parent = registry[t].parent
                                    /\ ~Completed(t) => ~Completed(t)'
  PROVE  WaitChain' /\ TodoKnown' /\ Ordered' /\ NotDone'
<1>1. WaitChain'
  BY DEF WaitChain, Wait, Last
<1>2. TodoKnown'
  BY DEF TodoKnown, Elems
<1>3. Ordered'
  BY DEF Ordered
<1>4. NotDone'
  BY DEF NotDone, WaitChain, BetweenChildren, Last
<1> QED
  BY <1>1, <1>2, <1>3, <1>4

LEMMA InitInv == ASSUME Init PROVE IInv
<1>1. TypeOK
  BY InitTypes
<1>2. TreeConsistent
  BY DEF Init, TreeConsistent, NewTask, Root
<1>3. WaitChain /\ TodoKnown /\ Ordered /\ NotDone
  BY DEF Init, WaitChain, TodoKnown, Ordered, NotDone, Completed, NewTask, BetweenChildren, Root
<1> QED
  BY <1>1, <1>2, <1>3 DEF IInv

\* The opcodes and host calls that stay within one task, and stuttering.
LEMMA PlainStep ==
  ASSUME IInv, TypeOK', UNCHANGED <<registry, current, waits, nextTask>>
  PROVE  IInv'
<1>1. TreeConsistent'
  BY DEF IInv, TreeConsistent
<1>2. WaitChain' /\ TodoKnown' /\ Ordered' /\ NotDone'
  BY ChainKept DEF IInv, TypeOK, Completed
<1> QED
  BY <1>1, <1>2 DEF IInv

LEMMA SpawnStep ==
  ASSUME IInv, TypeOK', OpSpawn
  PROVE  IInv'
<1>1. /\ TypeOK /\ TreeConsistent /\ current \in DOMAIN registry /\ current \in Nat
      /\ nextTask \in Nat /\ IsRegistry(registry) /\ DOMAIN registry = 0..nextTask - 1
  BY DEF IInv, TypeOK, IsRegistry, TaskId, TreeConsistent
<1>2. CASE TooDeep
  BY <1>2, PlainStep DEF OpSpawn
<1>3. CASE ~(TooDeep)
  <2> DEFINE child == NewChild
             reg == [t \in DOMAIN registry \cup {nextTask} |->
                       IF t = nextTask THEN child ELSE registry[t]]
             cs == registry[current].children
  <2>1. /\ registry' = [reg EXCEPT ![current].children = Append(@, nextTask)]
        /\ nextTask' = nextTask + 1 /\ UNCHANGED <<current, waits>>
    BY <1>3 DEF OpSpawn, Linked, Registered
  <2>2. registry[current] \in Task /\ cs \in Seq(TaskId)
    BY <1>1 DEF IsRegistry, Task
  <2>3. /\ child.parent = current /\ child.children = <<>> /\ child.status = "Running"
        /\ nextTask \notin DOMAIN registry
    BY <1>1 DEF NewChild, NewTask
  <2>4. /\ DOMAIN registry' = DOMAIN registry \cup {nextTask}
        /\ registry'[nextTask].parent = current /\ registry'[nextTask].children = <<>>
        /\ registry'[nextTask].status = "Running"
        /\ registry'[current].children = Append(cs, nextTask)
        /\ \A t \in DOMAIN registry : /\ registry'[t].parent = registry[t].parent
                                      /\ registry'[t].status = registry[t].status
                                      /\ t # current => registry'[t].children = registry[t].children
    <3> HIDE DEF child
    <3>1. reg[current] = registry[current] /\ current # nextTask
          /\ DOMAIN reg = DOMAIN registry \cup {nextTask} /\ reg[nextTask] = child
          /\ \A t \in DOMAIN registry : reg[t] = registry[t]
      BY <1>1, <2>3
    <3>2. registry' = [reg EXCEPT ![current] = [reg[current] EXCEPT !.children = Append(cs, nextTask)]]
      BY <2>1, <3>1
    <3> HIDE DEF reg
    <3> QED
      BY <1>1, <2>2, <2>3, <3>1, <3>2 DEF Task
  <2> HIDE DEF child, reg
  <2>5. /\ DOMAIN Append(cs, nextTask) = 1..Len(cs) + 1 /\ DOMAIN cs = 1..Len(cs) /\ Len(cs) \in Nat
        /\ Append(cs, nextTask)[Len(cs) + 1] = nextTask
        /\ \A k \in DOMAIN cs : Append(cs, nextTask)[k] = cs[k]
    BY <1>1, <2>2 DEF TaskId
  <2>6. \A k \in DOMAIN cs : cs[k] \in DOMAIN registry /\ cs[k] # nextTask
    BY <1>1, <2>3 DEF TreeConsistent
  <2>7. TreeConsistent'
    <3>1. DOMAIN registry' = 0..nextTask' - 1 /\ registry'[Root].parent = NoTask
      BY <1>1, <2>1, <2>4, ParentsExist DEF TreeConsistent
    <3>2. ASSUME NEW t \in DOMAIN registry' \ {Root}
          PROVE  LET p == registry'[t].parent IN
                 p \in 0..t - 1 /\ \E k \in DOMAIN registry'[p].children : registry'[p].children[k] = t
      <4>1. CASE t = nextTask
        BY <1>1, <2>4, <2>5, <4>1
      <4>2. CASE t \in DOMAIN registry
        <5>1. PICK k \in DOMAIN registry[registry[t].parent].children :
                registry[registry[t].parent].children[k] = t
          BY <4>2 DEF TreeConsistent, IInv
        <5>2. registry[t].parent \in DOMAIN registry /\ registry[t].parent \in 0..t - 1
          BY <1>1, <4>2, ParentsExist DEF TreeConsistent
        <5>3. CASE registry[t].parent = current
          <6>1. registry'[current].children[k] = t /\ k \in DOMAIN registry'[current].children
            BY <2>4, <2>5, <5>1, <5>3
          <6>2. registry'[t].parent = current
            BY <2>4, <4>2, <5>3
          <6> QED
            BY <5>2, <5>3, <6>1, <6>2
        <5>4. CASE registry[t].parent # current
          <6>1. registry'[registry[t].parent].children = registry[registry[t].parent].children
            BY <2>4, <5>2, <5>4
          <6>2. registry'[t].parent = registry[t].parent
            BY <2>4, <4>2
          <6> QED
            BY <5>1, <5>2, <6>1, <6>2
        <5> QED
          BY <5>3, <5>4
      <4> QED
        BY <2>4, <4>1, <4>2
    <3>3. ASSUME NEW t \in DOMAIN registry'
          PROVE  LET ds == registry'[t].children IN
                 /\ \A k \in DOMAIN ds : ds[k] \in DOMAIN registry' /\ registry'[ds[k]].parent = t
                 /\ \A j, k \in DOMAIN ds : ds[j] = ds[k] => j = k
      <4>1. CASE t = nextTask
        BY <2>4, <4>1
      <4>2. CASE t = current
        <5>1. /\ \A k \in DOMAIN cs : registry[cs[k]].parent = current
              /\ \A j, k \in DOMAIN cs : cs[j] = cs[k] => j = k
          BY <1>1 DEF TreeConsistent
        <5>2. registry'[t].children = Append(cs, nextTask)
          BY <2>4, <4>2
        <5>3. \A k \in 1..Len(cs) + 1 : k \in DOMAIN cs \/ k = Len(cs) + 1
          BY <2>5
        <5> HIDE DEF cs
        <5>4. \A k \in DOMAIN cs : cs[k] \in DOMAIN registry' /\ registry'[cs[k]].parent = current
          BY <2>4, <2>6, <5>1
        <5>5. nextTask \in DOMAIN registry' /\ registry'[nextTask].parent = current
          BY <2>4
        <5>6. \A k \in 1..Len(cs) + 1 : /\ Append(cs, nextTask)[k] \in DOMAIN registry'
                                      /\ registry'[Append(cs, nextTask)[k]].parent = current
          BY <2>5, <5>3, <5>4, <5>5
        <5>7. \A j, k \in 1..Len(cs) + 1 :
                Append(cs, nextTask)[j] = Append(cs, nextTask)[k] => j = k
          BY <2>5, <2>6, <5>1, <5>3
        <5> QED
          BY <2>5, <4>2, <5>2, <5>6, <5>7
      <4>3. CASE t \in DOMAIN registry /\ t # current
        <5>1. /\ \A k \in DOMAIN registry[t].children :
                    /\ registry[t].children[k] \in DOMAIN registry
                    /\ registry[registry[t].children[k]].parent = t
              /\ \A j, k \in DOMAIN registry[t].children :
                    registry[t].children[j] = registry[t].children[k] => j = k
          BY <1>1, <4>3 DEF TreeConsistent
        <5> QED
          BY <2>4, <4>3, <5>1
      <4> QED
        BY <2>4, <4>1, <4>2, <4>3
    <3> QED
      BY <3>1, <3>2, <3>3 DEF TreeConsistent
  <2>8. WaitChain' /\ TodoKnown' /\ Ordered' /\ NotDone'
    BY <1>1, <2>1, <2>4, ChainKept DEF IInv, Completed
  <2> QED
    BY <2>7, <2>8 DEF IInv
<1> QED
  BY <1>2, <1>3

LEMMA YieldStep ==
  ASSUME IInv, TypeOK', OpYield
  PROVE  IInv'
<1>1. TypeOK /\ TreeConsistent /\ IsRegistry(registry) /\ current \in DOMAIN registry
  BY DEF IInv, TypeOK
<1>2. CASE Uncompleted # {}
  BY <1>2, PlainStep DEF OpYield, counters
<1>3. CASE Uncompleted = {}
  <2>1. /\ registry' = [registry EXCEPT ![current].status = "Yielded", ![current].handles = handles]
        /\ UNCHANGED <<current, waits, nextTask>>
    BY <1>3 DEF OpYield, counters
  <2>2. /\ SameLinks(registry', registry)
        /\ \A t \in DOMAIN registry : registry'[t].status \in {registry[t].status, "Yielded"}
    BY <1>1, <2>1 DEF SameLinks, IsRegistry, Task
  <2>3. TreeConsistent'
    BY <1>1, <2>1, <2>2, ParentsExist, LinksKeepTree
  <2>4. WaitChain' /\ TodoKnown' /\ Ordered' /\ NotDone'
    BY <1>1, <2>1, <2>2, ChainKept DEF IInv, Completed, SameLinks
  <2> QED
    BY <2>3, <2>4 DEF IInv
<1> QED
  BY <1>2, <1>3

\* The parent in control is younger than every parent that already waits.
LEMMA YoungestRuns ==
  ASSUME IInv, ~BetweenChildren
  PROVE  \A k \in DOMAIN waits : waits[k].parent < current
<1>1. ASSUME NEW k \in DOMAIN waits PROVE waits[k].parent < current
  <2>1. waits # <<>> /\ Wait.child # NoTask /\ TypeOK /\ TreeConsistent
    BY <1>1 DEF BetweenChildren, Wait, IInv
  <2>2. /\ current \in DOMAIN registry /\ registry[current].parent = Wait.parent
        /\ Wait = waits[Len(waits)] /\ Len(waits) \in DOMAIN waits /\ Wait.parent \in DOMAIN registry
    BY <2>1, TopWait
  <2>3. current # Root
    BY <2>1, <2>2, TaskConstants DEF TreeConsistent, TypeOK, IsRegistry, TaskId
  <2>4. Wait.parent < current /\ current \in Nat /\ Wait.parent \in Nat
    BY <2>1, <2>2, <2>3, ParentsExist
  <2>5. k <= Len(waits) /\ k \in Nat /\ waits[k].parent \in Nat
    BY <1>1, <2>1, WaitUpdates DEF WaitChain, IInv, TypeOK, IsRegistry, TaskId
  <2>6. CASE k = Len(waits)
    BY <2>2, <2>4, <2>6
  <2>7. CASE k < Len(waits)
    BY <1>1, <2>2, <2>4, <2>5, <2>7 DEF IInv, Ordered
  <2> QED
    BY <2>2, <2>5, <2>6, <2>7
<1> QED
  BY <1>1

LEMMA OpWaitStep ==
  ASSUME IInv, TypeOK', OpWait
  PROVE  IInv'
<1> DEFINE w == [parent |-> current, todo |-> registry[current].children,
                 child |-> NoTask, rets |-> <<>>]
           n == Len(waits)
<1>1. /\ TypeOK /\ TreeConsistent /\ IsRegistry(registry) /\ current \in DOMAIN registry
      /\ current \in TaskId /\ ~BetweenChildren /\ waits \in Seq(Activation)
      /\ stack \in Seq(Values) /\ handles \in SUBSET Nat /\ Fetchable
  BY DEF IInv, TypeOK, IsRegistry, OpWait, Fetch, Executing
<1>2. Advanced \in Seq(Nat)
  BY <1>1, Frames
<1>3. /\ registry' = SavedAs(registry, current, stack, Advanced, handles)
      /\ waits' = Append(waits, w) /\ UNCHANGED <<current, nextTask>>
  BY DEF OpWait, counters
<1>4. SameTree(registry', registry)
  BY <1>1, <1>2, <1>3, Saving
<1>5. TreeConsistent'
  BY <1>1, <1>3, <1>4, ParentsExist, LinksKeepTree DEF SameTree
<1>6. /\ n \in Nat /\ DOMAIN waits = 1..n /\ DOMAIN waits' = 1..n + 1 /\ Len(waits') = n + 1
      /\ waits' # <<>> /\ waits'[n + 1] = w /\ \A k \in 1..n : waits'[k] = waits[k]
  BY <1>1, <1>3
<1>7. w.parent = current /\ w.child = NoTask /\ w.todo = registry[current].children
  OBVIOUS
<1> HIDE DEF w, n
<1>8. Wait' = w
  BY <1>6 DEF Wait, Last
<1>9. n > 0 => waits[n].child = current /\ waits[1].parent = Root
  BY <1>1, <1>6 DEF IInv, WaitChain, BetweenChildren, Wait, Last, n
<1>10. n = 0 => current = Root
  BY <1>1, <1>6 DEF IInv, WaitChain, n
<1>11. WaitChain'
  <2>1. waits'[1].parent = Root
    BY <1>6, <1>7, <1>9, <1>10
  <2>2. ASSUME NEW k \in DOMAIN waits'
        PROVE  /\ waits'[k].parent \in DOMAIN registry'
               /\ waits'[k].child # NoTask =>
                    waits'[k].child \in DOMAIN registry'
                    /\ registry'[waits'[k].child].parent = waits'[k].parent
               /\ k < Len(waits') => waits'[k].child = waits'[k + 1].parent
    <3>1. CASE k = n + 1
      BY <1>1, <1>4, <1>6, <1>7, <3>1 DEF SameTree, SameLinks
    <3>2. CASE k \in 1..n
      <4>1. /\ waits[k].parent \in DOMAIN registry
            /\ waits[k].child # NoTask =>
                 waits[k].child \in DOMAIN registry
                 /\ registry[waits[k].child].parent = waits[k].parent
            /\ k < n => waits[k].child = waits[k + 1].parent
        BY <1>6, <3>2 DEF IInv, WaitChain, n
      <4>2. k < n => waits'[k + 1] = waits[k + 1]
        BY <1>6, <3>2
      <4>3. k < Len(waits') => waits'[k].child = waits'[k + 1].parent
        BY <1>6, <1>7, <1>9, <3>2, <4>1, <4>2
      <4> QED
        BY <1>4, <1>6, <3>2, <4>1, <4>3 DEF SameTree, SameLinks
    <3> QED
      BY <1>6, <3>1, <3>2
  <2> QED
    BY <1>6, <1>7, <1>8, <2>1, <2>2 DEF WaitChain
<1>12. TodoKnown'
  <2>1. \A c \in Elems(w.todo) : c \in DOMAIN registry /\ registry[c].parent = current
    BY <1>1, <1>7 DEF TreeConsistent, Elems
  <2>2. ASSUME NEW k \in DOMAIN waits', NEW c \in Elems(waits'[k].todo)
        PROVE  c \in DOMAIN registry' /\ registry'[c].parent = waits'[k].parent
    BY <1>4, <1>6, <1>7, <2>1, <2>2 DEF IInv, TodoKnown, SameTree, SameLinks
  <2> QED
    BY <2>2 DEF TodoKnown, Elems
<1>13. Ordered'
  BY <1>1, <1>6, <1>7, YoungestRuns DEF IInv, Ordered
<1>14. NotDone'
  <2>1. \A t \in DOMAIN registry : Completed(t)' => Completed(t)
    BY <1>4 DEF Completed, SameTree, SameLinks
  <2>2. BetweenChildren'
    BY <1>6, <1>7, <1>8 DEF BetweenChildren, Wait
  <2> QED
    BY <1>1, <1>3, <1>4, <1>6, <1>7, <2>1, <2>2 DEF IInv, NotDone, Completed, SameTree, SameLinks
<1> QED
  BY <1>5, <1>11, <1>12, <1>13, <1>14 DEF IInv

\* The loop of WaitChildren rewrites its own activation only.
LEMMA TopReplaced ==
  ASSUME IInv, waits # <<>>, NEW w, waits' = SetWait(w),
         w.parent = Wait.parent, \A c \in Elems(w.todo) : c \in Elems(Wait.todo),
         w.child # NoTask => /\ w.child \in DOMAIN registry /\ current' = w.child
                             /\ registry[w.child].parent = Wait.parent,
         SameLinks(registry', registry), nextTask' = nextTask
  PROVE  TreeConsistent' /\ WaitChain' /\ TodoKnown' /\ Ordered' /\ Wait' = w
<1> DEFINE n == Len(waits)
<1>1. TypeOK /\ TreeConsistent /\ n \in DOMAIN waits /\ Wait = waits[n] /\ n \in Nat
  BY TopWait DEF IInv, TypeOK
<1>2. /\ DOMAIN waits' = DOMAIN waits /\ Len(waits') = n /\ waits' # <<>> /\ waits'[n] = w
      /\ \A k \in DOMAIN waits \ {n} : waits'[k] = waits[k]
      /\ \A k \in DOMAIN waits : k <= n /\ k \in Nat /\ k >= 1
  BY <1>1, WaitUpdates
<1>3. TreeConsistent'
  BY <1>1, ParentsExist, LinksKeepTree
<1> HIDE DEF n
<1>4. Wait' = w
  BY <1>2 DEF Wait, Last
<1>5. \A k \in DOMAIN waits : waits'[k].parent = waits[k].parent
  BY <1>1, <1>2
<1>6. \A k \in DOMAIN waits : k < n => k + 1 \in DOMAIN waits
  <2>1. DOMAIN waits = 1..n
    BY <1>1 DEF TypeOK, n
  <2> QED
    BY <2>1, <1>1
<1>7. WaitChain'
  <2>1. waits'[1].parent = Root
    <3>1. 1 \in DOMAIN waits
      BY <1>1 DEF TypeOK
    <3> QED
      BY <1>5, <3>1 DEF IInv, WaitChain
  <2>2. ASSUME NEW k \in DOMAIN waits'
        PROVE  /\ waits'[k].parent \in DOMAIN registry'
               /\ waits'[k].child # NoTask =>
                    waits'[k].child \in DOMAIN registry'
                    /\ registry'[waits'[k].child].parent = waits'[k].parent
               /\ k < Len(waits') => waits'[k].child = waits'[k + 1].parent
    <3>1. CASE k = n
      BY <1>1, <1>2, <3>1 DEF IInv, WaitChain, SameLinks
    <3>2. CASE k # n
      BY <1>1, <1>2, <1>5, <1>6, <3>2 DEF IInv, WaitChain, SameLinks, n
    <3> QED
      BY <3>1, <3>2
  <2> QED
    BY <1>2, <1>4, <2>1, <2>2 DEF WaitChain
<1>8. TodoKnown'
  <2>1. ASSUME NEW k \in DOMAIN waits', NEW c \in Elems(waits'[k].todo)
        PROVE  c \in DOMAIN registry' /\ registry'[c].parent = waits'[k].parent
    <3>1. c \in Elems(waits[k].todo)
      BY <1>1, <1>2, <2>1
    <3> QED
      BY <1>2, <1>5, <2>1, <3>1 DEF IInv, TodoKnown, SameLinks
  <2> QED
    BY <2>1 DEF TodoKnown, Elems
<1>9. Ordered'
  BY <1>2, <1>5 DEF IInv, Ordered
<1> QED
  BY <1>3, <1>4, <1>7, <1>8, <1>9

\* WaitChildren returns to its parent, with its results or with an error.
LEMMA TopPopped ==
  ASSUME IInv, TypeOK', waits # <<>>, waits' = Front(waits), current' = Wait.parent,
         SameTree(registry', registry), nextTask' = nextTask
  PROVE  IInv'
<1> DEFINE n == Len(waits)
<1>1. TypeOK /\ TreeConsistent /\ n \in DOMAIN waits /\ Wait = waits[n] /\ n \in Nat
  BY TopWait DEF IInv, TypeOK
<1>2. /\ Len(waits') = n - 1 /\ DOMAIN waits' = DOMAIN waits \ {n}
      /\ \A k \in DOMAIN waits' : waits'[k] = waits[k]
      /\ \A k \in DOMAIN waits : k <= n /\ k \in Nat /\ k >= 1
      /\ DOMAIN waits = 1..n
  BY <1>1, WaitUpdates DEF TypeOK
<1>3. TreeConsistent'
  BY <1>1, ParentsExist, LinksKeepTree DEF SameTree
<1>4. waits' \in Seq(Activation)
  BY DEF TypeOK
<1> HIDE DEF n
<1>5. n = 1 \/ n > 1
  BY <1>1, <1>2
<1>6. n > 1 => /\ waits' # <<>> /\ Wait' = waits[n - 1] /\ n - 1 \in DOMAIN waits
               /\ waits[n - 1].child = Wait.parent
  BY <1>1, <1>2, <1>4 DEF IInv, WaitChain, Wait, Last, n
<1>7. WaitChain'
  <2>1. waits' = <<>> => current' = Root
    BY <1>1, <1>5, <1>6 DEF IInv, WaitChain
  <2>2. waits' # <<>> => waits'[1].parent = Root /\ Wait'.child = current'
    BY <1>1, <1>2, <1>4, <1>5, <1>6 DEF IInv, WaitChain
  <2>3. ASSUME NEW k \in DOMAIN waits'
        PROVE  /\ waits'[k].parent \in DOMAIN registry'
               /\ waits'[k].child # NoTask =>
                    waits'[k].child \in DOMAIN registry'
                    /\ registry'[waits'[k].child].parent = waits'[k].parent
               /\ k < Len(waits') => waits'[k].child = waits'[k + 1].parent
    <3>1. k < Len(waits') => k + 1 \in DOMAIN waits' /\ k < n
      BY <1>1, <1>2
    <3> QED
      BY <1>2, <3>1 DEF IInv, WaitChain, SameTree, SameLinks, n
  <2> QED
    BY <2>1, <2>2, <2>3 DEF WaitChain
<1>8. TodoKnown'
  BY <1>2 DEF IInv, TodoKnown, SameTree, SameLinks, Elems
<1>9. Ordered'
  BY <1>2 DEF IInv, Ordered
<1>10. NotDone'
  <2>1. \A t \in DOMAIN registry : ~Completed(t) => ~Completed(t)'
    BY DEF Completed, SameTree, SameLinks
  <2>2. \A k \in DOMAIN waits : ~Completed(waits[k].parent) /\ waits[k].parent \in DOMAIN registry
    BY DEF IInv, NotDone, WaitChain
  <2>3. ~Completed(current)'
    BY <1>1, <2>1, <2>2 DEF Completed
  <2>4. \A k \in DOMAIN waits : registry'[waits[k].parent].status # "Completed"
    BY <2>2 DEF Completed, SameTree
  <2>5. \A k \in DOMAIN waits' : registry'[waits'[k].parent].status # "Completed"
    BY <1>2, <2>4
  <2> QED
    BY <2>3, <2>5 DEF NotDone, Completed
<1> QED
  BY <1>3, <1>7, <1>8, <1>9, <1>10 DEF IInv

LEMMA WaitSkipStep ==
  ASSUME IInv, TypeOK', WaitSkip
  PROVE  IInv'
<1> DEFINE w == Collected([Wait EXCEPT !.todo = Tail(@)], Top(registry[Child].stack))
<1>1. /\ waits # <<>> /\ Wait.child = NoTask /\ Wait.todo # <<>> /\ TypeOK
      /\ registry' = [registry EXCEPT ![Child].stack = Rest(@)] /\ waits' = SetWait(w)
      /\ UNCHANGED <<current, nextTask>>
  BY DEF IInv, WaitSkip, AtChild, BetweenChildren, Wait, counters
<1>2. Wait \in Activation /\ Child \in DOMAIN registry
      /\ \A c \in Elems(Tail(Wait.todo)) : c \in Elems(Wait.todo)
  BY <1>1, TopWait, Activations
<1>3. w.parent = Wait.parent /\ w.child = NoTask /\ w.todo = Tail(Wait.todo)
  BY <1>1, <1>2 DEF Activation, Collected
<1>4. SameTree(registry', registry)
  BY <1>1, <1>2 DEF SameTree, SameLinks, TypeOK, IsRegistry, Task
<1> HIDE DEF w
<1>5. TreeConsistent' /\ WaitChain' /\ TodoKnown' /\ Ordered' /\ Wait' = w
  BY <1>1, <1>2, <1>3, <1>4, TopReplaced DEF SameTree
<1>6. NotDone'
  <2>1. \A k \in DOMAIN waits : registry'[waits[k].parent].status # "Completed"
    BY <1>4 DEF IInv, NotDone, WaitChain, Completed, SameTree
  <2>2. \A k \in DOMAIN waits : waits'[k].parent = waits[k].parent
    BY <1>1, <1>3, WaitUpdates, TopWait
  <2>3. DOMAIN waits' = DOMAIN waits /\ waits' # <<>>
    BY <1>1, WaitUpdates
  <2>4. BetweenChildren'
    BY <1>3, <1>5, <2>3 DEF BetweenChildren, Wait
  <2> QED
    BY <2>1, <2>2, <2>3, <2>4 DEF NotDone, Completed
<1> QED
  BY <1>5, <1>6 DEF IInv

LEMMA WaitEnterStep ==
  ASSUME IInv, TypeOK', WaitEnter
  PROVE  IInv'
<1> DEFINE w == [Wait EXCEPT !.todo = Tail(@), !.child = Child]
<1>1. /\ waits # <<>> /\ Wait.todo # <<>> /\ TypeOK /\ ~Completed(Child)
      /\ Restore(registry, Child) /\ waits' = SetWait(w) /\ nextTask' = nextTask
  BY DEF IInv, WaitEnter, AtChild, BetweenChildren, counters
<1>2. /\ Wait \in Activation /\ Child \in DOMAIN registry /\ Child \in TaskId
      /\ registry[Child].parent = Wait.parent
      /\ \A c \in Elems(Tail(Wait.todo)) : c \in Elems(Wait.todo)
  BY <1>1, TopWait, Activations
<1>3. w.parent = Wait.parent /\ w.child = Child /\ w.todo = Tail(Wait.todo)
  BY <1>2 DEF Activation
<1>4. current' = Child /\ registry' = SavedAs(registry, Child, <<>>, <<>>, {})
  BY <1>1, <1>2, Restoring
<1>5. SameTree(registry', registry)
  <2>1. <<>> \in Seq(Values) /\ <<>> \in Seq(Nat) /\ {} \in SUBSET Nat /\ IsRegistry(registry)
    BY <1>1 DEF TypeOK
  <2> QED
    BY <1>2, <1>4, <2>1, Saving
<1> HIDE DEF w
<1>6. TreeConsistent' /\ WaitChain' /\ TodoKnown' /\ Ordered' /\ Wait' = w
  BY <1>1, <1>2, <1>3, <1>4, <1>5, TopReplaced DEF SameTree
<1>7. NotDone'
  <2>1. \A k \in DOMAIN waits : registry'[waits[k].parent].status # "Completed"
    BY <1>5 DEF IInv, NotDone, WaitChain, Completed, SameTree
  <2>2. \A k \in DOMAIN waits : waits'[k].parent = waits[k].parent
    BY <1>1, <1>3, WaitUpdates, TopWait
  <2>3. DOMAIN waits' = DOMAIN waits
    BY <1>1, WaitUpdates
  <2>4. registry'[current'].status # "Completed"
    BY <1>1, <1>2, <1>4, <1>5 DEF Completed, SameTree
  <2> QED
    BY <2>1, <2>2, <2>3, <2>4 DEF NotDone, Completed
<1> QED
  BY <1>6, <1>7 DEF IInv

\* What a child that stopped leaves in the registry.
LEMMA Leaving ==
  ASSUME IInv, WaitLeave
  PROVE  /\ SameLinks(registry', registry)
         /\ current \in DOMAIN registry /\ current = Wait.child /\ current # NoTask
         /\ \A t \in DOMAIN registry :
              registry'[t].status = IF t = current THEN "Completed" ELSE registry[t].status
<1> DEFINE done == [registry EXCEPT ![Wait.child].status = "Completed"]
<1>1. /\ waits # <<>> /\ Wait.child # NoTask /\ TypeOK /\ IsRegistry(registry)
      /\ stack \in Seq(Values) /\ frames \in Seq(Nat) /\ handles \in SUBSET Nat
  BY DEF IInv, TypeOK, WaitLeave, ChildRunning
<1>2. Wait.child \in DOMAIN registry /\ current = Wait.child /\ current \in TaskId
  BY <1>1, TopWait DEF IsRegistry
<1>3. registry' = SavedAs(done, current, Rest(stack), frames, handles)
  BY <1>2 DEF WaitLeave
<1>4. /\ IsRegistry(done) /\ SameLinks(done, registry)
      /\ \A t \in DOMAIN registry :
           done[t].status = IF t = current THEN "Completed" ELSE registry[t].status
  BY <1>1, <1>2 DEF IsRegistry, Task, Status, SameLinks
<1>5. Rest(stack) \in Seq(Values)
  BY <1>1, Stacks
<1> HIDE DEF done
<1>6. SameTree(registry', done)
  BY <1>1, <1>2, <1>3, <1>4, <1>5, Saving
<1> QED
  BY <1>1, <1>2, <1>4, <1>6 DEF SameTree, SameLinks

LEMMA WaitLeaveStep ==
  ASSUME IInv, TypeOK', WaitLeave
  PROVE  IInv'
<1> DEFINE w == Collected([Wait EXCEPT !.child = NoTask], Top(stack))
<1>1. /\ waits # <<>> /\ TypeOK /\ waits' = SetWait(w) /\ UNCHANGED <<current, nextTask>>
      /\ Wait.child # NoTask /\ ~BetweenChildren
  BY DEF IInv, WaitLeave, ChildRunning, counters, BetweenChildren, Wait
<1>2. Wait \in Activation
  BY <1>1, Activations
<1>3. w.parent = Wait.parent /\ w.child = NoTask /\ w.todo = Wait.todo
  BY <1>2 DEF Activation, Collected
<1> HIDE DEF w
<1>4. TreeConsistent' /\ WaitChain' /\ TodoKnown' /\ Ordered' /\ Wait' = w
  BY <1>1, <1>3, Leaving, TopReplaced
<1>5. NotDone'
  <2>1. \A k \in DOMAIN waits : waits[k].parent \in DOMAIN registry /\ waits[k].parent \in Nat
    BY <1>1 DEF IInv, WaitChain, TypeOK, IsRegistry, TaskId
  <2>2. current \in Nat
    BY <1>1 DEF TypeOK, IsRegistry, TaskId
  <2>3. \A k \in DOMAIN waits : registry'[waits[k].parent].status # "Completed"
    BY <1>1, <2>1, <2>2, YoungestRuns, Leaving DEF IInv, NotDone, Completed
  <2>4. \A k \in DOMAIN waits : waits'[k].parent = waits[k].parent
    BY <1>1, <1>3, WaitUpdates, TopWait
  <2>5. DOMAIN waits' = DOMAIN waits /\ waits' # <<>>
    BY <1>1, WaitUpdates
  <2>6. BetweenChildren'
    BY <1>3, <1>4, <2>5 DEF BetweenChildren, Wait
  <2> QED
    BY <2>3, <2>4, <2>5, <2>6 DEF NotDone, Completed
<1> QED
  BY <1>4, <1>5 DEF IInv

LEMMA WaitReturnStep ==
  ASSUME IInv, TypeOK', WaitFails \/ WaitDone
  PROVE  IInv'
<1>1. waits # <<>> /\ waits' = Front(waits) /\ nextTask' = nextTask /\ TypeOK
  BY DEF IInv, WaitFails, WaitDone, ChildRunning, BetweenChildren, counters
<1>2. Wait.parent \in DOMAIN registry
  BY <1>1, TopWait
<1>3. current' = Wait.parent /\ registry' = SavedAs(registry, Wait.parent, <<>>, <<>>, {})
  BY <1>1, <1>2, Restoring DEF WaitFails, WaitDone
<1>4. SameTree(registry', registry)
  <2>1. <<>> \in Seq(Values) /\ <<>> \in Seq(Nat) /\ {} \in SUBSET Nat /\ IsRegistry(registry)
        /\ Wait.parent \in TaskId
    BY <1>1, <1>2 DEF TypeOK, IsRegistry
  <2> QED
    BY <1>3, <2>1, Saving
<1> QED
  BY <1>1, <1>3, <1>4, TopPopped
-----------------------------------------------------------------------------
(* The theorems.                                                           *)

LEMMA InvariantStep == IInv /\ [Next]_vars => IInv'
<1> SUFFICES ASSUME IInv, [Next]_vars PROVE IInv'
  OBVIOUS
<1>1. CASE OpSpawn
  BY <1>1, SwitchTypes, SpawnStep
<1>2. CASE OpYield
  BY <1>2, SwitchTypes, YieldStep
<1>3. CASE OpWait
  BY <1>3, SwitchTypes, OpWaitStep
<1>4. CASE WaitLoop
  BY <1>4, SwitchTypes, WaitSkipStep, WaitEnterStep, WaitLeaveStep, WaitReturnStep DEF WaitLoop
<1>5. CASE \/ FetchFails \/ OpFails \/ OpData \/ OpCall \/ OpReturn \/ OpHalt \/ OpOpen
           \/ \E ip \in Targets : OpJump(ip)
           \/ \E h \in handles : OpClose(h)
           \/ HostPrepare \/ HostRun \/ RunReturns
  <2>1. UNCHANGED <<registry, current, waits, nextTask>>
    BY <1>5 DEF FetchFails, OpFails, OpData, OpCall, OpReturn, OpHalt, OpOpen, OpJump,
                OpClose, HostPrepare, HostRun, RunReturns, counters, control, machine
  <2> QED
    BY <1>5, <2>1, PlainTypes, PlainStep DEF IInv
<1>6. CASE UNCHANGED vars
  <2>1. TypeOK'
    BY <1>6 DEF IInv, TypeOK, vars, machine, counters, control
  <2> QED
    BY <1>6, <2>1, PlainStep DEF vars, counters, control
<1> QED
  BY <1>1, <1>2, <1>3, <1>4, <1>5, <1>6 DEF Next, Vm, Host, Opcode

\* What every state of the scheduler satisfies.
LEMMA Invariant == Spec => []IInv
<1>1. Init => IInv
  BY InitInv
<1> QED
  BY <1>1, InvariantStep, PTL DEF Spec

\* The registry, the VM's registers and the activations of WaitChildren keep their
\* types, and the current task is registered: current_task's expect() never fires.
THEOREM SchedulerTypes == Spec => []TypeOK
<1>1. IInv => TypeOK
  BY DEF IInv
<1> QED
  BY <1>1, Invariant, PTL

\* Spawn and WaitChildren keep the tasks a strict tree, of any size and depth.
THEOREM StrictTree == Spec => []TreeConsistent
<1>1. IInv => TreeConsistent
  BY DEF IInv
<1> QED
  BY <1>1, Invariant, PTL

\* The nested calls of run() follow one line of that tree down to the running task.
THEOREM NestedRunsFollowTree == Spec => []WaitChain
<1>1. IInv => WaitChain
  BY DEF IInv
<1> QED
  BY <1>1, Invariant, PTL
-----------------------------------------------------------------------------
(* The refinement.                                                         *)

Parents == [t \in DOMAIN registry |-> registry[t].parent]
DoneTasks == {t \in DOMAIN registry : registry[t].status = "Completed"}
Active == IF BetweenChildren THEN Wait.parent ELSE current

\* A step that keeps the tree, the statuses and the task in control is a stutter.
LEMMA Stutters ==
  ASSUME SameTree(registry', registry), Active' = Active
  PROVE  UNCHANGED <<Parents, DoneTasks, Active>>
<1>1. Parents' = Parents
  BY DEF Parents, SameTree, SameLinks
<1>2. DoneTasks' = DoneTasks
  BY DEF DoneTasks, SameTree, SameLinks
<1> QED
  BY <1>1, <1>2

\* The activation on top after WaitChildren has rewritten it, or returned.
LEMMA AfterSet ==
  ASSUME TypeOK, waits # <<>>, NEW w, waits' = SetWait(w)
  PROVE  waits' # <<>> /\ Wait' = w
<1>1. Len(SetWait(w)) = Len(waits) /\ SetWait(w)[Len(waits)] = w /\ SetWait(w) # <<>>
  BY WaitUpdates
<1> QED
  BY <1>1 DEF Wait, Last

LEMMA AfterPop ==
  ASSUME IInv, waits # <<>>, waits' = Front(waits)
  PROVE  ~BetweenChildren'
<1> DEFINE n == Len(waits)
<1>1. /\ waits \in Seq(Activation) /\ n \in Nat /\ n >= 1 /\ n \in DOMAIN waits
      /\ Wait = waits[n] /\ Wait.parent \in Nat
  BY TopWait DEF IInv, TypeOK, IsRegistry, TaskId
<1>2. /\ Len(waits') = n - 1 /\ DOMAIN waits' = DOMAIN waits \ {n}
      /\ \A k \in DOMAIN waits' : waits'[k] = waits[k]
  BY WaitUpdates DEF IInv
<1>3. CASE waits' = <<>>
  BY <1>3 DEF BetweenChildren
<1>4. CASE waits' # <<>>
  <2>1. n > 1 /\ n - 1 \in DOMAIN waits /\ Wait' = waits[n - 1]
    <3>1. waits' \in Seq(Activation)
      BY <1>1, EndsOfSeq
    <3>2. Len(waits') \in DOMAIN waits'
      BY <1>4, <3>1
    <3> QED
      BY <1>1, <1>2, <3>2 DEF Wait, Last
  <2>2. waits[n - 1].child = waits[n].parent
    <3>1. n - 1 < Len(waits) /\ (n - 1) + 1 = n
      BY <1>1
    <3> QED
      BY <2>1, <3>1 DEF IInv, WaitChain
  <2> QED
    BY <1>1, <2>1, <2>2, TaskConstants DEF BetweenChildren, Wait
<1> QED
  BY <1>3, <1>4

\* What a step is to the tree, the completed tasks and the task in control.
AbstractNext ==
  \/ /\ \E t \in 0..MaxTasks - 1 :
          /\ t \notin DOMAIN Parents
          /\ Parents' = [u \in DOMAIN Parents \cup {t} |->
                           IF u = t THEN Active ELSE Parents[u]]
     /\ DoneTasks' = DoneTasks /\ Active' = Active
  \/ /\ \E t \in DOMAIN Parents \ DoneTasks : Parents[t] = Active /\ Active' = t
     /\ Parents' = Parents /\ DoneTasks' = DoneTasks
  \/ /\ Active # 0 /\ Active' = Parents[Active] /\ Parents' = Parents
     /\ DoneTasks' \in {DoneTasks, DoneTasks \cup {Active}}
  \/ UNCHANGED <<Parents, DoneTasks, Active>>

LEMMA AbstractStep ==
  ASSUME IInv, IInv', Next
  PROVE  AbstractNext
<1> USE DEF AbstractNext
<1>1. /\ TypeOK /\ TypeOK' /\ IsRegistry(registry) /\ current \in DOMAIN registry
      /\ current \in Nat /\ NoTask \notin Nat /\ \A t \in DOMAIN registry : t \in Nat
      /\ registry[Root].parent = NoTask /\ Root = 0
      /\ stack \in Seq(Values) /\ handles \in SUBSET Nat /\ frames \in Seq(Nat)
  BY TaskConstants DEF IInv, TypeOK, IsRegistry, TaskId, TreeConsistent, Root
<1>2. CASE OpSpawn
  <2>1. CASE TooDeep
    BY <1>2, <2>1, Stutters DEF OpSpawn, SameTree, SameLinks, Active, BetweenChildren, Wait, Last
  <2>2. CASE ~(TooDeep)
    <3> DEFINE child == NewChild
               reg == [t \in DOMAIN registry \cup {nextTask} |->
                         IF t = nextTask THEN child ELSE registry[t]]
    <3>1. /\ registry' = [reg EXCEPT ![current].children = Append(@, nextTask)]
          /\ nextTask < MaxTasks /\ UNCHANGED <<current, waits>> /\ ~BetweenChildren
      BY <1>2, <2>2 DEF OpSpawn, Fetch, Executing, Linked, Registered
    <3>2. nextTask \in 0..MaxTasks - 1 /\ nextTask \notin DOMAIN registry
      <4>1. nextTask \in Nat /\ MaxTasks \in Nat /\ DOMAIN registry = 0..nextTask - 1
        BY TaskConstants DEF IInv, TreeConsistent, TypeOK, TaskId
      <4> QED
        BY <3>1, <4>1
    <3>3. child.parent = current /\ child.status = "Running"
      BY DEF NewChild, NewTask
    <3>4. /\ DOMAIN registry' = DOMAIN registry \cup {nextTask}
          /\ registry'[nextTask].parent = current /\ registry'[nextTask].status = "Running"
          /\ \A t \in DOMAIN registry : /\ registry'[t].parent = registry[t].parent
                                        /\ registry'[t].status = registry[t].status
      <4> HIDE DEF child
      <4>1. reg[current] = registry[current] /\ current # nextTask
            /\ DOMAIN reg = DOMAIN registry \cup {nextTask} /\ reg[nextTask] = child
            /\ \A t \in DOMAIN registry : reg[t] = registry[t]
        BY <1>1, <3>2
      <4> HIDE DEF reg
      <4>2. registry[current] \in Task
        BY <1>1 DEF IsRegistry
      <4> QED
        BY <1>1, <3>1, <3>3, <4>1, <4>2 DEF Task
    <3> HIDE DEF child, reg
    <3>5. Active = current /\ Active' = current
      BY <3>1 DEF Active, BetweenChildren, Wait, Last
    <3>6. DoneTasks' = DoneTasks
      BY <3>2, <3>4 DEF DoneTasks
    <3>7. Parents' = [u \in DOMAIN Parents \cup {nextTask} |->
                        IF u = nextTask THEN Active ELSE Parents[u]]
          /\ nextTask \notin DOMAIN Parents
      BY <3>2, <3>4, <3>5 DEF Parents
    <3> QED
      BY <3>2, <3>5, <3>6, <3>7
  <2> QED
    BY <2>1, <2>2
<1>3. CASE OpYield
  <2>1. UNCHANGED <<current, waits>> /\ ~BetweenChildren
    BY <1>3 DEF OpYield, Fetch, Executing
  <2>2. Active' = Active
    BY <2>1 DEF Active, BetweenChildren, Wait, Last
  <2>3. /\ SameLinks(registry', registry)
        /\ \A t \in DOMAIN registry :
             registry'[t].status = "Completed" <=> registry[t].status = "Completed"
    <3>1. ~Completed(current)
      BY <2>1 DEF IInv, NotDone
    <3>2. registry[current].status # "Completed" /\ registry[current] \in Task
      BY <1>1, <3>1 DEF Completed, IsRegistry
    <3>3. \/ registry' = registry
          \/ registry' = [registry EXCEPT ![current].status = "Yielded", ![current].handles = handles]
      BY <1>3 DEF OpYield
    <3>4. CASE registry' = registry
      BY <3>4 DEF SameLinks
    <3>5. CASE registry' = [registry EXCEPT ![current].status = "Yielded", ![current].handles = handles]
      <4>1. registry' = [registry EXCEPT ![current] =
                           [registry[current] EXCEPT !.status = "Yielded", !.handles = handles]]
        BY <1>1, <3>5 DEF IsRegistry
      <4> QED
        BY <1>1, <3>2, <4>1 DEF SameLinks, IsRegistry, Task
    <3> QED
      BY <3>3, <3>4, <3>5
  <2>4. Parents' = Parents /\ DoneTasks' = DoneTasks
    BY <2>3 DEF Parents, DoneTasks, SameLinks
  <2> QED
    BY <2>2, <2>4
<1>4. CASE OpWait
  <2>1. ~BetweenChildren /\ current' = current
    BY <1>4 DEF OpWait, Fetch, Executing
  <2>2. SameTree(registry', registry)
    <3>1. Advanced \in Seq(Nat) /\ current \in TaskId
      BY <1>1, <1>4, Frames DEF OpWait, Fetch, TaskId
    <3> QED
      BY <1>1, <1>4, <3>1, Saving DEF OpWait
  <2>3. BetweenChildren' /\ Wait'.parent = current
    BY <1>1, <1>4 DEF OpWait, BetweenChildren, Wait, Last, TypeOK
  <2> QED
    BY <2>1, <2>2, <2>3, Stutters DEF Active
<1>5. CASE WaitSkip
  <2>1. /\ waits # <<>> /\ BetweenChildren /\ Wait.todo # <<>>
        /\ registry' = [registry EXCEPT ![Child].stack = Rest(@)]
        /\ waits' = SetWait(Collected([Wait EXCEPT !.todo = Tail(@)], Top(registry[Child].stack)))
    BY <1>5 DEF WaitSkip, AtChild, BetweenChildren
  <2>2. Child \in DOMAIN registry /\ Wait \in Activation
    BY <1>1, <2>1, TopWait, Activations
  <2>3. SameTree(registry', registry)
    BY <1>1, <2>1, <2>2 DEF SameTree, SameLinks, IsRegistry, Task
  <2>4. waits' # <<>> /\ Wait'.parent = Wait.parent /\ Wait'.child = Wait.child
    <3> DEFINE w == Collected([Wait EXCEPT !.todo = Tail(@)], Top(registry[Child].stack))
    <3>1. w.parent = Wait.parent /\ w.child = Wait.child
      BY <2>2 DEF Activation, Collected
    <3> HIDE DEF w
    <3> QED
      BY <1>1, <2>1, <3>1, AfterSet DEF w
  <2>5. Active' = Active
    BY <2>1, <2>4 DEF Active, BetweenChildren, Wait
  <2> QED
    BY <2>3, <2>5, Stutters
<1>6. CASE WaitEnter
  <2>1. /\ waits # <<>> /\ BetweenChildren /\ Wait.todo # <<>> /\ ~Completed(Child)
        /\ Restore(registry, Child)
        /\ waits' = SetWait([Wait EXCEPT !.todo = Tail(@), !.child = Child])
    BY <1>6 DEF WaitEnter, AtChild, BetweenChildren
  <2>2. Child \in DOMAIN registry /\ registry[Child].parent = Wait.parent /\ Wait \in Activation
    BY <1>1, <2>1, TopWait, Activations
  <2>3. SameTree(registry', registry) /\ current' = Child
    <3>1. <<>> \in Seq(Values) /\ <<>> \in Seq(Nat) /\ {} \in SUBSET Nat /\ Child \in TaskId
      BY <1>1, <2>2 DEF TaskId
    <3> QED
      BY <1>1, <2>1, <2>2, <3>1, Restoring, Saving
  <2>4. waits' # <<>> /\ Wait'.child = Child /\ Child # NoTask
    <3> DEFINE w == [Wait EXCEPT !.todo = Tail(@), !.child = Child]
    <3>1. w.child = Child /\ Child # NoTask
      BY <1>1, <2>2 DEF Activation
    <3> HIDE DEF w
    <3> QED
      BY <1>1, <2>1, <3>1, AfterSet DEF w
  <2>5. Active = registry[Child].parent /\ Active' = Child
    BY <2>1, <2>2, <2>3, <2>4 DEF Active, BetweenChildren, Wait
  <2>6. Parents' = Parents /\ DoneTasks' = DoneTasks
    BY <2>3 DEF Parents, DoneTasks, SameTree, SameLinks
  <2>7. Child \in DOMAIN Parents \ DoneTasks /\ Parents[Child] = Active
    BY <2>1, <2>2, <2>5 DEF Parents, DoneTasks, Completed
  <2> QED
    BY <2>5, <2>6, <2>7
<1>7. CASE WaitLeave
  <2>1. /\ waits # <<>> /\ Wait.child # NoTask /\ ~BetweenChildren
        /\ waits' = SetWait(Collected([Wait EXCEPT !.child = NoTask], Top(stack)))
    BY <1>7 DEF WaitLeave, ChildRunning, BetweenChildren, Wait
  <2>2. Wait \in Activation /\ registry[current].parent = Wait.parent /\ Wait.parent \in Nat
    BY <1>1, <2>1, TopWait, Activations DEF Activation, TaskId
  <2>3. waits' # <<>> /\ Wait'.child = NoTask /\ Wait'.parent = Wait.parent
    <3> DEFINE w == Collected([Wait EXCEPT !.child = NoTask], Top(stack))
    <3>1. w.child = NoTask /\ w.parent = Wait.parent
      BY <2>2 DEF Activation, Collected
    <3> HIDE DEF w
    <3> QED
      BY <1>1, <2>1, <3>1, AfterSet DEF w
  <2>4. Active = current /\ Active' = Wait.parent /\ current # 0
    BY <1>1, <2>1, <2>2, <2>3 DEF Active, BetweenChildren, Wait
  <2>5. Parents' = Parents /\ DoneTasks' = DoneTasks \cup {current} /\ Parents[current] = Wait.parent
    BY <1>1, <1>7, <2>2, Leaving DEF Parents, DoneTasks, SameLinks
  <2> QED
    BY <2>4, <2>5
<1>8. CASE WaitFails
  <2>1. waits # <<>> /\ Wait.child # NoTask /\ ~BetweenChildren /\ Restore(registry, Wait.parent)
    BY <1>8 DEF WaitFails, ChildRunning, BetweenChildren, Wait
  <2>2. /\ Wait.parent \in DOMAIN registry /\ registry[current].parent = Wait.parent
        /\ Wait.parent \in Nat
    BY <1>1, <2>1, TopWait
  <2>3. SameTree(registry', registry) /\ current' = Wait.parent
    <3>1. <<>> \in Seq(Values) /\ <<>> \in Seq(Nat) /\ {} \in SUBSET Nat /\ Wait.parent \in TaskId
      BY <2>2 DEF TaskId
    <3> QED
      BY <1>1, <2>1, <2>2, <3>1, Restoring, Saving
  <2>4. ~BetweenChildren'
    BY <1>8, <2>1, AfterPop DEF WaitFails
  <2>5. Active = current /\ Active' = registry[current].parent /\ current # 0
    BY <1>1, <2>1, <2>2, <2>3, <2>4 DEF Active
  <2>6. Parents' = Parents /\ DoneTasks' = DoneTasks
    BY <2>3 DEF Parents, DoneTasks, SameTree, SameLinks
  <2> QED
    BY <1>1, <2>5, <2>6 DEF Parents
<1>9. CASE WaitDone
  <2>1. waits # <<>> /\ BetweenChildren /\ current' = Wait.parent
        /\ registry' = SavedAs(registry, Wait.parent, <<>>, <<>>, {})
    BY <1>9 DEF WaitDone, BetweenChildren
  <2>2. Wait.parent \in DOMAIN registry /\ Wait.parent \in TaskId
    BY <1>1, <2>1, TopWait DEF TaskId
  <2>3. SameTree(registry', registry)
    <3>1. <<>> \in Seq(Values) /\ <<>> \in Seq(Nat) /\ {} \in SUBSET Nat
      OBVIOUS
    <3> QED
      BY <1>1, <2>1, <2>2, <3>1, Saving
  <2>4. ~BetweenChildren'
    BY <1>9, <2>1, AfterPop DEF WaitDone
  <2>5. Active' = Active
    BY <2>1, <2>4 DEF Active
  <2> QED
    BY <2>3, <2>5, Stutters
<1>10. CASE \/ FetchFails \/ OpFails \/ OpData \/ OpCall \/ OpReturn \/ OpHalt \/ OpOpen
            \/ \E ip \in Targets : OpJump(ip)
            \/ \E h \in handles : OpClose(h)
            \/ HostPrepare \/ HostRun \/ RunReturns
  <2>1. UNCHANGED <<registry, current, waits>>
    BY <1>10 DEF FetchFails, OpFails, OpData, OpCall, OpReturn, OpHalt, OpOpen, OpJump,
                 OpClose, HostPrepare, HostRun, RunReturns, counters, control, machine
  <2> QED
    BY <2>1 DEF Parents, DoneTasks, Active, BetweenChildren, Wait, Last
<1>11. \/ OpSpawn \/ OpYield \/ OpWait
       \/ WaitSkip \/ WaitEnter \/ WaitLeave \/ WaitFails \/ WaitDone
       \/ FetchFails \/ OpFails \/ OpData \/ OpCall \/ OpReturn \/ OpHalt \/ OpOpen
       \/ \E ip \in Targets : OpJump(ip)
       \/ \E h \in handles : OpClose(h)
       \/ HostPrepare \/ HostRun \/ RunReturns
  BY DEF Next, Vm, Host, Opcode, WaitLoop
<1> HIDE DEF AbstractNext
<1> QED
  BY <1>2, <1>3, <1>4, <1>5, <1>6, <1>7, <1>8, <1>9, <1>10, <1>11

\* The tasks implement ForkJoin: the registry, the saved stacks and the nested calls
\* of run() show nothing but a tree that grows and control that descends to a child
\* that has not completed or returns to the parent.
THEOREM SchedulerIsForkJoin == Spec => ImplementsForkJoin
<1> USE DEF Parents, DoneTasks, Active
<1>1. Init => FJ!FJInit
  <2> SUFFICES ASSUME Init PROVE FJ!FJInit
    OBVIOUS
  <2>1. /\ DOMAIN registry = {0} /\ current = 0 /\ ~BetweenChildren
        /\ registry[0].parent = NoTask /\ registry[0].status = "Running"
    BY DEF Init, NewTask, BetweenChildren, Root
  <2> QED
    BY <2>1 DEF FJ!FJInit
<1>2. IInv /\ IInv' /\ [Next]_vars => [FJ!FJNext]_(FJ!fjvars)
  <2>1. ASSUME IInv, IInv', Next PROVE [FJ!FJNext]_(FJ!fjvars)
    BY <2>1, AbstractStep
       DEF AbstractNext, FJ!FJNext, FJ!fjvars, FJ!Fork, FJ!Descend, FJ!Join, FJ!Abort
  <2>2. ASSUME UNCHANGED vars PROVE UNCHANGED FJ!fjvars
    BY <2>2 DEF vars, control, machine, counters, FJ!fjvars, BetweenChildren, Wait, Last
  <2> QED
    BY <2>1, <2>2
<1> QED
  BY <1>1, <1>2, Invariant, PTL DEF Spec, ImplementsForkJoin, FJ!FJSpec

-----------------------------------------------------------------------------
(* What is parked in the registry: waiting parents are left alone,         *)
(* completed tasks stay as they are, and no I/O handle is in two tables.   *)

\* Saving changes one entry.
LEMMA SavedEntry ==
  ASSUME NEW reg, IsRegistry(reg), NEW t \in DOMAIN reg, NEW stk, NEW frs, NEW hdl
  PROVE  /\ DOMAIN SavedAs(reg, t, stk, frs, hdl) = DOMAIN reg
         /\ \A u \in DOMAIN reg \ {t} : SavedAs(reg, t, stk, frs, hdl)[u] = reg[u]
         /\ SavedAs(reg, t, stk, frs, hdl)[t].handles = hdl
         /\ SavedAs(reg, t, stk, frs, hdl)[t].stack = stk
         /\ SavedAs(reg, t, stk, frs, hdl)[t].frames = frs
         /\ SavedAs(reg, t, stk, frs, hdl)[t].status = reg[t].status
         /\ SavedAs(reg, t, stk, frs, hdl)[t].children = reg[t].children
<1> DEFINE entry == [reg[t] EXCEPT !.stack = stk, !.frames = frs, !.handles = hdl]
           r == SavedAs(reg, t, stk, frs, hdl)
<1>1. reg[t] \in Task
  BY DEF IsRegistry
<1>2. r = [reg EXCEPT ![t] = entry]
  BY <1>1 DEF SavedAs, Task, IsRegistry
<1>3. /\ entry.handles = hdl /\ entry.stack = stk /\ entry.frames = frs
      /\ entry.status = reg[t].status /\ entry.children = reg[t].children
  BY <1>1 DEF Task
<1>4. reg = [u \in DOMAIN reg |-> reg[u]]
  BY DEF IsRegistry
<1> HIDE DEF entry, r
<1> QED
  BY <1>2, <1>3, <1>4 DEF r

-----------------------------------------------------------------------------
(* A step changes one entry of the registry.                               *)

OnlyEntry(t) ==
  \A u \in DOMAIN registry : u \in DOMAIN registry' /\ (u # t => registry'[u] = registry[u])
SameLife(t) ==
  registry'[t].status = registry[t].status /\ registry'[t].children = registry[t].children
SameParents ==
  \A k \in DOMAIN waits : k \in DOMAIN waits' /\ waits'[k].parent = waits[k].parent

\* The steps: of one task that switch nothing; of the task in control; of WaitChildren at
\* a child; and back from WaitChildren.
Untouched == UNCHANGED <<registry, current, waits>>
InControl == ~BetweenChildren /\ current' = current /\ OnlyEntry(current) /\ SameParents
AtItsChild ==
  /\ AtChild /\ OnlyEntry(Child) /\ SameParents
  /\ IF Completed(Child)
     THEN /\ current' = current /\ registry'[Child].frames = registry[Child].frames
          /\ registry'[Child].children = registry[Child].children
          /\ registry'[Child].status = "Completed"
     ELSE current' = Child
Back ==
  /\ waits # <<>> /\ waits' = Front(waits)
  /\ OnlyEntry(Wait.parent) /\ current' = Wait.parent

LEMMA Plain ==
  ASSUME \/ FetchFails \/ OpFails \/ OpData \/ OpCall \/ OpReturn \/ OpHalt \/ OpOpen
         \/ \E ip \in Targets : OpJump(ip)
         \/ \E h \in handles : OpClose(h)
         \/ HostPrepare \/ HostRun \/ RunReturns \/ UNCHANGED vars
  PROVE  Untouched
BY DEF FetchFails, OpFails, OpData, OpCall, OpReturn, OpHalt, OpOpen, OpJump, OpClose,
       HostPrepare, HostRun, RunReturns, counters, control, machine, vars, Untouched

\* What TypeOK gives of the registry.
LEMMA Registry ==
  ASSUME IInv
  PROVE  /\ TypeOK /\ IsRegistry(registry) /\ current \in DOMAIN registry
         /\ DOMAIN registry \subseteq Nat /\ registry = [t \in DOMAIN registry |-> registry[t]]
         /\ \A t \in DOMAIN registry : registry[t] \in Task
BY DEF IInv, TypeOK, IsRegistry, TaskId

LEMMA SpawnEntry ==
  ASSUME IInv, OpSpawn
  PROVE  /\ OnlyEntry(current) /\ waits' = waits /\ current' = current /\ ~BetweenChildren
         /\ registry'[current].handles = registry[current].handles
         /\ registry'[current].stack = registry[current].stack
         /\ registry'[current].frames = registry[current].frames
         /\ registry'[current].status = registry[current].status
         /\ \A t \in DOMAIN registry' \ DOMAIN registry :
              ~TooDeep /\ registry'[t] = NewChild /\ registry'[t].handles = {}
<1>1. /\ UNCHANGED <<current, waits>> /\ ~BetweenChildren /\ current \in DOMAIN registry
      /\ registry = [t \in DOMAIN registry |-> registry[t]] /\ registry[current] \in Task
  BY Registry DEF OpSpawn, Fetch, Executing
<1>2. CASE TooDeep
  BY <1>1, <1>2 DEF OpSpawn, OnlyEntry
<1>3. CASE ~TooDeep
  <2> DEFINE reg == Registered(nextTask, NewChild)
             entry == [registry[current] EXCEPT !.children = Append(@, nextTask)]
  <2>1. nextTask \notin DOMAIN registry
    BY DEF IInv, TypeOK, TreeConsistent, TaskId
  <2>2. /\ DOMAIN reg = DOMAIN registry \cup {nextTask} /\ reg[nextTask] = NewChild
        /\ \A t \in DOMAIN registry : reg[t] = registry[t]
    BY <2>1 DEF Registered
  <2>3. registry' = [reg EXCEPT ![current].children = Append(@, nextTask)]
    BY <1>3 DEF OpSpawn, Linked
  <2> HIDE DEF reg
  <2>4. /\ DOMAIN registry' = DOMAIN reg /\ registry'[current] = entry
        /\ \A t \in DOMAIN reg \ {current} : registry'[t] = reg[t]
    BY <1>1, <2>2, <2>3
  <2>5. /\ entry.handles = registry[current].handles /\ entry.stack = registry[current].stack
        /\ entry.frames = registry[current].frames /\ entry.status = registry[current].status
    BY <1>1 DEF Task
  <2>6. NewChild.handles = {}
    BY DEF NewChild, NewTask
  <2> HIDE DEF entry
  <2> QED
    BY <1>1, <1>3, <2>1, <2>2, <2>4, <2>5, <2>6 DEF OnlyEntry
<1> QED
  BY <1>2, <1>3

LEMMA YieldEntry ==
  ASSUME IInv, OpYield
  PROVE  /\ OnlyEntry(current) /\ waits' = waits /\ current' = current /\ ~BetweenChildren
         /\ DOMAIN registry' = DOMAIN registry
         /\ registry'[current].frames = registry[current].frames
         /\ registry'[current].children = registry[current].children
         /\ \/ registry' = registry
            \/ running' = FALSE /\ registry'[current].status = "Yielded"
<1>1. /\ UNCHANGED <<current, waits>> /\ ~BetweenChildren /\ current \in DOMAIN registry
      /\ registry = [t \in DOMAIN registry |-> registry[t]] /\ registry[current] \in Task
  BY Registry DEF OpYield, Fetch, Executing
<1>2. CASE Uncompleted # {}
  BY <1>1, <1>2 DEF OpYield, OnlyEntry
<1>3. CASE Uncompleted = {}
  <2>1. registry' = [registry EXCEPT ![current].status = "Yielded",
                                     ![current].handles = handles]
        /\ running' = FALSE
    BY <1>3 DEF OpYield
  <2> QED
    BY <1>1, <2>1 DEF OnlyEntry, Task
<1> QED
  BY <1>2, <1>3

LEMMA WaitEntry ==
  ASSUME IInv, OpWait
  PROVE  /\ OnlyEntry(current) /\ current' = current /\ ~BetweenChildren /\ BetweenChildren'
         /\ SameParents /\ DOMAIN registry' = DOMAIN registry
         /\ registry'[current].handles = handles /\ registry'[current].frames = Advanced
         /\ SameLife(current)
<1> DEFINE w == [parent |-> current, todo |-> registry[current].children,
                 child |-> NoTask, rets |-> <<>>]
<1>1. /\ current' = current /\ ~BetweenChildren /\ waits' = Append(waits, w)
      /\ registry' = SavedAs(registry, current, stack, Advanced, handles)
      /\ waits \in Seq(Activation)
  BY DEF OpWait, Fetch, Executing, IInv, TypeOK
<1>2. /\ OnlyEntry(current) /\ DOMAIN registry' = DOMAIN registry
      /\ registry'[current].handles = handles /\ registry'[current].frames = Advanced
      /\ SameLife(current)
  BY <1>1, Registry, SavedEntry DEF OnlyEntry, SameLife
<1>3. w.child = NoTask
  OBVIOUS
<1> HIDE DEF w
<1>4. SameParents /\ waits' # <<>> /\ waits'[Len(waits')] = w
  BY <1>1 DEF SameParents
<1>5. BetweenChildren'
  BY <1>3, <1>4 DEF BetweenChildren, Last
<1> QED
  BY <1>1, <1>2, <1>4, <1>5

\* SetWait keeps the parents of all activations.
LEMMA ParentsKept ==
  ASSUME IInv, waits # <<>>, NEW w, waits' = SetWait(w), w.parent = Wait.parent
  PROVE  SameParents /\ waits' # <<>> /\ Wait' = w
<1>1. /\ DOMAIN waits' = DOMAIN waits /\ waits'[Len(waits)] = w
      /\ \A k \in DOMAIN waits \ {Len(waits)} : waits'[k] = waits[k]
  BY WaitUpdates DEF IInv
<1>2. Wait = waits[Len(waits)]
  BY TopWait
<1>3. waits' # <<>> /\ Wait' = w
  BY AfterSet DEF IInv
<1> QED
  BY <1>1, <1>2, <1>3 DEF SameParents

LEMMA SkipEntry ==
  ASSUME IInv, WaitSkip
  PROVE  /\ AtItsChild /\ current' = current /\ BetweenChildren /\ BetweenChildren'
         /\ DOMAIN registry' = DOMAIN registry
         /\ \A t \in DOMAIN registry :
              /\ registry'[t].handles = registry[t].handles
              /\ registry'[t].frames = registry[t].frames /\ SameLife(t)
<1> DEFINE w == Collected([Wait EXCEPT !.todo = Tail(@)], Top(registry[Child].stack))
           entry == [registry[Child] EXCEPT !.stack = Rest(@)]
<1>1. /\ waits # <<>> /\ Wait.child = NoTask /\ Wait.todo # <<>> /\ AtChild /\ Completed(Child)
      /\ registry' = [registry EXCEPT ![Child].stack = Rest(@)] /\ waits' = SetWait(w)
      /\ current' = current
  BY DEF WaitSkip, AtChild, BetweenChildren, Wait
<1>2. Wait \in Activation /\ Child \in DOMAIN registry
  BY <1>1, TopWait, Activations DEF IInv
<1>3. w.parent = Wait.parent /\ w.child = NoTask
  BY <1>1, <1>2 DEF Activation, Collected
<1>4. registry' = [registry EXCEPT ![Child] = entry] /\ registry[Child] \in Task
  BY <1>1, <1>2, Registry
<1>5. /\ entry.handles = registry[Child].handles /\ entry.frames = registry[Child].frames
      /\ entry.children = registry[Child].children /\ entry.status = registry[Child].status
  BY <1>4 DEF Task
<1> HIDE DEF w, entry
<1>6. SameParents /\ waits' # <<>> /\ Wait' = w
  BY <1>1, <1>3, ParentsKept
<1>7. BetweenChildren /\ BetweenChildren'
  BY <1>1, <1>3, <1>6 DEF BetweenChildren, Wait
<1>8. /\ DOMAIN registry' = DOMAIN registry /\ OnlyEntry(Child) /\ registry'[Child] = entry
  BY <1>2, <1>4, Registry DEF OnlyEntry
<1>9. registry'[Child].status = "Completed"
  BY <1>1, <1>5, <1>8 DEF Completed
<1> QED
  BY <1>1, <1>5, <1>6, <1>7, <1>8, <1>9 DEF AtItsChild, OnlyEntry, SameLife

LEMMA EnterEntry ==
  ASSUME IInv, WaitEnter
  PROVE  /\ AtItsChild /\ current' = Child /\ BetweenChildren /\ ~BetweenChildren'
         /\ DOMAIN registry' = DOMAIN registry /\ Child \in DOMAIN registry
         /\ registry'[Child].handles = {} /\ handles' = registry[Child].handles
         /\ registry'[Child].frames = <<>> /\ frames' = registry[Child].frames
         /\ SameLife(Child)
<1> DEFINE w == [Wait EXCEPT !.todo = Tail(@), !.child = Child]
<1>1. /\ waits # <<>> /\ Wait.todo # <<>> /\ AtChild /\ BetweenChildren /\ ~Completed(Child)
      /\ Restore(registry, Child) /\ waits' = SetWait(w)
  BY DEF WaitEnter, AtChild, BetweenChildren, Wait
<1>2. Wait \in Activation /\ Child \in DOMAIN registry /\ Child \in Nat
  BY <1>1, TopWait, Activations DEF IInv, TaskId
<1>3. w.parent = Wait.parent /\ w.child = Child
  BY <1>2 DEF Activation
<1> HIDE DEF w
<1>4. SameParents /\ waits' # <<>> /\ Wait' = w
  BY <1>1, <1>3, ParentsKept
<1>5. ~BetweenChildren'
  BY <1>2, <1>3, <1>4, TaskConstants DEF BetweenChildren, Wait
<1>6. /\ current' = Child /\ handles' = registry[Child].handles
      /\ frames' = registry[Child].frames
      /\ registry' = SavedAs(registry, Child, <<>>, <<>>, {})
  BY <1>1, <1>2 DEF Restore
<1>7. /\ OnlyEntry(Child) /\ DOMAIN registry' = DOMAIN registry
      /\ registry'[Child].handles = {} /\ registry'[Child].frames = <<>> /\ SameLife(Child)
  BY <1>2, <1>6, Registry, SavedEntry DEF OnlyEntry, SameLife
<1> QED
  BY <1>1, <1>2, <1>4, <1>5, <1>6, <1>7 DEF AtItsChild

LEMMA LeaveEntry ==
  ASSUME IInv, WaitLeave
  PROVE  /\ InControl /\ BetweenChildren' /\ DOMAIN registry' = DOMAIN registry
         /\ registry'[current].handles = handles /\ registry'[current].frames = frames
         /\ registry'[current].status = "Completed"
         /\ registry'[current].children = registry[current].children
<1> DEFINE w == Collected([Wait EXCEPT !.child = NoTask], Top(stack))
           done == [registry EXCEPT ![Wait.child].status = "Completed"]
<1>1. /\ waits # <<>> /\ Wait.child # NoTask /\ waits' = SetWait(w) /\ current' = current
      /\ ~BetweenChildren
  BY DEF WaitLeave, ChildRunning, BetweenChildren, Wait
<1>2. /\ Wait \in Activation /\ Wait.child \in DOMAIN registry /\ current = Wait.child
      /\ IsRegistry(registry)
  BY <1>1, TopWait, Activations, Registry DEF IInv
<1>3. w.parent = Wait.parent /\ w.child = NoTask
  BY <1>2 DEF Activation, Collected
<1>4. registry' = SavedAs(done, current, Rest(stack), frames, handles)
  BY <1>2 DEF WaitLeave
<1>5. /\ IsRegistry(done) /\ DOMAIN done = DOMAIN registry
      /\ \A t \in DOMAIN registry \ {current} : done[t] = registry[t]
      /\ done[current].status = "Completed"
      /\ done[current].children = registry[current].children
  BY <1>2 DEF IsRegistry, Task, Status
<1> HIDE DEF w, done
<1>6. SameParents /\ waits' # <<>> /\ Wait' = w
  BY <1>1, <1>3, ParentsKept
<1>7. BetweenChildren'
  BY <1>3, <1>6 DEF BetweenChildren, Wait
<1>8. /\ OnlyEntry(current) /\ DOMAIN registry' = DOMAIN registry
      /\ registry'[current].handles = handles /\ registry'[current].frames = frames
      /\ registry'[current].status = "Completed"
      /\ registry'[current].children = registry[current].children
  BY <1>2, <1>4, <1>5, SavedEntry DEF OnlyEntry
<1> QED
  BY <1>1, <1>6, <1>7, <1>8 DEF InControl

LEMMA BackEntry ==
  ASSUME IInv, WaitFails \/ WaitDone
  PROVE  /\ Back /\ ~BetweenChildren' /\ DOMAIN registry' = DOMAIN registry
         /\ Wait.parent \in DOMAIN registry
         /\ registry'[Wait.parent].handles = {} /\ registry'[Wait.parent].frames = <<>>
         /\ SameLife(Wait.parent)
         /\ handles' = registry[Wait.parent].handles
<1>1. waits # <<>> /\ waits' = Front(waits)
  BY DEF WaitFails, WaitDone, ChildRunning, BetweenChildren
<1>2. Wait.parent \in DOMAIN registry /\ IsRegistry(registry)
  BY <1>1, TopWait, Registry
<1>3. /\ current' = Wait.parent /\ handles' = registry[Wait.parent].handles
      /\ registry' = SavedAs(registry, Wait.parent, <<>>, <<>>, {})
  BY <1>2 DEF WaitFails, WaitDone, Restore
<1>4. /\ OnlyEntry(Wait.parent) /\ DOMAIN registry' = DOMAIN registry
      /\ registry'[Wait.parent].handles = {} /\ registry'[Wait.parent].frames = <<>>
      /\ SameLife(Wait.parent)
  BY <1>2, <1>3, SavedEntry DEF OnlyEntry, SameLife
<1> QED
  BY <1>1, <1>2, <1>3, <1>4, AfterPop DEF Back

LEMMA OneEntry ==
  ASSUME IInv, [Next]_vars
  PROVE  Untouched \/ InControl \/ AtItsChild \/ Back
<1>1. CASE OpSpawn
  BY <1>1, SpawnEntry DEF InControl, SameParents
<1>2. CASE OpYield
  BY <1>2, YieldEntry DEF InControl, SameParents
<1>3. CASE OpWait
  BY <1>3, WaitEntry DEF InControl
<1>4. CASE WaitLoop
  BY <1>4, SkipEntry, EnterEntry, LeaveEntry, BackEntry DEF WaitLoop
<1>5. CASE \/ FetchFails \/ OpFails \/ OpData \/ OpCall \/ OpReturn \/ OpHalt \/ OpOpen
           \/ \E ip \in Targets : OpJump(ip)
           \/ \E h \in handles : OpClose(h)
           \/ HostPrepare \/ HostRun \/ RunReturns \/ UNCHANGED vars
  BY <1>5, Plain
<1> QED
  BY <1>1, <1>2, <1>3, <1>4, <1>5 DEF Next, Vm, Host, Opcode

-----------------------------------------------------------------------------
(* Waiting parents and completed tasks.                                    *)

\* Every waiting parent is older than the one on top.
LEMMA Older ==
  ASSUME IInv, waits # <<>>
  PROVE  /\ Wait.parent \in Nat
         /\ \A k \in DOMAIN waits : waits[k].parent \in Nat /\ waits[k].parent <= Wait.parent
         /\ \A k \in DOMAIN Front(waits) : waits[k].parent < Wait.parent
<1>1. /\ Wait = waits[Len(waits)] /\ Len(waits) \in DOMAIN waits
      /\ DOMAIN Front(waits) = DOMAIN waits \ {Len(waits)}
      /\ \A k \in DOMAIN waits : k <= Len(waits) /\ k \in Nat
  BY TopWait, WaitUpdates DEF IInv
<1>2. \A k \in DOMAIN waits : waits[k].parent \in Nat
  BY Registry DEF IInv, WaitChain
<1> QED
  BY <1>1, <1>2 DEF IInv, Ordered

\* A child is younger than every waiting parent.
LEMMA ChildYounger ==
  ASSUME IInv, AtChild
  PROVE  \A k \in DOMAIN waits : waits[k].parent # Child
<1>1. waits # <<>> /\ Wait.todo # <<>>
  BY DEF AtChild, BetweenChildren
<1>2. Child \in DOMAIN registry /\ registry[Child].parent = Wait.parent
  BY <1>1, TopWait
<1>3. Wait.parent \in Nat
  BY <1>1, Older
<1>4. Child # Root
  BY <1>2, <1>3, TaskConstants DEF IInv, TreeConsistent
<1>5. Wait.parent < Child /\ Child \in Nat
  BY <1>2, <1>4, ParentsExist DEF IInv
<1> QED
  BY <1>1, <1>3, <1>5, Older

\* The tasks that wait, and keep waiting, find their stack and frames as they left them:
\* whatever a step changes in the registry belongs to the task in control, to the child
\* that WaitChildren is at, or to the parent that it returns to.
THEOREM ParentsLeftAlone == Spec => ParentsUntouched
<1>1. ASSUME IInv, [Next]_vars, NEW k \in DOMAIN waits \cap DOMAIN waits'
      PROVE  LET p == waits[k].parent IN
             waits'[k].parent = p /\ registry'[p].stack = registry[p].stack
                                  /\ registry'[p].frames = registry[p].frames
  <2>1. waits[k].parent \in DOMAIN registry /\ waits # <<>>
    BY <1>1 DEF IInv, WaitChain
  <2>2. CASE Untouched
    BY <2>2 DEF Untouched
  <2>3. CASE InControl
    <3>1. waits[k].parent # current
      BY <1>1, <2>3, YoungestRuns, Registry, <2>1 DEF InControl
    <3> QED
      BY <2>1, <2>3, <3>1 DEF InControl, OnlyEntry, SameParents
  <2>4. CASE AtItsChild
    BY <1>1, <2>1, <2>4, ChildYounger DEF AtItsChild, OnlyEntry, SameParents
  <2>5. CASE Back
    <3>1. waits[k].parent # Wait.parent /\ waits'[k] = waits[k]
      BY <1>1, <2>1, <2>5, Older, WaitUpdates DEF Back, IInv
    <3> QED
      BY <2>1, <2>5, <3>1 DEF Back, OnlyEntry
  <2> QED
    BY <1>1, <2>2, <2>3, <2>4, <2>5, OneEntry
<1>2. IInv /\ [Next]_vars =>
        [\A k \in DOMAIN waits \cap DOMAIN waits' :
           LET p == waits[k].parent IN
           waits'[k].parent = p /\ registry'[p].stack = registry[p].stack
                                /\ registry'[p].frames = registry[p].frames]_vars
  BY <1>1
<1> QED
  BY <1>2, Invariant, PTL DEF Spec, ParentsUntouched

\* A task that has completed is neither in control nor a waiting parent, and the loop of
\* WaitChildren takes a value off its stack at most.
LEMMA DoneStays ==
  ASSUME IInv, [Next]_vars, NEW t \in DOMAIN registry, registry[t].status = "Completed"
  PROVE  /\ t \in DOMAIN registry' /\ registry'[t].status = "Completed"
         /\ registry'[t].frames = registry[t].frames
         /\ registry'[t].children = registry[t].children
         /\ current' = t => current = t
<1>1. CASE Untouched
  BY <1>1 DEF Untouched
<1>2. CASE InControl
  BY <1>2 DEF InControl, OnlyEntry, IInv, NotDone, Completed
<1>3. CASE AtItsChild
  BY <1>3 DEF AtItsChild, OnlyEntry, Completed
<1>4. CASE Back
  <2>1. t # Wait.parent
    BY <1>4, TopWait DEF Back, IInv, NotDone, Completed
  <2> QED
    BY <1>4, <2>1 DEF Back, OnlyEntry
<1> QED
  BY <1>1, <1>2, <1>3, <1>4, OneEntry

\* A second WaitChildren over it, a snapshot or an error above it leave a completed task
\* completed, and never in control again.
THEOREM CompletedStays == Spec => CompletedIsFinal
<1>1. IInv /\ [Next]_vars =>
        [\A t \in DOMAIN registry : Completed(t) =>
           /\ Completed(t)' /\ registry'[t].frames = registry[t].frames
           /\ registry'[t].children = registry[t].children
           /\ current' = t => current = t]_vars
  BY DoneStays DEF Completed
<1> QED
  BY <1>1, Invariant, PTL DEF Spec, CompletedIsFinal

-----------------------------------------------------------------------------
(* I/O handles.                                                            *)

\* A child that runs has no handle in its registry entry, so that none of those it had
\* comes back when it fails; Yield writes them there, and ends the run.
ChildEntryEmpty ==
  waits # <<>> /\ Wait.child # NoTask /\ running => registry[current].handles = {}
HandlesGivenOut == \A t \in DOMAIN registry : \A h \in HandlesOf(t) : h < nextHandle
Control == (failing => running) /\ (waits # <<>> => inRun)

HInv == IInv /\ HandlesGivenOut /\ HandlesOwnedOnce /\ ChildEntryEmpty /\ Control

\* What no task had before a step, no task has after it.
NoneGained ==
  /\ nextHandle' = nextHandle
  /\ \A t \in DOMAIN registry' :
       IF t \in DOMAIN registry THEN HandlesOf(t)' \subseteq HandlesOf(t) ELSE HandlesOf(t)' = {}

LEMMA InitHandles == ASSUME Init PROVE HInv
<1>1. registry[Root].handles = {} /\ DOMAIN registry = {Root} /\ handles = {}
  BY DEF Init, NewTask
<1>2. \A t \in DOMAIN registry : HandlesOf(t) = {}
  BY <1>1 DEF HandlesOf
<1>3. ChildEntryEmpty /\ Control
  BY DEF Init, ChildEntryEmpty, Control
<1> QED
  BY <1>2, <1>3, InitInv DEF HInv, HandlesGivenOut, HandlesOwnedOnce

\* The disjuncts of Next, as the lemmas above take them apart.
LEMMA Steps ==
  ASSUME [Next]_vars
  PROVE  \/ OpOpen \/ OpSpawn \/ OpYield \/ OpWait \/ WaitLoop
         \/ FetchFails \/ OpFails \/ OpData \/ OpCall \/ OpReturn \/ OpHalt
         \/ \E ip \in Targets : OpJump(ip)
         \/ \E h \in handles : OpClose(h)
         \/ HostPrepare \/ HostRun \/ RunReturns \/ UNCHANGED vars
BY DEF Next, Vm, Host, Opcode

\* The steps of one task: no table but the VM's changes, and it only loses.
LEMMA PlainHandles ==
  ASSUME HInv,
         \/ FetchFails \/ OpFails \/ OpData \/ OpCall \/ OpReturn \/ OpHalt
         \/ \E ip \in Targets : OpJump(ip)
         \/ \E h \in handles : OpClose(h)
         \/ HostPrepare \/ HostRun \/ RunReturns \/ UNCHANGED vars
  PROVE  NoneGained
<1>1. UNCHANGED <<registry, current, waits>>
  BY Plain DEF Untouched
<1>2. handles' \subseteq handles /\ nextHandle' = nextHandle
  BY DEF FetchFails, OpFails, OpData, OpCall, OpReturn, OpHalt, OpJump, OpClose,
         HostPrepare, HostRun, RunReturns, counters, control, machine, vars
<1>3. BetweenChildren' = BetweenChildren
  BY <1>1 DEF BetweenChildren
<1>4. ASSUME NEW t \in DOMAIN registry PROVE HandlesOf(t)' \subseteq HandlesOf(t)
  <2>1. CASE t # current \/ BetweenChildren
    BY <1>1, <1>3, <2>1 DEF HandlesOf, Parked
  <2>2. CASE ~(t # current \/ BetweenChildren)
    BY <1>1, <1>2, <1>3, <2>2 DEF HandlesOf, Parked
  <2> QED
    BY <2>1, <2>2
<1> QED
  BY <1>1, <1>2, <1>4 DEF NoneGained

\* FileOpen and the others take an id that no task has.
LEMMA OpenHandles ==
  ASSUME HInv, OpOpen
  PROVE  HandlesGivenOut' /\ HandlesOwnedOnce'
<1>1. UNCHANGED <<registry, current, waits>> /\ current \in DOMAIN registry
  BY Plain, Registry DEF Untouched, HInv
<1>2. /\ handles' = handles \cup {nextHandle} /\ nextHandle' = nextHandle + 1
      /\ nextHandle \in Nat /\ ~BetweenChildren
  BY DEF OpOpen, Fetch, Executing, HInv, IInv, TypeOK
<1>3. ~BetweenChildren'
  BY <1>1, <1>2 DEF BetweenChildren
<1>4. HandlesOf(current)' = HandlesOf(current) \cup {nextHandle}
  BY <1>1, <1>2, <1>3 DEF HandlesOf, Parked
<1>5. \A t \in DOMAIN registry : t # current => HandlesOf(t)' = HandlesOf(t)
  BY <1>1 DEF HandlesOf, Parked
<1>6. \A t \in DOMAIN registry : HandlesOf(t) \subseteq Nat
  BY Registry DEF HInv, HandlesOf, Task, TypeOK
<1>7. HandlesGivenOut /\ HandlesOwnedOnce
  BY DEF HInv
<1>8. HandlesGivenOut'
  BY <1>1, <1>2, <1>4, <1>5, <1>6, <1>7 DEF HandlesGivenOut
<1>9. \A t \in DOMAIN registry : nextHandle \notin HandlesOf(t)
  BY <1>2, <1>6, <1>7 DEF HandlesGivenOut
<1>10. HandlesOwnedOnce'
  BY <1>1, <1>4, <1>5, <1>7, <1>9 DEF HandlesOwnedOnce
<1> QED
  BY <1>8, <1>10

\* WaitChildren moves tables between the VM and the entries.
LEMMA SwitchHandles ==
  ASSUME HInv, OpSpawn \/ OpYield \/ OpWait \/ WaitLoop
  PROVE  NoneGained
<1>1. IInv /\ ChildEntryEmpty /\ Control /\ current \in DOMAIN registry
  BY Registry DEF HInv
<1>2. nextHandle' = nextHandle
  BY DEF OpSpawn, OpYield, OpWait, WaitLoop, WaitSkip, WaitEnter, WaitLeave, WaitFails,
         WaitDone, counters
<1>3. CASE OpSpawn
  <2>1. handles' = handles /\ waits' = waits /\ ~BetweenChildren /\ current' = current
    BY <1>1, <1>3, SpawnEntry DEF OpSpawn
  <2>2. ~BetweenChildren'
    BY <2>1 DEF BetweenChildren
  <2>3. current \in DOMAIN registry'
    BY <1>1, <1>3, SpawnEntry DEF OnlyEntry
  <2> QED
    BY <1>1, <1>2, <1>3, <2>1, <2>2, <2>3, SpawnEntry
    DEF NoneGained, HandlesOf, Parked, OnlyEntry
<1>4. CASE OpYield
  <2>1. handles' = handles /\ waits' = waits /\ ~BetweenChildren /\ current' = current
    BY <1>1, <1>4, YieldEntry DEF OpYield
  <2>2. ~BetweenChildren'
    BY <2>1 DEF BetweenChildren
  <2> QED
    BY <1>1, <1>2, <1>4, <2>1, <2>2, YieldEntry DEF NoneGained, HandlesOf, Parked, OnlyEntry
<1>5. CASE OpWait
  BY <1>1, <1>2, <1>5, WaitEntry DEF NoneGained, HandlesOf, Parked, OnlyEntry
<1>6. CASE WaitSkip
  BY <1>1, <1>2, <1>6, SkipEntry DEF NoneGained, HandlesOf, Parked
<1>7. CASE WaitEnter
  BY <1>1, <1>2, <1>7, EnterEntry DEF NoneGained, HandlesOf, Parked, OnlyEntry, AtItsChild
<1>8. CASE WaitLeave
  BY <1>1, <1>2, <1>8, LeaveEntry DEF NoneGained, HandlesOf, Parked, OnlyEntry, InControl
<1>9. CASE WaitDone
  <2>1. BetweenChildren
    BY <1>9 DEF WaitDone
  <2> QED
    BY <1>1, <1>2, <1>9, <2>1, BackEntry DEF NoneGained, HandlesOf, Parked, OnlyEntry, Back
<1>10. CASE WaitFails
  <2>1. registry[current].handles = {} /\ waits # <<>> /\ Wait.child # NoTask
    BY <1>1, <1>10 DEF ChildEntryEmpty, Control, WaitFails, ChildRunning
  <2>2. PICK p \in DOMAIN registry, c \in DOMAIN registry : p = Wait.parent /\ c = current
    BY <1>1, <2>1, TopWait
  <2>3. p # c
    <3>1. p = registry[c].parent /\ p \in Nat
      BY <1>1, <2>1, <2>2, TopWait, Older
    <3>2. c # Root
      BY <1>1, <3>1, TaskConstants DEF IInv, TreeConsistent
    <3>3. p < c /\ c \in Nat
      BY <1>1, <3>1, <3>2, ParentsExist DEF IInv
    <3> QED
      BY <3>1, <3>3
  <2>4. /\ \A t \in DOMAIN registry : t # p => registry'[t] = registry[t]
        /\ current' = p /\ ~BetweenChildren'
        /\ DOMAIN registry' = DOMAIN registry /\ handles' = registry[p].handles
    BY <1>1, <1>10, <2>2, BackEntry DEF Back, OnlyEntry
  <2>5. ASSUME NEW t \in DOMAIN registry PROVE HandlesOf(t)' \subseteq HandlesOf(t)
    <3>1. CASE t = p
      BY <2>2, <2>3, <2>4, <3>1 DEF HandlesOf, Parked
    <3>2. CASE t # p /\ t = c
      BY <2>1, <2>2, <2>4, <3>2 DEF HandlesOf, Parked
    <3>3. CASE t # p /\ t # c
      BY <2>2, <2>4, <3>3 DEF HandlesOf, Parked
    <3> QED
      BY <3>1, <3>2, <3>3
  <2> QED
    BY <1>2, <2>4, <2>5 DEF NoneGained
<1> QED
  BY <1>3, <1>4, <1>5, <1>6, <1>7, <1>8, <1>9, <1>10 DEF WaitLoop

LEMMA EntryKept == ASSUME HInv, [Next]_vars PROVE ChildEntryEmpty'
<1>1. IInv /\ ChildEntryEmpty /\ current \in DOMAIN registry
  BY Registry DEF HInv
<1>2. CASE OpSpawn
  <2>1. UNCHANGED <<running, waits, current>>
    BY <1>2 DEF OpSpawn
  <2> QED
    BY <1>1, <1>2, <2>1, SpawnEntry DEF ChildEntryEmpty, Wait
<1>3. CASE OpYield
  <2>1. UNCHANGED <<waits, current>> /\ (running' => running)
    BY <1>3 DEF OpYield, Fetch, Executing
  <2> QED
    BY <1>1, <1>3, <2>1, YieldEntry DEF ChildEntryEmpty, Wait
<1>4. CASE OpWait \/ WaitSkip \/ WaitLeave
  BY <1>1, <1>4, WaitEntry, SkipEntry, LeaveEntry DEF ChildEntryEmpty, BetweenChildren, Wait
<1>5. CASE WaitEnter
  BY <1>1, <1>5, EnterEntry DEF ChildEntryEmpty
<1>6. CASE WaitFails \/ WaitDone
  BY <1>1, <1>6, BackEntry DEF ChildEntryEmpty, Back
<1>7. CASE \/ OpOpen \/ FetchFails \/ OpFails \/ OpData \/ OpCall \/ OpReturn \/ OpHalt
           \/ \E ip \in Targets : OpJump(ip)
           \/ \E h \in handles : OpClose(h)
           \/ HostPrepare \/ HostRun \/ RunReturns \/ UNCHANGED vars
  <2>1. UNCHANGED <<registry, current, waits>>
    BY <1>7, Plain DEF Untouched
  <2>2. running' => running \/ waits = <<>>
    BY <1>7 DEF OpOpen, FetchFails, OpFails, OpData, OpCall, OpReturn, OpHalt, OpJump, OpClose,
                HostPrepare, HostRun, RunReturns, counters, control, machine, vars,
                Fetch, Executing, HInv, Control
  <2> QED
    BY <1>1, <2>1, <2>2 DEF ChildEntryEmpty, Wait
<1> QED
  BY <1>2, <1>3, <1>4, <1>5, <1>6, <1>7, Steps DEF WaitLoop

LEMMA ControlKept == ASSUME HInv, [Next]_vars PROVE Control'
<1>1. Control /\ waits \in Seq(Activation)
  BY DEF HInv, IInv, TypeOK
<1>2. CASE OpSpawn \/ OpYield \/ OpWait
  BY <1>1, <1>2 DEF OpSpawn, OpYield, OpWait, Control, Fetch, Executing
<1>3. CASE WaitLoop
  <2>1. UNCHANGED <<inRun, failing>> /\ waits # <<>>
    BY <1>3 DEF WaitLoop, WaitSkip, WaitEnter, WaitLeave, WaitFails, WaitDone, AtChild,
                ChildRunning, BetweenChildren
  <2>2. running' = TRUE \/ running' = running
    BY <1>3 DEF WaitLoop, WaitSkip, WaitEnter, WaitLeave, WaitFails, WaitDone, machine
  <2> QED
    BY <1>1, <2>1, <2>2 DEF Control
<1>4. CASE \/ OpOpen \/ FetchFails \/ OpFails \/ OpData \/ OpCall \/ OpReturn \/ OpHalt
           \/ \E ip \in Targets : OpJump(ip)
           \/ \E h \in handles : OpClose(h)
           \/ HostPrepare \/ HostRun \/ RunReturns \/ UNCHANGED vars
  BY <1>1, <1>4 DEF OpOpen, FetchFails, OpFails, OpData, OpCall, OpReturn, OpHalt, OpJump,
     OpClose, HostPrepare, HostRun, RunReturns, counters, control, machine, vars,
     Fetch, Executing, Control
<1> QED
  BY <1>2, <1>3, <1>4, Steps

LEMMA HandlesStep == HInv /\ [Next]_vars => HInv'
<1> SUFFICES ASSUME HInv, [Next]_vars PROVE HInv'
  OBVIOUS
<1>1. IInv' /\ ChildEntryEmpty' /\ Control'
  BY InvariantStep, EntryKept, ControlKept DEF HInv
<1>2. HandlesGivenOut' /\ HandlesOwnedOnce'
  <2>1. CASE OpOpen
    BY <2>1, OpenHandles
  <2>2. CASE NoneGained
    <3>1. HandlesGivenOut /\ HandlesOwnedOnce
      BY DEF HInv
    <3>2. HandlesGivenOut'
      BY <2>2, <3>1 DEF NoneGained, HandlesGivenOut
    <3>3. HandlesOwnedOnce'
      BY <2>2, <3>1 DEF NoneGained, HandlesOwnedOnce
    <3> QED
      BY <3>2, <3>3
  <2> QED
    BY <2>1, <2>2, PlainHandles, SwitchHandles, Steps
<1> QED
  BY <1>1, <1>2 DEF HInv

LEMMA HandlesInvariant == Spec => []HInv
<1>1. Init => HInv
  BY InitHandles
<1> QED
  BY <1>1, HandlesStep, PTL DEF Spec

\* No handle is in the tables of two tasks, whatever is saved, restored, copied by Yield
\* or dropped with a child that failed: a task cannot close or read what another opened.
THEOREM HandlesHaveOneOwner == Spec => []HandlesOwnedOnce
<1>1. HInv => HandlesOwnedOnce
  BY DEF HInv
<1> QED
  BY <1>1, HandlesInvariant, PTL

-----------------------------------------------------------------------------
(* Where a task's frames go.                                               *)

FramesKept(t) == FramesOf(t) # <<>> => FramesOf(t)' # <<>>

\* The steps that change no entry move the pointer of the running frame, or push one.
LEMMA PlainFrames ==
  ASSUME IInv, ~OpReturn,
         \/ FetchFails \/ OpFails \/ OpData \/ OpCall \/ OpReturn \/ OpHalt \/ OpOpen
         \/ \E ip \in Targets : OpJump(ip)
         \/ \E h \in handles : OpClose(h)
         \/ HostPrepare \/ HostRun \/ RunReturns \/ UNCHANGED vars,
         NEW t \in DOMAIN registry
  PROVE  FramesKept(t)
<1>1. UNCHANGED <<registry, current, waits>>
  BY Plain DEF Untouched
<1>2. frames \in Seq(Nat)
  BY DEF IInv, TypeOK
<1>3. \A ip : frames # <<>> => SetIp(ip) # <<>>
  BY <1>2 DEF SetIp
<1>4. frames # <<>> => frames' # <<>>
  BY <1>2, <1>3 DEF FetchFails, OpFails, OpData, OpCall, OpHalt, OpOpen, OpJump, OpClose,
       HostPrepare, HostRun, RunReturns, machine, vars, Advanced
<1>5. BetweenChildren' = BetweenChildren
  BY <1>1 DEF BetweenChildren
<1>6. CASE t # current \/ BetweenChildren
  BY <1>1, <1>5, <1>6 DEF FramesKept, FramesOf, Parked
<1>7. CASE ~(t # current \/ BetweenChildren)
  BY <1>1, <1>4, <1>5, <1>7 DEF FramesKept, FramesOf, Parked
<1> QED
  BY <1>6, <1>7

\* Spawn, Yield and WaitChildren leave a task its frames, and the loop of WaitChildren
\* moves them between the VM and the entry it saves or restores.
LEMMA SwitchFrames ==
  ASSUME IInv, NEW t \in DOMAIN registry,
         \/ OpSpawn \/ OpYield \/ OpWait \/ WaitSkip \/ WaitEnter \/ WaitLeave \/ WaitDone
  PROVE  FramesKept(t)
<1>1. frames \in Seq(Nat) /\ current \in DOMAIN registry
  BY DEF IInv, TypeOK
<1>2. frames # <<>> => Advanced # <<>>
  BY <1>1 DEF Advanced, SetIp
<1>3. CASE OpSpawn \/ OpYield
  <2>1. /\ frames' = Advanced /\ frames # <<>>
        /\ ~BetweenChildren /\ OnlyEntry(current) /\ current' = current /\ waits' = waits
    BY <1>3, SpawnEntry, YieldEntry DEF OpSpawn, OpYield, Fetch, Fetchable
  <2>2. ~BetweenChildren'
    BY <2>1 DEF BetweenChildren
  <2> QED
    BY <1>2, <2>1, <2>2 DEF FramesKept, FramesOf, Parked, OnlyEntry
<1>4. CASE OpWait
  <2>1. frames # <<>>
    BY <1>4 DEF OpWait, Fetch, Fetchable
  <2> QED
    BY <1>2, <1>4, <2>1, WaitEntry DEF FramesKept, FramesOf, Parked, OnlyEntry
<1>5. CASE WaitSkip
  BY <1>5, SkipEntry DEF FramesKept, FramesOf, Parked
<1>6. CASE WaitEnter
  BY <1>6, EnterEntry DEF FramesKept, FramesOf, Parked, AtItsChild, OnlyEntry
<1>7. CASE WaitLeave
  BY <1>7, LeaveEntry DEF FramesKept, FramesOf, Parked, InControl, OnlyEntry
<1>8. CASE WaitDone
  <2>1. frames' = registry[Wait.parent].frames /\ BetweenChildren
    BY <1>8 DEF WaitDone
  <2> QED
    BY <1>8, <2>1, BackEntry DEF FramesKept, FramesOf, Parked, Back, OnlyEntry
<1> QED
  BY <1>3, <1>4, <1>5, <1>6, <1>7, <1>8

\* A task runs out of frames by its own Return or by the failure of a child of a parent
\* that waits: no switch of tasks, Spawn, Yield or call of the host drops them.
THEOREM OnlyErrorsLoseFrames == Spec => FramesLostOnlyByError
<1>1. ASSUME IInv, [Next]_vars, NEW t \in DOMAIN registry,
             FramesOf(t) # <<>>, FramesOf(t)' = <<>>
      PROVE  WaitFails \/ (t = current /\ OpReturn)
  <2>1. CASE OpReturn
    <3>1. UNCHANGED <<registry, current, waits>>
      BY <2>1, Plain DEF Untouched
    <3>2. BetweenChildren' = BetweenChildren
      BY <3>1 DEF BetweenChildren
    <3>3. t = current
      BY <1>1, <3>1, <3>2 DEF FramesOf, Parked
    <3> QED
      BY <2>1, <3>3
  <2>2. CASE ~OpReturn /\ ~WaitFails
    <3>1. FramesKept(t)
      BY <1>1, <2>2, Steps, PlainFrames, SwitchFrames DEF WaitLoop
    <3> QED
      BY <1>1, <3>1 DEF FramesKept
  <2> QED
    BY <2>1, <2>2
<1>2. IInv /\ [Next]_vars =>
        [\A t \in DOMAIN registry :
           FramesOf(t) # <<>> /\ FramesOf(t)' = <<>> =>
             WaitFails \/ (t = current /\ OpReturn)]_vars
  BY <1>1
<1> QED
  BY <1>2, Invariant, PTL DEF Spec, FramesLostOnlyByError

-----------------------------------------------------------------------------
(* Up the tree.  Line is a recursive function, so that what follows needs  *)
(* induction: every non-empty set of tasks has a least one.                *)

LEMMA Least ==
  ASSUME NEW S, S \subseteq Nat, S # {}
  PROVE  \E m \in S : \A k \in S : m <= k
<1>1. PICK m \in S : \A k \in S : <<k, m>> \notin OpToRel(<, Nat)
  BY NatLessThanWellFounded, WFMin
<1>2. ASSUME NEW k \in S PROVE m <= k
  <2>1. <<k, m>> \notin {ss \in Nat \X Nat : ss[1] < ss[2]}
    BY <1>1 DEF OpToRel
  <2>2. k \in Nat /\ m \in Nat
    OBVIOUS
  <2> QED
    BY <2>1, <2>2
<1> QED
  BY <1>2

\* A function whose values depend on those of smaller numbers exists.
LEMMA LineExists ==
  ASSUME NEW N \in Nat, NEW par, \A u \in 0..N - 1 : par[u] \in 0..N - 1 => par[u] < u
  PROVE  \E f : f = [u \in 0..N - 1 |->
                       {u} \cup IF par[u] \in 0..N - 1 THEN f[par[u]] ELSE {}]
<1> DEFINE Up(f, u) == {u} \cup IF par[u] \in 0..N - 1 THEN f[par[u]] ELSE {}
           Goes(n) == \E f : f = [u \in 0..n - 1 |-> Up(f, u)]
           Bad == {n \in 0..N : ~Goes(n)}
<1>1. Goes(0)
  <2> DEFINE f == [u \in 0..0 - 1 |-> {}]
  <2>1. f = [u \in 0..0 - 1 |-> Up(f, u)]
    OBVIOUS
  <2> QED
    BY <2>1
<1>2. ASSUME NEW n \in 0..N, n # 0, Goes(n - 1) PROVE Goes(n)
  <2>1. PICK f : f = [u \in 0..(n - 1) - 1 |-> Up(f, u)]
    BY <1>2
  <2> DEFINE g == [u \in 0..n - 1 |-> IF u = n - 1 THEN Up(f, u) ELSE f[u]]
  <2>2. ASSUME NEW u \in 0..n - 1 PROVE Up(g, u) = Up(f, u)
    <3>1. par[u] \in 0..N - 1 => par[u] \in 0..(n - 1) - 1 /\ par[u] \in 0..n - 1 /\ par[u] # n - 1
      OBVIOUS
    <3>2. par[u] \in 0..N - 1 => g[par[u]] = f[par[u]]
      BY <3>1
    <3> HIDE DEF g
    <3> QED
      BY <3>2
  <2>3. ASSUME NEW u \in 0..n - 1 PROVE g[u] = Up(f, u)
    <3>1. CASE u = n - 1
      BY <3>1
    <3>2. CASE u # n - 1
      <4>1. u \in 0..(n - 1) - 1 /\ g[u] = f[u]
        BY <3>2
      <4> HIDE DEF Up, g
      <4> QED
        BY <2>1, <4>1
    <3> QED
      BY <3>1, <3>2
  <2>4. g = [u \in 0..n - 1 |-> g[u]]
    OBVIOUS
  <2> HIDE DEF g, Up
  <2>5. g = [u \in 0..n - 1 |-> Up(g, u)]
    BY <2>2, <2>3, <2>4
  <2> QED
    BY <2>5
<1> HIDE DEF Goes
<1>3. Bad = {}
  <2> SUFFICES ASSUME Bad # {} PROVE FALSE
    OBVIOUS
  <2>1. PICK m \in Bad : \A k \in Bad : m <= k
    <3>1. Bad \subseteq Nat
      OBVIOUS
    <3> HIDE DEF Bad
    <3> QED
      BY <3>1, Least
  <2>2. m # 0 /\ m \in 0..N /\ m - 1 \in 0..N /\ m - 1 \notin Bad
    BY <1>1, <2>1
  <2> QED
    BY <1>2, <2>2
<1>4. Goes(N)
  BY <1>3
<1> QED
  BY <1>4 DEF Goes

\* What Line says: a task, and the line of its parent.
LEMMA LineUp ==
  IInv => \A t \in DOMAIN registry :
            Line(t) = {t} \cup IF t = Root THEN {} ELSE Line(registry[t].parent)
<1> SUFFICES ASSUME IInv
             PROVE  \A t \in DOMAIN registry :
                      Line(t) = {t} \cup IF t = Root THEN {} ELSE Line(registry[t].parent)
  OBVIOUS
<1> DEFINE D == DOMAIN registry
           par == [u \in D |-> registry[u].parent]
           Is(f) == f = [u \in D |-> {u} \cup IF registry[u].parent \in D
                                              THEN f[registry[u].parent] ELSE {}]
<1>1. D = 0..nextTask - 1 /\ nextTask \in Nat /\ Root \in D
  BY ParentsExist DEF IInv, TypeOK, TreeConsistent, TaskId
<1>2. \A u \in D : (registry[u].parent \in D <=> u # Root)
                   /\ (registry[u].parent \in D => registry[u].parent < u)
  BY <1>1, ParentsExist, TaskConstants DEF IInv, TreeConsistent
<1>3. \E f : f = [u \in D |-> {u} \cup IF par[u] \in D THEN f[par[u]] ELSE {}]
  <2>1. \A u \in 0..nextTask - 1 : par[u] \in 0..nextTask - 1 => par[u] < u
    BY <1>1, <1>2
  <2> HIDE DEF par
  <2>2. PICK f : f = [u \in 0..nextTask - 1 |->
                        {u} \cup IF par[u] \in 0..nextTask - 1 THEN f[par[u]] ELSE {}]
    BY <1>1, <2>1, LineExists
  <2> QED
    BY <1>1, <2>2
<1>4. \E f : Is(f)
  <2>1. PICK f : f = [u \in D |-> {u} \cup IF par[u] \in D THEN f[par[u]] ELSE {}]
    BY <1>3
  <2>2. \A u \in D : par[u] = registry[u].parent
    OBVIOUS
  <2> HIDE DEF par
  <2>3. f = [u \in D |-> {u} \cup IF registry[u].parent \in D
                                  THEN f[registry[u].parent] ELSE {}]
    BY <2>1, <2>2
  <2> QED
    BY <2>3
<1> DEFINE up == CHOOSE f : Is(f)
<1>5. Is(up)
  BY <1>4
<1>6. \A t : Line(t) = up[t]
  BY DEF Line
<1> HIDE DEF up
<1>7. \A u \in D : up[u] = {u} \cup IF registry[u].parent \in D
                                    THEN up[registry[u].parent] ELSE {}
  BY <1>5
<1> QED
  BY <1>2, <1>6, <1>7

\* What follows of it, for every line.
LineFact(t) ==
  /\ t \in Line(t) /\ Line(t) \subseteq 0..t /\ Line(t) \subseteq DOMAIN registry
  /\ IsFiniteSet(Line(t)) /\ Depth(t) \in Nat
  /\ Depth(t) = IF t = Root THEN 1 ELSE Depth(registry[t].parent) + 1
  /\ \A a \in Line(t) : Line(a) \subseteq Line(t)

LEMMA LineFacts == IInv => \A t \in DOMAIN registry : LineFact(t)
<1> SUFFICES ASSUME IInv PROVE \A t \in DOMAIN registry : LineFact(t)
  OBVIOUS
<1> DEFINE Bad == {t \in DOMAIN registry : ~LineFact(t)}
<1>1. DOMAIN registry \subseteq Nat /\ Root \in DOMAIN registry
  BY Registry, ParentsExist DEF IInv
<1>2. ASSUME NEW t \in DOMAIN registry, t # Root,
             registry[t].parent < t => LineFact(registry[t].parent)
      PROVE  LineFact(t)
  <2> DEFINE p == registry[t].parent
  <2>1. p \in DOMAIN registry /\ p < t /\ p \in Nat /\ t \in Nat
    BY <1>2, ParentsExist DEF IInv
  <2>2. LineFact(p)
    BY <1>2, <2>1
  <2>3. Line(t) = {t} \cup Line(p)
    BY <1>2, LineUp
  <2> HIDE DEF p
  <2>4. t \notin Line(p) /\ IsFiniteSet(Line(p))
    BY <2>1, <2>2 DEF LineFact
  <2>5. Line(t) = Line(p) \cup {t}
    BY <2>3
  <2>6. IsFiniteSet(Line(t)) /\ Cardinality(Line(t)) = Cardinality(Line(p)) + 1
    BY <2>4, <2>5, FS_AddElement
  <2>7. Depth(t) = Depth(p) + 1 /\ Depth(t) \in Nat
    BY <2>2, <2>6 DEF LineFact, Depth
  <2>8. t \in Line(t) /\ Line(t) \subseteq 0..t /\ Line(t) \subseteq DOMAIN registry
    BY <2>1, <2>2, <2>3 DEF LineFact
  <2>9. \A a \in Line(t) : Line(a) \subseteq Line(t)
    BY <2>2, <2>3 DEF LineFact
  <2> QED
    BY <1>2, <2>6, <2>7, <2>8, <2>9 DEF LineFact, p
<1>3. LineFact(Root)
  <2>1. Line(Root) = {Root}
    BY <1>1, LineUp
  <2>2. IsFiniteSet(Line(Root)) /\ Cardinality(Line(Root)) = 1
    BY <2>1, FS_Singleton
  <2> QED
    BY <1>1, <2>1, <2>2 DEF LineFact, Depth, Root
<1>4. Bad = {}
  <2> SUFFICES ASSUME Bad # {} PROVE FALSE
    OBVIOUS
  <2>1. PICK m \in Bad : \A k \in Bad : m <= k
    <3>1. Bad \subseteq Nat
      BY <1>1
    <3> HIDE DEF Bad
    <3> QED
      BY <3>1, Least
  <2>2. m # Root /\ m \in DOMAIN registry /\ ~LineFact(m)
    BY <1>3, <2>1
  <2>3. registry[m].parent \in DOMAIN registry /\ registry[m].parent < m
        /\ m \in Nat /\ registry[m].parent \in Nat
    BY <2>2, ParentsExist DEF IInv
  <2>4. registry[m].parent \notin Bad
    BY <2>1, <2>3
  <2>5. LineFact(registry[m].parent)
    BY <2>3, <2>4
  <2> QED
    BY <1>2, <2>2, <2>5
<1> QED
  BY <1>4

\* LineUp with the parent named.
LEMMA LineAbove ==
  IInv => \A t \in DOMAIN registry : \A p : p = registry[t].parent =>
            Line(t) = {t} \cup IF t = Root THEN {} ELSE Line(p)
BY LineUp

\* No step changes a task's parent, so that lines stay.
LEMMA LinesStay ==
  ASSUME IInv, IInv', [Next]_vars
  PROVE  \A t \in DOMAIN registry :
           /\ t \in DOMAIN registry' /\ registry'[t].parent = registry[t].parent
           /\ Line(t)' = Line(t)
<1>1. \A t \in DOMAIN registry :
        t \in DOMAIN registry' /\ registry'[t].parent = registry[t].parent
  <2>1. CASE Next
    <3>1. AbstractNext
      BY <2>1, AbstractStep
    <3>2. \A t \in DOMAIN Parents : t \in DOMAIN Parents' /\ Parents'[t] = Parents[t]
      BY <3>1 DEF AbstractNext
    <3> QED
      BY <3>2 DEF Parents
  <2>2. CASE UNCHANGED vars
    BY <2>2 DEF vars
  <2> QED
    BY <2>1, <2>2
<1>2. \A t \in DOMAIN registry :
        Line(t) = {t} \cup IF t = Root THEN {} ELSE Line(registry[t].parent)
  BY LineUp
<1>3. \A t \in DOMAIN registry' : \A p : p = registry'[t].parent =>
        Line(t)' = {t} \cup IF t = Root THEN {} ELSE Line(p)'
  <2>1. IInv' => (\A t \in DOMAIN registry : \A p : p = registry[t].parent =>
                    Line(t) = {t} \cup IF t = Root THEN {} ELSE Line(p))'
    BY LineAbove, PTL
  <2> QED
    BY <2>1
<1> DEFINE Bad == {t \in DOMAIN registry : Line(t)' # Line(t)}
<1>4. Bad = {}
  <2> SUFFICES ASSUME Bad # {} PROVE FALSE
    OBVIOUS
  <2>1. PICK m \in Bad : \A k \in Bad : m <= k
    <3>1. Bad \subseteq Nat
      BY Registry
    <3> HIDE DEF Bad
    <3> QED
      BY <3>1, Least
  <2>2. m \in DOMAIN registry /\ Line(m)' # Line(m)
    BY <2>1
  <2>3. m # Root
    BY <1>1, <1>2, <1>3, <2>2
  <2>4. PICK p \in DOMAIN registry : p = registry[m].parent /\ p < m /\ p \in Nat /\ m \in Nat
    BY <2>2, <2>3, ParentsExist DEF IInv
  <2>5. Line(p)' = Line(p)
    BY <2>1, <2>4
  <2>6. Line(m) = {m} \cup Line(p)
    BY <1>2, <2>2, <2>3, <2>4
  <2>7. m \in DOMAIN registry' /\ p = registry'[m].parent
    BY <1>1, <2>2, <2>4
  <2>8. Line(m)' = {m} \cup Line(p)'
    BY <1>3, <2>3, <2>7, Zenon
  <2> QED
    BY <2>2, <2>5, <2>6, <2>8
<1> QED
  BY <1>1, <1>4

-----------------------------------------------------------------------------
(* The limit of Spawn bounds the tree and the Rust stack.                  *)

\* Only Spawn registers a task.
LEMMA NewTasks ==
  ASSUME IInv, [Next]_vars, NEW t \in DOMAIN registry' \ DOMAIN registry
  PROVE  OpSpawn /\ ~TooDeep /\ registry'[t] = NewChild
<1>1. CASE OpSpawn
  BY <1>1, SpawnEntry
<1>2. CASE OpYield \/ OpWait \/ WaitLoop
  BY <1>2, YieldEntry, WaitEntry, SkipEntry, EnterEntry, LeaveEntry, BackEntry DEF WaitLoop
<1>3. CASE \/ FetchFails \/ OpFails \/ OpData \/ OpCall \/ OpReturn \/ OpHalt \/ OpOpen
           \/ \E ip \in Targets : OpJump(ip)
           \/ \E h \in handles : OpClose(h)
           \/ HostPrepare \/ HostRun \/ RunReturns \/ UNCHANGED vars
  BY <1>3, Plain DEF Untouched
<1> QED
  BY <1>1, <1>2, <1>3, Steps

\* The k-th activation from the bottom is of a task k deep.
LEMMA WaitsDepth == IInv => \A k \in DOMAIN waits : Depth(waits[k].parent) = k
<1> SUFFICES ASSUME IInv PROVE \A k \in DOMAIN waits : Depth(waits[k].parent) = k
  OBVIOUS
<1> DEFINE Bad == {k \in DOMAIN waits : Depth(waits[k].parent) # k}
<1>1. DOMAIN waits = 1..Len(waits) /\ Len(waits) \in Nat
  BY DEF IInv, TypeOK
<1>2. Bad = {}
  <2> SUFFICES ASSUME Bad # {} PROVE FALSE
    OBVIOUS
  <2>1. PICK m \in Bad : \A k \in Bad : m <= k
    <3>1. Bad \subseteq Nat
      BY <1>1
    <3> HIDE DEF Bad
    <3> QED
      BY <3>1, Least
  <2>2. m \in DOMAIN waits /\ Depth(waits[m].parent) # m
    BY <2>1
  <2>3. CASE m = 1
    BY <1>1, <2>2, <2>3, LineFacts DEF IInv, WaitChain, LineFact
  <2>4. CASE m # 1
    <3>1. m - 1 \in DOMAIN waits /\ m - 1 < Len(waits)
      BY <1>1, <2>2, <2>4
    <3>2. Depth(waits[m - 1].parent) = m - 1
      BY <1>1, <2>1, <3>1
    <3>3. waits[m - 1].child = waits[m].parent
      BY <1>1, <2>2, <3>1 DEF IInv, WaitChain
    <3>4. waits[m].parent \in DOMAIN registry /\ waits[m].parent # NoTask
      BY <2>2, Registry, TaskConstants DEF IInv, WaitChain
    <3>5. registry[waits[m].parent].parent = waits[m - 1].parent
      BY <3>1, <3>3, <3>4 DEF IInv, WaitChain
    <3>6. waits[m].parent # Root
      <4>1. waits[m - 1].parent \in DOMAIN registry
        BY <3>1 DEF IInv, WaitChain
      <4>2. waits[m - 1].parent # NoTask /\ registry[Root].parent = NoTask
        BY <4>1, Registry, TaskConstants DEF IInv, TreeConsistent
      <4> QED
        BY <3>5, <4>2
    <3>7. Depth(waits[m].parent) = Depth(waits[m - 1].parent) + 1
      BY <3>4, <3>5, <3>6, LineFacts DEF LineFact
    <3> QED
      BY <1>1, <2>2, <3>2, <3>7
  <2> QED
    BY <2>3, <2>4
<1> QED
  BY <1>2

LEMMA DepthAbove ==
  IInv => \A u \in DOMAIN registry : \A p : p = registry[u].parent =>
            Depth(u) = IF u = Root THEN 1 ELSE Depth(p) + 1
BY LineFacts DEF LineFact

NoneTooDeep == \A t \in DOMAIN registry : Depth(t) <= MaxDepth

LEMMA DepthStep ==
  ASSUME IInv, IInv', NoneTooDeep, [Next]_vars
  PROVE  NoneTooDeep'
<1>1. ASSUME NEW t \in DOMAIN registry PROVE Depth(t)' <= MaxDepth
  BY <1>1, LinesStay DEF NoneTooDeep, Depth
<1>2. ASSUME NEW t \in DOMAIN registry' \ DOMAIN registry PROVE Depth(t)' <= MaxDepth
  <2>1. ~TooDeep /\ registry'[t] = NewChild
    BY <1>2, NewTasks
  <2>2. PICK c \in DOMAIN registry : c = current
    BY Registry
  <2>3. registry'[t].parent = c /\ c \in DOMAIN registry'
    BY <2>1, <2>2, LinesStay DEF NewChild, NewTask
  <2>4. Depth(c) < MaxDepth /\ Depth(c) \in Nat /\ MaxDepth \in Nat
    BY <2>1, <2>2, LineFacts, TaskConstants DEF TooDeep, LineFact
  <2>5. Depth(c)' = Depth(c)
    BY <2>2, LinesStay DEF Depth
  <2>6. t # Root
    BY <1>2, ParentsExist DEF IInv
  <2>7. IInv' => (\A u \in DOMAIN registry : \A p : p = registry[u].parent =>
                    Depth(u) = IF u = Root THEN 1 ELSE Depth(p) + 1)'
    BY DepthAbove, PTL
  <2>8. Depth(t)' = Depth(c)' + 1
    BY <1>2, <2>3, <2>6, <2>7, Zenon
  <2> QED
    BY <2>4, <2>5, <2>8
<1> QED
  BY <1>1, <1>2 DEF NoneTooDeep

\* Spawn tests the limit before there is a child, and this alone bounds the depth of every
\* task and, through the chain of activations, the recursion of run() into itself.
THEOREM DepthIsBounded == ASSUME MaxDepth > 0 PROVE Spec => []DepthBounded
<1>1. Init => NoneTooDeep
  <2> SUFFICES ASSUME Init PROVE NoneTooDeep
    OBVIOUS
  <2>1. DOMAIN registry = {Root}
    BY DEF Init
  <2>2. Depth(Root) = 1
    BY <2>1, InitInv, LineFacts DEF LineFact
  <2> QED
    BY <2>1, <2>2, TaskConstants DEF NoneTooDeep
<1>2. IInv /\ NoneTooDeep => DepthBounded
  <2> SUFFICES ASSUME IInv, NoneTooDeep PROVE Len(waits) <= MaxDepth
    BY DEF DepthBounded, NoneTooDeep
  <2>1. Len(waits) \in Nat /\ DOMAIN waits = 1..Len(waits) /\ MaxDepth \in Nat
    BY TaskConstants DEF IInv, TypeOK
  <2>2. CASE Len(waits) = 0
    BY <2>1, <2>2
  <2>3. CASE Len(waits) # 0
    <3>1. Len(waits) \in DOMAIN waits
      BY <2>1, <2>3
    <3> QED
      BY <3>1, WaitsDepth DEF NoneTooDeep, IInv, WaitChain
  <2> QED
    BY <2>2, <2>3
<1>3. IInv /\ IInv' /\ NoneTooDeep /\ [Next]_vars => NoneTooDeep'
  BY DepthStep
<1> QED
  BY <1>1, <1>2, <1>3, Invariant, PTL DEF Spec

-----------------------------------------------------------------------------
(* Whose values are on whose stack.                                        *)

LEMMA Parts ==
  ASSUME NEW S, NEW s \in Seq(S)
  PROVE  /\ Elems(Rest(s)) \subseteq Elems(s)
         /\ \A n \in 0..Len(s) : Elems(SubSeq(s, 1, Len(s) - n)) \subseteq Elems(s)
         /\ Top(s) = Null \/ Top(s) \in Elems(s)
         /\ \A x : Elems(Append(s, x)) \subseteq Elems(s) \cup {x}
         /\ \A u \in Seq(S) : Elems(s \o u) \subseteq Elems(s) \cup Elems(u)
<1>1. ASSUME NEW n \in 0..Len(s) PROVE Elems(SubSeq(s, 1, Len(s) - n)) \subseteq Elems(s)
  BY DEF Elems
<1>2. Elems(Rest(s)) \subseteq Elems(s) /\ (Top(s) = Null \/ Top(s) \in Elems(s))
  <2>1. CASE s = <<>>
    BY <2>1 DEF Rest, Top
  <2>2. CASE s # <<>>
    <3>1. Len(s) \in DOMAIN s
      BY <2>2
    <3>2. Rest(s) = SubSeq(s, 1, Len(s) - 1) /\ Top(s) = s[Len(s)]
      BY <2>2 DEF Rest, Top, Front, Last
    <3> QED
      BY <3>1, <3>2 DEF Elems
  <2> QED
    BY <2>1, <2>2
<1>4. ASSUME NEW x PROVE Elems(Append(s, x)) \subseteq Elems(s) \cup {x}
  BY DEF Elems
<1>5. ASSUME NEW u \in Seq(S) PROVE Elems(s \o u) \subseteq Elems(s) \cup Elems(u)
  BY DEF Elems
<1> QED
  BY <1>1, <1>2, <1>4, <1>5

\* Each value of s is Null or was made by t or below it.
Made(t, s) == \A v \in Elems(s) : v = Null \/ (v \in DOMAIN registry /\ t \in Line(v))

Isolated ==
  /\ \A t \in DOMAIN registry : Made(t, registry[t].stack)
  /\ ~BetweenChildren => Made(current, stack)
  /\ \A k \in DOMAIN waits : Made(waits[k].parent, waits[k].rets)

\* What a child made was made below its parent.
LEMMA MadeBelow ==
  ASSUME IInv, NEW c \in DOMAIN registry, c # Root, NEW s, Made(c, s)
  PROVE  Made(registry[c].parent, s)
<1> DEFINE p == registry[c].parent
<1>1. p \in DOMAIN registry
  BY ParentsExist DEF IInv
<1>2. p \in Line(c)
  BY <1>1, LineUp, LineFacts DEF LineFact
<1>3. \A v \in DOMAIN registry : c \in Line(v) => p \in Line(v)
  BY <1>2, LineFacts DEF LineFact
<1> HIDE DEF p
<1>4. Made(p, s)
  BY <1>3 DEF Made
<1> QED
  BY <1>4 DEF p

\* The stacks after a step, by what was made before it.
LEMMA IsolatedAfter ==
  ASSUME IInv, IInv', [Next]_vars,
         \A t \in DOMAIN registry : \A v \in Elems(registry'[t].stack) :
           v = Null \/ (v \in DOMAIN registry /\ t \in Line(v)),
         ~BetweenChildren' =>
           /\ current' \in DOMAIN registry
           /\ \A v \in Elems(stack') : v = Null \/ (v \in DOMAIN registry /\ current' \in Line(v)),
         \A k \in DOMAIN waits' : \A v \in Elems(waits'[k].rets) :
           v = Null \/ (v \in DOMAIN registry /\ waits'[k].parent \in Line(v))
  PROVE  Isolated'
<1>1. \A v \in DOMAIN registry : v \in DOMAIN registry' /\ Line(v)' = Line(v)
  BY LinesStay
<1>2. \A t \in DOMAIN registry' \ DOMAIN registry : Elems(registry'[t].stack) = {}
  <2>1. Elems(NewChild.stack) = {}
    BY DEF NewChild, NewTask, Elems
  <2> QED
    BY <2>1, NewTasks
<1>3. ASSUME NEW t \in DOMAIN registry', NEW v \in Elems(registry'[t].stack)
      PROVE  v = Null \/ (v \in DOMAIN registry' /\ t \in Line(v)')
  BY <1>1, <1>2
<1>4. ASSUME ~BetweenChildren', NEW v \in Elems(stack')
      PROVE  v = Null \/ (v \in DOMAIN registry' /\ current' \in Line(v)')
  BY <1>1, <1>4
<1>5. ASSUME NEW k \in DOMAIN waits', NEW v \in Elems(waits'[k].rets)
      PROVE  v = Null \/ (v \in DOMAIN registry' /\ waits'[k].parent \in Line(v)')
  BY <1>1
<1> QED
  BY <1>3, <1>4, <1>5 DEF Isolated, Made

\* The steps of one task that switch nothing: at most its own tag is new on the stack.
LEMMA PlainStacks ==
  ASSUME IInv,
         \/ FetchFails \/ OpFails \/ OpData \/ OpCall \/ OpReturn \/ OpHalt \/ OpOpen
         \/ \E ip \in Targets : OpJump(ip)
         \/ \E h \in handles : OpClose(h)
         \/ HostPrepare \/ HostRun \/ RunReturns \/ UNCHANGED vars
  PROVE  Elems(stack') \subseteq Elems(stack) \cup {current}
<1>1. stack \in Seq(Values)
  BY DEF IInv, TypeOK
<1>2. CASE FetchFails \/ OpReturn \/ OpHalt \/ HostPrepare \/ HostRun \/ RunReturns \/ UNCHANGED vars
  BY <1>2 DEF FetchFails, OpReturn, OpHalt, HostPrepare, HostRun, RunReturns, machine, vars
<1>3. CASE OpFails \/ OpCall
  BY <1>1, <1>3, Parts DEF OpFails, OpCall, Popped
<1>4. CASE OpOpen \/ \E h \in handles : OpClose(h)
  BY <1>1, <1>4, Parts DEF OpOpen, OpClose
<1>5. CASE \E ip \in Targets : OpJump(ip)
  BY <1>1, <1>5, Parts DEF OpJump
<1>6. CASE OpData
  <2>1. PICK n \in 0..2, out \in {<<>>, <<current>>} :
          n <= Len(stack) /\ stack' = Popped(n) \o out
    BY <1>6 DEF OpData
  <2>2. Elems(Popped(n)) \subseteq Elems(stack) /\ Popped(n) \in Seq(Values)
    BY <1>1, <2>1, Parts DEF Popped
  <2>3. CASE out = <<>>
    BY <2>1, <2>2, <2>3
  <2>4. CASE out = <<current>>
    <3>1. stack' = Append(Popped(n), current)
      BY <2>1, <2>2, <2>4
    <3> QED
      BY <2>2, <3>1, Parts
  <2> QED
    BY <2>1, <2>3, <2>4
<1> QED
  BY <1>2, <1>3, <1>4, <1>5, <1>6

LEMMA PlainIsolated ==
  ASSUME IInv, IInv', Isolated,
         \/ FetchFails \/ OpFails \/ OpData \/ OpCall \/ OpReturn \/ OpHalt \/ OpOpen
         \/ \E ip \in Targets : OpJump(ip)
         \/ \E h \in handles : OpClose(h)
         \/ HostPrepare \/ HostRun \/ RunReturns \/ UNCHANGED vars
  PROVE  Isolated'
<1>1. UNCHANGED <<registry, current, waits>> /\ current \in DOMAIN registry
  BY Plain, Registry DEF Untouched
<1>2. Elems(stack') \subseteq Elems(stack) \cup {current}
  BY PlainStacks
<1>3. BetweenChildren' = BetweenChildren
  BY <1>1 DEF BetweenChildren
<1>4. current \in Line(current)
  BY <1>1, LineFacts DEF LineFact
<1>5. ~BetweenChildren' => \A v \in Elems(stack') :
        v = Null \/ (v \in DOMAIN registry /\ current' \in Line(v))
  BY <1>1, <1>2, <1>3, <1>4 DEF Isolated, Made
<1>6. \A t \in DOMAIN registry : \A v \in Elems(registry'[t].stack) :
        v = Null \/ (v \in DOMAIN registry /\ t \in Line(v))
  BY <1>1 DEF Isolated, Made
<1>7. \A k \in DOMAIN waits' : \A v \in Elems(waits'[k].rets) :
        v = Null \/ (v \in DOMAIN registry /\ waits'[k].parent \in Line(v))
  BY <1>1 DEF Isolated, Made
<1>8. [Next]_vars
  BY DEF Next, Vm, Host, Opcode
<1> QED
  BY <1>1, <1>5, <1>6, <1>7, <1>8, IsolatedAfter

LEMMA SpawnYieldIsolated ==
  ASSUME IInv, IInv', Isolated, OpSpawn \/ OpYield
  PROVE  Isolated'
<1>1. /\ stack' = stack /\ waits' = waits /\ current' = current /\ ~BetweenChildren
      /\ current \in DOMAIN registry /\ OnlyEntry(current)
  BY SpawnEntry, YieldEntry, Registry DEF OpSpawn, OpYield
<1>2. registry'[current].stack = registry[current].stack
  <2>1. CASE OpSpawn
    BY <2>1, SpawnEntry
  <2>2. CASE OpYield
    <3>1. registry[current] \in Task /\ registry = [t \in DOMAIN registry |-> registry[t]]
      BY <1>1, Registry
    <3> QED
      BY <1>1, <2>2, <3>1 DEF OpYield, Task
  <2> QED
    BY <2>1, <2>2
<1>3. \A t \in DOMAIN registry : \A v \in Elems(registry'[t].stack) :
        v = Null \/ (v \in DOMAIN registry /\ t \in Line(v))
  BY <1>1, <1>2 DEF Isolated, Made, OnlyEntry
<1>4. \A v \in Elems(stack') : v = Null \/ (v \in DOMAIN registry /\ current' \in Line(v))
  BY <1>1 DEF Isolated, Made
<1>5. \A k \in DOMAIN waits' : \A v \in Elems(waits'[k].rets) :
        v = Null \/ (v \in DOMAIN registry /\ waits'[k].parent \in Line(v))
  BY <1>1 DEF Isolated, Made
<1>6. [Next]_vars
  BY DEF Next, Vm, Opcode
<1> QED
  BY <1>1, <1>3, <1>4, <1>5, <1>6, IsolatedAfter

LEMMA WaitIsolated ==
  ASSUME IInv, IInv', Isolated, OpWait
  PROVE  Isolated'
<1> DEFINE w == [parent |-> current, todo |-> registry[current].children,
                 child |-> NoTask, rets |-> <<>>]
<1>1. /\ registry' = SavedAs(registry, current, stack, Advanced, handles)
      /\ waits' = Append(waits, w) /\ waits \in Seq(Activation) /\ ~BetweenChildren
  BY DEF OpWait, Fetch, Executing, IInv, TypeOK
<1>2. OnlyEntry(current) /\ BetweenChildren' /\ current \in DOMAIN registry
  BY WaitEntry, Registry
<1>3. registry'[current].stack = stack
  BY <1>1, <1>2, Registry, SavedEntry
<1>4. \A t \in DOMAIN registry : \A v \in Elems(registry'[t].stack) :
        v = Null \/ (v \in DOMAIN registry /\ t \in Line(v))
  BY <1>1, <1>2, <1>3 DEF Isolated, Made, OnlyEntry
<1>5. Elems(w.rets) = {}
  BY DEF Elems
<1> HIDE DEF w
<1>6. \A k \in DOMAIN waits' : (k \in DOMAIN waits /\ waits'[k] = waits[k]) \/ waits'[k] = w
  BY <1>1
<1>7. \A k \in DOMAIN waits' : \A v \in Elems(waits'[k].rets) :
        v = Null \/ (v \in DOMAIN registry /\ waits'[k].parent \in Line(v))
  BY <1>5, <1>6 DEF Isolated, Made
<1>8. [Next]_vars
  BY DEF Next, Vm, Opcode
<1> QED
  BY <1>2, <1>4, <1>7, <1>8, IsolatedAfter

\* The activations after SetWait.
LEMMA SetRets ==
  ASSUME IInv, Isolated, waits # <<>>, NEW w, waits' = SetWait(w), w.parent = Wait.parent,
         Made(Wait.parent, w.rets)
  PROVE  \A k \in DOMAIN waits' : \A v \in Elems(waits'[k].rets) :
           v = Null \/ (v \in DOMAIN registry /\ waits'[k].parent \in Line(v))
<1>1. \A k \in DOMAIN waits' : (k \in DOMAIN waits /\ waits'[k] = waits[k]) \/ waits'[k] = w
  BY WaitUpdates DEF IInv
<1> QED
  BY <1>1 DEF Isolated, Made

\* A result popped off a child's stack goes with those of the activation.
LEMMA CollectedMade ==
  ASSUME IInv, waits # <<>>, NEW c \in DOMAIN registry, c # Root,
         registry[c].parent = Wait.parent, Made(Wait.parent, Wait.rets),
         NEW s \in Seq(Values), Made(c, s)
  PROVE  Made(Wait.parent, Append(Wait.rets, Top(s)))
<1>1. Wait.rets \in Seq(Values)
  BY Activations DEF IInv, Activation
<1>2. Made(Wait.parent, s)
  BY MadeBelow
<1>3. Top(s) = Null \/ Top(s) \in Elems(s)
  BY Parts
<1>4. Elems(Append(Wait.rets, Top(s))) \subseteq Elems(Wait.rets) \cup {Top(s)}
  BY <1>1, Parts
<1> QED
  BY <1>2, <1>3, <1>4 DEF Made

\* A child of the activation on top is not the root.
LEMMA NotRoot ==
  ASSUME IInv, waits # <<>>, NEW c \in DOMAIN registry, registry[c].parent = Wait.parent
  PROVE  c # Root
<1>1. Wait.parent \in DOMAIN registry /\ Wait.parent \in Nat
  BY TopWait, Older
<1>2. registry[Root].parent = NoTask
  BY DEF IInv, TreeConsistent
<1> QED
  BY <1>1, <1>2, TaskConstants

LEMMA SkipIsolated ==
  ASSUME IInv, IInv', Isolated, WaitSkip
  PROVE  Isolated'
<1> DEFINE c == Child
           v0 == Top(registry[c].stack)
           w == Collected([Wait EXCEPT !.todo = Tail(@)], v0)
           entry == [registry[c] EXCEPT !.stack = Rest(@)]
<1>1. /\ waits # <<>> /\ Wait.todo # <<>> /\ waits' = SetWait(w) /\ Wait \in Activation
      /\ registry' = [registry EXCEPT ![c] = entry]
  BY Activations DEF WaitSkip, AtChild, BetweenChildren, IInv
<1>2. c \in DOMAIN registry /\ registry[c] \in Task /\ registry[c].parent = Wait.parent
  BY <1>1, TopWait
<1>3. BetweenChildren' /\ OnlyEntry(c) /\ c \in DOMAIN registry /\ registry'[c] = entry
  BY <1>1, <1>2, SkipEntry, Registry DEF AtItsChild
<1>4. entry.stack = Rest(registry[c].stack) /\ registry[c].stack \in Seq(Values)
  BY <1>2 DEF Task
<1>5. w.parent = Wait.parent /\ w.rets = Append(Wait.rets, v0)
  BY <1>1 DEF Activation, Collected
<1>6. Made(c, registry[c].stack) /\ Made(Wait.parent, Wait.rets)
  <2>1. Len(waits) \in DOMAIN waits /\ Wait = waits[Len(waits)]
    BY <1>1, TopWait
  <2> QED
    BY <1>2, <2>1 DEF Isolated
<1>7. Made(Wait.parent, w.rets)
  BY <1>1, <1>2, <1>4, <1>5, <1>6, NotRoot, CollectedMade
<1>8. Elems(registry'[c].stack) \subseteq Elems(registry[c].stack)
  BY <1>3, <1>4, Parts
<1> HIDE DEF c, v0, w, entry
<1>9. \A t \in DOMAIN registry : \A v \in Elems(registry'[t].stack) :
        v = Null \/ (v \in DOMAIN registry /\ t \in Line(v))
  BY <1>3, <1>8 DEF Isolated, Made, OnlyEntry
<1>10. \A k \in DOMAIN waits' : \A v \in Elems(waits'[k].rets) :
         v = Null \/ (v \in DOMAIN registry /\ waits'[k].parent \in Line(v))
  BY <1>1, <1>5, <1>7, SetRets
<1>11. [Next]_vars
  BY DEF Next, Vm, WaitLoop
<1> QED
  BY <1>3, <1>9, <1>10, <1>11, IsolatedAfter

LEMMA EnterIsolated ==
  ASSUME IInv, IInv', Isolated, WaitEnter
  PROVE  Isolated'
<1> DEFINE c == Child
           w == [Wait EXCEPT !.todo = Tail(@), !.child = c]
<1>1. /\ waits # <<>> /\ Wait.todo # <<>> /\ waits' = SetWait(w) /\ Wait \in Activation
      /\ Restore(registry, c)
  BY Activations DEF WaitEnter, AtChild, BetweenChildren, IInv
<1>2. c \in DOMAIN registry
  BY <1>1, TopWait
<1>3. /\ current' = c /\ stack' = registry[c].stack /\ OnlyEntry(c)
      /\ registry' = SavedAs(registry, c, <<>>, <<>>, {})
  BY <1>1, <1>2, EnterEntry DEF Restore, AtItsChild
<1>4. registry'[c].stack = <<>>
  BY <1>2, <1>3, Registry, SavedEntry
<1>5. w.parent = Wait.parent /\ w.rets = Wait.rets
  BY <1>1 DEF Activation
<1>6. Made(Wait.parent, w.rets)
  <2>1. Len(waits) \in DOMAIN waits /\ Wait = waits[Len(waits)]
    BY <1>1, TopWait
  <2> QED
    BY <1>5, <2>1 DEF Isolated
<1> HIDE DEF c, w
<1>7. \A t \in DOMAIN registry : \A v \in Elems(registry'[t].stack) :
        v = Null \/ (v \in DOMAIN registry /\ t \in Line(v))
  <2>1. Elems(<<>>) = {}
    BY DEF Elems
  <2> QED
    BY <1>3, <1>4, <2>1 DEF Isolated, Made, OnlyEntry
<1>8. \A v \in Elems(stack') : v = Null \/ (v \in DOMAIN registry /\ current' \in Line(v))
  BY <1>2, <1>3 DEF Isolated, Made
<1>9. \A k \in DOMAIN waits' : \A v \in Elems(waits'[k].rets) :
        v = Null \/ (v \in DOMAIN registry /\ waits'[k].parent \in Line(v))
  BY <1>1, <1>5, <1>6, SetRets
<1>10. [Next]_vars
  BY DEF Next, Vm, WaitLoop
<1> QED
  BY <1>2, <1>3, <1>7, <1>8, <1>9, <1>10, IsolatedAfter

LEMMA LeaveIsolated ==
  ASSUME IInv, IInv', Isolated, WaitLeave
  PROVE  Isolated'
<1> DEFINE w == Collected([Wait EXCEPT !.child = NoTask], Top(stack))
           done == [registry EXCEPT ![Wait.child].status = "Completed"]
<1>1. /\ waits # <<>> /\ Wait.child # NoTask /\ waits' = SetWait(w) /\ Wait \in Activation
      /\ ~BetweenChildren /\ stack \in Seq(Values)
  BY Activations DEF WaitLeave, ChildRunning, BetweenChildren, Wait, IInv, TypeOK
<1>2. /\ current = Wait.child /\ current \in DOMAIN registry
      /\ registry[current].parent = Wait.parent
  BY <1>1, TopWait
<1>3. registry' = SavedAs(done, current, Rest(stack), frames, handles)
  BY <1>2 DEF WaitLeave
<1>4. IsRegistry(done) /\ DOMAIN done = DOMAIN registry
  <2>1. IsRegistry(registry) /\ Wait.child \in DOMAIN registry
    BY <1>2, Registry
  <2>2. PICK e : e = [registry[Wait.child] EXCEPT !.status = "Completed"]
    OBVIOUS
  <2>3. registry[Wait.child] \in Task
    BY <2>1 DEF IsRegistry
  <2>4. e \in Task
    BY <2>2, <2>3 DEF Task, Status
  <2>5. done = [registry EXCEPT ![Wait.child] = e]
    BY <2>2
  <2> HIDE DEF done
  <2> QED
    BY <2>1, <2>4, <2>5 DEF IsRegistry
<1>5. w.parent = Wait.parent /\ w.rets = Append(Wait.rets, Top(stack))
  BY <1>1 DEF Activation, Collected
<1> HIDE DEF done
<1>6. registry'[current].stack = Rest(stack)
  BY <1>2, <1>3, <1>4, SavedEntry
<1>7. OnlyEntry(current) /\ BetweenChildren'
  BY LeaveEntry DEF InControl
<1>8. Made(current, stack) /\ Made(Wait.parent, Wait.rets)
  <2>1. Len(waits) \in DOMAIN waits /\ Wait = waits[Len(waits)]
    BY <1>1, TopWait
  <2> QED
    BY <1>1, <2>1 DEF Isolated
<1>9. Made(Wait.parent, w.rets)
  BY <1>1, <1>2, <1>5, <1>8, NotRoot, CollectedMade
<1>10. Elems(Rest(stack)) \subseteq Elems(stack)
  BY <1>1, Parts
<1> HIDE DEF w
<1>11. \A t \in DOMAIN registry : \A v \in Elems(registry'[t].stack) :
         v = Null \/ (v \in DOMAIN registry /\ t \in Line(v))
  BY <1>6, <1>7, <1>8, <1>10 DEF Isolated, Made, OnlyEntry
<1>12. \A k \in DOMAIN waits' : \A v \in Elems(waits'[k].rets) :
         v = Null \/ (v \in DOMAIN registry /\ waits'[k].parent \in Line(v))
  BY <1>1, <1>5, <1>9, SetRets
<1>13. [Next]_vars
  BY DEF Next, Vm, WaitLoop
<1> QED
  BY <1>7, <1>11, <1>12, <1>13, IsolatedAfter

LEMMA BackIsolated ==
  ASSUME IInv, IInv', Isolated, WaitFails \/ WaitDone
  PROVE  Isolated'
<1>1. /\ waits # <<>> /\ waits' = Front(waits) /\ Wait \in Activation
  BY Activations DEF WaitFails, WaitDone, ChildRunning, BetweenChildren, IInv
<1>2. PICK p \in DOMAIN registry : p = Wait.parent
  BY <1>1, TopWait
<1>3. /\ current' = p /\ OnlyEntry(p)
      /\ registry' = SavedAs(registry, p, <<>>, <<>>, {})
      /\ stack' = registry[p].stack \/ stack' = registry[p].stack \o Wait.rets
  BY <1>2, BackEntry DEF Back, WaitFails, WaitDone, Restore
<1>4. registry'[p].stack = <<>>
  BY <1>2, <1>3, Registry, SavedEntry
<1>5. Made(p, registry[p].stack) /\ Made(p, Wait.rets)
  <2>1. Len(waits) \in DOMAIN waits /\ Wait = waits[Len(waits)]
    BY <1>1, TopWait
  <2> QED
    BY <1>2, <2>1 DEF Isolated
<1>6. Elems(stack') \subseteq Elems(registry[p].stack) \cup Elems(Wait.rets)
  <2>1. registry[p].stack \in Seq(Values) /\ Wait.rets \in Seq(Values)
    BY <1>1, Registry DEF Task, Activation
  <2> QED
    BY <1>3, <2>1, Parts
<1>7. \A t \in DOMAIN registry : \A v \in Elems(registry'[t].stack) :
        v = Null \/ (v \in DOMAIN registry /\ t \in Line(v))
  <2>1. Elems(<<>>) = {}
    BY DEF Elems
  <2> QED
    BY <1>3, <1>4, <2>1 DEF Isolated, Made, OnlyEntry
<1>8. \A v \in Elems(stack') : v = Null \/ (v \in DOMAIN registry /\ current' \in Line(v))
  BY <1>3, <1>5, <1>6 DEF Made
<1>9. \A k \in DOMAIN waits' : \A v \in Elems(waits'[k].rets) :
        v = Null \/ (v \in DOMAIN registry /\ waits'[k].parent \in Line(v))
  BY <1>1, WaitUpdates DEF IInv, Isolated, Made
<1>10. [Next]_vars
  BY DEF Next, Vm, WaitLoop
<1> QED
  BY <1>3, <1>7, <1>8, <1>9, <1>10, IsolatedAfter

LEMMA IsolatedInvariant == Spec => []Isolated
<1>1. Init => Isolated
  <2> SUFFICES ASSUME Init PROVE Isolated
    OBVIOUS
  <2>1. DOMAIN registry = {Root} /\ registry[Root].stack = <<>> /\ stack = <<>> /\ waits = <<>>
    BY DEF Init, NewTask
  <2>2. Elems(<<>>) = {}
    BY DEF Elems
  <2> QED
    BY <2>1, <2>2 DEF Isolated, Made
<1>2. IInv /\ IInv' /\ Isolated /\ [Next]_vars => Isolated'
  <2> SUFFICES ASSUME IInv, IInv', Isolated, [Next]_vars PROVE Isolated'
    OBVIOUS
  <2>1. CASE OpSpawn \/ OpYield
    BY <2>1, SpawnYieldIsolated
  <2>2. CASE OpWait
    BY <2>2, WaitIsolated
  <2>3. CASE WaitLoop
    BY <2>3, SkipIsolated, EnterIsolated, LeaveIsolated, BackIsolated DEF WaitLoop
  <2> QED
    BY <2>1, <2>2, <2>3, PlainIsolated, Steps
<1> QED
  BY <1>1, <1>2, Invariant, PTL DEF Spec

\* Saving and restoring keep tasks apart at any depth: whatever is on a task's stack was
\* pushed by it or by a descendant that it waited for.
THEOREM StacksAreIsolated == Spec => []StackIsolation
<1>1. Isolated => StackIsolation
  BY DEF Isolated, Made, StackIsolation, StackOf, Parked
<1> QED
  BY <1>1, IsolatedInvariant, PTL

-----------------------------------------------------------------------------
(* Results match children.                                                 *)

LEMMA ChildrenKept ==
  ASSUME IInv, [Next]_vars, NEW u \in DOMAIN registry, ~(OpSpawn /\ u = current)
  PROVE  registry'[u].children = registry[u].children
<1>1. CASE OpSpawn
  BY <1>1, SpawnEntry DEF OnlyEntry
<1>2. CASE OpYield
  BY <1>2, YieldEntry DEF OnlyEntry
<1>3. CASE OpWait
  BY <1>3, WaitEntry DEF OnlyEntry, SameLife
<1>4. CASE WaitLoop
  BY <1>4, SkipEntry, EnterEntry, LeaveEntry, BackEntry
  DEF WaitLoop, OnlyEntry, SameLife, InControl, Back, AtItsChild
<1>5. CASE \/ FetchFails \/ OpFails \/ OpData \/ OpCall \/ OpReturn \/ OpHalt \/ OpOpen
           \/ \E ip \in Targets : OpJump(ip)
           \/ \E h \in handles : OpClose(h)
           \/ HostPrepare \/ HostRun \/ RunReturns \/ UNCHANGED vars
  BY <1>5, Plain DEF Untouched
<1> QED
  BY <1>1, <1>2, <1>3, <1>4, <1>5, Steps

\* An activation has a result for each child it is done with, in their order, and the
\* rest of them to do.
Results(w) ==
  LET cs == registry[w.parent].children
      n == Len(w.rets)
      m == IF w.child = NoTask THEN n ELSE n + 1
  IN  /\ Len(cs) = m + Len(w.todo)
      /\ \A j \in 1..Len(w.todo) : w.todo[j] = cs[m + j]
      /\ w.child # NoTask => w.child = cs[n + 1]
      /\ \A j \in 1..n : w.rets[j] = Null
                         \/ (w.rets[j] \in DOMAIN registry /\ cs[j] \in Line(w.rets[j]))
ResultsMatch == \A k \in DOMAIN waits : Results(waits[k])

\* Results stay right while the parent waits.
LEMMA ResultsStay ==
  ASSUME IInv, IInv', [Next]_vars, NEW w \in Activation, w.parent \in DOMAIN registry,
         Results(w), OpSpawn => w.parent # current
  PROVE  Results(w)'
<1>1. registry'[w.parent].children = registry[w.parent].children
  BY ChildrenKept
<1>2. \A v \in DOMAIN registry : v \in DOMAIN registry' /\ Line(v)' = Line(v)
  BY LinesStay
<1> QED
  BY <1>1, <1>2 DEF Results

\* The children still to do, after one more.
LEMMA TailAfter ==
  ASSUME NEW n \in Nat, NEW cs, NEW s \in Seq(TaskId), s # <<>>, Len(cs) = n + Len(s),
         \A j \in 1..Len(s) : s[j] = cs[n + j]
  PROVE  /\ Head(s) = cs[n + 1] /\ Len(cs) = n + 1 + Len(Tail(s))
         /\ \A j \in 1..Len(Tail(s)) : Tail(s)[j] = cs[n + 1 + j]
<1>1. Len(s) \in Nat /\ Len(s) >= 1 /\ Head(s) = s[1] /\ Len(Tail(s)) = Len(s) - 1
  OBVIOUS
<1>2. ASSUME NEW j \in 1..Len(Tail(s)) PROVE Tail(s)[j] = cs[n + 1 + j]
  <2>1. j \in Nat /\ j + 1 \in 1..Len(s)
    BY <1>1
  <2>2. Tail(s)[j] = s[j + 1]
    BY <1>1, <2>1
  <2>3. s[j + 1] = cs[n + (j + 1)]
    BY <2>1
  <2>4. n + (j + 1) = n + 1 + j
    BY <2>1
  <2> QED
    BY <2>2, <2>3, <2>4
<1>3. Head(s) = cs[n + 1] /\ Len(cs) = n + 1 + Len(Tail(s))
  <2>1. 1 \in 1..Len(s) /\ n + Len(s) = n + 1 + (Len(s) - 1)
    BY <1>1
  <2> QED
    BY <1>1, <2>1
<1> QED
  BY <1>2, <1>3

\* A further result, of the child that was next.
LEMMA OneMore ==
  ASSUME NEW w \in Activation, NEW c, NEW v, NEW u \in Activation, Results(w),
         registry[w.parent].children \in Seq(TaskId),
         u.parent = w.parent, u.child = NoTask, u.rets = Append(w.rets, v),
         v = Null \/ (v \in DOMAIN registry /\ c \in Line(v)),
         \/ w.child # NoTask /\ c = w.child /\ u.todo = w.todo
         \/ w.child = NoTask /\ w.todo # <<>> /\ c = Head(w.todo) /\ u.todo = Tail(w.todo)
  PROVE  Results(u)
<1> DEFINE cs == registry[w.parent].children
           n == Len(w.rets)
<1>1. /\ w.rets \in Seq(Values) /\ w.todo \in Seq(TaskId) /\ u.todo \in Seq(TaskId)
      /\ n \in Nat /\ Len(u.rets) = n + 1 /\ u.rets[n + 1] = v
      /\ \A j \in 1..n : u.rets[j] = w.rets[j]
  BY DEF Activation
<1>2. c = cs[n + 1] /\ Len(cs) = n + 1 + Len(u.todo)
      /\ \A j \in 1..Len(u.todo) : u.todo[j] = cs[n + 1 + j]
  <2>1. CASE w.child # NoTask /\ c = w.child /\ u.todo = w.todo
    BY <1>1, <2>1 DEF Results
  <2>2. CASE w.child = NoTask /\ w.todo # <<>> /\ c = Head(w.todo) /\ u.todo = Tail(w.todo)
    <3>1. /\ Len(cs) = n + Len(w.todo) /\ Len(w.todo) \in Nat
          /\ \A j \in 1..Len(w.todo) : w.todo[j] = cs[n + j]
      BY <1>1, <2>2 DEF Results
    <3>2. w.todo \in Seq(TaskId) /\ w.todo # <<>> /\ n \in Nat
      BY <1>1, <2>2
    <3> HIDE DEF cs, n
    <3>3. /\ Head(w.todo) = cs[n + 1] /\ Len(cs) = n + 1 + Len(Tail(w.todo))
          /\ \A j \in 1..Len(Tail(w.todo)) : Tail(w.todo)[j] = cs[n + 1 + j]
      BY <3>1, <3>2, TailAfter
    <3> QED
      BY <2>2, <3>3, Zenon
  <2> QED
    BY <2>1, <2>2
<1>3. \A j \in 1..n + 1 : u.rets[j] = Null
                          \/ (u.rets[j] \in DOMAIN registry /\ cs[j] \in Line(u.rets[j]))
  BY <1>1, <1>2 DEF Results
<1> QED
  BY <1>1, <1>2, <1>3 DEF Results

\* The activations below the top, and all of them where the top is only kept or replaced
\* by one with right results.
LEMMA ResultsAfter ==
  ASSUME IInv, IInv', [Next]_vars, ResultsMatch,
         \A k \in DOMAIN waits' :
           \/ k \in DOMAIN waits /\ waits'[k] = waits[k]
           \/ /\ waits'[k] \in Activation /\ waits'[k].parent \in DOMAIN registry
              /\ Results(waits'[k]) /\ (OpSpawn => waits'[k].parent # current)
  PROVE  ResultsMatch'
<1>1. ASSUME NEW k \in DOMAIN waits', NEW w, w = waits'[k] PROVE Results(w)'
  <2>1. CASE k \in DOMAIN waits /\ waits'[k] = waits[k]
    <3>1. w \in Activation /\ w.parent \in DOMAIN registry /\ Results(w)
      BY <1>1, <2>1 DEF IInv, TypeOK, WaitChain, ResultsMatch
    <3>2. OpSpawn => w.parent # current
      BY <1>1, <2>1, SpawnEntry, YoungestRuns, Registry
    <3> QED
      BY <3>1, <3>2, ResultsStay
  <2>2. CASE /\ w \in Activation /\ w.parent \in DOMAIN registry
             /\ Results(w) /\ (OpSpawn => w.parent # current)
    BY <2>2, ResultsStay
  <2> QED
    BY <1>1, <2>1, <2>2
<1> QED
  BY <1>1 DEF ResultsMatch, Results

LEMMA TopResults ==
  ASSUME IInv, Isolated, ResultsMatch, waits # <<>>
  PROVE  /\ Wait \in Activation /\ Results(Wait) /\ Wait.parent \in DOMAIN registry
         /\ registry[Wait.parent].children \in Seq(TaskId)
<1>1. Len(waits) \in DOMAIN waits /\ Wait = waits[Len(waits)] /\ Wait.parent \in DOMAIN registry
  BY TopWait
<1>2. Results(waits[Len(waits)])
  BY <1>1 DEF ResultsMatch
<1>3. registry[Wait.parent] \in Task
  BY <1>1, Registry
<1> QED
  BY <1>1, <1>2, <1>3, Activations DEF IInv, Task

\* A value popped off a stack of what c made.
LEMMA TopMade ==
  ASSUME NEW c, NEW s \in Seq(Values), Made(c, s)
  PROVE  Top(s) = Null \/ (Top(s) \in DOMAIN registry /\ c \in Line(Top(s)))
BY Parts DEF Made

\* What an activation looks like once one more result is collected.
LEMMA OneCollected ==
  ASSUME NEW w \in Activation, NEW td \in Seq(TaskId), NEW v \in Values,
         NEW u, u = [parent |-> w.parent, todo |-> td, child |-> NoTask, rets |-> Append(w.rets, v)]
  PROVE  /\ u.parent = w.parent /\ u.child = NoTask /\ u.rets = Append(w.rets, v)
         /\ u.todo = td /\ u \in Activation
<1>1. w.parent \in TaskId /\ Append(w.rets, v) \in Seq(Values)
  BY DEF Activation
<1> QED
  BY <1>1 DEF Activation

LEMMA CollectedIs ==
  ASSUME NEW w \in Activation, NEW v
  PROVE  /\ w.child = NoTask =>
              Collected([w EXCEPT !.todo = Tail(@)], v) =
                [parent |-> w.parent, todo |-> Tail(w.todo), child |-> NoTask,
                 rets |-> Append(w.rets, v)]
         /\ Collected([w EXCEPT !.child = NoTask], v) =
                [parent |-> w.parent, todo |-> w.todo, child |-> NoTask,
                 rets |-> Append(w.rets, v)]
<1>1. ASSUME NEW x
      PROVE  [w EXCEPT !.todo = x] =
               [parent |-> w.parent, todo |-> x, child |-> w.child, rets |-> w.rets]
  BY DEF Activation
<1>2. [w EXCEPT !.child = NoTask] =
        [parent |-> w.parent, todo |-> w.todo, child |-> NoTask, rets |-> w.rets]
  BY DEF Activation
<1>3. [w EXCEPT !.todo = Tail(@)] =
        [parent |-> w.parent, todo |-> Tail(w.todo), child |-> w.child, rets |-> w.rets]
  BY <1>1, Zenon
<1>4. Collected([w EXCEPT !.child = NoTask], v) =
        [parent |-> w.parent, todo |-> w.todo, child |-> NoTask, rets |-> Append(w.rets, v)]
  <2>1. PICK r : r = [w EXCEPT !.child = NoTask]
    OBVIOUS
  <2>2. r = [parent |-> w.parent, todo |-> w.todo, child |-> NoTask, rets |-> w.rets]
    BY <1>2, <2>1
  <2>3. Collected(r, v) =
          [parent |-> w.parent, todo |-> w.todo, child |-> NoTask, rets |-> Append(w.rets, v)]
    BY <2>2 DEF Collected
  <2> QED
    BY <2>1, <2>3
<1>5. Collected([w EXCEPT !.todo = Tail(@)], v) =
        [parent |-> w.parent, todo |-> Tail(w.todo), child |-> w.child,
         rets |-> Append(w.rets, v)]
  <2>1. PICK r, td : r = [w EXCEPT !.todo = Tail(@)] /\ td = Tail(w.todo)
    OBVIOUS
  <2>2. r = [parent |-> w.parent, todo |-> td, child |-> w.child, rets |-> w.rets]
    BY <1>3, <2>1
  <2>3. Collected(r, v) =
          [parent |-> w.parent, todo |-> td, child |-> w.child, rets |-> Append(w.rets, v)]
    BY <2>2 DEF Collected
  <2> QED
    BY <2>1, <2>3
<1> QED
  BY <1>4, <1>5, Zenon

LEMMA SkipResults ==
  ASSUME IInv, IInv', Isolated, ResultsMatch, WaitSkip
  PROVE  ResultsMatch'
<1> DEFINE v0 == Top(registry[Child].stack)
           u == Collected([Wait EXCEPT !.todo = Tail(@)], v0)
<1>1. /\ waits # <<>> /\ Wait.child = NoTask /\ Wait.todo # <<>> /\ waits' = SetWait(u)
  BY DEF WaitSkip, AtChild, BetweenChildren, Wait
<1>2. /\ Wait \in Activation /\ Results(Wait) /\ Wait.parent \in DOMAIN registry
      /\ registry[Wait.parent].children \in Seq(TaskId)
  BY <1>1, TopResults
<1>3. Child \in DOMAIN registry /\ registry[Child] \in Task
  BY <1>1, TopWait
<1>4. v0 = Null \/ (v0 \in DOMAIN registry /\ Child \in Line(v0))
  BY <1>3, TopMade DEF Isolated, Task
<1>5. v0 \in Values
  BY <1>3, <1>4, Registry DEF Values
<1>6. /\ u.parent = Wait.parent /\ u.child = NoTask /\ u.rets = Append(Wait.rets, v0)
      /\ u.todo = Tail(Wait.todo) /\ u \in Activation
  <2>1. PICK w : w = Wait
    OBVIOUS
  <2>2. w \in Activation /\ w.todo # <<>> /\ w.child = NoTask
    BY <1>1, <1>2, <2>1
  <2>3. Tail(w.todo) \in Seq(TaskId)
    BY <2>2 DEF Activation
  <2> HIDE DEF v0
  <2>4. u = [parent |-> w.parent, todo |-> Tail(w.todo), child |-> NoTask,
             rets |-> Append(w.rets, v0)]
    BY <2>1, <2>2, CollectedIs
  <2> HIDE DEF u
  <2> QED
    BY <1>5, <2>1, <2>2, <2>3, <2>4, OneCollected
<1> HIDE DEF u, v0
<1>7. Results(u)
  BY <1>1, <1>2, <1>4, <1>6, OneMore DEF Child
<1>8. \A k \in DOMAIN waits' : (k \in DOMAIN waits /\ waits'[k] = waits[k]) \/ waits'[k] = u
  BY <1>1, WaitUpdates DEF IInv
<1>9. [Next]_vars /\ ~OpSpawn
  BY <1>1, SkipEntry, SpawnEntry DEF Next, Vm, WaitLoop
<1> QED
  BY <1>2, <1>6, <1>7, <1>8, <1>9, ResultsAfter

LEMMA LeaveResults ==
  ASSUME IInv, IInv', Isolated, ResultsMatch, WaitLeave
  PROVE  ResultsMatch'
<1> DEFINE v0 == Top(stack)
           u == Collected([Wait EXCEPT !.child = NoTask], v0)
<1>1. /\ waits # <<>> /\ Wait.child # NoTask /\ waits' = SetWait(u) /\ ~BetweenChildren
      /\ stack \in Seq(Values)
  BY DEF WaitLeave, ChildRunning, BetweenChildren, Wait, IInv, TypeOK
<1>2. /\ Wait \in Activation /\ Results(Wait) /\ Wait.parent \in DOMAIN registry
      /\ registry[Wait.parent].children \in Seq(TaskId) /\ current = Wait.child
  BY <1>1, TopResults, TopWait
<1>3. v0 = Null \/ (v0 \in DOMAIN registry /\ Wait.child \in Line(v0))
  BY <1>1, <1>2, TopMade DEF Isolated
<1>4. v0 \in Values
  BY <1>3, Registry DEF Values
<1>5. /\ u.parent = Wait.parent /\ u.child = NoTask /\ u.rets = Append(Wait.rets, v0)
      /\ u.todo = Wait.todo /\ u \in Activation
  <2>1. PICK w : w = Wait
    OBVIOUS
  <2>2. w \in Activation /\ w.todo \in Seq(TaskId)
    BY <1>2, <2>1 DEF Activation
  <2> HIDE DEF v0
  <2>3. u = [parent |-> w.parent, todo |-> w.todo, child |-> NoTask,
             rets |-> Append(w.rets, v0)]
    BY <2>1, <2>2, CollectedIs
  <2> HIDE DEF u
  <2> QED
    BY <1>4, <2>1, <2>2, <2>3, OneCollected
<1> HIDE DEF u, v0
<1>6. Results(u)
  BY <1>1, <1>2, <1>3, <1>5, OneMore
<1>7. \A k \in DOMAIN waits' : (k \in DOMAIN waits /\ waits'[k] = waits[k]) \/ waits'[k] = u
  BY <1>1, WaitUpdates DEF IInv
<1>8. [Next]_vars /\ ~OpSpawn
  BY <1>1, LeaveEntry, SpawnEntry DEF Next, Vm, WaitLoop, WaitLeave, OpSpawn, Fetch, Executing
<1> QED
  BY <1>2, <1>5, <1>6, <1>7, <1>8, ResultsAfter

LEMMA EnterResults ==
  ASSUME IInv, IInv', Isolated, ResultsMatch, WaitEnter
  PROVE  ResultsMatch'
<1> DEFINE u == [Wait EXCEPT !.todo = Tail(@), !.child = Child]
           cs == registry[Wait.parent].children
           n == Len(Wait.rets)
<1>1. /\ waits # <<>> /\ Wait.child = NoTask /\ Wait.todo # <<>> /\ waits' = SetWait(u)
      /\ BetweenChildren
  BY DEF WaitEnter, AtChild, BetweenChildren, Wait
<1>2. /\ Wait \in Activation /\ Results(Wait) /\ Wait.parent \in DOMAIN registry
  BY <1>1, TopResults
<1>3. Child \in DOMAIN registry /\ Child \in Nat /\ Child # NoTask
  BY <1>1, TopWait, Registry, TaskConstants
<1>4. /\ u.parent = Wait.parent /\ u.child = Child /\ u.rets = Wait.rets
      /\ u.todo = Tail(Wait.todo) /\ u \in Activation
  BY <1>2, <1>3, Activations, <1>1 DEF Activation, IInv, TaskId
<1>5. /\ Wait.todo \in Seq(TaskId) /\ n \in Nat /\ Len(cs) = n + Len(Wait.todo)
      /\ \A j \in 1..Len(Wait.todo) : Wait.todo[j] = cs[n + j]
  BY <1>1, <1>2 DEF Results, Activation
<1> HIDE DEF n, cs
<1>6. /\ Head(Wait.todo) = cs[n + 1] /\ Len(cs) = n + 1 + Len(Tail(Wait.todo))
      /\ \A j \in 1..Len(Tail(Wait.todo)) : Tail(Wait.todo)[j] = cs[n + 1 + j]
  BY <1>1, <1>5, TailAfter
<1> HIDE DEF u
<1>7. Results(u)
  <2>1. cs = registry[u.parent].children /\ n = Len(u.rets)
    BY <1>4 DEF cs, n
  <2>2. u.child # NoTask /\ u.child = cs[n + 1]
    BY <1>3, <1>4, <1>6 DEF Child
  <2>3. \A j \in 1..n : u.rets[j] = Null
                        \/ (u.rets[j] \in DOMAIN registry /\ cs[j] \in Line(u.rets[j]))
    BY <1>2, <1>4 DEF Results, cs, n
  <2> QED
    BY <1>4, <1>6, <2>1, <2>2, <2>3, Zenon DEF Results
<1>8. \A k \in DOMAIN waits' : (k \in DOMAIN waits /\ waits'[k] = waits[k]) \/ waits'[k] = u
  BY <1>1, WaitUpdates DEF IInv
<1>9. [Next]_vars /\ ~OpSpawn
  BY <1>1, SpawnEntry DEF Next, Vm, WaitLoop
<1> QED
  BY <1>2, <1>4, <1>7, <1>8, <1>9, ResultsAfter

LEMMA WaitResults ==
  ASSUME IInv, IInv', ResultsMatch, OpWait
  PROVE  ResultsMatch'
<1> DEFINE u == [parent |-> current, todo |-> registry[current].children,
                 child |-> NoTask, rets |-> <<>>]
<1>1. /\ waits' = Append(waits, u) /\ waits \in Seq(Activation)
      /\ current \in DOMAIN registry /\ registry[current] \in Task /\ current \in TaskId
  BY Registry DEF OpWait, IInv, TypeOK, TaskId
<1>2. u \in Activation /\ u.parent = current
  BY <1>1 DEF Activation, Task
<1>3. Results(u)
  BY <1>1 DEF Results, Task
<1> HIDE DEF u
<1>4. \A k \in DOMAIN waits' : (k \in DOMAIN waits /\ waits'[k] = waits[k]) \/ waits'[k] = u
  BY <1>1
<1>5. [Next]_vars /\ ~OpSpawn
  <2>1. waits' # waits
    BY <1>1
  <2> QED
    BY <2>1, SpawnEntry DEF Next, Vm, Opcode
<1> QED
  BY <1>1, <1>2, <1>3, <1>4, <1>5, ResultsAfter

LEMMA ResultsStep ==
  ASSUME IInv, IInv', Isolated, ResultsMatch, [Next]_vars
  PROVE  ResultsMatch'
<1>1. CASE OpWait
  BY <1>1, WaitResults
<1>2. CASE WaitSkip \/ WaitEnter \/ WaitLeave
  BY <1>2, SkipResults, EnterResults, LeaveResults
<1>3. CASE WaitFails \/ WaitDone
  <2>1. \A k \in DOMAIN waits' : k \in DOMAIN waits /\ waits'[k] = waits[k]
    BY <1>3, WaitUpdates DEF WaitFails, WaitDone, ChildRunning, BetweenChildren, IInv
  <2> QED
    BY <2>1, ResultsAfter
<1>4. CASE waits' = waits
  BY <1>4, ResultsAfter
<1>5. CASE OpSpawn \/ OpYield
  BY <1>4, <1>5, SpawnEntry, YieldEntry
<1>6. CASE \/ FetchFails \/ OpFails \/ OpData \/ OpCall \/ OpReturn \/ OpHalt \/ OpOpen
           \/ \E ip \in Targets : OpJump(ip)
           \/ \E h \in handles : OpClose(h)
           \/ HostPrepare \/ HostRun \/ RunReturns \/ UNCHANGED vars
  BY <1>4, <1>6, Plain DEF Untouched
<1> QED
  BY <1>1, <1>2, <1>3, <1>5, <1>6, Steps DEF WaitLoop

\* However its children ended, and however often it waited before, a parent finds one
\* value for each child, in the order it spawned them, and each made by that child or
\* below it.
THEOREM ResultsMatchChildren == Spec => OneResultPerChild
<1>1. ASSUME IInv, Isolated, ResultsMatch, WaitDone
      PROVE  LET p == registry[Wait.parent]  base == Len(p.stack) IN
             /\ Len(stack') = base + Len(p.children)
             /\ \A k \in DOMAIN p.children :
                  LET v == stack'[base + k] IN v = Null \/ p.children[k] \in Line(v)
  <2>1. waits # <<>> /\ Wait.child = NoTask /\ Wait.todo = <<>>
    BY <1>1 DEF WaitDone, BetweenChildren, Wait
  <2>2. Wait \in Activation /\ Results(Wait) /\ registry[Wait.parent] \in Task
    BY <1>1, <2>1, TopResults, Registry
  <2> DEFINE p == registry[Wait.parent]
             rs == Wait.rets
  <2>3. /\ p.stack \in Seq(Values) /\ rs \in Seq(Values) /\ stack' = p.stack \o rs
        /\ p.children \in Seq(TaskId)
    BY <1>1, <2>2 DEF WaitDone, Task, Activation
  <2>4. Len(p.children) = Len(rs)
    BY <2>1, <2>2, <2>3 DEF Results
  <2>5. \A j \in 1..Len(rs) : rs[j] = Null \/ p.children[j] \in Line(rs[j])
    BY <2>2 DEF Results
  <2> HIDE DEF p, rs
  <2>6. /\ Len(stack') = Len(p.stack) + Len(rs)
        /\ \A j \in 1..Len(rs) : stack'[Len(p.stack) + j] = rs[j]
    BY <2>3
  <2>7. DOMAIN p.children = 1..Len(rs)
    BY <2>3, <2>4
  <2>8. \A k \in DOMAIN p.children :
          stack'[Len(p.stack) + k] = Null \/ p.children[k] \in Line(stack'[Len(p.stack) + k])
    BY <2>5, <2>6, <2>7
  <2> QED
    BY <2>4, <2>6, <2>8 DEF p
<1>2. Init => ResultsMatch
  BY DEF Init, ResultsMatch
<1>3. IInv /\ IInv' /\ Isolated /\ ResultsMatch /\ [Next]_vars => ResultsMatch'
  BY ResultsStep
<1>4. IInv /\ Isolated /\ ResultsMatch /\ [Next]_vars =>
        [WaitDone =>
           LET p == registry[Wait.parent]  base == Len(p.stack) IN
           /\ Len(stack') = base + Len(p.children)
           /\ \A k \in DOMAIN p.children :
                LET v == stack'[base + k] IN v = Null \/ p.children[k] \in Line(v)]_vars
  BY <1>1
<1> QED
  BY <1>2, <1>3, <1>4, Invariant, IsolatedInvariant, PTL DEF Spec, OneResultPerChild
=============================================================================
