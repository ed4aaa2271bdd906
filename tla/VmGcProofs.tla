----------------------------- MODULE VmGcProofs -----------------------------
(***************************************************************************)
(* Theorems of VmGc, for arenas, stacks, task sets and function tables of  *)
(* any size.                                                               *)
(***************************************************************************)
EXTENDS HeapFile, HeapLemmas, FileProofs

-----------------------------------------------------------------------------
(* Sequences of values.                                                    *)

LEMMA TopRest ==
  ASSUME NEW s \in Seq(Value)
  PROVE  /\ Top(s) \in Value /\ Rest(s) \in Seq(Value)
         /\ Top(s) \in Values(s) \cup {Prim}
         /\ Values(Rest(s)) \subseteq Values(s)
<1>1. CASE s = <<>>
  BY <1>1 DEF Top, Rest, Value
<1>2. CASE s # <<>>
  <2>1. Len(s) \in Nat \ {0} /\ DOMAIN s = 1..Len(s)
    BY <1>2
  <2>2. Rest(s) = SubSeq(s, 1, Len(s) - 1) /\ Top(s) = s[Len(s)]
    BY <1>2 DEF Top, Rest
  <2>3. /\ SubSeq(s, 1, Len(s) - 1) \in Seq(Value)
        /\ Len(SubSeq(s, 1, Len(s) - 1)) = Len(s) - 1
        /\ \A k \in 1..(Len(s) - 1) : SubSeq(s, 1, Len(s) - 1)[k] = s[k]
    BY <2>1
  <2>4. DOMAIN Rest(s) = 1..(Len(s) - 1)
    BY <2>1, <2>2, <2>3
  <2>5. \A k \in DOMAIN Rest(s) : Rest(s)[k] = s[k] /\ k \in DOMAIN s
    BY <2>1, <2>2, <2>3, <2>4
  <2> QED BY <2>1, <2>2, <2>3, <2>5 DEF Values
<1> QED BY <1>1, <1>2

LEMMA AppendValues ==
  ASSUME NEW s \in Seq(Value), NEW v \in Value
  PROVE  /\ Append(s, v) \in Seq(Value)
         /\ s \o <<v>> = Append(s, v) /\ s \o <<>> = s
         /\ Values(Append(s, v)) = Values(s) \cup {v}
<1>1. /\ Append(s, v) \in Seq(Value) /\ Len(Append(s, v)) = Len(s) + 1
      /\ \A k \in 1..Len(s) : Append(s, v)[k] = s[k]
      /\ Append(s, v)[Len(s) + 1] = v
  OBVIOUS
<1>2. /\ Len(s) \in Nat /\ DOMAIN s = 1..Len(s) /\ DOMAIN Append(s, v) = 1..(Len(s) + 1)
      /\ 1..(Len(s) + 1) = 1..Len(s) \cup {Len(s) + 1}
  BY <1>1
<1>3. s \o <<v>> = Append(s, v) /\ s \o <<>> = s
  OBVIOUS
<1> QED BY <1>1, <1>2, <1>3 DEF Values

LEMMA ElemListValues ==
  ASSUME TypeOK, NEW es \in ElemLists
  PROVE  es \in Seq(Value) /\ Values(es) \subseteq Visible /\ Visible \subseteq Value
<1>1. Visible \subseteq Value
  <2>1. Values(stack) \subseteq Value /\ Values(locals) \subseteq Value
    BY DEF TypeOK, Values
  <2> QED BY <2>1 DEF Visible, Active, TypeOK, Value
<1>2. PICK n \in 0..MaxElems : es \in [1..n -> Visible]
  BY DEF ElemLists
<1>3. n \in Nat
  BY <1>2, GcConstants
<1>4. es \in Seq(Value)
  BY <1>1, <1>2, <1>3
<1> QED BY <1>1, <1>2, <1>4 DEF Values

-----------------------------------------------------------------------------
(* Type correctness.                                                       *)

LEMMA CollectHeap ==
  ASSUME NEW h, IsHeap(h)
  PROVE  /\ IsHeap(Collect(h)) /\ Collect(h).objects = h.objects
         /\ Collect(h).free = Slots(h) \ Reach(h, Active)
BY SweepMarked DEF Collect, MarkRoots

LEMMA MarkHeap ==
  ASSUME NEW h, IsHeap(h), NEW vals
  PROVE  /\ IsHeap(MarkFrom(h, vals)) /\ MarkFrom(h, vals).objects = h.objects
         /\ MarkFrom(h, vals).free = h.free
<1>1. Reachable(h, vals, h.marked) \subseteq Slots(h) /\ Slots(h) \subseteq Nat
  BY ReachableClosed DEF IsHeap, Slots
<1> QED BY <1>1 DEF MarkFrom, IsHeap, Slots

LEMMA SetListHeap ==
  ASSUME NEW h, IsHeap(h), NEW i \in Slots(h), NEW es \in Seq(Value),
         NEW g, g = SetElems(h, i, es)
  PROVE  /\ IsHeap(g) /\ Slots(g) = Slots(h) /\ g.free = h.free
         /\ g.objects[i].elems = es
         /\ \A j \in Slots(h) : g.objects[j].kind = h.objects[j].kind
         /\ \A j \in Slots(h) \ {i} : g.objects[j] = h.objects[j]
<1>1. h.objects \in Seq(HeapObject) /\ i \in DOMAIN h.objects
  BY DEF IsHeap, Slots
<1>2. h.objects[i] \in HeapObject
  BY <1>1
<1> DEFINE o == [h.objects[i] EXCEPT !.elems = es]
<1>3. o \in HeapObject /\ o.elems = es /\ o.kind = h.objects[i].kind
  BY <1>2 DEF HeapObject
<1>4. g = [h EXCEPT !.objects = [h.objects EXCEPT ![i] = o]]
  BY DEF SetElems
<1> HIDE DEF o
<1>5. /\ [h.objects EXCEPT ![i] = o] \in Seq(HeapObject)
      /\ DOMAIN [h.objects EXCEPT ![i] = o] = DOMAIN h.objects
      /\ [h.objects EXCEPT ![i] = o][i] = o
      /\ \A j \in DOMAIN h.objects \ {i} : [h.objects EXCEPT ![i] = o][j] = h.objects[j]
  BY <1>1, <1>3
<1>6. g.objects = [h.objects EXCEPT ![i] = o] /\ g.marked = h.marked /\ g.free = h.free
      /\ g \in [objects : Seq(HeapObject), marked : SUBSET Nat, free : SUBSET Nat]
  BY <1>4, <1>5 DEF IsHeap
<1> QED BY <1>1, <1>3, <1>5, <1>6 DEF IsHeap, Slots

LEMMA TakenType ==
  Fresh \in Seq(Value) /\ Taken \in Saved /\ Spawned \in Saved
<1>1. Prim \in Value
  BY DEF Value
<1>2. NumLocals \in Nat
  BY GcConstants
<1>3. <<>> \in Seq(Value) /\ Fresh \in Seq(Value)
  BY <1>1, <1>2 DEF Fresh
<1> QED BY <1>3 DEF Taken, Spawned, Saved

LEMMA InitType == Init => TypeOK
<1> SUFFICES ASSUME Init PROVE TypeOK
  OBVIOUS
<1>1. IsHeap(NewHeap)
  BY DEF IsHeap, NewHeap, Slots
<1>2. stack \in Seq(Value) /\ locals \in Seq(Value) /\ held \in Value
  <2>1. stack = <<>> /\ locals = Fresh /\ held = Prim /\ Prim \in Value
    BY DEF Init, Value
  <2> QED BY <2>1, TakenType
<1>3. registry \in [Tasks -> Saved]
  BY TakenType DEF Init
<1> QED BY <1>1, <1>2, <1>3, GcConstants DEF Init, TypeOK

LEMMA NextType == TypeOK /\ [Next]_vars => TypeOK'
<1> SUFFICES ASSUME TypeOK, [Next]_vars PROVE TypeOK'
  OBVIOUS
<1> USE DEF TypeOK
<1>0. pins' \in Hosts
  BY DEF Next, vars
<1> USE <1>0
<1>1. ASSUME NEW k \in Kinds, OpAlloc(k) PROVE TypeOK'
  <2>1. PICK i \in 1..MaxSlots :
          /\ FreshSlot(heap, i)
          /\ heap' = Put(heap, i, [kind |-> k, elems |-> <<>>])
          /\ Push([kind |-> k, index |-> i])
    BY <1>1 DEF OpAlloc
  <2>2. [kind |-> k, elems |-> <<>>] \in HeapObject /\ [kind |-> k, index |-> i] \in Value
        /\ i \in Nat
    BY HeapConstants DEF HeapObject, Value, Ref
  <2> QED BY <1>1, <2>1, <2>2, PutHeap, AppendValues DEF OpAlloc, Push, task
<1>2. ASSUME NEW v \in code, OpPushConst(v) PROVE TypeOK'
  BY <1>2, AppendValues DEF OpPushConst, Push, task, Value
<1>3. ASSUME OpPop PROVE TypeOK'
  BY <1>3, TopRest DEF OpPop, task
<1>4. ASSUME NEW k \in DOMAIN locals, OpStore(k) PROVE TypeOK'
  <2>1. locals' \in Seq(Value)
    BY <1>4, TopRest DEF OpStore
  <2> QED BY <1>4, <2>1, TopRest DEF OpStore, task
<1>5. ASSUME NEW k \in DOMAIN locals, OpLoad(k) PROVE TypeOK'
  <2>1. locals[k] \in Value
    BY <1>5
  <2> QED BY <1>5, <2>1, AppendValues DEF OpLoad, Push, task
<1>6. ASSUME NEW t \in Tasks, EnterChild(t) PROVE TypeOK'
  <2>1. registry[t] \in Saved
    OBVIOUS
  <2>2. registry' \in [Tasks -> Saved]
    <3>1. [stack |-> stack, locals |-> locals] \in Saved /\ Taken \in Saved
      BY DEF Saved, Taken
    <3> QED BY <1>6, <3>1 DEF EnterChild
  <2> QED BY <1>6, <2>1, <2>2 DEF EnterChild, Saved
<1>7. ASSUME NEW t \in Tasks, RewaitChild(t) PROVE TypeOK'
  <2>1. registry[t].stack \in Seq(Value)
    BY DEF Saved
  <2>2. registry' \in [Tasks -> Saved]
    BY <1>7, <2>1, TopRest DEF RewaitChild, Saved
  <2> QED BY <1>7, <2>1, <2>2, TopRest, AppendValues DEF RewaitChild, Push
<1>8. ASSUME NEW frames \in {<<>>, locals}, LeaveChild(frames) PROVE TypeOK'
  <2>1. registry[Root].stack \in Seq(Value) /\ registry[Root].locals \in Seq(Value)
    BY GcConstants DEF Saved
  <2>2. [stack |-> Rest(stack), locals |-> frames] \in Saved
    <3>0. <<>> \in Seq(Value)
      OBVIOUS
    <3>1. Rest(stack) \in Seq(Value) /\ frames \in Seq(Value)
      BY <3>0, TopRest
    <3> QED BY <3>1 DEF Saved
  <2>3. registry' \in [Tasks -> Saved]
    BY <1>8, <2>2, TakenType DEF LeaveChild
  <2>4. stack' \in Seq(Value) /\ locals' \in Seq(Value) /\ current' \in Tasks
    BY <1>8, <2>1, TopRest, AppendValues, GcConstants DEF LeaveChild, RestoreRoot
  <2> QED BY <1>8, <2>3, <2>4 DEF LeaveChild
<1>9. ASSUME FailChild PROVE TypeOK'
  <2>1. registry[Root].stack \in Seq(Value) /\ registry[Root].locals \in Seq(Value)
    BY GcConstants DEF Saved
  <2>2. registry' \in [Tasks -> Saved]
    BY <1>9, TakenType DEF FailChild
  <2>3. stack' \in Seq(Value) /\ locals' \in Seq(Value) /\ current' \in Tasks
    BY <1>9, <2>1, AppendValues, GcConstants DEF FailChild, RestoreRoot
  <2> QED BY <1>9, <2>2, <2>3 DEF FailChild
<1>10. ASSUME NEW k \in Kinds, NEW es \in ElemLists, HostAlloc(k, es) PROVE TypeOK'
  <2>1. PICK i \in 1..MaxSlots :
          LET h == Put(heap, i, [kind |-> k, elems |-> es]) IN
          /\ FreshSlot(heap, i)
          /\ heap' = IF ShouldGc(h) THEN Collect(h) ELSE h
          /\ held' = [kind |-> k, index |-> i]
    BY <1>10 DEF HostAlloc
  <2>2. [kind |-> k, elems |-> es] \in HeapObject /\ held' \in Value /\ i \in Nat
    BY <2>1, HeapConstants, ElemListValues DEF HeapObject, Value, Ref
  <2>3. IsHeap(Put(heap, i, [kind |-> k, elems |-> es]))
    BY <2>1, <2>2, PutHeap
  <2>4. IsHeap(heap')
    BY <2>1, <2>3, CollectHeap
  <2> QED BY <1>10, <2>2, <2>4 DEF HostAlloc, task
<1>11. ASSUME NEW es \in ElemLists, NEW v \in Visible, HostSetList(v, es) PROVE TypeOK'
  <2>1. v.index \in Slots(heap)
    BY <1>11 DEF HostSetList, Resolves
  <2>2. IsHeap(heap')
    BY <1>11, <2>1, SetListHeap, ElemListValues DEF HostSetList
  <2> QED BY <1>11, <2>2 DEF HostSetList, task
<1>12. ASSUME HostPush PROVE TypeOK'
  BY <1>12, AppendValues DEF HostPush, Push, task
<1>13. ASSUME HostDrop PROVE TypeOK'
  BY <1>13 DEF HostDrop, task, Value
<1>14. ASSUME HostAddFunction PROVE TypeOK'
  BY <1>14 DEF HostAddFunction, task, Value
<1>15. ASSUME CollectGarbage PROVE TypeOK'
  BY <1>15, CollectHeap DEF CollectGarbage, task
<1>16. ASSUME Capture PROVE TypeOK'
  <2>1. IsHeap(heap') /\ panicked' \in BOOLEAN
    <3>1. IsHeap(MarkAllTaskRoots(heap))
      BY MarkHeap DEF MarkAllTaskRoots
    <3>2. CASE CodeReadable
      BY <1>16, <3>1, <3>2, Zenon DEF Capture
    <3>3. CASE ~CodeReadable
      BY <1>16, <3>3 DEF Capture
    <3> QED BY <3>2, <3>3
  <2> QED BY <1>16, <2>1 DEF Capture, task
<1>17. ASSUME UNCHANGED vars PROVE TypeOK'
  BY <1>17 DEF vars
<1> QED
  BY <1>1, <1>2, <1>3, <1>4, <1>5, <1>6, <1>7, <1>8, <1>9, <1>10, <1>11, <1>12, <1>13,
     <1>14, <1>15, <1>16, <1>17 DEF Next, Opcodes, Switches, Host

(* Every state of the VM has a well-formed heap: marks and free slots are   *)
(* slots, every element is a value, and every task has its saved state.     *)
THEOREM TypeCorrect == Spec => []TypeOK
BY InitType, NextType, PTL DEF Spec

-----------------------------------------------------------------------------
(* What a step does to the slots somebody reaches.                         *)

LEMMA ParkedAt ==
  ASSUME NEW v
  PROVE  v \in Parked <=>
         \E t \in Tasks : v \in Values(registry[t].stack) \cup Values(registry[t].locals)
BY DEF Parked

Clean == Dangling = {}

\* A step that leaves objects and free list alone and copies handles around.
LEMMA HeapKept ==
  ASSUME heap'.objects = heap.objects, heap'.free = heap.free,
         Holders' \subseteq Holders \cup {Prim}
  PROVE  Dangling' \subseteq Dangling /\ (AllTyped => AllTyped')
<1>1. /\ Slots(heap') = Slots(heap)
      /\ Reach(heap', Holders') = Reach(heap, Holders')
  BY ReachObjects
<1>2. Reach(heap, Holders') \subseteq Reach(heap, Holders)
  BY ReachMono DEF Handles
<1>3. Dangling' \subseteq Dangling
  BY <1>1, <1>2 DEF Dangling
<1>4. ASSUME AllTyped PROVE AllTyped'
  <2>1. ASSUME NEW v, Resolves(heap, v) PROVE Resolves(heap', v)
    BY <1>1, <2>1 DEF Resolves
  <2>2. Resolves(heap, Prim)
    BY DEF Resolves
  <2>3. \A v \in Holders' : Resolves(heap', v)
    BY <1>4, <2>1, <2>2 DEF AllTyped
  <2>4. \A i \in Reach(heap', Holders') :
          \A v \in Values(heap'.objects[i].elems) : Resolves(heap', v)
    BY <1>1, <1>2, <1>4, <2>1 DEF AllTyped
  <2> QED BY <2>3, <2>4 DEF AllTyped
<1> QED BY <1>3, <1>4

\* A step that puts a new object in a fresh slot and hands out its handle.
LEMMA ObjectPut ==
  ASSUME TypeOK, NEW i \in Nat, FreshSlot(heap, i), NEW k \in Kinds,
         NEW es \in Seq(Value), Values(es) \subseteq Holders \cup {Prim},
         heap' = Put(heap, i, [kind |-> k, elems |-> es]),
         Holders' \subseteq Holders \cup {Prim, [kind |-> k, index |-> i]}
  PROVE  Dangling' \subseteq Dangling /\ (Clean /\ AllTyped => AllTyped')
<1> DEFINE obj == [kind |-> k, elems |-> es]
<1>1. IsHeap(heap) /\ obj \in HeapObject
  BY DEF TypeOK, HeapObject
<1>2. Handles(Holders') \subseteq Handles(Holders) \cup {i}
  BY DEF Handles
<1>3. Values(obj.elems) \subseteq Holders \cup {Prim}
  OBVIOUS
<1>4. heap' = Put(heap, i, obj)
  OBVIOUS
<1>0. obj.kind = k
  OBVIOUS
<1> HIDE DEF obj
<1>5. /\ Slots(heap') = Slots(heap) \cup {i} /\ heap'.objects[i] = obj
      /\ \A j \in Slots(heap) \ {i} : heap'.objects[j] = heap.objects[j]
      /\ heap'.free = heap.free \ {i}
  <2> DEFINE p == Put(heap, i, obj)
  <2>1. /\ Slots(p) = Slots(heap) \cup {i} /\ p.objects[i] = obj
        /\ \A j \in Slots(heap) \ {i} : p.objects[j] = heap.objects[j]
        /\ p.free = heap.free \ {i}
    BY <1>1, PutHeap
  <2> HIDE DEF p
  <2>2. heap' = p
    BY <1>4 DEF p
  <2> QED BY <2>1, <2>2
<1>6. Reach(heap', Holders') \subseteq Reach(heap, Holders) \cup {i}
  BY <1>1, <1>2, <1>3, <1>4, PutReach
<1>7. Dangling' \subseteq Dangling
  BY <1>5, <1>6 DEF Dangling
<1>8. ASSUME Clean, AllTyped PROVE AllTyped'
  <2>0. ASSUME NEW v, Resolves(heap, v), v # Prim => v.index \in Reach(heap, Holders)
        PROVE  Resolves(heap', v)
    <3>1. CASE v = Prim
      BY <3>1 DEF Resolves
    <3>2. CASE v # Prim
      <4>1. v.index \in Slots(heap) /\ heap.objects[v.index].kind = v.kind
        BY <2>0, <3>2 DEF Resolves
      <4>2. v.index \notin heap.free
        BY <1>8, <2>0, <3>2 DEF Clean, Dangling
      <4>3. v.index # i
        <5>1. i \in heap.free \/ i = Len(heap.objects) + 1
          BY DEF FreshSlot
        <5>2. Slots(heap) = 1..Len(heap.objects) /\ Len(heap.objects) \in Nat
          BY <1>1 DEF IsHeap, Slots
        <5> QED BY <4>1, <4>2, <5>1, <5>2
      <4> QED BY <1>5, <4>1, <4>3 DEF Resolves
    <3> QED BY <3>1, <3>2
  <2>1. ASSUME NEW v \in Holders PROVE Resolves(heap', v)
    <3>1. Resolves(heap, v)
      BY <1>8 DEF AllTyped
    <3>2. v # Prim => v.index \in Reach(heap, Holders)
      BY <3>1, ReachableClosed DEF Reach, Handles, Resolves
    <3> QED BY <2>0, <3>1, <3>2
  <2>2. Resolves(heap', [kind |-> k, index |-> i]) /\ Resolves(heap', Prim)
    BY <1>0, <1>5 DEF Resolves
  <2>3. ASSUME NEW j \in Reach(heap, Holders), NEW v \in Values(heap.objects[j].elems)
        PROVE  Resolves(heap', v)
    <3>1. Resolves(heap, v)
      BY <1>8 DEF AllTyped
    <3>2. v # Prim => v.index \in Children(heap, j) \cap Slots(heap)
      BY <3>1 DEF Children, Handles, Resolves
    <3>3. Closed(heap, Reach(heap, Holders), {})
      BY ReachableClosed DEF Reach
    <3>4. v # Prim => v.index \in Reach(heap, Holders)
      BY <3>2, <3>3 DEF Closed
    <3> QED BY <2>0, <3>1, <3>4
  <2>4. ASSUME NEW j \in Reach(heap', Holders'), NEW v \in Values(heap'.objects[j].elems)
        PROVE  Resolves(heap', v)
    <3>1. CASE j = i
      <4>1. v \in Holders \cup {Prim}
        BY <1>3, <1>5, <3>1
      <4> QED BY <2>1, <2>2, <4>1
    <3>2. CASE j # i
      <4>1. j \in Reach(heap, Holders) /\ Reach(heap, Holders) \subseteq Slots(heap)
        BY <1>6, <3>2, ReachableClosed DEF Reach
      <4> QED BY <1>5, <2>3, <3>2, <4>1
    <3> QED BY <3>1, <3>2
  <2>5. \A v \in Holders' : Resolves(heap', v)
    BY <2>1, <2>2
  <2> QED BY <2>4, <2>5 DEF AllTyped
<1> QED BY <1>7, <1>8

\* get_list_mut: new elements, taken from what the host sees.
LEMMA ListSet ==
  ASSUME TypeOK, NEW v \in Visible \ {Prim}, Resolves(heap, v), NEW es \in ElemLists,
         heap' = SetElems(heap, v.index, es), Holders' = Holders
  PROVE  Dangling' \subseteq Dangling /\ (AllTyped => AllTyped')
<1> DEFINE i == v.index
           S == Reach(heap, Holders)
<1>1. IsHeap(heap) /\ i \in Slots(heap) /\ es \in Seq(Value) /\ Values(es) \subseteq Visible
  BY ElemListValues DEF TypeOK, Resolves
<1>2. Visible \subseteq Holders \cup {Prim}
  BY DEF Visible, Holders, Unscanned
<1>3. /\ Slots(heap') = Slots(heap) /\ heap'.free = heap.free /\ heap'.objects[i].elems = es
      /\ \A j \in Slots(heap) : heap'.objects[j].kind = heap.objects[j].kind
      /\ \A j \in Slots(heap) \ {i} : heap'.objects[j] = heap.objects[j]
  BY <1>1, SetListHeap
<1>4. /\ S \subseteq Slots(heap) /\ Closed(heap, S, {})
      /\ Handles(Holders) \cap Slots(heap) \subseteq S
  BY ReachableClosed DEF Reach
<1>5. ASSUME NEW j \in S PROVE Children(heap', j) \cap Slots(heap') \subseteq S
  <2>1. CASE j = i
    <3>1. Children(heap', j) = Handles(Values(es))
      BY <1>3, <2>1 DEF Children
    <3>2. Handles(Values(es)) \subseteq Handles(Holders)
      BY <1>1, <1>2 DEF Handles
    <3> QED BY <1>3, <1>4, <3>1, <3>2
  <2>2. CASE j # i
    <3>1. Children(heap', j) = Children(heap, j)
      BY <1>3, <1>4, <2>2 DEF Children
    <3> QED BY <1>3, <1>4, <3>1 DEF Closed
  <2> QED BY <2>1, <2>2
<1>6. Closed(heap', S, {})
  BY <1>5 DEF Closed
<1>7. Reach(heap', Holders') \subseteq S
  BY <1>3, <1>4, <1>6, ReachableLeast DEF Reach
<1>8. Dangling' \subseteq Dangling
  BY <1>3, <1>7 DEF Dangling
<1>9. ASSUME AllTyped PROVE AllTyped'
  <2>1. ASSUME NEW w, Resolves(heap, w) PROVE Resolves(heap', w)
    BY <1>3, <2>1 DEF Resolves
  <2>2. \A w \in Holders' \cup {Prim} : Resolves(heap', w)
    BY <1>9, <2>1 DEF AllTyped, Resolves
  <2>3. ASSUME NEW j \in S, NEW w \in Values(heap'.objects[j].elems) PROVE Resolves(heap', w)
    <3>1. CASE j = i
      BY <1>1, <1>2, <1>3, <2>2, <3>1
    <3>2. CASE j # i
      <4>1. w \in Values(heap.objects[j].elems)
        BY <1>3, <1>4, <3>2
      <4> QED BY <1>9, <2>1, <4>1 DEF AllTyped
    <3> QED BY <3>1, <3>2
  <2> QED BY <1>7, <2>2, <2>3 DEF AllTyped
<1> QED BY <1>8, <1>9

\* A collection, on the heap as it is or right after an allocation.
LEMMA Collected ==
  ASSUME NEW h, IsHeap(h), heap' = Collect(h), Active' = Active
  PROVE  /\ Dangling' \subseteq Reach(heap', Unscanned') \ Reach(heap', Active')
         /\ \A vals : Reach(heap', vals) = Reach(h, vals)
<1>1. heap'.objects = h.objects /\ heap'.free = Slots(h) \ Reach(h, Active)
  BY CollectHeap
<1>2. \A vals : Reach(heap', vals) = Reach(h, vals)
  BY <1>1, ReachObjects
<1>3. Reach(heap', Holders') \subseteq Reach(heap', Active') \cup Reach(heap', Unscanned')
  BY ReachUnion DEF Holders
<1> QED BY <1>1, <1>2, <1>3 DEF Dangling

-----------------------------------------------------------------------------
(* One step: who holds what afterwards.                                    *)

CollectStep ==
  CollectGarbage \/ \E k \in Kinds, es \in ElemLists : HostAlloc(k, es)

Gentle == Dangling' \subseteq Dangling /\ (Clean /\ AllTyped => AllTyped')

LEMMA QuietStep ==
  ASSUME TypeOK, [Next]_vars, ~CollectStep
  PROVE  Gentle
<1> USE DEF TypeOK
<1>0. ASSUME NEW i, i \in DOMAIN locals PROVE locals[i] \in Values(locals)
  BY <1>0 DEF Values
<1>00. Values(<<>>) = {}
  BY DEF Values
<1>1. ASSUME NEW k \in Kinds, OpAlloc(k) PROVE Gentle
  <2>1. PICK i \in 1..MaxSlots :
          /\ FreshSlot(heap, i)
          /\ heap' = Put(heap, i, [kind |-> k, elems |-> <<>>])
          /\ Push([kind |-> k, index |-> i])
    BY <1>1 DEF OpAlloc
  <2>2. [kind |-> k, index |-> i] \in Value /\ i \in Nat
        /\ <<>> \in Seq(Value) /\ Values(<<>>) \subseteq Holders \cup {Prim}
    BY <1>00, HeapConstants DEF Value, Ref
  <2>3. Values(stack') = Values(stack) \cup {[kind |-> k, index |-> i]}
    BY <2>1, <2>2, AppendValues DEF Push
  <2>4. Holders' \subseteq Holders \cup {Prim, [kind |-> k, index |-> i]}
    BY <1>1, <2>3 DEF OpAlloc, task, Holders, Active, Unscanned, Parked
  <2> QED BY <2>1, <2>2, <2>4, ObjectPut DEF Gentle
<1>2. ASSUME NEW v \in code, OpPushConst(v) PROVE Gentle
  <2>1. Values(stack') = Values(stack) \cup {v}
    BY <1>2, AppendValues DEF OpPushConst, Push, Value
  <2>2. Holders' \subseteq Holders \cup {Prim}
    BY <1>2, <2>1 DEF OpPushConst, task, Holders, Active, Unscanned, Parked
  <2> QED BY <1>2, <2>2, HeapKept DEF OpPushConst, Gentle
<1>3. ASSUME OpPop PROVE Gentle
  <2>1. Values(stack') \subseteq Values(stack)
    BY <1>3, TopRest DEF OpPop
  <2>2. Holders' \subseteq Holders \cup {Prim}
    BY <1>3, <2>1 DEF OpPop, task, Holders, Active, Unscanned, Parked
  <2> QED BY <1>3, <2>2, HeapKept DEF OpPop, Gentle
<1>4. ASSUME NEW k \in DOMAIN locals, OpStore(k) PROVE Gentle
  <2>1. Values(stack') \subseteq Values(stack) /\ Top(stack) \in Values(stack) \cup {Prim}
    BY <1>4, TopRest DEF OpStore
  <2>2. Values(locals') \subseteq Values(locals) \cup {Top(stack)}
    <3>1. DOMAIN locals' = DOMAIN locals
          /\ \A j \in DOMAIN locals : locals'[j] = locals[j] \/ locals'[j] = Top(stack)
      BY <1>4 DEF OpStore
    <3> QED BY <3>1 DEF Values
  <2>3. Active' \subseteq Active \cup {Prim}
    BY <2>1, <2>2 DEF Active
  <2>4. Holders' \subseteq Holders \cup {Prim}
    BY <1>4, <2>3 DEF OpStore, task, Holders, Unscanned, Parked
  <2> QED BY <1>4, <2>4, HeapKept DEF OpStore, Gentle
<1>5. ASSUME NEW k \in DOMAIN locals, OpLoad(k) PROVE Gentle
  <2>1. locals[k] \in Value
    OBVIOUS
  <2>2. Values(stack') = Values(stack) \cup {locals[k]}
    BY <1>5, <2>1, AppendValues DEF OpLoad, Push
  <2>3. Holders' \subseteq Holders \cup {Prim}
    BY <1>0, <1>5, <2>2 DEF OpLoad, task, Holders, Active, Unscanned, Parked
  <2> QED BY <1>5, <2>3, HeapKept DEF OpLoad, Gentle
<1>6. ASSUME NEW t \in Tasks, EnterChild(t) PROVE Gentle
  <2>1. Active' \subseteq Parked
    BY <1>6 DEF EnterChild, Active, Parked
  <2>2. ASSUME NEW u \in Tasks
        PROVE  Values(registry'[u].stack) \cup Values(registry'[u].locals) \subseteq Active \cup Parked
    <3>1. \/ registry'[u] = registry[u] \/ registry'[u] = Taken
          \/ registry'[u] = [stack |-> stack, locals |-> locals]
      BY <1>6 DEF EnterChild
    <3> QED BY <3>1, <1>00 DEF Taken, Active, Parked
  <2>3. Parked' \subseteq Active \cup Parked
    BY <2>2 DEF Parked
  <2>4. Holders' \subseteq Holders \cup {Prim}
    BY <1>6, <2>1, <2>3 DEF EnterChild, Holders, Unscanned
  <2> QED BY <1>6, <2>4, HeapKept DEF EnterChild, Gentle
<1>7. ASSUME NEW t \in Tasks, RewaitChild(t) PROVE Gentle
  <2>1. registry[t].stack \in Seq(Value)
    BY DEF Saved
  <2>2. Values(stack') = Values(stack) \cup {Top(registry[t].stack)}
        /\ Top(registry[t].stack) \in Values(registry[t].stack) \cup {Prim}
        /\ Values(Rest(registry[t].stack)) \subseteq Values(registry[t].stack)
    BY <1>7, <2>1, TopRest, AppendValues DEF RewaitChild, Push
  <2>3. ASSUME NEW u \in Tasks
        PROVE  Values(registry'[u].stack) \cup Values(registry'[u].locals) \subseteq Parked
    <3>1. /\ registry'[u].locals = registry[u].locals
          /\ \/ registry'[u].stack = registry[u].stack
             \/ u = t /\ registry'[u].stack = Rest(registry[t].stack)
      BY <1>7 DEF RewaitChild, Saved
    <3> QED BY <2>2, <3>1 DEF Parked
  <2>4. Parked' \subseteq Parked
    BY <2>3 DEF Parked
  <2>5. Values(stack') \subseteq Values(stack) \cup Parked \cup {Prim}
    BY <2>2, ParkedAt
  <2>6. Holders' \subseteq Holders \cup {Prim}
    BY <1>7, <2>4, <2>5 DEF RewaitChild, Holders, Unscanned, Active
  <2> QED BY <1>7, <2>6, HeapKept DEF RewaitChild, Gentle
<1>8. ASSUME NEW frames \in {<<>>, locals}, LeaveChild(frames) PROVE Gentle
  <2>1. registry[Root].stack \in Seq(Value) /\ Top(stack) \in Value
    BY GcConstants, TopRest DEF Saved
  <2>2. /\ Values(stack') = Values(registry[Root].stack) \cup {Top(stack)}
        /\ Top(stack) \in Values(stack) \cup {Prim} /\ Values(Rest(stack)) \subseteq Values(stack)
    BY <1>8, <2>1, TopRest, AppendValues DEF LeaveChild, RestoreRoot
  <2>3. Active' \subseteq Active \cup Parked \cup {Prim}
    BY <1>8, <2>2, ParkedAt, GcConstants DEF LeaveChild, RestoreRoot, Active
  <2>4. ASSUME NEW u \in Tasks
        PROVE  Values(registry'[u].stack) \cup Values(registry'[u].locals) \subseteq Active \cup Parked
    <3>1. \/ registry'[u] = registry[u] \/ registry'[u] = Taken
          \/ registry'[u] = [stack |-> Rest(stack), locals |-> frames]
      BY <1>8 DEF LeaveChild
    <3>2. Values(frames) \subseteq Active
      BY <1>00 DEF Active
    <3> QED BY <3>1, <3>2, <1>00, <2>2 DEF Taken, Active, Parked
  <2>5. Parked' \subseteq Active \cup Parked
    BY <2>4 DEF Parked
  <2>6. Holders' \subseteq Holders \cup {Prim}
    BY <1>8, <2>3, <2>5 DEF LeaveChild, Holders, Unscanned
  <2> QED BY <1>8, <2>6, HeapKept DEF LeaveChild, Gentle
<1>9. ASSUME FailChild PROVE Gentle
  <2>1. registry[Root].stack \in Seq(Value)
    BY GcConstants DEF Saved
  <2>2. stack' = registry[Root].stack /\ locals' = registry[Root].locals
    BY <1>9, <2>1 DEF FailChild, RestoreRoot
  <2>3. Active' \subseteq Parked
    BY <2>2, GcConstants DEF Active, Parked
  <2>4. ASSUME NEW u \in Tasks
        PROVE  Values(registry'[u].stack) \cup Values(registry'[u].locals) \subseteq Parked
    <3>1. registry'[u] = registry[u] \/ registry'[u] = Taken
      BY <1>9 DEF FailChild
    <3> QED BY <3>1, <1>00 DEF Taken, Parked
  <2>5. Parked' \subseteq Parked
    BY <2>4 DEF Parked
  <2>6. Holders' \subseteq Holders \cup {Prim}
    BY <1>9, <2>3, <2>5 DEF FailChild, Holders, Unscanned
  <2> QED BY <1>9, <2>6, HeapKept DEF FailChild, Gentle
<1>10. ASSUME NEW es \in ElemLists, NEW v \in Visible, HostSetList(v, es) PROVE Gentle
  <2>1. Holders' = Holders
    BY <1>10 DEF HostSetList, task, Holders, Unscanned, Active, Parked
  <2> QED BY <1>10, <2>1, ListSet DEF HostSetList, Gentle
<1>11. ASSUME HostPush PROVE Gentle
  <2>1. Values(stack') = Values(stack) \cup {held}
    BY <1>11, AppendValues DEF HostPush, Push
  <2>2. Holders' \subseteq Holders \cup {Prim}
    BY <1>11, <2>1 DEF HostPush, task, Holders, Unscanned, Active, Parked
  <2> QED BY <1>11, <2>2, HeapKept DEF HostPush, Gentle
<1>12. ASSUME HostDrop PROVE Gentle
  <2>1. Holders' \subseteq Holders \cup {Prim}
    BY <1>12 DEF HostDrop, task, Holders, Unscanned, Active, Parked
  <2> QED BY <1>12, <2>1, HeapKept DEF HostDrop, Gentle
<1>13. ASSUME HostAddFunction PROVE Gentle
  <2>1. Holders' \subseteq Holders \cup {Prim}
    BY <1>13 DEF HostAddFunction, task, Holders, Unscanned, Active, Parked
  <2> QED BY <1>13, <2>1, HeapKept DEF HostAddFunction, Gentle
<1>14. ASSUME Capture PROVE Gentle
  <2>1. heap'.objects = heap.objects /\ heap'.free = heap.free
    BY <1>14, MarkHeap DEF Capture, MarkAllTaskRoots
  <2>2. Holders' \subseteq Holders \cup {Prim}
    BY <1>14 DEF Capture, task, Holders, Unscanned, Active, Parked
  <2> QED BY <2>1, <2>2, HeapKept DEF Gentle
<1>15. ASSUME UNCHANGED vars PROVE Gentle
  <2>1. Holders' \subseteq Holders \cup {Prim}
    BY <1>15 DEF vars, Holders, Unscanned, Active, Parked
  <2> QED BY <1>15, <2>1, HeapKept DEF vars, Gentle
<1> QED
  BY <1>1, <1>2, <1>3, <1>4, <1>5, <1>6, <1>7, <1>8, <1>9, <1>10, <1>11, <1>12, <1>13,
     <1>14, <1>15 DEF Next, Opcodes, Switches, Host, CollectStep

-----------------------------------------------------------------------------
(* The steps that collect.                                                 *)

LEMMA AllocStep ==
  ASSUME TypeOK, NEW k \in Kinds, NEW es \in ElemLists, HostAlloc(k, es)
  PROVE  \/ Gentle
         \/ ~pins /\ Dangling' \subseteq Reach(heap', Unscanned') \ Reach(heap', Active')
<1>1. PICK i \in 1..MaxSlots :
        LET h == Put(heap, i, [kind |-> k, elems |-> es]) IN
        /\ FreshSlot(heap, i)
        /\ pins => ~ShouldGc(h)
        /\ heap' = IF ShouldGc(h) THEN Collect(h) ELSE h
        /\ held' = [kind |-> k, index |-> i]
  BY DEF HostAlloc
<1> DEFINE h == Put(heap, i, [kind |-> k, elems |-> es])
<1>2. i \in Nat /\ es \in Seq(Value) /\ Values(es) \subseteq Holders \cup {Prim}
  BY HeapConstants, ElemListValues DEF Visible, Holders, Unscanned
<1>3. IsHeap(h)
  <2>1. [kind |-> k, elems |-> es] \in HeapObject
    BY <1>2 DEF HeapObject
  <2> QED BY <1>1, <1>2, <2>1, PutHeap DEF TypeOK
<1>4. Active' = Active /\ Holders' \subseteq Holders \cup {Prim, [kind |-> k, index |-> i]}
  BY <1>1 DEF HostAlloc, task, Holders, Unscanned, Active, Parked
<1>5. CASE ShouldGc(h)
  <2>1. heap' = Collect(h) /\ ~pins
    BY <1>1, <1>5, GcConstants
  <2> HIDE DEF h
  <2> QED BY <1>3, <1>4, <2>1, Collected
<1>6. CASE ~ShouldGc(h)
  <2>1. heap' = Put(heap, i, [kind |-> k, elems |-> es])
    BY <1>1, <1>6
  <2> QED BY <1>1, <1>2, <1>4, <2>1, ObjectPut DEF Gentle
<1> QED BY <1>5, <1>6

LEMMA CollectGarbageStep ==
  ASSUME TypeOK, CollectGarbage
  PROVE  /\ Dangling' \subseteq Reach(heap', Unscanned') \ Reach(heap', Active')
         /\ pins => Dangling' = {} /\ (AllTyped => AllTyped')
<1>1. /\ heap' = Collect(heap) /\ IsHeap(heap) /\ Active' = Active
      /\ Unscanned' = Unscanned /\ Holders' = Holders
  BY DEF CollectGarbage, TypeOK, task, Holders, Active, Unscanned, Parked
<1>2. /\ Dangling' \subseteq Reach(heap', Unscanned') \ Reach(heap', Active')
      /\ \A vals : Reach(heap', vals) = Reach(heap, vals)
  BY <1>1, Collected
<1>3. pins => Dangling' = {}
  BY <1>1, <1>2 DEF CollectGarbage, Pinned
<1>4. ASSUME AllTyped PROVE AllTyped'
  <2>1. heap'.objects = heap.objects /\ Slots(heap') = Slots(heap)
    BY <1>1, CollectHeap, ReachObjects
  <2>2. ASSUME NEW v, Resolves(heap, v) PROVE Resolves(heap', v)
    BY <2>1, <2>2 DEF Resolves
  <2>3. \A v \in Holders' : Resolves(heap', v)
    BY <1>1, <1>4, <2>2 DEF AllTyped
  <2>4. \A i \in Reach(heap', Holders') :
          \A v \in Values(heap'.objects[i].elems) : Resolves(heap', v)
    BY <1>1, <1>2, <1>4, <2>1, <2>2 DEF AllTyped
  <2> QED BY <2>3, <2>4 DEF AllTyped
<1> QED BY <1>2, <1>3, <1>4

-----------------------------------------------------------------------------
(* A handle comes to dangle only in a collection, and only if the root scan *)
(* could not see whoever holds it: neither marking nor sweeping nor any     *)
(* move of a handle between stack, locals, tasks, lists and code loses it.  *)
THEOREM DanglingOnlyFromUnscanned == Spec => DanglesOnlyUnscanned
<1> DEFINE lost == Dangling' \ Dangling
           Good == lost # {} => /\ CollectStep
                                /\ lost \subseteq Reach(heap', Unscanned') \ Reach(heap', Active')
<1>1. TypeOK /\ [Next]_vars => Good
  <2> SUFFICES ASSUME TypeOK, [Next]_vars PROVE Good
    OBVIOUS
  <2>1. CASE ~CollectStep
    BY <2>1, QuietStep DEF Gentle
  <2>2. CASE CollectGarbage
    BY <2>2, CollectGarbageStep DEF CollectStep
  <2>3. ASSUME NEW k \in Kinds, NEW es \in ElemLists, HostAlloc(k, es) PROVE Good
    BY <2>3, AllocStep DEF Gentle, CollectStep
  <2> QED BY <2>1, <2>2, <2>3 DEF CollectStep
<1>2. TypeOK /\ [Next]_vars => [Good]_vars
  BY <1>1
<1> QED BY <1>2, TypeCorrect, PTL DEF Spec, DanglesOnlyUnscanned, CollectStep

(* The strengthening under which the two handle invariants are inductive.   *)
SafeHandles == pins => Clean /\ AllTyped

(* With a host that pins, no handle ever dangles and each resolves with its *)
(* own type: through reuse of freed slots, switches of task, list updates   *)
(* and collections, in arenas of any size.                                  *)
THEOREM PinnedHostIsSafe == Spec => [](NoDangling /\ TypedHandles)
<1>1. Init => SafeHandles
  <2> SUFFICES ASSUME Init PROVE SafeHandles
    OBVIOUS
  <2>1. heap.free = {} /\ Slots(heap) = {} /\ Values(<<>>) = {} /\ Values(Fresh) \subseteq {Prim}
    BY DEF Init, NewHeap, Slots, Values, Fresh
  <2>2. ASSUME NEW t \in Tasks
        PROVE  Values(registry[t].stack) \cup Values(registry[t].locals) \subseteq {Prim}
    BY <2>1 DEF Init, Taken, Spawned
  <2>3. Holders \subseteq {Prim}
    <3>1. Parked \subseteq {Prim}
      BY <2>2 DEF Parked
    <3> QED BY <2>1, <3>1 DEF Init, Holders, Active, Unscanned
  <2>4. Reach(heap, Holders) = {}
    BY <2>1, ReachableClosed DEF Reach
  <2> QED BY <2>1, <2>3, <2>4 DEF SafeHandles, Clean, AllTyped, Dangling, Resolves
<1>2. TypeOK /\ SafeHandles /\ [Next]_vars => SafeHandles'
  <2> SUFFICES ASSUME TypeOK, SafeHandles, [Next]_vars, pins' PROVE Clean' /\ AllTyped'
    BY DEF SafeHandles
  <2>0. pins /\ Clean /\ AllTyped
    BY DEF Next, vars, SafeHandles
  <2>1. ASSUME Gentle PROVE Clean' /\ AllTyped'
    BY <2>0, <2>1 DEF Gentle, Clean
  <2>2. CASE ~CollectStep
    BY <2>1, <2>2, QuietStep
  <2>3. CASE CollectGarbage
    BY <2>0, <2>3, CollectGarbageStep DEF Clean
  <2>4. ASSUME NEW k \in Kinds, NEW es \in ElemLists, HostAlloc(k, es) PROVE Clean' /\ AllTyped'
    BY <2>0, <2>1, <2>4, AllocStep
  <2> QED BY <2>2, <2>3, <2>4 DEF CollectStep
<1>3. SafeHandles => NoDangling /\ TypedHandles
  BY DEF SafeHandles, NoDangling, TypedHandles, Clean
<1> QED BY <1>1, <1>2, <1>3, TypeCorrect, PTL DEF Spec

(* Reuse of a slot for an object of the other type and updates of lists: with a *)
(* host that pins, each handle that something holds resolves with its own type. *)
THEOREM HandlesKeepTheirType == Spec => []TypedHandles
BY PinnedHostIsSafe, PTL

(* Whatever marks a capture left behind, a collection frees all that the roots *)
(* do not reach.                                                               *)
THEOREM CollectionsAreComplete == Spec => NoFloatingGarbage
<1>1. ASSUME TypeOK, CollectGarbage
      PROVE  Slots(heap') \ heap'.free \subseteq Reach(heap', Active')
  <2>1. /\ heap' = Collect(heap) /\ IsHeap(heap) /\ Active' = Active
        /\ Unscanned' = Unscanned /\ Holders' = Holders
    BY <1>1 DEF CollectGarbage, TypeOK, task, Holders, Active, Unscanned, Parked
  <2>2. heap'.objects = heap.objects /\ heap'.free = Slots(heap) \ Reach(heap, Active)
    BY <2>1, CollectHeap
  <2>3. Slots(heap') = Slots(heap) /\ Reach(heap', Active') = Reach(heap, Active)
    BY <2>1, <2>2, ReachObjects
  <2> QED BY <2>2, <2>3
<1>2. TypeOK /\ [Next]_vars =>
        [CollectGarbage => Slots(heap') \ heap'.free \subseteq Reach(heap', Active')]_vars
  BY <1>1
<1> QED BY <1>2, TypeCorrect, PTL DEF Spec, NoFloatingGarbage
-----------------------------------------------------------------------------
(* Snapshots.  A position is the rank of a slot among the marked ones, so  *)
(* it grows with the slot.                                                 *)

LEMMA Ranks ==
  ASSUME NEW h, IsHeap(h)
  PROVE  /\ Cardinality(h.marked) \in Nat
         /\ \A i \in h.marked : /\ Pos(h, i) \in 1..Cardinality(h.marked)
                                /\ AtPos(h, Pos(h, i)) = i
         /\ \A i, j \in h.marked : Pos(h, i) = Pos(h, j) => i = j
<1> DEFINE M == h.marked
           upTo(i) == {j \in M : j <= i}
<1>1. IsFiniteSet(M) /\ M \subseteq Nat
  <2>1. M \subseteq 1..Len(h.objects) /\ Len(h.objects) \in Nat
    BY DEF IsHeap, Slots
  <2>2. IsFiniteSet(1..Len(h.objects))
    BY <2>1, FS_Interval
  <2> QED
    BY <2>1, <2>2, FS_Subset
<1>2. Cardinality(M) \in Nat
  BY <1>1, FS_CardinalityType
<1>3. \A i : Pos(h, i) = Cardinality(upTo(i))
  BY DEF Pos
<1> HIDE DEF M
<1>4. ASSUME NEW i \in M
      PROVE  Cardinality(upTo(i)) \in 1..Cardinality(M)
  <2>1. upTo(i) \in SUBSET M /\ i \in upTo(i)
    BY <1>1, <1>4
  <2> HIDE DEF upTo
  <2>2. IsFiniteSet(upTo(i)) /\ Cardinality(upTo(i)) <= Cardinality(M)
    BY <1>1, <2>1, FS_Subset
  <2>3. Cardinality(upTo(i)) \in Nat /\ Cardinality(upTo(i)) # 0
    BY <2>1, <2>2, FS_CardinalityType, FS_EmptySet
  <2> QED
    BY <1>2, <2>2, <2>3
<1>5. ASSUME NEW i \in M, NEW j \in M, i < j
      PROVE  Cardinality(upTo(i)) # Cardinality(upTo(j))
  <2>0. i \in Nat /\ j \in Nat /\ ~(j <= i) /\ j <= j
    BY <1>1, <1>5
  <2>1. upTo(i) \in SUBSET upTo(j) /\ upTo(j) \in SUBSET M /\ j \in upTo(j) /\ j \notin upTo(i)
    <3>1. \A k \in M : k <= i => k <= j
      BY <1>1, <1>5, <2>0
    <3> QED
      BY <1>5, <2>0, <3>1
  <2> HIDE DEF upTo
  <2>2. IsFiniteSet(upTo(j))
    BY <1>1, <2>1, FS_Subset
  <2> QED
    BY <2>1, <2>2, FS_Subset
<1>6. ASSUME NEW i \in M, NEW j \in M, Pos(h, i) = Pos(h, j)
      PROVE  i = j
  <2>1. i < j \/ j < i \/ i = j
    BY <1>1
  <2> QED
    BY <1>3, <1>5, <1>6, <2>1
<1>7. \A i \in M : Pos(h, i) \in 1..Cardinality(M)
  BY <1>3, <1>4
<1>8. ASSUME NEW i \in M PROVE AtPos(h, Pos(h, i)) = i
  <2>1. AtPos(h, Pos(h, i)) = CHOOSE j \in M : Pos(h, j) = Pos(h, i)
    BY DEF AtPos, M
  <2>2. \A j \in M : Pos(h, j) = Pos(h, i) <=> j = i
    BY <1>6
  <2> QED
    BY <2>1, <2>2
<1> QED
  BY <1>2, <1>6, <1>7, <1>8 DEF M

\* What write_value_ref makes of a value whose object is marked.
LEMMA Written ==
  ASSUME NEW h, IsHeap(h), NEW v \in Value, v # Prim => v.index \in h.marked
  PROVE  /\ v = Prim => WriteRef(h, v) = Prim
         /\ v # Prim => /\ WriteRef(h, v) \in Ref /\ WriteRef(h, v) # Prim
                        /\ WriteRef(h, v).kind = v.kind
                        /\ WriteRef(h, v).index = Pos(h, v.index)
<1>1. CASE v = Prim
  BY <1>1 DEF WriteRef
<1>2. CASE v # Prim
  <2>1. v \in Ref
    BY <1>2 DEF Value
  <2>2. PICK p \in Nat \ {0} : p = Pos(h, v.index)
    BY <1>2, Ranks
  <2>3. WriteRef(h, v) = [v EXCEPT !.index = p]
    BY <1>2, <2>2 DEF WriteRef
  <2>4. [v EXCEPT !.index = p] \in Ref /\ [v EXCEPT !.index = p].kind = v.kind
        /\ [v EXCEPT !.index = p].index = p
    BY <2>1, <2>2 DEF Ref
  <2> QED
    BY <1>2, <2>2, <2>3, <2>4, HeapConstants
<1> QED
  BY <1>1, <1>2

\* A list of values in a snapshot: as long as the list it was made from, and with the
\* positions of the objects of that one.
LEMMA WrittenList ==
  ASSUME NEW h, IsHeap(h), NEW s \in Seq(Value), Handles(Values(s)) \subseteq h.marked
  PROVE  /\ Len(WriteValues(h, s)) = Len(s)
         /\ Handles(Values(WriteValues(h, s))) = {Pos(h, i) : i \in Handles(Values(s))}
         /\ \A f : (\A i \in Handles(Values(s)) : f[i] = Pos(h, i))
                     => AllCorrespond(f, s, WriteValues(h, s))
<1> DEFINE w == WriteValues(h, s)
<1>1. w = [k \in 1..Len(s) |-> WriteRef(h, s[k])] /\ Len(s) \in Nat /\ DOMAIN s = 1..Len(s)
  BY DEF WriteValues
<1>2. Len(w) = Len(s) /\ DOMAIN w = DOMAIN s /\ \A k \in DOMAIN s : w[k] = WriteRef(h, s[k])
  BY <1>1
<1> HIDE DEF w
<1>3. ASSUME NEW k \in DOMAIN s
      PROVE  /\ s[k] = Prim => w[k] = Prim
             /\ s[k] # Prim => /\ w[k] # Prim /\ w[k].kind = s[k].kind
                               /\ w[k].index = Pos(h, s[k].index)
                               /\ s[k].index \in Handles(Values(s))
  <2>1. s[k] \in Value /\ (s[k] # Prim => s[k].index \in Handles(Values(s)))
    BY <1>1 DEF Handles, Values
  <2> QED
    BY <1>2, <2>1, Written
<1>4. Handles(Values(w)) = {Pos(h, i) : i \in Handles(Values(s))}
  <2>1. ASSUME NEW p \in Handles(Values(w))
        PROVE  \E i \in Handles(Values(s)) : p = Pos(h, i)
    <3>1. PICK k \in DOMAIN w : w[k] # Prim /\ p = w[k].index
      BY <2>1 DEF Handles, Values
    <3> QED
      BY <1>2, <1>3, <3>1
  <2>2. ASSUME NEW i \in Handles(Values(s))
        PROVE  Pos(h, i) \in Handles(Values(w))
    <3>1. PICK k \in DOMAIN s : s[k] # Prim /\ i = s[k].index
      BY <2>2 DEF Handles, Values
    <3>2. k \in DOMAIN w /\ w[k] # Prim /\ w[k].index = Pos(h, i)
      BY <1>2, <1>3, <3>1
    <3> QED
      BY <3>2 DEF Handles, Values
  <2> QED
    BY <2>1, <2>2
<1>5. ASSUME NEW f, \A i \in Handles(Values(s)) : f[i] = Pos(h, i)
      PROVE  AllCorrespond(f, s, w)
  BY <1>2, <1>3, <1>5 DEF AllCorrespond, Corresponds
<1> QED
  BY <1>2, <1>4, <1>5 DEF w

\* The arena restore_into builds has, at the position of a marked slot, its object.
Restored(h) == RestoredHeap(SnapshotOf(h))

LEMMA RestoredObject ==
  ASSUME NEW h, IsHeap(h)
  PROVE  /\ Slots(Restored(h)) = 1..Cardinality(h.marked)
         /\ \A i \in h.marked :
              LET img == Restored(h).objects[Pos(h, i)] IN
              /\ img.kind = h.objects[i].kind
              /\ img.elems = WriteValues(h, h.objects[i].elems)
<1> DEFINE os == [p \in 1..Cardinality(h.marked) |->
                    LET obj == h.objects[AtPos(h, p)] IN
                    [kind |-> obj.kind, elems |-> WriteValues(h, obj.elems)]]
<1>1. Restored(h).objects = os
  BY DEF Restored, RestoredHeap, SnapshotOf, NewHeap
<1>2. DOMAIN os = 1..Cardinality(h.marked)
  OBVIOUS
<1>3. ASSUME NEW i \in h.marked
      PROVE  os[Pos(h, i)].kind = h.objects[i].kind
             /\ os[Pos(h, i)].elems = WriteValues(h, h.objects[i].elems)
  BY <1>3, Ranks
<1> HIDE DEF os
<1> QED
  BY <1>1, <1>2, <1>3 DEF Slots

\* The marked slots as a capture wants them: every handle of theirs is marked.
MarkedClosed(h) ==
  \A i \in h.marked : h.objects[i].elems \in Seq(Value) /\ Children(h, i) \subseteq h.marked

LEMMA WrittenChildren ==
  ASSUME NEW h, IsHeap(h), MarkedClosed(h), NEW i \in h.marked
  PROVE  Children(Restored(h), Pos(h, i)) = {Pos(h, j) : j \in Children(h, i)}
<1>1. PICK es : es = h.objects[i].elems
  OBVIOUS
<1>2. es \in Seq(Value) /\ Handles(Values(es)) \subseteq h.marked
  BY <1>1 DEF MarkedClosed, Children
<1>3. Handles(Values(WriteValues(h, es))) = {Pos(h, j) : j \in Handles(Values(es))}
  BY <1>2, WrittenList
<1> QED
  BY <1>1, <1>3, RestoredObject DEF Children

\* What the roots reach in the restored arena are the positions of what they reached.
LEMMA RestoredReach ==
  ASSUME NEW h, IsHeap(h), MarkedClosed(h), NEW V, Handles(V) \subseteq h.marked,
         NEW W, Handles(W) = {Pos(h, i) : i \in Handles(V)}
  PROVE  /\ Reach(h, V) \subseteq h.marked
         /\ Reach(Restored(h), W) = {Pos(h, i) : i \in Reach(h, V)}
<1> DEFINE R == Reach(h, V)
           Q == Reach(Restored(h), W)
           S == {Pos(h, i) : i \in R}
           T == {i \in R : Pos(h, i) \in Q}
<1>1. h.marked \subseteq Slots(h)
  BY DEF IsHeap
<1>2. Slots(Restored(h)) = 1..Cardinality(h.marked)
  BY RestoredObject
<1>3. /\ R \subseteq Slots(h) /\ Handles(V) \cap Slots(h) \subseteq R
      /\ \A i \in R : Children(h, i) \cap Slots(h) \subseteq R
  BY ReachableClosed DEF Reach, Closed
<1>4. /\ Q \subseteq Slots(Restored(h)) /\ Handles(W) \cap Slots(Restored(h)) \subseteq Q
      /\ \A p \in Q : Children(Restored(h), p) \cap Slots(Restored(h)) \subseteq Q
  BY ReachableClosed DEF Reach, Closed
<1>5. R \subseteq h.marked
  <2>1. Closed(h, h.marked, {})
    BY DEF MarkedClosed, Closed
  <2>2. Handles(V) \cap (Slots(h) \ {}) \subseteq h.marked /\ h.marked \in SUBSET (Slots(h) \ {})
    BY <1>1
  <2> QED
    BY <2>1, <2>2, ReachableLeast DEF Reach
<1>6. \A i \in R : /\ Pos(h, i) \in Slots(Restored(h))
                   /\ Children(Restored(h), Pos(h, i)) = {Pos(h, j) : j \in Children(h, i)}
                   /\ Children(h, i) \subseteq h.marked
  BY <1>2, <1>5, Ranks, WrittenChildren DEF MarkedClosed
<1> HIDE DEF R, Q
<1>7. Q \subseteq S
  <2>1. S \in SUBSET (Slots(Restored(h)) \ {})
    BY <1>6
  <2>2. Handles(W) \cap (Slots(Restored(h)) \ {}) \subseteq S
    BY <1>1, <1>3
  <2>3. Closed(Restored(h), S, {})
    <3> SUFFICES ASSUME NEW i \in R, NEW p \in Children(Restored(h), Pos(h, i))
                 PROVE  p \in S
      BY DEF Closed
    <3>1. PICK j \in Children(h, i) : p = Pos(h, j)
      BY <1>6
    <3>2. j \in R
      BY <1>1, <1>3, <1>6
    <3> QED
      BY <3>1, <3>2
  <2> HIDE DEF S
  <2> QED
    BY <2>1, <2>2, <2>3, ReachableLeast DEF Reach, Q
<1>8. R \subseteq T
  <2>1. T \in SUBSET (Slots(h) \ {})
    BY <1>3
  <2>2. Handles(V) \cap (Slots(h) \ {}) \subseteq T
    <3> SUFFICES ASSUME NEW i \in Handles(V), i \in Slots(h) PROVE i \in T
      OBVIOUS
    <3>1. i \in R /\ Pos(h, i) \in Handles(W)
      BY <1>3
    <3> QED
      BY <1>4, <1>6, <3>1
  <2>3. Closed(h, T, {})
    <3> SUFFICES ASSUME NEW i \in T, NEW j \in Children(h, i) \cap Slots(h)
                 PROVE  j \in T
      BY DEF Closed
    <3>1. j \in R /\ Pos(h, j) \in Children(Restored(h), Pos(h, i))
      BY <1>3, <1>6
    <3> QED
      BY <1>4, <1>6, <3>1
  <2> HIDE DEF T
  <2> QED
    BY <2>1, <2>2, <2>3, ReachableLeast DEF Reach, R
<1> QED
  BY <1>5, <1>7, <1>8 DEF R, Q

\* Whatever lists of roots there are: with what the snapshot has for them, they see the
\* same graph.
LEMMA GraphKept ==
  ASSUME NEW g, NEW h, IsHeap(h), g.objects = h.objects, MarkedClosed(h), NEW lists,
         \A pair \in lists : /\ pair[1] \in Seq(Value) /\ pair[2] = WriteValues(h, pair[1])
                             /\ Handles(Values(pair[1])) \subseteq h.marked
  PROVE  Isomorphic(g, Restored(h), lists)
<1> DEFINE V == UNION {Values(pair[1]) : pair \in lists}
           W == UNION {Values(pair[2]) : pair \in lists}
           R == Reach(g, V)
           f == [i \in R |-> Pos(h, i)]
<1>1. \A pair \in lists :
        Handles(Values(pair[2])) = {Pos(h, i) : i \in Handles(Values(pair[1]))}
  BY WrittenList
<1>2. Handles(V) \subseteq h.marked /\ \A pair \in lists : Handles(Values(pair[1])) \subseteq Handles(V)
  BY DEF Handles
<1>3. Handles(W) = {Pos(h, i) : i \in Handles(V)}
  <2>1. ASSUME NEW p \in Handles(W) PROVE \E i \in Handles(V) : p = Pos(h, i)
    <3>1. PICK pair \in lists : p \in Handles(Values(pair[2]))
      BY <2>1 DEF Handles
    <3> QED
      BY <1>1, <1>2, <3>1
  <2>2. ASSUME NEW i \in Handles(V) PROVE Pos(h, i) \in Handles(W)
    <3>1. PICK pair \in lists : i \in Handles(Values(pair[1]))
      BY <2>2 DEF Handles
    <3>2. Pos(h, i) \in Handles(Values(pair[2]))
      BY <1>1, <3>1
    <3>3. Handles(Values(pair[2])) \subseteq Handles(W)
      BY DEF Handles
    <3> QED
      BY <3>2, <3>3
  <2> QED
    BY <2>1, <2>2
<1> HIDE DEF V, W
<1>4. R = Reach(h, V) /\ Slots(g) = Slots(h)
  BY ReachObjects
<1>5. R \subseteq h.marked /\ Reach(Restored(h), W) = {Pos(h, i) : i \in R}
  BY <1>2, <1>3, <1>4, RestoredReach
<1>6. /\ R \subseteq Slots(h) /\ Handles(V) \subseteq R
      /\ \A i \in R : Children(h, i) \subseteq R
  <2>1. /\ R \subseteq Slots(h) /\ Handles(V) \cap Slots(h) \subseteq R
        /\ \A i \in R : Children(h, i) \cap Slots(h) \subseteq R
    BY <1>4, ReachableClosed DEF Reach, Closed
  <2>2. h.marked \subseteq Slots(h)
    BY DEF IsHeap
  <2> QED
    BY <1>2, <1>5, <2>1, <2>2 DEF MarkedClosed
<1> HIDE DEF R
<1>7. f \in Bijection(R, Reach(Restored(h), W))
  <2>1. f \in [R -> Reach(Restored(h), W)]
    BY <1>5
  <2>2. \A i, j \in R : f[i] = f[j] => i = j
    BY <1>5, Ranks
  <2>3. \A p \in Reach(Restored(h), W) : \E i \in R : f[i] = p
    BY <1>5
  <2> HIDE DEF f
  <2>4. DOMAIN f = R
    BY <2>1
  <2> QED
    BY <2>1, <2>2, <2>3, <2>4 DEF Bijection, Injection, Surjection, IsInjective
<1>8. DOMAIN f = R /\ \A i \in R : f[i] = Pos(h, i)
  OBVIOUS
<1> HIDE DEF f
<1>9. ASSUME NEW pair \in lists PROVE AllCorrespond(f, pair[1], pair[2])
  <2>1. \A i \in Handles(Values(pair[1])) : f[i] = Pos(h, i)
    BY <1>2, <1>6, <1>8
  <2> QED
    BY <2>1, WrittenList
<1>10. ASSUME NEW i \in R
       PROVE  /\ g.objects[i].kind = Restored(h).objects[f[i]].kind
              /\ AllCorrespond(f, g.objects[i].elems, Restored(h).objects[f[i]].elems)
  <2>1. PICK es : es = h.objects[i].elems
    OBVIOUS
  <2>2. es \in Seq(Value) /\ Handles(Values(es)) \subseteq R /\ R \subseteq h.marked
    BY <1>5, <1>6, <2>1 DEF MarkedClosed, Children
  <2>3. AllCorrespond(f, es, WriteValues(h, es))
    BY <1>8, <2>2, WrittenList
  <2>4. /\ Restored(h).objects[f[i]].kind = h.objects[i].kind
        /\ Restored(h).objects[f[i]].elems = WriteValues(h, es)
    BY <1>5, <1>8, <2>1, RestoredObject
  <2> QED
    BY <2>1, <2>3, <2>4
<1> QED
  BY <1>7, <1>8, <1>9, <1>10 DEF Isomorphic, R, V, W

\* The object graph comes back as it was, for an arena, stacks and tasks of any size,
\* from whatever state a capture gets through in: the stale marks of earlier captures add
\* objects to the snapshot and move positions, and nothing else.
THEOREM SnapshotKeepsGraph == Spec => []RestoreIsomorphic
<1>1. ASSUME TypeOK, CanCapture PROVE Isomorphic(heap, RestoredHeap(Captured), RootLists(Captured))
  <2>1. PICK h : h = MarkAllTaskRoots(heap)
    OBVIOUS
  <2>2. IsHeap(h) /\ heap.objects = h.objects /\ Encodable(h)
    BY <1>1, <2>1, MarkHeap DEF MarkAllTaskRoots, CanCapture, TypeOK
  <2>3. MarkedClosed(h)
    <3>1. \A i \in h.marked : Children(h, i) \subseteq h.marked
      BY <2>2 DEF Encodable
    <3>2. h.objects \in Seq(HeapObject) /\ h.marked \subseteq DOMAIN h.objects
      BY <2>2 DEF IsHeap, Slots
    <3>3. \A i \in h.marked : h.objects[i] \in HeapObject
      BY <3>2
    <3> QED
      BY <3>1, <3>3 DEF MarkedClosed, HeapObject
  <2>4. Captured = SnapshotOf(h) /\ RestoredHeap(Captured) = Restored(h)
    BY <2>1 DEF Captured, Restored
  <2>5. ASSUME NEW s \in Seq(Value), Values(s) \subseteq Active \cup Parked
        PROVE  Handles(Values(s)) \subseteq h.marked
    BY <2>2, <2>5 DEF Encodable, Handles
  <2>6. ASSUME NEW t \in completed
        PROVE  /\ registry[t].stack \in Seq(Value) /\ registry[t].locals \in Seq(Value)
               /\ Values(registry[t].stack) \subseteq Active \cup Parked
               /\ Values(registry[t].locals) \subseteq Active \cup Parked
               /\ Captured.saved[t].stack = WriteValues(h, registry[t].stack)
               /\ Captured.saved[t].locals = WriteValues(h, registry[t].locals)
    <3>1. t \in Tasks /\ registry[t] \in Saved
      BY <1>1, <2>6 DEF TypeOK
    <3> QED
      BY <2>4, <2>6, <3>1 DEF Parked, Saved, SnapshotOf
  <2>7. /\ stack \in Seq(Value) /\ locals \in Seq(Value)
        /\ Values(stack) \subseteq Active \cup Parked /\ Values(locals) \subseteq Active \cup Parked
        /\ Captured.stack = WriteValues(h, stack) /\ Captured.locals = WriteValues(h, locals)
    BY <1>1, <2>4 DEF TypeOK, Active, SnapshotOf
  <2>8. ASSUME NEW pair \in RootLists(Captured)
        PROVE  /\ pair[1] \in Seq(Value) /\ pair[2] = WriteValues(h, pair[1])
               /\ Handles(Values(pair[1])) \subseteq h.marked
    <3>1. \/ pair = <<stack, Captured.stack>> \/ pair = <<locals, Captured.locals>>
          \/ \E t \in completed : \/ pair = <<registry[t].stack, Captured.saved[t].stack>>
                                  \/ pair = <<registry[t].locals, Captured.saved[t].locals>>
      BY <2>8 DEF RootLists
    <3>2. /\ pair[1] \in Seq(Value) /\ pair[2] = WriteValues(h, pair[1])
          /\ Values(pair[1]) \subseteq Active \cup Parked
      BY <2>6, <2>7, <3>1
    <3> QED
      BY <2>5, <3>2
  <2> QED
    BY <2>2, <2>3, <2>4, <2>8, GraphKept
<1>2. TypeOK => RestoreIsomorphic
  BY <1>1 DEF RestoreIsomorphic
<1> QED
  BY <1>2, TypeCorrect, PTL


-----------------------------------------------------------------------------
(* Snapshots as files.  The bytes of a string are left out of the heaps:   *)
(* each object with data is a list.                                        *)

StringsEmpty ==
  \A i \in Slots(heap) : heap.objects[i].kind = "String" => heap.objects[i].elems = <<>>

\* The invariant of a heap that gets one more object.
LEMMA PutStrings ==
  ASSUME TypeOK, StringsEmpty, NEW i \in Nat, FreshSlot(heap, i), NEW obj \in HeapObject,
         obj.kind = "String" => obj.elems = <<>>,
         NEW h, h.objects = Put(heap, i, obj).objects
  PROVE  \A j \in Slots(h) : h.objects[j].kind = "String" => h.objects[j].elems = <<>>
<1>1. PICK p : p = Put(heap, i, obj)
  OBVIOUS
<1>2. /\ Slots(p) = Slots(heap) \cup {i} /\ p.objects[i] = obj
      /\ \A j \in Slots(heap) \ {i} : p.objects[j] = heap.objects[j]
  BY <1>1, PutHeap DEF TypeOK
<1>3. Slots(h) = Slots(p) /\ h.objects = p.objects
  BY <1>1 DEF Slots
<1> QED
  BY <1>2, <1>3 DEF StringsEmpty

LEMMA NextStrings == TypeOK /\ StringsEmpty /\ [Next]_vars => StringsEmpty'
<1> SUFFICES ASSUME TypeOK, StringsEmpty, [Next]_vars PROVE StringsEmpty'
  OBVIOUS
<1>0. ASSUME heap'.objects = heap.objects PROVE StringsEmpty'
  BY <1>0 DEF StringsEmpty, Slots
<1>1. ASSUME NEW k \in Kinds, OpAlloc(k) PROVE StringsEmpty'
  <2>1. PICK i \in 1..MaxSlots :
          /\ FreshSlot(heap, i)
          /\ heap' = Put(heap, i, [kind |-> k, elems |-> <<>>])
    BY <1>1 DEF OpAlloc
  <2>2. PICK obj : obj = [kind |-> k, elems |-> <<>>]
    OBVIOUS
  <2>3. obj \in HeapObject /\ obj.elems = <<>> /\ i \in Nat
    BY <2>2, HeapConstants DEF HeapObject
  <2>4. heap'.objects = Put(heap, i, obj).objects
    BY <2>1, <2>2
  <2> QED
    BY <2>1, <2>3, <2>4, PutStrings DEF StringsEmpty
<1>2. ASSUME NEW k \in Kinds, NEW es \in ElemLists, HostAlloc(k, es) PROVE StringsEmpty'
  <2>1. PICK i \in 1..MaxSlots :
          LET h == Put(heap, i, [kind |-> k, elems |-> es]) IN
          /\ FreshSlot(heap, i)
          /\ heap' = IF ShouldGc(h) THEN Collect(h) ELSE h
    BY <1>2 DEF HostAlloc
  <2>2. PICK obj : obj = [kind |-> k, elems |-> es]
    OBVIOUS
  <2>3. obj \in HeapObject /\ (obj.kind = "String" => obj.elems = <<>>) /\ i \in Nat
    BY <1>2, <2>2, HeapConstants, ElemListValues DEF HeapObject, HostAlloc
  <2>4. IsHeap(Put(heap, i, obj))
    BY <2>1, <2>3, PutHeap DEF TypeOK
  <2>5. heap'.objects = Put(heap, i, obj).objects
    BY <2>1, <2>2, <2>4, CollectHeap
  <2> QED
    BY <2>1, <2>3, <2>5, PutStrings DEF StringsEmpty
<1>3. ASSUME NEW es \in ElemLists, NEW v \in Visible, HostSetList(v, es) PROVE StringsEmpty'
  <2>1. v.index \in Slots(heap) /\ heap.objects[v.index].kind = "List"
    BY <1>3 DEF HostSetList, Resolves
  <2>2. es \in Seq(Value) /\ IsHeap(heap) /\ heap' = SetElems(heap, v.index, es)
    BY <1>3, ElemListValues DEF HostSetList, TypeOK
  <2>3. /\ Slots(heap') = Slots(heap)
        /\ \A j \in Slots(heap) : heap'.objects[j].kind = heap.objects[j].kind
        /\ \A j \in Slots(heap) \ {v.index} : heap'.objects[j] = heap.objects[j]
    BY <2>1, <2>2, SetListHeap
  <2> QED
    BY <2>1, <2>3 DEF StringsEmpty
<1>4. ASSUME CollectGarbage PROVE StringsEmpty'
  BY <1>0, <1>4, CollectHeap DEF CollectGarbage, TypeOK
<1>5. ASSUME Capture PROVE StringsEmpty'
  <2>1. MarkAllTaskRoots(heap).objects = heap.objects
    BY MarkHeap DEF MarkAllTaskRoots, TypeOK
  <2>2. heap' = MarkAllTaskRoots(heap) \/ heap' = heap
    BY <1>5 DEF Capture
  <2> QED
    BY <1>0, <2>1, <2>2
<1>6. ASSUME NEW v \in code, OpPushConst(v) PROVE StringsEmpty'
  BY <1>0, <1>6 DEF OpPushConst
<1>7. ASSUME OpPop PROVE StringsEmpty'
  BY <1>0, <1>7 DEF OpPop
<1>8. ASSUME NEW k \in DOMAIN locals, OpStore(k) \/ OpLoad(k) PROVE StringsEmpty'
  BY <1>0, <1>8 DEF OpStore, OpLoad
<1>9. ASSUME NEW t \in Tasks, EnterChild(t) \/ RewaitChild(t) PROVE StringsEmpty'
  BY <1>0, <1>9 DEF EnterChild, RewaitChild
<1>10. ASSUME NEW frames \in {<<>>, locals}, LeaveChild(frames) PROVE StringsEmpty'
  BY <1>0, <1>10 DEF LeaveChild
<1>11. ASSUME FailChild PROVE StringsEmpty'
  BY <1>0, <1>11 DEF FailChild
<1>12. ASSUME HostPush \/ HostDrop \/ HostAddFunction PROVE StringsEmpty'
  BY <1>0, <1>12 DEF HostPush, HostDrop, HostAddFunction
<1>13. ASSUME UNCHANGED vars PROVE StringsEmpty'
  BY <1>0, <1>13 DEF vars
<1> QED
  BY <1>1, <1>2, <1>3, <1>4, <1>5, <1>6, <1>7, <1>8, <1>9, <1>10, <1>11, <1>12, <1>13
  DEF Next, Opcodes, Switches, Host

\* Every position is that of an object, as none is left out.
LEMMA PositionsTaken ==
  ASSUME NEW h, IsHeap(h), NEW p \in 1..Cardinality(h.marked)
  PROVE  AtPos(h, p) \in h.marked /\ Pos(h, AtPos(h, p)) = p
<1> DEFINE C == 1..Cardinality(h.marked)
           f == [i \in h.marked |-> Pos(h, i)]
<1>1. /\ Cardinality(h.marked) \in Nat
      /\ \A i \in h.marked : Pos(h, i) \in C
      /\ \A i, j \in h.marked : Pos(h, i) = Pos(h, j) => i = j
  BY Ranks
<1>2. IsFiniteSet(C) /\ Cardinality(C) = Cardinality(h.marked)
  BY <1>1, FS_Interval
<1> HIDE DEF C
<1>3. f \in [h.marked -> C] /\ \A i, j \in h.marked : f[i] = f[j] => i = j
  BY <1>1
<1>4. f \in Injection(h.marked, C)
  BY <1>3 DEF Injection, IsInjective
<1> HIDE DEF f
<1>5. f \in Surjection(h.marked, C)
  BY <1>2, <1>4, FS_Injection
<1>6. PICK i \in h.marked : f[i] = p
  BY <1>5 DEF Surjection, C
<1>7. Pos(h, i) = p
  BY <1>6 DEF f
<1> QED
  BY <1>6, <1>7, Ranks

\* The references of a list are to the objects at the positions K.
RefersInto(K, s) == \A v \in Values(s) : v # Prim => v.index \in K

LEMMA FieldsOfValues ==
  ASSUME NEW K, NEW s \in Seq(Value)
  PROVE  /\ ValueFields(s) \in Seq(FileValue(K)) <=> RefersInto(K, s)
         /\ s = <<>> => ValueFields(s) = <<>>
<1>1. ASSUME NEW v \in Value
      PROVE  ValueField(v) \in FileValue(K) <=> (v # Prim => v.index \in K)
  <2>1. CASE v = Prim
    BY <2>1 DEF ValueField, FileValue
  <2>2. CASE v # Prim
    <3>1. v \in Ref /\ v.kind \in {"String", "List"}
      BY <2>2 DEF Value, Ref, Kinds
    <3>2. PICK k, i : k = v.kind /\ i = v.index
      OBVIOUS
    <3>3. ValueField(v) = [t |-> k, v |-> i] /\ k \in {"String", "List"}
      BY <2>2, <3>1, <3>2 DEF ValueField
    <3>4. [t |-> k, v |-> i] # NullValue
      BY <3>3 DEF NullValue
    <3>5. [t |-> k, v |-> i] \notin [t : {"Int", "Float", "Bool"}, v : Int]
      BY <3>3
    <3>6. [t |-> k, v |-> i] \in [t : {"String", "List"}, v : K] <=> i \in K
      BY <3>3
    <3> QED
      BY <2>2, <3>2, <3>3, <3>4, <3>5, <3>6 DEF FileValue
  <2> QED
    BY <2>1, <2>2
<1>2. PICK w : w = ValueFields(s)
  OBVIOUS
<1>3. /\ Len(s) \in Nat /\ DOMAIN s = 1..Len(s) /\ DOMAIN w = 1..Len(s)
      /\ w = [k \in 1..Len(s) |-> w[k]]
      /\ \A k \in 1..Len(s) : w[k] = ValueField(s[k]) /\ s[k] \in Value
  BY <1>2 DEF ValueFields
<1>4. w \in Seq(FileValue(K)) <=> \A k \in 1..Len(s) : w[k] \in FileValue(K)
  <2>1. PICK X : X = FileValue(K)
    OBVIOUS
  <2>2. w \in Seq(X) => \A k \in 1..Len(s) : w[k] \in X
    <3> SUFFICES ASSUME w \in Seq(X), NEW k \in 1..Len(s) PROVE w[k] \in X
      OBVIOUS
    <3>1. k \in DOMAIN w
      BY <1>3
    <3> QED
      BY <3>1
  <2>3. (\A k \in 1..Len(s) : w[k] \in X) => w \in Seq(X)
    <3> SUFFICES ASSUME \A k \in 1..Len(s) : w[k] \in X PROVE w \in Seq(X)
      OBVIOUS
    <3>1. w \in [1..Len(s) -> X]
      BY <1>3
    <3> QED
      BY <1>3, <3>1
  <2> QED
    BY <2>1, <2>2, <2>3
<1>5. (\A k \in 1..Len(s) : w[k] \in FileValue(K)) <=> RefersInto(K, s)
  <2>1. RefersInto(K, s) <=> \A k \in 1..Len(s) : s[k] # Prim => s[k].index \in K
    BY <1>3 DEF RefersInto, Values
  <2> QED
    BY <1>1, <1>3, <2>1
<1>6. s = <<>> => w = <<>>
  <2> SUFFICES ASSUME s = <<>> PROVE w = <<>>
    OBVIOUS
  <2>1. Len(s) = 0
    OBVIOUS
  <2>2. w \in Seq(Value)
    BY <1>3, <2>1
  <2>3. Len(w) = 0
    BY <1>3, <2>1, <2>2
  <2> QED
    BY <2>2, <2>3
<1> QED
  BY <1>2, <1>4, <1>5, <1>6

LEMMA FieldsOfObject ==
  ASSUME NEW K, NEW obj \in HeapObject, obj.kind = "String" => obj.elems = <<>>
  PROVE  ObjectField(obj) \in FileObject(K) <=> RefersInto(K, obj.elems)
<1>1. PICK k, s, w : k = obj.kind /\ s = obj.elems /\ w = ValueFields(s)
  OBVIOUS
<1>2. ObjectField(obj) = [kind |-> k, data |-> w] /\ k \in {"String", "List"} /\ s \in Seq(Value)
  BY <1>1 DEF ObjectField, HeapObject, Kinds
<1>3. CASE k = "String"
  <2>1. s = <<>> /\ w = <<>>
    BY <1>1, <1>2, <1>3, FieldsOfValues
  <2>2. <<>> \in Seq(Int)
    OBVIOUS
  <2>3. [kind |-> k, data |-> w] \in [kind : {"String"}, data : Seq(Int)]
    BY <1>3, <2>1, <2>2
  <2>4. RefersInto(K, s)
    BY <2>1 DEF RefersInto, Values
  <2> QED
    BY <1>1, <1>2, <2>3, <2>4 DEF FileObject
<1>4. CASE k = "List"
  <2>1. w \in Seq(FileValue(K)) <=> RefersInto(K, s)
    BY <1>1, <1>2, FieldsOfValues
  <2>2. PICK X : X = Seq(FileValue(K))
    OBVIOUS
  <2>3. PICK Y : Y = Seq(Int)
    OBVIOUS
  <2>4. [kind |-> k, data |-> w] \in [kind : {"List"}, data : X] <=> w \in X
    BY <1>4
  <2>5. [kind |-> k, data |-> w] \notin [kind : {"String"}, data : Y]
    BY <1>4
  <2> QED
    BY <1>1, <1>2, <2>1, <2>2, <2>3, <2>4, <2>5 DEF FileObject
<1> QED
  BY <1>2, <1>3, <1>4

\* A list in a snapshot refers to objects of the snapshot.
LEMMA WrittenWithin ==
  ASSUME NEW h, IsHeap(h), NEW s \in Seq(Value), Handles(Values(s)) \subseteq h.marked
  PROVE  WriteValues(h, s) \in Seq(Value) /\ RefersInto(1..Cardinality(h.marked), WriteValues(h, s))
<1>1. PICK w : w = WriteValues(h, s)
  OBVIOUS
<1>2. w = [k \in 1..Len(s) |-> WriteRef(h, s[k])] /\ Len(s) \in Nat /\ DOMAIN s = 1..Len(s)
  BY <1>1 DEF WriteValues
<1>3. ASSUME NEW k \in 1..Len(s) PROVE WriteRef(h, s[k]) \in Value
  <2>1. s[k] \in Value /\ (s[k] # Prim => s[k].index \in h.marked)
    BY <1>2 DEF Handles, Values
  <2> QED
    BY <2>1, Written DEF Value
<1>4. w \in Seq(Value)
  BY <1>2, <1>3
<1>5. Handles(Values(w)) \subseteq 1..Cardinality(h.marked)
  BY <1>1, WrittenList, Ranks
<1>6. RefersInto(1..Cardinality(h.marked), w)
  BY <1>5 DEF RefersInto, Handles
<1> QED
  BY <1>1, <1>4, <1>6

\* A frame section and a stack of the file.
LEMMA FieldsOfStacks ==
  ASSUME NEW K, NEW s \in Seq(Value), RefersInto(K, s)
  PROVE  ValueFields(s) \in Seq(FileValue(K)) /\ FrameFields(s) \in Seq(FileFrame(K))
<1>1. PICK w : w = ValueFields(s)
  OBVIOUS
<1>2. w \in Seq(FileValue(K))
  BY <1>1, FieldsOfValues
<1>3. [function |-> 0, ip |-> 0, locals |-> w] \in FileFrame(K)
  BY <1>2 DEF FileFrame
<1>4. FrameFields(s) = <<[function |-> 0, ip |-> 0, locals |-> w]>>
  BY <1>1 DEF FrameFields
<1> QED
  BY <1>1, <1>2, <1>3, <1>4

LEMMA FieldsOfTask ==
  ASSUME NEW K, NEW t \in Tasks, NEW entry, entry.stack \in Seq(Value), entry.locals \in Seq(Value),
         RefersInto(K, entry.stack), RefersInto(K, entry.locals)
  PROVE  TaskField(t, entry) \in FileTask(K)
<1>1. PICK s, f : s = ValueFields(entry.stack) /\ f = FrameFields(entry.locals)
  OBVIOUS
<1>2. s \in Seq(FileValue(K)) /\ f \in Seq(FileFrame(K))
  BY <1>1, FieldsOfStacks
<1>3. t \in Int
  BY FileConstants
<1>4. PICK none : none = <<>>
  OBVIOUS
<1>5. none \in Seq(Int) /\ none \in Seq(FileHandle) /\ Len(none) = 0
  BY <1>4
<1>6. PICK x : x = [id |-> t, parent |-> none, status |-> 2, pc |-> none, children |-> none,
                    stack |-> s, frames |-> f, handles |-> none]
  OBVIOUS
<1>7. x \in [id : Int, parent : Seq(Int), status : Int, pc : Seq(Int), children : Seq(Int),
             stack : Seq(FileValue(K)), frames : Seq(FileFrame(K)), handles : Seq(FileHandle)]
  BY <1>2, <1>3, <1>5, <1>6
<1>8. Len(x.pc) = Pc(x.status)
  BY <1>5, <1>6 DEF Pc
<1>9. TaskField(t, entry) = x
  BY <1>1, <1>4, <1>6 DEF TaskField
<1> QED
  BY <1>7, <1>8, <1>9 DEF FileTask

\* The objects of a snapshot h was made into.
LEMMA FieldsOfHeap ==
  ASSUME NEW h, IsHeap(h), MarkedClosed(h),
         \A i \in h.marked : h.objects[i].kind = "String" => h.objects[i].elems = <<>>,
         NEW snap, snap = SnapshotOf(h),
         NEW os, os = [p \in DOMAIN snap.objects |-> ObjectField(snap.objects[p])]
  PROVE  /\ AnyHeap(1..Cardinality(h.marked), os) /\ Len(os) = Cardinality(h.marked)
         /\ FileHeap(os) <=> ReadsBack(snap)
<1>1. PICK C : C = Cardinality(h.marked)
  OBVIOUS
<1>2. C \in Nat /\ DOMAIN snap.objects = 1..C
  BY <1>1, Ranks DEF SnapshotOf
<1>3. ASSUME NEW p \in 1..C
      PROVE  /\ snap.objects[p] \in HeapObject
             /\ snap.objects[p].kind = "String" => snap.objects[p].elems = <<>>
             /\ RefersInto(1..C, snap.objects[p].elems)
  <2>1. PICK i, k, es, w : /\ i = AtPos(h, p) /\ k = h.objects[i].kind
                           /\ es = h.objects[i].elems /\ w = WriteValues(h, es)
    OBVIOUS
  <2>2. i \in h.marked
    BY <1>1, <2>1, PositionsTaken
  <2>3. snap.objects[p] = [kind |-> k, elems |-> w]
    BY <1>1, <2>1 DEF SnapshotOf
  <2>4. h.objects[i] \in HeapObject
    BY <2>2 DEF IsHeap, Slots
  <2>5. es \in Seq(Value) /\ k \in Kinds /\ Handles(Values(es)) \subseteq h.marked
    BY <2>1, <2>2, <2>4 DEF HeapObject, MarkedClosed, Children
  <2>6. w \in Seq(Value) /\ RefersInto(1..C, w)
    BY <1>1, <2>1, <2>5, WrittenWithin
  <2>7. k = "String" => w = <<>>
    <3> SUFFICES ASSUME k = "String" PROVE w = <<>>
      OBVIOUS
    <3>1. Len(es) = 0
      BY <2>1, <2>2
    <3>2. Len(w) = 0
      BY <2>1, <2>5, <3>1, WrittenList
    <3> QED
      BY <2>6, <3>2
  <2> QED
    BY <2>3, <2>5, <2>6, <2>7 DEF HeapObject
<1>4. /\ DOMAIN os = 1..C /\ os = [p \in 1..C |-> os[p]]
      /\ \A p \in 1..C : os[p] = ObjectField(snap.objects[p])
  BY <1>2
<1>5. \A p \in 1..C : \A K : os[p] \in FileObject(K) <=> RefersInto(K, snap.objects[p].elems)
  BY <1>3, <1>4, FieldsOfObject
<1>6. \A p \in 1..C : os[p] \in FileObject(1..C)
  BY <1>3, <1>5
<1>7. os \in Seq(FileObject(1..C)) /\ Len(os) = C
  <2>1. PICK X : X = FileObject(1..C)
    OBVIOUS
  <2>2. os \in [1..C -> X]
    BY <1>4, <1>6, <2>1
  <2> QED
    BY <1>2, <2>1, <2>2
<1>8. IsSequence(os)
  BY <1>7 DEF IsSequence
<1>9. ReadsBack(snap) <=> \A p \in 1..C : RefersInto(1..p - 1, snap.objects[p].elems)
  <2>1. ASSUME NEW p \in 1..C
        PROVE  (\A v \in Values(snap.objects[p].elems) : v # Prim => v.index < p)
                 <=> RefersInto(1..p - 1, snap.objects[p].elems)
    <3>1. \A v \in Values(snap.objects[p].elems) : v # Prim => v.index \in 1..C
      BY <1>3 DEF RefersInto
    <3>2. \A j \in 1..C : j < p <=> j \in 1..p - 1
      BY <1>2
    <3> QED
      BY <3>1, <3>2 DEF RefersInto
  <2> QED
    BY <1>2, <2>1 DEF ReadsBack
<1>10. FileHeap(os) <=> \A p \in 1..C : os[p] \in FileObject(1..p - 1)
  BY <1>4, <1>8 DEF FileHeap
<1> QED
  BY <1>1, <1>4, <1>5, <1>6, <1>7, <1>8, <1>9, <1>10 DEF AnyHeap

\* What a capture puts into a file.
LEMMA CapturedIsFile ==
  ASSUME TypeOK, StringsEmpty, CanCapture
  PROVE  IsFileSnapshot(Fields(Captured)) /\ (FileHeap(Fields(Captured).objects) <=> ReadsBack(Captured))
<1>1. PICK h, snap, s, K : /\ h = MarkAllTaskRoots(heap) /\ snap = Captured /\ s = Fields(snap)
                           /\ K = 1..Cardinality(h.marked)
  OBVIOUS
<1>2. IsHeap(h) /\ heap.objects = h.objects /\ Encodable(h) /\ snap = SnapshotOf(h)
  BY <1>1, MarkHeap DEF MarkAllTaskRoots, CanCapture, Captured, TypeOK
<1>3. h.marked \subseteq Slots(h) /\ h.objects \in Seq(HeapObject)
  BY <1>2 DEF IsHeap
<1>4. MarkedClosed(h)
  <2>1. \A i \in h.marked : Children(h, i) \subseteq h.marked
    BY <1>2 DEF Encodable
  <2>2. \A i \in h.marked : h.objects[i] \in HeapObject
    BY <1>3 DEF Slots
  <2> QED
    BY <2>1, <2>2 DEF MarkedClosed, HeapObject
<1>5. \A i \in h.marked : h.objects[i].kind = "String" => h.objects[i].elems = <<>>
  BY <1>2, <1>3 DEF StringsEmpty, Slots
<1>6. ASSUME NEW x \in Seq(Value), Values(x) \subseteq Active \cup Parked
      PROVE  WriteValues(h, x) \in Seq(Value) /\ RefersInto(K, WriteValues(h, x))
  <2>1. Handles(Values(x)) \subseteq h.marked
    BY <1>2, <1>6 DEF Encodable, Handles
  <2> QED
    BY <1>1, <1>2, <2>1, WrittenWithin
<1>7. /\ snap.stack \in Seq(Value) /\ RefersInto(K, snap.stack)
      /\ snap.locals \in Seq(Value) /\ RefersInto(K, snap.locals)
  <2>1. /\ stack \in Seq(Value) /\ locals \in Seq(Value)
        /\ Values(stack) \subseteq Active \cup Parked /\ Values(locals) \subseteq Active \cup Parked
        /\ snap.stack = WriteValues(h, stack) /\ snap.locals = WriteValues(h, locals)
    BY <1>2 DEF TypeOK, Active, SnapshotOf
  <2> QED
    BY <1>6, <2>1
<1>8. ASSUME NEW t \in completed
      PROVE  /\ t \in Tasks
             /\ snap.saved[t].stack \in Seq(Value) /\ RefersInto(K, snap.saved[t].stack)
             /\ snap.saved[t].locals \in Seq(Value) /\ RefersInto(K, snap.saved[t].locals)
  <2>1. t \in Tasks /\ registry[t] \in Saved
    BY <1>8 DEF TypeOK
  <2>2. /\ registry[t].stack \in Seq(Value) /\ registry[t].locals \in Seq(Value)
        /\ Values(registry[t].stack) \subseteq Active \cup Parked
        /\ Values(registry[t].locals) \subseteq Active \cup Parked
    BY <2>1 DEF Parked, Saved
  <2>3. /\ snap.saved[t].stack = WriteValues(h, registry[t].stack)
        /\ snap.saved[t].locals = WriteValues(h, registry[t].locals)
    BY <1>2, <1>8 DEF SnapshotOf
  <2> QED
    BY <1>6, <2>1, <2>2, <2>3
<1>9. PICK ids, os, ts :
        /\ ids = Seqs!SetToSeq(DOMAIN snap.saved)
        /\ os = [p \in DOMAIN snap.objects |-> ObjectField(snap.objects[p])]
        /\ ts = [k \in DOMAIN ids |-> TaskField(ids[k], snap.saved[ids[k]])]
  OBVIOUS
<1>10. /\ s = [hash |-> 0, time |-> 0, objects |-> os, frames |-> FrameFields(snap.locals),
               stack |-> ValueFields(snap.stack), handles |-> <<>>, tasks |-> ts]
  BY <1>1, <1>9 DEF Fields
<1>11. /\ AnyHeap(K, os) /\ Len(os) = Cardinality(h.marked)
       /\ FileHeap(os) <=> ReadsBack(snap)
  BY <1>1, <1>2, <1>4, <1>5, <1>9, FieldsOfHeap
<1>12. ids \in Seq(completed)
  <2>1. DOMAIN snap.saved = completed
    BY <1>2 DEF SnapshotOf
  <2>2. IsFiniteSet(completed)
    BY FileConstants, FS_Subset DEF TypeOK
  <2> QED
    BY <1>9, <2>1, <2>2, SetIsListed
<1>13. ts \in Seq(FileTask(K))
  <2>1. PICK X : X = FileTask(K)
    OBVIOUS
  <2>2. ASSUME NEW k \in 1..Len(ids) PROVE TaskField(ids[k], snap.saved[ids[k]]) \in X
    <3>1. ids[k] \in completed
      BY <1>12
    <3>2. PICK t, entry : t = ids[k] /\ entry = snap.saved[t]
      OBVIOUS
    <3>3. /\ t \in Tasks /\ entry.stack \in Seq(Value) /\ entry.locals \in Seq(Value)
          /\ RefersInto(K, entry.stack) /\ RefersInto(K, entry.locals)
      BY <1>8, <3>1, <3>2
    <3> QED
      BY <2>1, <3>2, <3>3, FieldsOfTask
  <2>3. DOMAIN ids = 1..Len(ids) /\ Len(ids) \in Nat
    BY <1>12
  <2> QED
    BY <1>9, <2>1, <2>2, <2>3
<1>14. FrameFields(snap.locals) \in Seq(FileFrame(K)) /\ ValueFields(snap.stack) \in Seq(FileValue(K))
  BY <1>7, FieldsOfStacks
<1>15. K = Positions(s)
  BY <1>1, <1>10, <1>11 DEF Positions
<1>16. <<>> \in Seq(FileHandle)
  OBVIOUS
<1> QED
  BY <1>1, <1>10, <1>11, <1>13, <1>14, <1>15, <1>16 DEF IsFileSnapshot

\* Whatever the VM did, its heap comes back from a file with every reference in it, in the
\* stack, in the frames and in the parked tasks, unless a list refers to itself or to an
\* object in a higher slot: then, and only then, resuming fails with InvalidHeapPosition.
\* For arenas, stacks, task sets and lists of any size.
THEOREM HeapsReadBack == Spec => []FileKeepsGraph
<1>1. Init => StringsEmpty
  <2> SUFFICES ASSUME Init PROVE StringsEmpty
    OBVIOUS
  <2>1. Slots(heap) = {}
    BY DEF Init, NewHeap, Slots
  <2> QED
    BY <2>1 DEF StringsEmpty
<1>2. TypeOK /\ StringsEmpty => FileKeepsGraph
  <2> SUFFICES ASSUME TypeOK, StringsEmpty, CanCapture, NEW s, s = Fields(Captured)
               PROVE  IF ReadsBack(Captured) THEN Same(ReadSnapshot(WriteToFile(s)), s)
                      ELSE ReadSnapshot(WriteToFile(s)).error = BadPosition
    BY DEF FileKeepsGraph, JustCaptured
  <2>1. IsFileSnapshot(s) /\ (FileHeap(s.objects) <=> ReadsBack(Captured))
    BY CapturedIsFile
  <2>2. CASE ReadsBack(Captured)
    BY <2>1, <2>2, SnapshotReadsBack
  <2>3. CASE ~ReadsBack(Captured)
    BY <2>1, <2>3, SnapshotStops
  <2> QED
    BY <2>2, <2>3
<1> QED
  BY <1>1, <1>2, NextStrings, TypeCorrect, PTL DEF Spec
=============================================================================
