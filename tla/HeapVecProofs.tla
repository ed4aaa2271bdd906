--------------------------- MODULE HeapVecProofs ---------------------------
(***************************************************************************)
(* Proofs about HeapVec, for an arena of any size: that the recursive walk *)
(* marks exactly what is reachable, that the free list stays ascending,    *)
(* that every method implements the one of HeapApi, and that a module file *)
(* or a nested value written from an arena is read back as what it was.    *)
(***************************************************************************)
EXTENDS HeapCodec, HeapLemmas, FileProofs

Work == Marks \X Seq(Value)
On(m) == {i \in DOMAIN objects : m[i]}
Flags(S) == [i \in DOMAIN objects |-> i \in S]

\* What the walk over refs leaves, by module Heap.
Walked(m, refs) == Flags(MarksAfter(Abstract, On(m), Values(refs)))

\* One turn of MarkEach, with `each` for the turns after it.
Turn(each, work) ==
  IF work[2] = <<>> THEN work[1]
  ELSE each[<<IF Head(work[2]) = Prim THEN work[1]
              ELSE Mark(each, work[1], Head(work[2]).index), Tail(work[2])>>]

Ascending(s) == \A j, k \in DOMAIN s : j < k => s[j] < s[k]

\* What the loop of sweep has pushed after k turns, in one formula.
Collected(s, k) ==
  s \in Seq(Nat) /\ Ascending(s) /\ ToSet(s) = {i \in 1..k : ~marked[i]}
Push(f, k) ==
  IF k = 0 THEN <<>> ELSE IF marked[k] THEN f[k - 1] ELSE Append(f[k - 1], k)

IInv ==
  /\ objects \in Seq(HeapObject) /\ marked \in Seq(BOOLEAN) /\ free_slots \in Seq(Nat)
  /\ Len(objects) <= MaxSlots
  /\ FreeListSound
-----------------------------------------------------------------------------
LEMMA Least ==
  ASSUME NEW S, S \subseteq Nat, S # {}
  PROVE  \E m \in S : \A k \in S : m <= k
<1>1. PICK m \in S : \A k \in S : <<k, m>> \notin OpToRel(<, Nat)
  BY NatLessThanWellFounded, WFMin
<1>2. ASSUME NEW k \in S PROVE m <= k
  <2>1. <<k, m>> \notin {ss \in Nat \X Nat : ss[1] < ss[2]}
    BY <1>1 DEF OpToRel
  <2>2. k \in Nat /\ m \in Nat
    OBVIOUS
  <2> QED
    BY <2>1, <2>2
<1> QED
  BY <1>2

\* Flags and sets of slots are the same thing.
LEMMA FlagsAndSets ==
  /\ \A m \in Marks : Flags(On(m)) = m
  /\ \A S : Flags(S) \in Marks
  /\ \A S : S \subseteq DOMAIN objects => On(Flags(S)) = S
<1>1. ASSUME NEW m \in Marks PROVE Flags(On(m)) = m
  <2>1. ASSUME NEW i \in DOMAIN objects PROVE (i \in On(m)) = m[i]
    <3>1. m[i] \in BOOLEAN
      BY DEF Marks
    <3> QED
      BY <3>1 DEF On
  <2>2. m = [i \in DOMAIN objects |-> m[i]]
    BY DEF Marks
  <2> QED
    BY <2>1, <2>2, Zenon DEF Flags
<1>2. ASSUME NEW S PROVE Flags(S) \in Marks
  BY DEF Flags, Marks
<1>3. ASSUME NEW S, S \subseteq DOMAIN objects PROVE On(Flags(S)) = S
  BY <1>3 DEF Flags, On
<1> QED
  BY <1>1, <1>2, <1>3

\* The elements of a list are its first one and those of its tail.
LEMMA HeadAndTail ==
  ASSUME NEW refs \in Seq(Value), refs # <<>>
  PROVE  /\ Head(refs) \in Value /\ Tail(refs) \in Seq(Value)
         /\ Values(refs) = {Head(refs)} \cup Values(Tail(refs))
         /\ Len(Tail(refs)) = Len(refs) - 1 /\ Len(refs) \in Nat
<1>1. /\ Tail(refs) \in Seq(Value) /\ Len(refs) \in Nat /\ Len(refs) > 0
      /\ Len(Tail(refs)) = Len(refs) - 1
      /\ \A k \in 1..Len(refs) - 1 : Tail(refs)[k] = refs[k + 1]
      /\ Head(refs) = refs[1] /\ refs[1] \in Value
      /\ DOMAIN refs = 1..Len(refs) /\ DOMAIN Tail(refs) = 1..Len(refs) - 1
  OBVIOUS
<1>2. ASSUME NEW v \in Values(refs) PROVE v = Head(refs) \/ v \in Values(Tail(refs))
  <2>1. PICK k \in 1..Len(refs) : v = refs[k]
    BY <1>1 DEF Values
  <2>2. k # 1 => k - 1 \in 1..Len(refs) - 1 /\ Tail(refs)[k - 1] = v
    BY <1>1, <2>1
  <2> QED
    BY <1>1, <2>1, <2>2 DEF Values
<1>3. ASSUME NEW v \in Values(Tail(refs)) PROVE v \in Values(refs)
  <2>1. PICK k \in 1..Len(refs) - 1 : v = Tail(refs)[k]
    BY <1>1 DEF Values
  <2>2. k + 1 \in 1..Len(refs) /\ refs[k + 1] = v
    BY <1>1, <2>1
  <2> QED
    BY <1>1, <2>2 DEF Values
<1>4. Head(refs) \in Values(refs)
  BY <1>1 DEF Values
<1> QED
  BY <1>1, <1>2, <1>3, <1>4

\* What a turn goes on with: all that Walked says of it.
LEMMA WalkedTurn ==
  ASSUME objects \in Seq(HeapObject), NEW m \in Marks, NEW refs \in Seq(Value), refs # <<>>,
         NEW v, v = Head(refs)
  PROVE  /\ v = Prim \/ v.index \notin DOMAIN m \/ m[v.index]
            => Walked(m, refs) = Walked(m, Tail(refs))
         /\ ~(v = Prim \/ v.index \notin DOMAIN m \/ m[v.index])
            => /\ [m EXCEPT ![v.index] = TRUE] \in Marks
               /\ On([m EXCEPT ![v.index] = TRUE]) = On(m) \cup {v.index}
               /\ v.index \in DOMAIN objects \ On(m)
               /\ objects[v.index].elems \in Seq(Value)
               /\ Walked(m, refs) =
                    Walked(Walked([m EXCEPT ![v.index] = TRUE], objects[v.index].elems), Tail(refs))
<1> DEFINE h == Abstract
           M == On(m)
           vals == Values(refs)
           rest == Values(Tail(refs))
<1>1. Slots(h) = DOMAIN objects /\ \A i : h.objects[i] = objects[i]
  BY DEF Abstract, Slots
<1>2. vals = {v} \cup rest /\ v \in Value
  BY HeadAndTail
<1>3. DOMAIN m = DOMAIN objects /\ M \subseteq DOMAIN objects
  BY DEF Marks, On
<1> HIDE DEF h
<1>4. ASSUME v = Prim \/ v.index \notin DOMAIN m \/ m[v.index]
      PROVE  Walked(m, refs) = Walked(m, Tail(refs))
  <2>1. v = Prim \/ v.index \notin Slots(h) \ M
    BY <1>1, <1>3, <1>4 DEF On
  <2>2. Handles(vals) \cap (Slots(h) \ M) = Handles(rest) \cap (Slots(h) \ M)
    BY <1>2, <2>1 DEF Handles
  <2>3. Reachable(h, vals, M) = Reachable(h, rest, M)
    BY <2>2 DEF Reachable
  <2> QED
    BY <2>3 DEF Walked, MarksAfter, h
<1>5. ASSUME ~(v = Prim \/ v.index \notin DOMAIN m \/ m[v.index])
      PROVE  /\ [m EXCEPT ![v.index] = TRUE] \in Marks
             /\ On([m EXCEPT ![v.index] = TRUE]) = M \cup {v.index}
             /\ v.index \in DOMAIN objects \ M
             /\ objects[v.index].elems \in Seq(Value)
             /\ Walked(m, refs) =
                  Walked(Walked([m EXCEPT ![v.index] = TRUE], objects[v.index].elems), Tail(refs))
  <2> DEFINE i == v.index
             m1 == [m EXCEPT ![i] = TRUE]
             elems == Values(objects[i].elems)
  <2>1. i \in DOMAIN objects /\ i \notin M
    BY <1>3, <1>5 DEF On
  <2>2. m1 \in Marks
    BY <2>1 DEF Marks
  <2>3. On(m1) = M \cup {i}
    <3>1. \A j \in DOMAIN objects : m1[j] = IF j = i THEN TRUE ELSE m[j]
      BY <1>3
    <3> HIDE DEF m1
    <3> QED
      BY <3>1, <2>1 DEF On
  <2>4. objects[i] \in HeapObject /\ objects[i].elems \in Seq(Value)
    <3>1. objects[i] \in HeapObject
      BY <2>1
    <3> QED
      BY <3>1 DEF HeapObject
  <2>5. MarksAfter(h, M, vals) = MarksAfter(h, MarksAfter(h, M \cup {i}, elems), rest)
    <3>1. Unvisited(h, M, v) /\ h.objects[i] = objects[i]
      BY <1>1, <1>5, <2>1 DEF Unvisited
    <3>2. Visited(h, M, v) = MarksAfter(h, M \cup {i}, elems)
      BY <3>1 DEF Visited
    <3> HIDE DEF vals, rest, M, elems
    <3>3. MarksAfter(h, M, {v} \cup rest) = MarksAfter(h, Visited(h, M, v), rest)
      BY <3>1, WalkFirst
    <3> QED
      BY <1>2, <3>2, <3>3
  <2>6. MarksAfter(h, M \cup {i}, elems) \subseteq DOMAIN objects
    BY <1>1, <1>3, <2>1, ReachableClosed DEF MarksAfter
  <2>7. Walked(m1, objects[i].elems) = Flags(MarksAfter(h, M \cup {i}, elems))
    BY <2>3 DEF Walked, h
  <2>8. On(Flags(MarksAfter(h, M \cup {i}, elems))) = MarksAfter(h, M \cup {i}, elems)
    BY <2>6, FlagsAndSets
  <2>9. Walked(Flags(MarksAfter(h, M \cup {i}, elems)), Tail(refs)) = Walked(m, refs)
    BY <2>5, <2>8 DEF Walked, h
  <2> QED
    BY <2>1, <2>2, <2>3, <2>4, <2>7, <2>9
<1> QED
  BY <1>4, <1>5

LEMMA WalkedNone ==
  ASSUME NEW m \in Marks
  PROVE  Walked(m, <<>>) = m
<1>1. Values(<<>>) = {} /\ Handles({}) = {}
  BY DEF Values, Handles
<1>2. Reachable(Abstract, {}, On(m)) \subseteq {}
  BY <1>1, ReachableLeast DEF Closed
<1> QED
  BY <1>1, <1>2, FlagsAndSets DEF Walked, MarksAfter

\* The walk ends, and a function with the turns of MarkEach is MarkEach.
LEMMA MarkEachTurns ==
  ASSUME objects \in Seq(HeapObject), NEW work \in Work
  PROVE  MarkEach[work] = Turn(MarkEach, work)
<1> DEFINE g == [w \in Work |-> Walked(w[1], w[2])]
<1>1. ASSUME NEW w \in Work PROVE Walked(w[1], w[2]) = Turn(g, w)
  <2> DEFINE m == w[1]
             refs == w[2]
  <2>0. m \in Marks /\ refs \in Seq(Value)
    BY DEF Work
  <2>1. ASSUME NEW mm \in Marks, NEW r \in Seq(Value) PROVE g[<<mm, r>>] = Walked(mm, r)
    BY DEF Work
  <2>2. ASSUME NEW mm, NEW r PROVE Walked(mm, r) \in Marks
    BY FlagsAndSets DEF Walked
  <2> HIDE DEF g, m, refs
  <2>3. CASE refs = <<>>
    <3>1. Walked(m, refs) = m
      BY <2>0, <2>3, WalkedNone
    <3> QED
      BY <3>1, <2>3 DEF Turn, m, refs
  <2>4. CASE refs # <<>>
    <3> DEFINE v == Head(refs)
               skip == v = Prim \/ v.index \notin DOMAIN m \/ m[v.index]
               m1 == [m EXCEPT ![v.index] = TRUE]
    <3>0. Tail(refs) \in Seq(Value)
      BY <2>0, <2>4, HeadAndTail
    <3>1. Turn(g, w) = g[<<IF v = Prim THEN m ELSE Mark(g, m, v.index), Tail(refs)>>]
      BY <2>4 DEF Turn, m, refs
    <3>2. CASE skip
      <4>1. Turn(g, w) = g[<<m, Tail(refs)>>]
        BY <3>1, <3>2 DEF Mark
      <4> QED
        BY <4>1, <3>0, <2>0, <2>1, <3>2, <2>4, WalkedTurn DEF m, refs
    <3>3. CASE ~skip
      <4>1. Turn(g, w) = g[<<g[<<m1, objects[v.index].elems>>], Tail(refs)>>]
        BY <3>1, <3>3 DEF Mark
      <4>2. /\ m1 \in Marks /\ objects[v.index].elems \in Seq(Value)
            /\ Walked(m, refs) = Walked(Walked(m1, objects[v.index].elems), Tail(refs))
        BY <2>0, <2>4, <3>3, WalkedTurn
      <4>3. g[<<m1, objects[v.index].elems>>] = Walked(m1, objects[v.index].elems)
        BY <2>1, <4>2
      <4>4. Walked(m1, objects[v.index].elems) \in Marks
        BY <2>2
      <4> HIDE DEF v, m1, skip
      <4> QED
        BY <4>1, <4>2, <4>3, <4>4, <3>0, <2>1 DEF m, refs
    <3> QED
      BY <3>2, <3>3
  <2> QED
    BY <2>3, <2>4
<1>2. g = [w \in Work |-> Turn(g, w)]
  <2> DEFINE W(w) == Walked(w[1], w[2])
             T(w) == Turn(g, w)
  <2>1. \A w \in Work : W(w) = T(w)
    BY <1>1
  <2>2. g = [w \in Work |-> W(w)]
    OBVIOUS
  <2> HIDE DEF g, W, T
  <2>3. [w \in Work |-> W(w)] = [w \in Work |-> T(w)]
    BY <2>1
  <2> QED
    BY <2>2, <2>3 DEF T
<1>3. MarkEach = CHOOSE f : f = [w \in Work |-> Turn(f, w)]
  BY DEF MarkEach, Turn, Work, Marks
<1> HIDE DEF g
<1>4. MarkEach = [w \in Work |-> Turn(MarkEach, w)]
  <2> DEFINE P(f) == f = [w \in Work |-> Turn(f, w)]
  <2>1. \E f : P(f)
    BY <1>2
  <2>2. MarkEach = CHOOSE f : P(f)
    BY <1>3
  <2> HIDE DEF P
  <2>3. P(MarkEach)
    BY <2>1, <2>2
  <2> QED
    BY <2>3 DEF P
<1> QED
  BY <1>4

\* The recursive walk of the source marks what is reachable: each turn marks a slot more
\* or leaves an element less to come.
LEMMA MarkEachWalks ==
  ASSUME objects \in Seq(HeapObject), NEW m0 \in Marks, NEW refs0 \in Seq(Value)
  PROVE  MarkEach[<<m0, refs0>>] = Walked(m0, refs0)
<1> DEFINE Good(m, r) == MarkEach[<<m, r>>] = Walked(m, r)
           left(m) == Cardinality(DOMAIN objects \ On(m))
<1>0. IsFiniteSet(DOMAIN objects)
  <2>1. DOMAIN objects = 1..Len(objects) /\ Len(objects) \in Int /\ 1 \in Int
    OBVIOUS
  <2> QED
    BY <2>1, FS_Interval
<1>1. ASSUME NEW m \in Marks PROVE IsFiniteSet(DOMAIN objects \ On(m)) /\ left(m) \in Nat
  <2>1. IsFiniteSet(DOMAIN objects \ On(m))
    BY <1>0, FS_Subset
  <2> QED
    BY <2>1, FS_CardinalityType
<1>2. ASSUME NEW m \in Marks, NEW n \in Marks, On(m) \subseteq On(n), On(m) # On(n)
      PROVE  left(n) < left(m)
  <2>1. /\ (DOMAIN objects \ On(n)) \in SUBSET (DOMAIN objects \ On(m))
        /\ (DOMAIN objects \ On(n)) # (DOMAIN objects \ On(m))
    BY <1>2 DEF On
  <2>2. left(n) <= left(m) /\ left(n) # left(m)
    BY <1>1, <2>1, FS_Subset
  <2>3. left(n) \in Nat /\ left(m) \in Nat
    BY <1>1
  <2> HIDE DEF left
  <2> QED
    BY <2>2, <2>3
<1> HIDE DEF Good, left
<1>3. ASSUME NEW m \in Marks, NEW r \in Seq(Value), ~Good(m, r) PROVE FALSE
  <2> DEFINE Lefts == {k \in Nat : \E n \in Marks, s \in Seq(Value) : ~Good(n, s) /\ left(n) = k}
  <2>1. Lefts # {} /\ Lefts \subseteq Nat
    BY <1>1, <1>3
  <2>2. PICK a \in Lefts : \A k \in Lefts : a <= k
    BY <2>1, Least
  <2> DEFINE Lens == {k \in Nat : \E n \in Marks, s \in Seq(Value) :
                                   ~Good(n, s) /\ left(n) = a /\ Len(s) = k}
  <2>3. Lens # {} /\ Lens \subseteq Nat
    <3>1. PICK n \in Marks, s \in Seq(Value) : ~Good(n, s) /\ left(n) = a
      BY <2>2
    <3>2. Len(s) \in Nat
      OBVIOUS
    <3> QED
      BY <3>1, <3>2
  <2>4. PICK c \in Lens : \A k \in Lens : c <= k
    BY <2>3, Least
  <2>5. PICK wm \in Marks, refs \in Seq(Value) : ~Good(wm, refs) /\ left(wm) = a /\ Len(refs) = c
    BY <2>4
  <2>6. ASSUME NEW n \in Marks, NEW s \in Seq(Value), left(n) < left(wm) PROVE Good(n, s)
    <3>1. left(n) \in Nat /\ left(wm) \in Nat /\ left(wm) = a
      BY <1>1, <2>5
    <3>2. ~Good(n, s) => left(n) \in Lefts
      BY <3>1
    <3> HIDE DEF Lefts
    <3> QED
      BY <2>2, <2>6, <3>1, <3>2
  <2>7. ASSUME NEW s \in Seq(Value), Len(s) < Len(refs) PROVE Good(wm, s)
    <3>1. Len(s) \in Nat /\ Len(refs) \in Nat
      OBVIOUS
    <3> QED
      BY <2>4, <2>5, <2>7, <3>1
  <2> DEFINE v == Head(refs)
             skip == v = Prim \/ v.index \notin DOMAIN wm \/ wm[v.index]
             m1 == [wm EXCEPT ![v.index] = TRUE]
             elems == objects[v.index].elems
  <2>8. <<wm, refs>> \in Work
    BY DEF Work
  <2> HIDE DEF Lefts, Lens
  <2>9. MarkEach[<<wm, refs>>] = Turn(MarkEach, <<wm, refs>>)
    BY <2>8, MarkEachTurns
  <2>10. ASSUME refs = <<>> PROVE Good(wm, refs)
    <3>1. MarkEach[<<wm, refs>>] = wm
      BY <2>9, <2>10 DEF Turn
    <3> QED
      BY <3>1, <2>10, WalkedNone DEF Good
  <2>11. ASSUME refs # <<>> PROVE Good(wm, refs)
    <3>0. Tail(refs) \in Seq(Value) /\ Len(Tail(refs)) < Len(refs)
      BY <2>11, HeadAndTail
    <3>1. MarkEach[<<wm, refs>>]
            = MarkEach[<<IF v = Prim THEN wm ELSE Mark(MarkEach, wm, v.index), Tail(refs)>>]
      BY <2>9, <2>11 DEF Turn
    <3>2. CASE skip
      <4>1. MarkEach[<<wm, refs>>] = MarkEach[<<wm, Tail(refs)>>]
        BY <3>1, <3>2 DEF Mark
      <4>2. Walked(wm, refs) = Walked(wm, Tail(refs))
        BY <2>11, <3>2, WalkedTurn
      <4>3. Good(wm, Tail(refs))
        BY <2>7, <3>0
      <4> QED
        BY <4>1, <4>2, <4>3 DEF Good
    <3>3. CASE ~skip
      <4>1. MarkEach[<<wm, refs>>] = MarkEach[<<MarkEach[<<m1, elems>>], Tail(refs)>>]
        BY <3>1, <3>3 DEF Mark
      <4>2. /\ m1 \in Marks /\ elems \in Seq(Value)
            /\ Walked(wm, refs) = Walked(Walked(m1, elems), Tail(refs))
        BY <2>11, <3>3, WalkedTurn
      <4>3. On(m1) = On(wm) \cup {v.index} /\ v.index \notin On(wm)
        BY <2>11, <3>3, WalkedTurn
      <4> HIDE DEF m1, elems, skip, v
      <4>4. left(m1) < left(wm)
        BY <1>2, <4>2, <4>3
      <4>5. Good(m1, elems)
        BY <2>6, <4>2, <4>4
      <4>6. Walked(m1, elems) \in Marks
        BY FlagsAndSets DEF Walked
      <4>7. On(wm) \subseteq On(Walked(m1, elems)) /\ On(wm) # On(Walked(m1, elems))
        <5>1. MarksAfter(Abstract, On(m1), Values(elems)) \subseteq DOMAIN objects
          BY ReachableClosed DEF MarksAfter, On, Slots, Abstract
        <5>2. On(Walked(m1, elems)) = MarksAfter(Abstract, On(m1), Values(elems))
          BY <5>1, FlagsAndSets DEF Walked
        <5> QED
          BY <5>2, <4>3 DEF MarksAfter
      <4>8. Good(Walked(m1, elems), Tail(refs))
        BY <1>2, <2>6, <3>0, <4>6, <4>7
      <4> QED
        BY <4>1, <4>2, <4>5, <4>8 DEF Good
    <3> QED
      BY <3>2, <3>3
  <2> QED
    BY <2>5, <2>10, <2>11
<1> QED
  BY <1>3 DEF Good

-----------------------------------------------------------------------------
\* A push keeps the list ascending.
LEMMA PushAscending ==
  ASSUME NEW s \in Seq(Nat), Ascending(s), NEW x \in Nat, \A y \in ToSet(s) : y < x
  PROVE  /\ Append(s, x) \in Seq(Nat) /\ Ascending(Append(s, x))
         /\ ToSet(Append(s, x)) = ToSet(s) \cup {x}
<1> DEFINE t == Append(s, x)
<1>1. /\ Len(s) \in Nat /\ DOMAIN s = 1..Len(s) /\ t \in Seq(Nat)
      /\ DOMAIN t = 1..Len(s) + 1 /\ t[Len(s) + 1] = x
      /\ \A k \in 1..Len(s) : t[k] = s[k]
  OBVIOUS
<1> HIDE DEF t
<1>2. ASSUME NEW j \in DOMAIN t, NEW k \in DOMAIN t, j < k PROVE t[j] < t[k]
  <2>1. CASE k = Len(s) + 1
    <3>1. j \in 1..Len(s) /\ t[j] = s[j] /\ s[j] \in ToSet(s)
      BY <1>1, <1>2, <2>1 DEF ToSet
    <3> QED
      BY <3>1, <2>1, <1>1
  <2>2. CASE k # Len(s) + 1
    <3>1. j \in 1..Len(s) /\ k \in 1..Len(s)
      BY <1>1, <1>2, <2>2
    <3> QED
      BY <3>1, <1>1, <1>2 DEF Ascending
  <2> QED
    BY <2>1, <2>2
<1>3. ToSet(t) = ToSet(s) \cup {x}
  <2>1. ASSUME NEW y \in ToSet(t) PROVE y \in ToSet(s) \cup {x}
    <3>1. PICK k \in 1..Len(s) + 1 : y = t[k]
      BY <1>1 DEF ToSet
    <3>2. k \in 1..Len(s) \/ k = Len(s) + 1
      BY <1>1
    <3> QED
      BY <3>1, <3>2, <1>1 DEF ToSet
  <2>2. ASSUME NEW k \in 1..Len(s) PROVE s[k] \in ToSet(t)
    <3>1. k \in DOMAIN t /\ t[k] = s[k]
      BY <1>1
    <3> QED
      BY <3>1 DEF ToSet
  <2>3. x \in ToSet(t)
    <3>1. Len(s) + 1 \in DOMAIN t
      BY <1>1
    <3> QED
      BY <3>1, <1>1 DEF ToSet
  <2>4. ToSet(s) \subseteq ToSet(t)
    BY <2>2, <1>1 DEF ToSet
  <2> QED
    BY <2>1, <2>3, <2>4
<1>4. Ascending(t)
  BY <1>2 DEF Ascending
<1> QED
  BY <1>1, <1>3, <1>4 DEF t

\* Each turn of the loop depends on the turns before it.
LEMMA UnmarkedPushes ==
  ASSUME marked \in Seq(BOOLEAN), NEW k \in 0..Len(marked)
  PROVE  Unmarked[k] = Push(Unmarked, k)
<1> DEFINE Goes(n) == \E f : f = [i \in 0..n |-> Push(f, i)]
           Bad == {n \in 0..Len(marked) : ~Goes(n)}
<1>0. Len(marked) \in Nat
  OBVIOUS
<1>1. Goes(0)
  <2> DEFINE f == [i \in 0..0 |-> <<>>]
  <2>1. f = [i \in 0..0 |-> Push(f, i)]
    BY DEF Push
  <2> QED
    BY <2>1
<1>2. ASSUME NEW n \in 0..Len(marked), n # 0, Goes(n - 1) PROVE Goes(n)
  <2>1. PICK f : f = [i \in 0..n - 1 |-> Push(f, i)]
    BY <1>2
  <2> DEFINE g == [i \in 0..n |-> IF i = n THEN Push(f, n) ELSE f[i]]
  <2>2. ASSUME NEW i \in 0..n PROVE g[i] = Push(g, i)
    <3>1. i # 0 => i - 1 \in 0..n /\ i - 1 # n
      BY <1>0
    <3>2. i # 0 => g[i - 1] = f[i - 1]
      BY <3>1
    <3>3. i = n \/ i \in 0..n - 1
      BY <1>0
    <3>4. Push(g, i) = Push(f, i)
      BY <3>2 DEF Push
    <3>5. i # n => g[i] = Push(f, i)
      BY <2>1, <3>3
    <3>6. i = n => g[i] = Push(f, i)
      OBVIOUS
    <3> QED
      BY <3>4, <3>5, <3>6
  <2>3. g = [i \in 0..n |-> Push(g, i)]
    <3>1. g = [i \in 0..n |-> g[i]]
      OBVIOUS
    <3> HIDE DEF g
    <3> QED
      BY <2>2, <3>1
  <2> QED
    BY <2>3
<1>3. Bad = {}
  <2> SUFFICES ASSUME Bad # {} PROVE FALSE
    OBVIOUS
  <2>1. PICK n \in Bad : \A i \in Bad : n <= i
    <3>1. Bad \subseteq Nat
      OBVIOUS
    <3> HIDE DEF Bad
    <3> QED
      BY <3>1, Least
  <2>2. n \in 0..Len(marked) /\ ~Goes(n)
    OBVIOUS
  <2> HIDE DEF Goes
  <2>3. n # 0
    BY <1>1, <2>2
  <2>4. n - 1 \in 0..Len(marked) /\ ~(n <= n - 1)
    BY <2>2, <2>3, <1>0
  <2>5. Goes(n - 1)
    BY <2>1, <2>4
  <2> QED
    BY <1>2, <2>2, <2>3, <2>5
<1>4. \E f : f = [i \in 0..Len(marked) |-> Push(f, i)]
  BY <1>0, <1>3
<1> DEFINE P(f) == f = [i \in 0..Len(marked) |-> Push(f, i)]
<1>5. Unmarked = CHOOSE f : P(f)
  BY DEF Unmarked, Push
<1>6. \E f : P(f)
  BY <1>4
<1> HIDE DEF P
<1>7. P(Unmarked)
  BY <1>5, <1>6
<1> QED
  BY <1>7 DEF P

\* The loop of sweep collects the unmarked slots, in ascending order.
LEMMA SweepCollects ==
  ASSUME marked \in Seq(BOOLEAN), NEW k0 \in 0..Len(marked)
  PROVE  Collected(Unmarked[k0], k0)
<1> DEFINE Bad == {k \in 0..Len(marked) : ~Collected(Unmarked[k], k)}
<1>0. Len(marked) \in Nat
  OBVIOUS
<1>1. SUFFICES ASSUME Bad # {} PROVE FALSE
  OBVIOUS
<1>2. PICK k \in Bad : \A j \in Bad : k <= j
  <2>1. Bad \subseteq Nat
    OBVIOUS
  <2> HIDE DEF Bad
  <2> QED
    BY <1>1, <2>1, Least
<1>3. k \in 0..Len(marked) /\ ~Collected(Unmarked[k], k)
  OBVIOUS
<1>4. Unmarked[k] = Push(Unmarked, k)
  BY <1>3, UnmarkedPushes
<1>5. CASE k = 0
  <2>1. Unmarked[k] = <<>>
    BY <1>4, <1>5 DEF Push
  <2> QED
    BY <1>3, <1>5, <2>1 DEF Collected, Ascending, ToSet
<1>6. CASE k # 0
  <2> DEFINE s == Unmarked[k - 1]
  <2>1. k - 1 \in 0..Len(marked) /\ ~(k <= k - 1) /\ k \in 1..Len(marked)
    BY <1>0, <1>3, <1>6
  <2>2. Collected(s, k - 1)
    BY <1>2, <2>1
  <2>3. marked[k] \in BOOLEAN /\ k \in Nat
    BY <2>1
  <2> HIDE DEF s, Bad
  <2>4. 1..k = 1..(k - 1) \cup {k}
    BY <2>1
  <2>5. CASE marked[k]
    <3>1. Unmarked[k] = s
      BY <1>4, <1>6, <2>5 DEF Push, s
    <3>2. {i \in 1..k : ~marked[i]} = {i \in 1..(k - 1) : ~marked[i]}
      BY <2>4, <2>5
    <3> QED
      BY <1>3, <2>2, <3>1, <3>2 DEF Collected
  <2>6. CASE ~marked[k]
    <3>1. Unmarked[k] = Append(s, k)
      BY <1>4, <1>6, <2>6 DEF Push, s
    <3>2. {i \in 1..k : ~marked[i]} = {i \in 1..(k - 1) : ~marked[i]} \cup {k}
      BY <2>4, <2>6
    <3>3. \A y \in ToSet(s) : y < k
      BY <2>2, <2>3 DEF Collected
    <3>4. Collected(Append(s, k), k)
      BY <2>2, <2>3, <3>2, <3>3, PushAscending DEF Collected
    <3> QED
      BY <1>3, <3>1, <3>4
  <2> QED
    BY <2>3, <2>5, <2>6
<1> QED
  BY <1>5, <1>6

-----------------------------------------------------------------------------
\* HeapApi has the operators of module Heap under another name.
LEMMA SameOperators ==
  ASSUME NEW h, NEW vals, NEW stop
  PROVE  Api!Reachable(h, vals, stop) = Reachable(h, vals, stop)
BY DEF Reachable, Closed, Children, Handles, Values, Slots,
       Api!Reachable, Api!Closed, Api!Children, Api!Handles, Api!Values, Api!Slots

\* mark_value marks what is reachable from the value.
LEMMA MarkValueMarks ==
  ASSUME IInv, NEW v \in Value,
         NEW m, m = IF v = Prim THEN marked ELSE Mark(MarkEach, marked, v.index)
  PROVE  m \in Marks /\ On(m) = On(marked) \cup Reachable(Abstract, {v}, On(marked))
<1> DEFINE refs == <<v>>
<1>1. /\ objects \in Seq(HeapObject) /\ marked \in Marks
  BY DEF IInv, FreeListSound, Marks
<1>2. /\ refs \in Seq(Value) /\ refs # <<>> /\ Head(refs) = v /\ Tail(refs) = <<>>
      /\ <<>> \in Seq(Value) /\ Values(refs) = {v}
  BY DEF Values
<1>3. m \in Marks
  <2>1. CASE v = Prim \/ v.index \notin DOMAIN marked \/ marked[v.index]
    <3>1. m = marked
      BY <2>1 DEF Mark
    <3> QED
      BY <3>1, <1>1
  <2>2. CASE ~(v = Prim \/ v.index \notin DOMAIN marked \/ marked[v.index])
    <3> DEFINE m1 == [marked EXCEPT ![v.index] = TRUE]
               elems == objects[v.index].elems
    <3>1. m = MarkEach[<<m1, elems>>]
      BY <2>2 DEF Mark
    <3> HIDE DEF refs
    <3>2. m1 \in Marks /\ elems \in Seq(Value)
      BY <1>1, <1>2, <2>2, WalkedTurn
    <3> HIDE DEF m1, elems
    <3>3. m = Walked(m1, elems)
      BY <1>1, <3>1, <3>2, MarkEachWalks
    <3> QED
      BY <3>3, FlagsAndSets DEF Walked
  <2> QED
    BY <2>1, <2>2
<1> HIDE DEF refs
<1>4. MarkEach[<<marked, refs>>] = MarkEach[<<m, <<>>>>]
  <2>1. <<marked, refs>> \in Work
    BY <1>1, <1>2 DEF Work
  <2>2. MarkEach[<<marked, refs>>] = Turn(MarkEach, <<marked, refs>>)
    BY <1>1, <2>1, MarkEachTurns
  <2> QED
    BY <1>2, <2>2 DEF Turn
<1>5. Walked(marked, refs) = m
  BY <1>1, <1>2, <1>3, <1>4, MarkEachWalks, WalkedNone
<1>6. MarksAfter(Abstract, On(marked), {v}) \subseteq DOMAIN objects
  BY ReachableClosed DEF MarksAfter, On, Slots, Abstract
<1>7. On(Walked(marked, refs)) = MarksAfter(Abstract, On(marked), {v})
  BY <1>2, <1>6, FlagsAndSets DEF Walked
<1> QED
  BY <1>3, <1>5, <1>7 DEF MarksAfter

\* What pop takes from an ascending list is its largest, and occurs once.
LEMMA PopLargest ==
  ASSUME NEW s \in Seq(Nat), Ascending(s), s # <<>>
  PROVE  /\ Last(s) \in ToSet(s) /\ \A j \in ToSet(s) : j <= Last(s)
         /\ Front(s) \in Seq(Nat) /\ Ascending(Front(s))
         /\ ToSet(Front(s)) = ToSet(s) \ {Last(s)}
<1> DEFINE t == Front(s)
           n == Len(s)
<1>1. /\ n \in Nat \ {0} /\ DOMAIN s = 1..n /\ Last(s) = s[n] /\ t \in Seq(Nat)
      /\ DOMAIN t = 1..n - 1 /\ \A k \in 1..n - 1 : t[k] = s[k]
      /\ \A k \in 1..n : s[k] \in Nat
  BY DEF Front, Last
<1> HIDE DEF t, n
<1>0. \A k \in 1..n - 1 : k \in 1..n /\ k < n
  BY <1>1
<1>2. \A k \in 1..n - 1 : s[k] < s[n]
  <2>1. n \in 1..n
    BY <1>1
  <2> QED
    BY <1>0, <1>1, <2>1 DEF Ascending
<1>3. Ascending(t)
  <2>1. ASSUME NEW j \in 1..n - 1, NEW k \in 1..n - 1, j < k PROVE s[j] < s[k]
    BY <1>0, <1>1, <2>1 DEF Ascending
  <2> QED
    BY <1>1, <2>1 DEF Ascending
<1>4. \A k \in 1..n : k = n \/ k \in 1..n - 1
  BY <1>1
<1>5. ToSet(s) = {s[k] : k \in 1..n} /\ ToSet(t) = {s[k] : k \in 1..n - 1}
  BY <1>1 DEF ToSet
<1>6. \A k \in 1..n - 1 : k \in 1..n /\ s[k] # s[n]
  BY <1>1, <1>2
<1>7. ToSet(t) = ToSet(s) \ {s[n]}
  BY <1>4, <1>5, <1>6
<1>8. s[n] \in ToSet(s)
  BY <1>1, <1>5
<1>9. \A j \in ToSet(s) : j <= s[n]
  BY <1>1, <1>2, <1>4, <1>5
<1> QED
  BY <1>1, <1>3, <1>7, <1>8, <1>9 DEF t

LEMMA InvariantInit == ASSUME VecInit PROVE IInv /\ Api!ApiInit
<1>1. objects = <<>> /\ marked = <<>> /\ free_slots = <<>>
  BY DEF VecInit
<1>2. ToSet(free_slots) = {} /\ DOMAIN free_slots = {} /\ DOMAIN marked = {} /\ Len(objects) = 0
  BY <1>1 DEF ToSet
<1>3. /\ objects \in Seq(HeapObject) /\ marked \in Seq(BOOLEAN) /\ free_slots \in Seq(Nat)
      /\ Len(objects) <= MaxSlots /\ Len(marked) = Len(objects)
  BY <1>1, HeapConstants
<1>4. IInv
  BY <1>2, <1>3 DEF IInv, FreeListSound
<1>5. {i \in DOMAIN marked : marked[i]} = {}
  BY <1>2
<1> QED
  BY <1>1, <1>2, <1>4, <1>5 DEF Api!ApiInit, Api!NewHeap, Abstract

LEMMA AppendFacts ==
  ASSUME NEW T, NEW s \in Seq(T), NEW x \in T, NEW n, n = Len(s)
  PROVE  /\ Append(s, x) \in Seq(T) /\ Len(Append(s, x)) = n + 1 /\ n \in Nat
         /\ DOMAIN Append(s, x) = 1..n + 1 /\ DOMAIN s = 1..n
         /\ \A i \in 1..n : Append(s, x)[i] = s[i]
         /\ Append(s, x)[n + 1] = x
  OBVIOUS

\* alloc_string and alloc_list take the slot that HeapApi says is fresh.
LEMMA AllocStep ==
  ASSUME IInv, NEW obj \in HeapObject, Alloc(obj)
  PROVE  IInv' /\ Api!Alloc(obj)
<1>1. /\ objects \in Seq(HeapObject) /\ marked \in Seq(BOOLEAN) /\ free_slots \in Seq(Nat)
      /\ Len(marked) = Len(objects) /\ Ascending(free_slots)
      /\ ToSet(free_slots) \subseteq DOMAIN objects
      /\ DOMAIN objects = 1..Len(objects) /\ DOMAIN marked = 1..Len(objects)
      /\ Len(objects) \in Nat /\ Len(objects) <= MaxSlots
  BY DEF IInv, FreeListSound, Ascending
<1>2. CASE free_slots # <<>>
  <2> DEFINE idx == Last(free_slots)
  <2>1. /\ free_slots' = Front(free_slots) /\ objects' = [objects EXCEPT ![idx] = obj]
        /\ marked' = [marked EXCEPT ![idx] = FALSE]
    BY <1>2 DEF Alloc
  <2>2. /\ idx \in ToSet(free_slots) /\ \A j \in ToSet(free_slots) : j <= idx
        /\ Front(free_slots) \in Seq(Nat) /\ Ascending(Front(free_slots))
        /\ ToSet(Front(free_slots)) = ToSet(free_slots) \ {idx}
    BY <1>1, <1>2, PopLargest
  <2> HIDE DEF idx
  <2>3. idx \in 1..Len(objects)
    BY <1>1, <2>2
  <2>4. /\ objects' \in Seq(HeapObject) /\ Len(objects') = Len(objects)
        /\ marked' \in Seq(BOOLEAN) /\ Len(marked') = Len(objects)
        /\ DOMAIN objects' = 1..Len(objects) /\ DOMAIN marked' = 1..Len(objects)
        /\ \A i \in 1..Len(objects) : marked'[i] = IF i = idx THEN FALSE ELSE marked[i]
    BY <1>1, <2>1, <2>3
  <2>5. IInv'
    BY <1>1, <2>1, <2>2, <2>4 DEF IInv, FreeListSound, Ascending
  <2>6. {i \in DOMAIN marked' : marked'[i]} = {i \in DOMAIN marked : marked[i]} \ {idx}
    BY <1>1, <2>4
  <2>7. Abstract' = Api!Put(Abstract, idx, obj)
    BY <1>1, <2>1, <2>2, <2>3, <2>6 DEF Abstract, Api!Put, Api!Slots
  <2>8. Api!FreshSlot(Abstract, idx) /\ idx \in 1..MaxSlots
    <3>1. idx \in 1..MaxSlots
      BY <1>1, <2>3, HeapConstants
    <3> QED
      BY <2>2, <3>1 DEF Api!FreshSlot, Abstract
  <2> QED
    BY <2>5, <2>7, <2>8 DEF Api!Alloc
<1>3. CASE free_slots = <<>>
  <2> DEFINE idx == Len(objects) + 1
  <2>1. /\ Len(objects) < MaxSlots /\ objects' = Append(objects, obj)
        /\ marked' = Append(marked, FALSE) /\ free_slots' = free_slots
    BY <1>3 DEF Alloc
  <2>2. ToSet(free_slots) = {}
    BY <1>3 DEF ToSet
  <2>3. /\ objects' \in Seq(HeapObject) /\ Len(objects') = idx
        /\ marked' \in Seq(BOOLEAN) /\ Len(marked') = idx
        /\ DOMAIN objects' = 1..idx /\ DOMAIN marked' = 1..idx
        /\ \A i \in 1..Len(objects) : marked'[i] <=> marked[i]
        /\ ~marked'[idx]
    <3>1. /\ objects' \in Seq(HeapObject) /\ Len(objects') = idx /\ DOMAIN objects' = 1..idx
      BY <1>1, <2>1, AppendFacts
    <3>2. /\ Append(marked, FALSE) \in Seq(BOOLEAN) /\ Len(Append(marked, FALSE)) = idx
          /\ DOMAIN Append(marked, FALSE) = 1..idx
      BY <1>1
    <3>3. \A i \in 1..Len(objects) : Append(marked, FALSE)[i] <=> marked[i]
      BY <1>1
    <3>4. ~Append(marked, FALSE)[idx]
      BY <1>1
    <3> QED
      BY <2>1, <3>1, <3>2, <3>3, <3>4
  <2>4. IInv'
    <3>1. free_slots' = <<>> /\ DOMAIN free_slots' = {} /\ ToSet(free_slots') = {}
      BY <1>3, <2>1, <2>2
    <3>2. Len(objects') <= MaxSlots
      BY <1>1, <2>1, <2>3, HeapConstants
    <3> HIDE DEF idx
    <3> QED
      BY <1>1, <2>3, <3>1, <3>2 DEF IInv, FreeListSound
  <2>5. {i \in DOMAIN marked' : marked'[i]} = {i \in DOMAIN marked : marked[i]} \ {idx}
    <3>1. \A i : i \in 1..idx <=> i \in 1..Len(objects) \/ i = idx
      BY <1>1
    <3>2. idx \notin 1..Len(objects)
      BY <1>1
    <3> HIDE DEF idx
    <3> QED
      BY <1>1, <2>3, <3>1, <3>2
  <2>6. Abstract' = Api!Put(Abstract, idx, obj)
    <3>1. idx \notin DOMAIN objects
      BY <1>1
    <3> HIDE DEF idx
    <3> QED
      BY <2>1, <2>2, <2>5, <3>1 DEF Abstract, Api!Put, Api!Slots
  <2>7. Api!FreshSlot(Abstract, idx) /\ idx \in 1..MaxSlots
    BY <1>1, <2>1, <2>2, HeapConstants DEF Api!FreshSlot, Abstract
  <2> QED
    BY <2>4, <2>6, <2>7 DEF Api!Alloc
<1> QED
  BY <1>2, <1>3

\* The records that the methods of HeapApi return.
LEMMA Records ==
  ASSUME NEW h, NEW o, NEW m, NEW f, NEW i, NEW es, NEW g,
         h = [objects |-> o, marked |-> m, free |-> f]
  PROVE  /\ g = Api!ResetMarks(h) => g = [objects |-> o, marked |-> {}, free |-> f]
         /\ g = Api!Sweep(h) => g = [objects |-> o, marked |-> {}, free |-> DOMAIN o \ m]
         /\ g = Api!SetElems(h, i, es)
              => g = [objects |-> [o EXCEPT ![i].elems = es], marked |-> m, free |-> f]
<1>1. ASSUME g = Api!ResetMarks(h) PROVE g = [objects |-> o, marked |-> {}, free |-> f]
  BY <1>1 DEF Api!ResetMarks
<1>2. ASSUME g = Api!Sweep(h) PROVE g = [objects |-> o, marked |-> {}, free |-> DOMAIN o \ m]
  <2>1. Api!Slots(h) = DOMAIN o /\ h.marked = m
    BY DEF Api!Slots
  <2>2. g = [h EXCEPT !.free = DOMAIN o \ m, !.marked = {}]
    BY <1>2, <2>1 DEF Api!Sweep
  <2> QED
    BY <2>2
<1>3. ASSUME g = Api!SetElems(h, i, es)
      PROVE  g = [objects |-> [o EXCEPT ![i].elems = es], marked |-> m, free |-> f]
  BY <1>3 DEF Api!SetElems
<1> QED
  BY <1>1, <1>2, <1>3

\* The record that the vectors stand for.
LEMMA AbstractIs ==
  ASSUME IInv
  PROVE  Abstract = [objects |-> objects, marked |-> On(marked), free |-> ToSet(free_slots)]
<1>1. On(marked) = {i \in DOMAIN marked : marked[i]}
  BY DEF IInv, FreeListSound, On
<1> QED
  BY <1>1, Zenon DEF Abstract

\* Everything but an allocation leaves the arena as long as it was.
LEMMA FlagsLength ==
  ASSUME IInv, objects' \in Seq(HeapObject), Len(objects') = Len(objects),
         marked' \in Marks, free_slots' \in Seq(Nat), Ascending(free_slots'),
         ToSet(free_slots') \subseteq DOMAIN objects
  PROVE  IInv'
<1>1. /\ Len(objects) \in Nat /\ Len(objects) <= MaxSlots
      /\ DOMAIN objects = 1..Len(objects) /\ DOMAIN objects' = 1..Len(objects)
  BY DEF IInv
<1>2. marked' \in [1..Len(objects) -> BOOLEAN]
  BY <1>1 DEF Marks
<1>3. marked' \in Seq(BOOLEAN) /\ Len(marked') = Len(objects)
  BY <1>1, <1>2
<1> QED
  BY <1>1, <1>3 DEF IInv, FreeListSound, Ascending

LEMMA SetListStep ==
  ASSUME IInv, NEW i \in DOMAIN objects, NEW es \in Lists, SetList(i, es)
  PROVE  IInv' /\ Api!ApiNext
<1>1. /\ objects \in Seq(HeapObject) /\ objects[i] \in HeapObject /\ objects[i].kind = "List"
      /\ objects' = [objects EXCEPT ![i].elems = es] /\ UNCHANGED <<marked, free_slots>>
      /\ es \in Seq(Value)
  BY VecConstants DEF IInv, SetList
<1>2. [objects[i] EXCEPT !.elems = es] \in HeapObject
  BY <1>1 DEF HeapObject
<1>3. objects' \in Seq(HeapObject) /\ Len(objects') = Len(objects)
  BY <1>1, <1>2
<1>4. IInv'
  BY <1>1, <1>3, FlagsLength DEF IInv, FreeListSound, Ascending, Marks
<1>5. Abstract' = Api!SetElems(Abstract, i, es)
  <2>1. Abstract' = [objects |-> objects', marked |-> On(marked), free |-> ToSet(free_slots)]
    <3>1. On(marked) = {j \in DOMAIN marked : marked[j]}
      BY DEF IInv, FreeListSound, On
    <3> QED
      BY <1>1, <3>1, Zenon DEF Abstract
  <2>2. Api!SetElems(Abstract, i, es)
          = [objects |-> [objects EXCEPT ![i].elems = es], marked |-> On(marked),
             free |-> ToSet(free_slots)]
    BY AbstractIs, Records
  <2> QED
    BY <1>1, <2>1, <2>2, Zenon
<1>6. i \in Api!Slots(Abstract) /\ Abstract.objects[i].kind = "List"
  BY <1>1 DEF Api!Slots, Abstract
<1> QED
  BY <1>4, <1>5, <1>6 DEF Api!ApiNext

LEMMA MarkStep ==
  ASSUME IInv, NEW v \in Args, MarkValue(v)
  PROVE  IInv' /\ Api!ApiNext
<1>1. v \in Value
  BY VecConstants
<1>2. marked' \in Marks /\ On(marked') = On(marked) \cup Reachable(Abstract, {v}, On(marked))
  BY <1>1, MarkValueMarks DEF MarkValue
<1>3. UNCHANGED <<objects, free_slots>>
  BY DEF MarkValue
<1>4. IInv'
  BY <1>2, <1>3, FlagsLength DEF IInv, FreeListSound, Ascending
<1>5. /\ On(marked) = {i \in DOMAIN marked : marked[i]}
      /\ On(marked') = {i \in DOMAIN marked' : marked'[i]}
  BY <1>2 DEF IInv, FreeListSound, On, Marks
<1>6. Abstract' = Api!MarkFrom(Abstract, {v})
  <2>1. Abstract = [objects |-> objects, marked |-> On(marked), free |-> ToSet(free_slots)]
    BY AbstractIs
  <2>2. Abstract' = [objects |-> objects, marked |-> On(marked'), free |-> ToSet(free_slots)]
    BY <1>3, <1>5, Zenon DEF Abstract
  <2>3. Api!MarkFrom(Abstract, {v})
          = [objects |-> objects, free |-> ToSet(free_slots),
             marked |-> On(marked) \cup Api!Reachable(Abstract, {v}, On(marked))]
    BY <2>1 DEF Api!MarkFrom
  <2>4. Api!Reachable(Abstract, {v}, On(marked)) = Reachable(Abstract, {v}, On(marked))
    BY SameOperators
  <2> QED
    BY <1>2, <2>2, <2>3, <2>4, Zenon
<1> QED
  BY <1>4, <1>6 DEF Api!ApiNext

\* All flags off.
LEMMA FlagsOff ==
  ASSUME IInv, marked' = [i \in DOMAIN marked |-> FALSE]
  PROVE  marked' \in Marks /\ {i \in DOMAIN marked' : marked'[i]} = {}
BY DEF IInv, FreeListSound, Marks

LEMMA ResetStep ==
  ASSUME IInv, ResetFlags
  PROVE  IInv' /\ Api!ApiNext
<1>1. /\ marked' \in Marks /\ {i \in DOMAIN marked' : marked'[i]} = {}
      /\ UNCHANGED <<objects, free_slots>>
  BY FlagsOff DEF ResetFlags
<1>2. IInv'
  BY <1>1, FlagsLength DEF IInv, FreeListSound, Ascending
<1>3. Abstract' = Api!ResetMarks(Abstract)
  <2>1. Abstract' = [objects |-> objects, marked |-> {}, free |-> ToSet(free_slots)]
    BY <1>1, Zenon DEF Abstract
  <2>2. Api!ResetMarks(Abstract) = [objects |-> objects, marked |-> {}, free |-> ToSet(free_slots)]
    BY AbstractIs, Records
  <2> QED
    BY <2>1, <2>2, Zenon
<1> QED
  BY <1>2, <1>3 DEF Api!ApiNext

LEMMA SweepStep ==
  ASSUME IInv, SweepFlags
  PROVE  IInv' /\ Api!ApiNext
<1>1. /\ marked' \in Marks /\ {i \in DOMAIN marked' : marked'[i]} = {}
      /\ UNCHANGED objects /\ free_slots' = Unmarked[Len(marked)]
  BY FlagsOff DEF SweepFlags
<1>2. marked \in Seq(BOOLEAN) /\ Len(marked) \in 0..Len(marked) /\ DOMAIN marked = 1..Len(marked)
      /\ DOMAIN objects = DOMAIN marked
  BY DEF IInv, FreeListSound
<1>3. Collected(free_slots', Len(marked))
  BY <1>1, <1>2, SweepCollects
<1>4. /\ free_slots' \in Seq(Nat) /\ Ascending(free_slots')
      /\ ToSet(free_slots') = DOMAIN objects \ On(marked)
  BY <1>2, <1>3 DEF Collected, On
<1>5. IInv'
  BY <1>1, <1>4, FlagsLength DEF IInv
<1>6. Abstract' = Api!Sweep(Abstract)
  <2> DEFINE dead == DOMAIN objects \ On(marked)
  <2>1. Abstract' = [objects |-> objects, marked |-> {}, free |-> dead]
    BY <1>1, <1>4, Zenon DEF Abstract
  <2>2. Api!Sweep(Abstract) = [objects |-> objects, marked |-> {}, free |-> dead]
    BY AbstractIs, Records
  <2> QED
    BY <2>1, <2>2, Zenon
<1> QED
  BY <1>5, <1>6 DEF Api!ApiNext
-----------------------------------------------------------------------------
LEMMA VecStep ==
  ASSUME IInv, [VecNext]_vecs
  PROVE  IInv' /\ [Api!ApiNext]_Abstract
<1>1. CASE UNCHANGED vecs
  BY <1>1 DEF vecs, IInv, FreeListSound, Abstract
<1>2. CASE Alloc([kind |-> "String", elems |-> <<>>])
  <2>1. [kind |-> "String", elems |-> <<>>] \in HeapObject
    BY DEF HeapObject, Kinds
  <2> QED
    BY <1>2, <2>1, AllocStep DEF Api!ApiNext
<1>3. ASSUME NEW es \in Lists, Alloc([kind |-> "List", elems |-> es])
      PROVE  IInv' /\ [Api!ApiNext]_Abstract
  <2>1. [kind |-> "List", elems |-> es] \in HeapObject
    BY VecConstants DEF HeapObject, Kinds
  <2> QED
    BY <1>3, <2>1, AllocStep DEF Api!ApiNext
<1>4. ASSUME NEW es \in Lists, NEW i \in DOMAIN objects, SetList(i, es)
      PROVE  IInv' /\ [Api!ApiNext]_Abstract
  BY <1>4, SetListStep
<1>5. ASSUME NEW v \in Args, MarkValue(v) PROVE IInv' /\ [Api!ApiNext]_Abstract
  BY <1>5, MarkStep
<1>6. CASE ResetFlags
  BY <1>6, ResetStep
<1>7. CASE SweepFlags
  BY <1>7, SweepStep
<1> QED
  BY <1>1, <1>2, <1>3, <1>4, <1>5, <1>6, <1>7 DEF VecNext

LEMMA VecInvariant == VecSpec => []IInv
<1>1. IInv /\ [VecNext]_vecs => IInv'
  BY VecStep
<1> QED
  BY <1>1, InvariantInit, PTL DEF VecSpec

\* heap.rs: however long the arena, no slot is on the free list twice, the list is
\* ascending and within the arena, and there are as many flags as objects.
THEOREM FreeListIsSound == VecSpec => []FreeListSound
<1>1. IInv => FreeListSound
  BY DEF IInv
<1> QED
  BY <1>1, VecInvariant, PTL

\* heap.rs implements what module Heap says of it: the recursive mark_value marks what is
\* reachable and not cut off by marks that are there, the loop of sweep frees what is not
\* marked, and an allocation takes a slot that is free or new.
THEOREM VectorsImplementHeap == VecSpec => ImplementsHeap
<1>1. VecInit => Api!ApiInit
  BY InvariantInit
<1>2. IInv /\ [VecNext]_vecs => [Api!ApiNext]_Abstract
  BY VecStep
<1> QED
  BY <1>1, <1>2, VecInvariant, PTL DEF VecSpec, ImplementsHeap, Api!ApiSpec
-----------------------------------------------------------------------------
(* The recursion of chunk.rs and serialize.rs.                             *)

\* The recursion of the source, one list deeper at a time.
EndsNest(objs, e) == e[0] = {} /\ \A k \in 1..Len(objs) : e[k] = Ending(objs, e[k - 1])
LEMMA EndsDeepen == \A objs : Len(objs) \in Nat => EndsNest(objs, EndsWithin(objs))
<1> SUFFICES ASSUME NEW objs, Len(objs) \in Nat PROVE EndsNest(objs, EndsWithin(objs))
  OBVIOUS
<1>0. PICK n \in Nat : n = Len(objs)
  OBVIOUS
<1> DEFINE Eqn(f, m) == f = [k \in 0..m |-> IF k = 0 THEN {} ELSE Ending(objs, f[k - 1])]
           Z == {m \in 0..n : \E f : Eqn(f, m)}
           after == CHOOSE f : Eqn(f, n)
<1>1. 0 \in Z
  <2>1. PICK f : f = [k \in 0..0 |-> {}]
    OBVIOUS
  <2>2. \A k \in 0..0 : f[k] = IF k = 0 THEN {} ELSE Ending(objs, f[k - 1])
    BY <2>1
  <2>3. Eqn(f, 0)
    BY <2>1, <2>2
  <2> QED
    BY <2>3
<1>2. ASSUME NEW m \in 1..n, m - 1 \in Z PROVE m \in Z
  <2>1. PICK f : Eqn(f, m - 1)
    BY <1>2
  <2>2. PICK new : new = Ending(objs, f[m - 1])
    OBVIOUS
  <2>3. PICK g : g = [k \in 0..m |-> IF k = m THEN new ELSE f[k]]
    OBVIOUS
  <2>4. ASSUME NEW k \in 0..m PROVE g[k] = IF k = 0 THEN {} ELSE Ending(objs, g[k - 1])
    <3>1. CASE k = m
      <4>1. k - 1 \in 0..m /\ k - 1 # m /\ k # 0
        BY <3>1
      <4>2. g[k] = new /\ g[k - 1] = f[m - 1]
        BY <2>3, <3>1, <4>1
      <4> QED
        BY <2>2, <3>1, <4>1, <4>2
    <3>2. CASE k # m
      <4>1. k \in 0..m - 1 /\ g[k] = f[k]
        BY <2>3, <3>2
      <4>2. f[k] = IF k = 0 THEN {} ELSE Ending(objs, f[k - 1])
        BY <2>1, <4>1
      <4>3. k # 0 => k - 1 \in 0..m /\ k - 1 # m
        BY <3>2
      <4>4. k # 0 => g[k - 1] = f[k - 1]
        BY <2>3, <4>3
      <4> QED
        BY <4>1, <4>2, <4>4
    <3> QED
      BY <3>1, <3>2
  <2>5. g = [k \in 0..m |-> g[k]]
    BY <2>3
  <2>6. Eqn(g, m)
    BY <2>4, <2>5
  <2> HIDE DEF Eqn
  <2> QED
    BY <2>6
<1> HIDE DEF Z
<1>3. \A k \in 0..n : k \in Z
  BY <1>1, <1>2, StepByStep
<1>4. \E f : Eqn(f, n)
  <2>1. n \in Z
    BY <1>3
  <2> HIDE DEF Eqn
  <2> QED
    BY <2>1 DEF Z
<1>5. Eqn(after, n)
  <2> HIDE DEF Eqn
  <2> QED
    BY <1>4
<1>6. EndsWithin(objs) = after
  BY <1>0 DEF EndsWithin
<1> HIDE DEF after
<1>7. \A k \in 0..n : after[k] = IF k = 0 THEN {} ELSE Ending(objs, after[k - 1])
  BY <1>5
<1>8. after[0] = {}
  <2>1. 0 \in 0..n
    OBVIOUS
  <2> QED
    BY <1>7, <2>1
<1>9. \A k \in 1..n : after[k] = Ending(objs, after[k - 1])
  <2> SUFFICES ASSUME NEW k \in 1..n PROVE after[k] = Ending(objs, after[k - 1])
    OBVIOUS
  <2>1. k \in 0..n /\ k # 0
    OBVIOUS
  <2> QED
    BY <1>7, <2>1
<1> QED
  BY <1>0, <1>6, <1>8, <1>9 DEF EndsNest

WritesNested(objs, w) ==
  /\ w[0] = [x \in Stored |-> WriteNested(objs, <<>>, x)]
  /\ \A k \in 1..Len(objs) : w[k] = [x \in Stored |-> WriteNested(objs, w[k - 1], x)]
LEMMA WriterDeepens == \A objs : Len(objs) \in Nat => WritesNested(objs, Writer(objs))
<1> SUFFICES ASSUME NEW objs, Len(objs) \in Nat PROVE WritesNested(objs, Writer(objs))
  OBVIOUS
<1>0. PICK n \in Nat : n = Len(objs)
  OBVIOUS
<1> DEFINE Eqn(f, m) == f = [k \in 0..m |-> [x \in Stored |-> WriteNested(objs, IF k = 0 THEN <<>> ELSE f[k - 1], x)]]
           Z == {m \in 0..n : \E f : Eqn(f, m)}
           after == CHOOSE f : Eqn(f, n)
<1>1. 0 \in Z
  <2>1. PICK f : f = [k \in 0..0 |-> [x \in Stored |-> WriteNested(objs, <<>>, x)]]
    OBVIOUS
  <2>2. \A k \in 0..0 : f[k] = [x \in Stored |-> WriteNested(objs, IF k = 0 THEN <<>> ELSE f[k - 1], x)]
    BY <2>1
  <2>3. Eqn(f, 0)
    BY <2>1, <2>2
  <2> QED
    BY <2>3
<1>2. ASSUME NEW m \in 1..n, m - 1 \in Z PROVE m \in Z
  <2>1. PICK f : Eqn(f, m - 1)
    BY <1>2
  <2>2. PICK new : new = [x \in Stored |-> WriteNested(objs, f[m - 1], x)]
    OBVIOUS
  <2>3. PICK g : g = [k \in 0..m |-> IF k = m THEN new ELSE f[k]]
    OBVIOUS
  <2>4. ASSUME NEW k \in 0..m PROVE g[k] = [x \in Stored |-> WriteNested(objs, IF k = 0 THEN <<>> ELSE g[k - 1], x)]
    <3>1. CASE k = m
      <4>1. k - 1 \in 0..m /\ k - 1 # m /\ k # 0
        BY <3>1
      <4>2. g[k] = new /\ g[k - 1] = f[m - 1]
        BY <2>3, <3>1, <4>1
      <4> QED
        BY <2>2, <3>1, <4>1, <4>2
    <3>2. CASE k # m
      <4>1. k \in 0..m - 1 /\ g[k] = f[k]
        BY <2>3, <3>2
      <4>2. f[k] = [x \in Stored |-> WriteNested(objs, IF k = 0 THEN <<>> ELSE f[k - 1], x)]
        BY <2>1, <4>1
      <4>3. k # 0 => k - 1 \in 0..m /\ k - 1 # m
        BY <3>2
      <4>4. k # 0 => g[k - 1] = f[k - 1]
        BY <2>3, <4>3
      <4> QED
        BY <4>1, <4>2, <4>4
    <3> QED
      BY <3>1, <3>2
  <2>5. g = [k \in 0..m |-> g[k]]
    BY <2>3
  <2>6. Eqn(g, m)
    BY <2>4, <2>5
  <2> HIDE DEF Eqn
  <2> QED
    BY <2>6
<1> HIDE DEF Z
<1>3. \A k \in 0..n : k \in Z
  BY <1>1, <1>2, StepByStep
<1>4. \E f : Eqn(f, n)
  <2>1. n \in Z
    BY <1>3
  <2> HIDE DEF Eqn
  <2> QED
    BY <2>1 DEF Z
<1>5. Eqn(after, n)
  <2> HIDE DEF Eqn
  <2> QED
    BY <1>4
<1>6. Writer(objs) = after
  BY <1>0 DEF Writer
<1> HIDE DEF after
<1>7. \A k \in 0..n : after[k] = [x \in Stored |-> WriteNested(objs, IF k = 0 THEN <<>> ELSE after[k - 1], x)]
  BY <1>5
<1>8. after[0] = [x \in Stored |-> WriteNested(objs, <<>>, x)]
  <2>1. 0 \in 0..n
    OBVIOUS
  <2> QED
    BY <1>7, <2>1
<1>9. \A k \in 1..n : after[k] = [x \in Stored |-> WriteNested(objs, after[k - 1], x)]
  <2> SUFFICES ASSUME NEW k \in 1..n PROVE after[k] = [x \in Stored |-> WriteNested(objs, after[k - 1], x)]
    OBVIOUS
  <2>1. k \in 0..n /\ k # 0
    OBVIOUS
  <2> QED
    BY <1>7, <2>1
<1> QED
  BY <1>0, <1>6, <1>8, <1>9 DEF WritesNested

ComparesNested(objs, copies, like) ==
  /\ like[0] = {x \in Stored \X Stored : SameValue(objs, x[1], copies, x[2], {})}
  /\ \A k \in 1..Len(objs) :
       like[k] = {x \in Stored \X Stored : SameValue(objs, x[1], copies, x[2], like[k - 1])}
LEMMA LikesDeepen == \A objs, copies : Len(objs) \in Nat => ComparesNested(objs, copies, Likes(objs, copies))
<1> SUFFICES ASSUME NEW objs, NEW copies, Len(objs) \in Nat PROVE ComparesNested(objs, copies, Likes(objs, copies))
  OBVIOUS
<1>0. PICK n \in Nat : n = Len(objs)
  OBVIOUS
<1> DEFINE Eqn(f, m) == f = [k \in 0..m |-> {x \in Stored \X Stored : SameValue(objs, x[1], copies, x[2], IF k = 0 THEN {} ELSE f[k - 1])}]
           Z == {m \in 0..n : \E f : Eqn(f, m)}
           after == CHOOSE f : Eqn(f, n)
<1>1. 0 \in Z
  <2>1. PICK f : f = [k \in 0..0 |-> {x \in Stored \X Stored : SameValue(objs, x[1], copies, x[2], {})}]
    OBVIOUS
  <2>2. \A k \in 0..0 : f[k] = {x \in Stored \X Stored : SameValue(objs, x[1], copies, x[2], IF k = 0 THEN {} ELSE f[k - 1])}
    BY <2>1
  <2>3. Eqn(f, 0)
    BY <2>1, <2>2
  <2> QED
    BY <2>3
<1>2. ASSUME NEW m \in 1..n, m - 1 \in Z PROVE m \in Z
  <2>1. PICK f : Eqn(f, m - 1)
    BY <1>2
  <2>2. PICK new : new = {x \in Stored \X Stored : SameValue(objs, x[1], copies, x[2], f[m - 1])}
    OBVIOUS
  <2>3. PICK g : g = [k \in 0..m |-> IF k = m THEN new ELSE f[k]]
    OBVIOUS
  <2>4. ASSUME NEW k \in 0..m PROVE g[k] = {x \in Stored \X Stored : SameValue(objs, x[1], copies, x[2], IF k = 0 THEN {} ELSE g[k - 1])}
    <3>1. CASE k = m
      <4>1. k - 1 \in 0..m /\ k - 1 # m /\ k # 0
        BY <3>1
      <4>2. g[k] = new /\ g[k - 1] = f[m - 1]
        BY <2>3, <3>1, <4>1
      <4> QED
        BY <2>2, <3>1, <4>1, <4>2
    <3>2. CASE k # m
      <4>1. k \in 0..m - 1 /\ g[k] = f[k]
        BY <2>3, <3>2
      <4>2. f[k] = {x \in Stored \X Stored : SameValue(objs, x[1], copies, x[2], IF k = 0 THEN {} ELSE f[k - 1])}
        BY <2>1, <4>1
      <4>3. k # 0 => k - 1 \in 0..m /\ k - 1 # m
        BY <3>2
      <4>4. k # 0 => g[k - 1] = f[k - 1]
        BY <2>3, <4>3
      <4> QED
        BY <4>1, <4>2, <4>4
    <3> QED
      BY <3>1, <3>2
  <2>5. g = [k \in 0..m |-> g[k]]
    BY <2>3
  <2>6. Eqn(g, m)
    BY <2>4, <2>5
  <2> HIDE DEF Eqn
  <2> QED
    BY <2>6
<1> HIDE DEF Z
<1>3. \A k \in 0..n : k \in Z
  BY <1>1, <1>2, StepByStep
<1>4. \E f : Eqn(f, n)
  <2>1. n \in Z
    BY <1>3
  <2> HIDE DEF Eqn
  <2> QED
    BY <2>1 DEF Z
<1>5. Eqn(after, n)
  <2> HIDE DEF Eqn
  <2> QED
    BY <1>4
<1>6. Likes(objs, copies) = after
  BY <1>0 DEF Likes
<1> HIDE DEF after
<1>7. \A k \in 0..n : after[k] = {x \in Stored \X Stored : SameValue(objs, x[1], copies, x[2], IF k = 0 THEN {} ELSE after[k - 1])}
  BY <1>5
<1>8. after[0] = {x \in Stored \X Stored : SameValue(objs, x[1], copies, x[2], {})}
  <2>1. 0 \in 0..n
    OBVIOUS
  <2> QED
    BY <1>7, <2>1
<1>9. \A k \in 1..n : after[k] = {x \in Stored \X Stored : SameValue(objs, x[1], copies, x[2], after[k - 1])}
  <2> SUFFICES ASSUME NEW k \in 1..n PROVE after[k] = {x \in Stored \X Stored : SameValue(objs, x[1], copies, x[2], after[k - 1])}
    OBVIOUS
  <2>1. k \in 0..n /\ k # 0
    OBVIOUS
  <2> QED
    BY <1>7, <2>1
<1> QED
  BY <1>0, <1>6, <1>8, <1>9 DEF ComparesNested

ReadsNested(data, read) ==
  /\ read[0] = [x \in Places |-> ReadNested(data, x[1], x[2], <<>>)]
  /\ \A k \in 1..Len(data) : read[k] = [x \in Places |-> ReadNested(data, x[1], x[2], read[k - 1])]
LEMMA ReaderDeepens == \A data : Len(data) \in Nat => ReadsNested(data, Reader(data))
<1> SUFFICES ASSUME NEW data, Len(data) \in Nat PROVE ReadsNested(data, Reader(data))
  OBVIOUS
<1>0. PICK n \in Nat : n = Len(data)
  OBVIOUS
<1> DEFINE Eqn(f, m) == f = [k \in 0..m |-> [x \in Places |-> ReadNested(data, x[1], x[2], IF k = 0 THEN <<>> ELSE f[k - 1])]]
           Z == {m \in 0..n : \E f : Eqn(f, m)}
           after == CHOOSE f : Eqn(f, n)
<1>1. 0 \in Z
  <2>1. PICK f : f = [k \in 0..0 |-> [x \in Places |-> ReadNested(data, x[1], x[2], <<>>)]]
    OBVIOUS
  <2>2. \A k \in 0..0 : f[k] = [x \in Places |-> ReadNested(data, x[1], x[2], IF k = 0 THEN <<>> ELSE f[k - 1])]
    BY <2>1
  <2>3. Eqn(f, 0)
    BY <2>1, <2>2
  <2> QED
    BY <2>3
<1>2. ASSUME NEW m \in 1..n, m - 1 \in Z PROVE m \in Z
  <2>1. PICK f : Eqn(f, m - 1)
    BY <1>2
  <2>2. PICK new : new = [x \in Places |-> ReadNested(data, x[1], x[2], f[m - 1])]
    OBVIOUS
  <2>3. PICK g : g = [k \in 0..m |-> IF k = m THEN new ELSE f[k]]
    OBVIOUS
  <2>4. ASSUME NEW k \in 0..m PROVE g[k] = [x \in Places |-> ReadNested(data, x[1], x[2], IF k = 0 THEN <<>> ELSE g[k - 1])]
    <3>1. CASE k = m
      <4>1. k - 1 \in 0..m /\ k - 1 # m /\ k # 0
        BY <3>1
      <4>2. g[k] = new /\ g[k - 1] = f[m - 1]
        BY <2>3, <3>1, <4>1
      <4> QED
        BY <2>2, <3>1, <4>1, <4>2
    <3>2. CASE k # m
      <4>1. k \in 0..m - 1 /\ g[k] = f[k]
        BY <2>3, <3>2
      <4>2. f[k] = [x \in Places |-> ReadNested(data, x[1], x[2], IF k = 0 THEN <<>> ELSE f[k - 1])]
        BY <2>1, <4>1
      <4>3. k # 0 => k - 1 \in 0..m /\ k - 1 # m
        BY <3>2
      <4>4. k # 0 => g[k - 1] = f[k - 1]
        BY <2>3, <4>3
      <4> QED
        BY <4>1, <4>2, <4>4
    <3> QED
      BY <3>1, <3>2
  <2>5. g = [k \in 0..m |-> g[k]]
    BY <2>3
  <2>6. Eqn(g, m)
    BY <2>4, <2>5
  <2> HIDE DEF Eqn
  <2> QED
    BY <2>6
<1> HIDE DEF Z
<1>3. \A k \in 0..n : k \in Z
  BY <1>1, <1>2, StepByStep
<1>4. \E f : Eqn(f, n)
  <2>1. n \in Z
    BY <1>3
  <2> HIDE DEF Eqn
  <2> QED
    BY <2>1 DEF Z
<1>5. Eqn(after, n)
  <2> HIDE DEF Eqn
  <2> QED
    BY <1>4
<1>6. Reader(data) = after
  BY <1>0 DEF Reader
<1> HIDE DEF after
<1>7. \A k \in 0..n : after[k] = [x \in Places |-> ReadNested(data, x[1], x[2], IF k = 0 THEN <<>> ELSE after[k - 1])]
  BY <1>5
<1>8. after[0] = [x \in Places |-> ReadNested(data, x[1], x[2], <<>>)]
  <2>1. 0 \in 0..n
    OBVIOUS
  <2> QED
    BY <1>7, <2>1
<1>9. \A k \in 1..n : after[k] = [x \in Places |-> ReadNested(data, x[1], x[2], after[k - 1])]
  <2> SUFFICES ASSUME NEW k \in 1..n PROVE after[k] = [x \in Places |-> ReadNested(data, x[1], x[2], after[k - 1])]
    OBVIOUS
  <2>1. k \in 0..n /\ k # 0
    OBVIOUS
  <2> QED
    BY <1>7, <2>1
<1> QED
  BY <1>0, <1>6, <1>8, <1>9 DEF ReadsNested

RecordsNested(objs, record) ==
  /\ record[0] = [x \in Seq(Int) \X Stored |-> SerMapNested(objs, x[1], x[2], <<>>)]
  /\ \A k \in 1..Len(objs) :
       record[k] = [x \in Seq(Int) \X Stored |-> SerMapNested(objs, x[1], x[2], record[k - 1])]
LEMMA RecorderDeepens == \A objs : Len(objs) \in Nat => RecordsNested(objs, Recorder(objs))
<1> SUFFICES ASSUME NEW objs, Len(objs) \in Nat PROVE RecordsNested(objs, Recorder(objs))
  OBVIOUS
<1>0. PICK n \in Nat : n = Len(objs)
  OBVIOUS
<1> DEFINE Eqn(f, m) == f = [k \in 0..m |-> [x \in Seq(Int) \X Stored |-> SerMapNested(objs, x[1], x[2], IF k = 0 THEN <<>> ELSE f[k - 1])]]
           Z == {m \in 0..n : \E f : Eqn(f, m)}
           after == CHOOSE f : Eqn(f, n)
<1>1. 0 \in Z
  <2>1. PICK f : f = [k \in 0..0 |-> [x \in Seq(Int) \X Stored |-> SerMapNested(objs, x[1], x[2], <<>>)]]
    OBVIOUS
  <2>2. \A k \in 0..0 : f[k] = [x \in Seq(Int) \X Stored |-> SerMapNested(objs, x[1], x[2], IF k = 0 THEN <<>> ELSE f[k - 1])]
    BY <2>1
  <2>3. Eqn(f, 0)
    BY <2>1, <2>2
  <2> QED
    BY <2>3
<1>2. ASSUME NEW m \in 1..n, m - 1 \in Z PROVE m \in Z
  <2>1. PICK f : Eqn(f, m - 1)
    BY <1>2
  <2>2. PICK new : new = [x \in Seq(Int) \X Stored |-> SerMapNested(objs, x[1], x[2], f[m - 1])]
    OBVIOUS
  <2>3. PICK g : g = [k \in 0..m |-> IF k = m THEN new ELSE f[k]]
    OBVIOUS
  <2>4. ASSUME NEW k \in 0..m PROVE g[k] = [x \in Seq(Int) \X Stored |-> SerMapNested(objs, x[1], x[2], IF k = 0 THEN <<>> ELSE g[k - 1])]
    <3>1. CASE k = m
      <4>1. k - 1 \in 0..m /\ k - 1 # m /\ k # 0
        BY <3>1
      <4>2. g[k] = new /\ g[k - 1] = f[m - 1]
        BY <2>3, <3>1, <4>1
      <4> QED
        BY <2>2, <3>1, <4>1, <4>2
    <3>2. CASE k # m
      <4>1. k \in 0..m - 1 /\ g[k] = f[k]
        BY <2>3, <3>2
      <4>2. f[k] = [x \in Seq(Int) \X Stored |-> SerMapNested(objs, x[1], x[2], IF k = 0 THEN <<>> ELSE f[k - 1])]
        BY <2>1, <4>1
      <4>3. k # 0 => k - 1 \in 0..m /\ k - 1 # m
        BY <3>2
      <4>4. k # 0 => g[k - 1] = f[k - 1]
        BY <2>3, <4>3
      <4> QED
        BY <4>1, <4>2, <4>4
    <3> QED
      BY <3>1, <3>2
  <2>5. g = [k \in 0..m |-> g[k]]
    BY <2>3
  <2>6. Eqn(g, m)
    BY <2>4, <2>5
  <2> HIDE DEF Eqn
  <2> QED
    BY <2>6
<1> HIDE DEF Z
<1>3. \A k \in 0..n : k \in Z
  BY <1>1, <1>2, StepByStep
<1>4. \E f : Eqn(f, n)
  <2>1. n \in Z
    BY <1>3
  <2> HIDE DEF Eqn
  <2> QED
    BY <2>1 DEF Z
<1>5. Eqn(after, n)
  <2> HIDE DEF Eqn
  <2> QED
    BY <1>4
<1>6. Recorder(objs) = after
  BY <1>0 DEF Recorder
<1> HIDE DEF after
<1>7. \A k \in 0..n : after[k] = [x \in Seq(Int) \X Stored |-> SerMapNested(objs, x[1], x[2], IF k = 0 THEN <<>> ELSE after[k - 1])]
  BY <1>5
<1>8. after[0] = [x \in Seq(Int) \X Stored |-> SerMapNested(objs, x[1], x[2], <<>>)]
  <2>1. 0 \in 0..n
    OBVIOUS
  <2> QED
    BY <1>7, <2>1
<1>9. \A k \in 1..n : after[k] = [x \in Seq(Int) \X Stored |-> SerMapNested(objs, x[1], x[2], after[k - 1])]
  <2> SUFFICES ASSUME NEW k \in 1..n PROVE after[k] = [x \in Seq(Int) \X Stored |-> SerMapNested(objs, x[1], x[2], after[k - 1])]
    OBVIOUS
  <2>1. k \in 0..n /\ k # 0
    OBVIOUS
  <2> QED
    BY <1>7, <2>1
<1> QED
  BY <1>0, <1>6, <1>8, <1>9 DEF RecordsNested

\* The loops.
Repeats(n, r, read, f) ==
  f[0] = r /\ \A k \in 1..n : f[k] = Further(f[k - 1], read, k)
RepeatTo(n, r, read) == \E f : Repeats(n, r, read, f) /\ Repeat(n, r, read) = f[n]
LEMMA RepeatIs == \A n \in Nat : \A r, read : RepeatTo(n, r, read)
<1> SUFFICES ASSUME NEW n \in Nat, NEW r, NEW read PROVE RepeatTo(n, r, read)
  OBVIOUS
<1> DEFINE Eqn(f, m) == f = [k \in 0..m |-> IF k = 0 THEN r ELSE Further(f[k - 1], read, k)]
           Z == {m \in 0..n : \E f : Eqn(f, m)}
           after == CHOOSE f : Eqn(f, n)
<1>1. 0 \in Z
  <2>1. PICK f : f = [k \in 0..0 |-> r]
    OBVIOUS
  <2>2. \A k \in 0..0 : f[k] = IF k = 0 THEN r ELSE Further(f[k - 1], read, k)
    BY <2>1
  <2>3. Eqn(f, 0)
    BY <2>1, <2>2
  <2> QED
    BY <2>3
<1>2. ASSUME NEW m \in 1..n, m - 1 \in Z PROVE m \in Z
  <2>1. PICK f : Eqn(f, m - 1)
    BY <1>2
  <2>2. PICK new : new = Further(f[m - 1], read, m)
    OBVIOUS
  <2>3. PICK g : g = [k \in 0..m |-> IF k = m THEN new ELSE f[k]]
    OBVIOUS
  <2>4. ASSUME NEW k \in 0..m PROVE g[k] = IF k = 0 THEN r ELSE Further(g[k - 1], read, k)
    <3>1. CASE k = m
      <4>1. k - 1 \in 0..m /\ k - 1 # m /\ k # 0
        BY <3>1
      <4>2. g[k] = new /\ g[k - 1] = f[m - 1]
        BY <2>3, <3>1, <4>1
      <4> QED
        BY <2>2, <3>1, <4>1, <4>2
    <3>2. CASE k # m
      <4>1. k \in 0..m - 1 /\ g[k] = f[k]
        BY <2>3, <3>2
      <4>2. f[k] = IF k = 0 THEN r ELSE Further(f[k - 1], read, k)
        BY <2>1, <4>1
      <4>3. k # 0 => k - 1 \in 0..m /\ k - 1 # m
        BY <3>2
      <4>4. k # 0 => g[k - 1] = f[k - 1]
        BY <2>3, <4>3
      <4> QED
        BY <4>1, <4>2, <4>4
    <3> QED
      BY <3>1, <3>2
  <2>5. g = [k \in 0..m |-> g[k]]
    BY <2>3
  <2>6. Eqn(g, m)
    BY <2>4, <2>5
  <2> HIDE DEF Eqn
  <2> QED
    BY <2>6
<1> HIDE DEF Z
<1>3. \A k \in 0..n : k \in Z
  BY <1>1, <1>2, StepByStep
<1>4. \E f : Eqn(f, n)
  <2>1. n \in Z
    BY <1>3
  <2> HIDE DEF Eqn
  <2> QED
    BY <2>1 DEF Z
<1>5. Eqn(after, n)
  <2> HIDE DEF Eqn
  <2> QED
    BY <1>4
<1>6. Repeat(n, r, read) = after[n]
  BY DEF Repeat
<1> HIDE DEF after
<1>7. \A k \in 0..n : after[k] = IF k = 0 THEN r ELSE Further(after[k - 1], read, k)
  BY <1>5
<1>8. after[0] = r
  <2>1. 0 \in 0..n
    OBVIOUS
  <2> QED
    BY <1>7, <2>1
<1>9. \A k \in 1..n : after[k] = Further(after[k - 1], read, k)
  <2> SUFFICES ASSUME NEW k \in 1..n PROVE after[k] = Further(after[k - 1], read, k)
    OBVIOUS
  <2>1. k \in 0..n /\ k # 0
    OBVIOUS
  <2> QED
    BY <1>7, <2>1
<1> QED
  BY <1>6, <1>8, <1>9 DEF RepeatTo, Repeats

RecordsOver(map, s, record, f) ==
  f[0] = map /\ \A k \in 1..Len(s) : f[k] = record[<<f[k - 1], s[k]>>]
RecordsTo(map, s, record) == \E f : RecordsOver(map, s, record, f) /\ SerMapOf(map, s, record) = f[Len(s)]
LEMMA SerMapOfIs == \A map, s, record : Len(s) \in Nat => RecordsTo(map, s, record)
<1> SUFFICES ASSUME NEW map, NEW s, NEW record, Len(s) \in Nat PROVE RecordsTo(map, s, record)
  OBVIOUS
<1>0. PICK n \in Nat : n = Len(s)
  OBVIOUS
<1> DEFINE Eqn(f, m) == f = [k \in 0..m |-> IF k = 0 THEN map ELSE record[<<f[k - 1], s[k]>>]]
           Z == {m \in 0..n : \E f : Eqn(f, m)}
           after == CHOOSE f : Eqn(f, n)
<1>1. 0 \in Z
  <2>1. PICK f : f = [k \in 0..0 |-> map]
    OBVIOUS
  <2>2. \A k \in 0..0 : f[k] = IF k = 0 THEN map ELSE record[<<f[k - 1], s[k]>>]
    BY <2>1
  <2>3. Eqn(f, 0)
    BY <2>1, <2>2
  <2> QED
    BY <2>3
<1>2. ASSUME NEW m \in 1..n, m - 1 \in Z PROVE m \in Z
  <2>1. PICK f : Eqn(f, m - 1)
    BY <1>2
  <2>2. PICK new : new = record[<<f[m - 1], s[m]>>]
    OBVIOUS
  <2>3. PICK g : g = [k \in 0..m |-> IF k = m THEN new ELSE f[k]]
    OBVIOUS
  <2>4. ASSUME NEW k \in 0..m PROVE g[k] = IF k = 0 THEN map ELSE record[<<g[k - 1], s[k]>>]
    <3>1. CASE k = m
      <4>1. k - 1 \in 0..m /\ k - 1 # m /\ k # 0
        BY <3>1
      <4>2. g[k] = new /\ g[k - 1] = f[m - 1]
        BY <2>3, <3>1, <4>1
      <4> QED
        BY <2>2, <3>1, <4>1, <4>2
    <3>2. CASE k # m
      <4>1. k \in 0..m - 1 /\ g[k] = f[k]
        BY <2>3, <3>2
      <4>2. f[k] = IF k = 0 THEN map ELSE record[<<f[k - 1], s[k]>>]
        BY <2>1, <4>1
      <4>3. k # 0 => k - 1 \in 0..m /\ k - 1 # m
        BY <3>2
      <4>4. k # 0 => g[k - 1] = f[k - 1]
        BY <2>3, <4>3
      <4> QED
        BY <4>1, <4>2, <4>4
    <3> QED
      BY <3>1, <3>2
  <2>5. g = [k \in 0..m |-> g[k]]
    BY <2>3
  <2>6. Eqn(g, m)
    BY <2>4, <2>5
  <2> HIDE DEF Eqn
  <2> QED
    BY <2>6
<1> HIDE DEF Z
<1>3. \A k \in 0..n : k \in Z
  BY <1>1, <1>2, StepByStep
<1>4. \E f : Eqn(f, n)
  <2>1. n \in Z
    BY <1>3
  <2> HIDE DEF Eqn
  <2> QED
    BY <2>1 DEF Z
<1>5. Eqn(after, n)
  <2> HIDE DEF Eqn
  <2> QED
    BY <1>4
<1>6. SerMapOf(map, s, record) = after[n]
  BY <1>0 DEF SerMapOf
<1> HIDE DEF after
<1>7. \A k \in 0..n : after[k] = IF k = 0 THEN map ELSE record[<<after[k - 1], s[k]>>]
  BY <1>5
<1>8. after[0] = map
  <2>1. 0 \in 0..n
    OBVIOUS
  <2> QED
    BY <1>7, <2>1
<1>9. \A k \in 1..n : after[k] = record[<<after[k - 1], s[k]>>]
  <2> SUFFICES ASSUME NEW k \in 1..n PROVE after[k] = record[<<after[k - 1], s[k]>>]
    OBVIOUS
  <2>1. k \in 0..n /\ k # 0
    OBVIOUS
  <2> QED
    BY <1>7, <2>1
<1> QED
  BY <1>0, <1>6, <1>8, <1>9 DEF RecordsTo, RecordsOver

\* What readers have allocated: the first object is one that was read to its end, so it
\* refers to no other.
Plain(obj) == obj.kind = "List" => \A k \in DOMAIN obj.data : obj.data[k].t \notin Handle
Heaps == {o \in Seq(Object) : Len(o) > 0 => Plain(o[1])}
Grows(a, b) == Len(a) <= Len(b) /\ \A k \in 1..Len(a) : b[k] = a[k]
\* What a heap has, it has when it has grown.
Growing(R) == \A a, b \in Heaps : Grows(a, b) => R[a] \subseteq R[b]

\* d is what there is of a file f, and w lies in f where d still goes.
Cutting(d, f, p, w) == Begins(d, f) /\ w \in Seq(Int) /\ Lies(f, p, w) /\ p <= Len(d) + 1
IsGot(r) == r = [at |-> r.at, val |-> r.val, objs |-> r.objs]
\* What a reader that is to end at q has made of a heap o: a value that R allows in the
\* heap then, which is o when c is 0, and one object more when it is 1; or nothing, when d
\* does not go that far.
Outcome(d, q, o, r, R, c) ==
  IF q <= Len(d) + 1
  THEN /\ IsGot(r) /\ r.at = q /\ r.objs \in Heaps /\ r.val \in R[r.objs]
       /\ Grows(o, r.objs) /\ (c = 0 => r.objs = o) /\ (c = 1 => Len(r.objs) = Len(o) + 1)
  ELSE r.at = Eof

LEMMA HeapFacts ==
  /\ Heaps \subseteq Seq(Object) /\ <<>> \in Heaps
  /\ \A o \in Heaps : Grows(o, o)
  /\ \A a, b, e \in Heaps : Grows(a, b) /\ Grows(b, e) => Grows(a, e)
<1>1. Heaps \subseteq Seq(Object) /\ <<>> \in Heaps
  BY DEF Heaps
<1>2. ASSUME NEW o \in Heaps PROVE Grows(o, o)
  BY <1>1 DEF Grows
<1>3. ASSUME NEW a \in Heaps, NEW b \in Heaps, NEW e \in Heaps, Grows(a, b), Grows(b, e)
      PROVE  Grows(a, e)
  <2>1. PICK i \in Nat, j \in Nat, k \in Nat : i = Len(a) /\ j = Len(b) /\ k = Len(e)
    BY <1>1
  <2> QED
    BY <1>3, <2>1 DEF Grows
<1> QED
  BY <1>1, <1>2, <1>3

\* The positions of n sequences ws in f, and their readers.
Looping(d, f, n, at, ws) ==
  /\ n \in Nat /\ Begins(d, f) /\ at \in [0..n -> Nat] /\ at[0] <= Len(d) + 1
  /\ \A k \in 1..n :
       ws[k] \in Seq(Int) /\ at[k] = at[k - 1] + Len(ws[k]) /\ Lies(f, at[k - 1], ws[k])
TakesTurn(d, f, p, w, read, R, c) ==
  \A q \in Nat : \A h \in Heaps :
    q >= p /\ Cutting(d, f, q, w) => Outcome(d, q + Len(w), h, read[<<q, h>>], R, c)
Turns(d, f, p, n, ws, read, Rs, vals, c) ==
  /\ c # 1
  /\ \A k \in 1..n :
       /\ Growing(Rs[k]) /\ \A h \in Heaps : Rs[k][h] \subseteq vals
       /\ TakesTurn(d, f, p, ws[k], read[k], Rs[k], c)
AllOf(Rs, n, vals) ==
  [h \in Heaps |-> {xs \in Seq(vals) : Len(xs) = n /\ \A k \in 1..n : xs[k] \in Rs[k][h]}]

LEMMA GotIs ==
  \A r, val, objs :
    /\ Got(r, val, objs).at = r.at /\ Got(r, val, objs).val = val /\ Got(r, val, objs).objs = objs
    /\ IsGot(Got(r, val, objs))
    /\ With(objs, r) = Got(r, r.val, objs)
  BY DEF Got, With, IsGot

LEMMA LaterPosition ==
  ASSUME NEW n \in Nat, NEW at \in [0..n -> Nat], NEW ws,
         \A k \in 1..n : ws[k] \in Seq(Int) /\ at[k] = at[k - 1] + Len(ws[k])
  PROVE  \A k \in 0..n : at[k] >= at[0]
<1> DEFINE Z == {k \in 0..n : at[k] >= at[0]}
<1>1. 0 \in Z
  OBVIOUS
<1>2. ASSUME NEW k \in 1..n, k - 1 \in Z PROVE k \in Z
  <2>1. Len(ws[k]) \in Nat
    OBVIOUS
  <2> QED
    BY <1>2, <2>1
<1> HIDE DEF Z
<1>3. \A k \in 0..n : k \in Z
  BY <1>1, <1>2, StepByStep
<1> QED
  BY <1>3 DEF Z

LEMMA AppendAll ==
  \A Rs, vals, xs, x : \A n \in Nat : \A a, b \in Heaps :
    /\ xs \in AllOf(Rs, n, vals)[a] /\ Grows(a, b) /\ x \in Rs[n + 1][b]
    /\ \A k \in 1..n + 1 : Growing(Rs[k]) /\ \A h \in Heaps : Rs[k][h] \subseteq vals
    => Append(xs, x) \in AllOf(Rs, n + 1, vals)[b]
<1> SUFFICES ASSUME NEW Rs, NEW vals, NEW xs, NEW x, NEW n \in Nat, NEW a \in Heaps, NEW b \in Heaps,
                    xs \in AllOf(Rs, n, vals)[a], Grows(a, b), x \in Rs[n + 1][b],
                    \A k \in 1..n + 1 : Growing(Rs[k]) /\ \A h \in Heaps : Rs[k][h] \subseteq vals
             PROVE  Append(xs, x) \in AllOf(Rs, n + 1, vals)[b]
  OBVIOUS
<1>1. xs \in Seq(vals) /\ Len(xs) = n /\ \A k \in 1..n : xs[k] \in Rs[k][a]
  BY DEF AllOf
<1>2. x \in vals
  <2>1. n + 1 \in 1..n + 1
    OBVIOUS
  <2>2. Rs[n + 1][b] \subseteq vals
    BY <2>1
  <2> QED
    BY <2>2
<1>3. PICK ys : ys = Append(xs, x)
  OBVIOUS
<1>4. ys \in Seq(vals) /\ Len(ys) = n + 1 /\ ys[n + 1] = x /\ \A k \in 1..n : ys[k] = xs[k]
  BY <1>1, <1>2, <1>3
<1>5. ASSUME NEW k \in 1..n + 1 PROVE ys[k] \in Rs[k][b]
  <2>1. CASE k = n + 1
    BY <1>4, <2>1
  <2>2. CASE k # n + 1
    <3>1. k \in 1..n
      BY <2>2
    <3>2. Rs[k][a] \subseteq Rs[k][b]
      BY DEF Growing
    <3> QED
      BY <1>1, <1>4, <3>1, <3>2
  <2> QED
    BY <2>1, <2>2
<1> QED
  BY <1>3, <1>4, <1>5 DEF AllOf

LoopOutcome(d, n, at, read, Rs, vals, c, o) ==
  Outcome(d, at[n], o, Repeat(n, With(o, Done(at[0], <<>>)), read), AllOf(Rs, n, vals), c)
LEMMA LoopRight ==
  \A d, f, n, at, ws, read, Rs, vals, c : \A o \in Heaps :
    Looping(d, f, n, at, ws) /\ Turns(d, f, at[0], n, ws, read, Rs, vals, c) =>
      LoopOutcome(d, n, at, read, Rs, vals, c, o)
<1> SUFFICES ASSUME NEW d, NEW f, NEW n, NEW at, NEW ws, NEW read, NEW Rs, NEW vals, NEW c, NEW o \in Heaps,
                    Looping(d, f, n, at, ws), Turns(d, f, at[0], n, ws, read, Rs, vals, c)
             PROVE  LoopOutcome(d, n, at, read, Rs, vals, c, o)
  OBVIOUS
<1>1. /\ n \in Nat /\ Begins(d, f) /\ at \in [0..n -> Nat] /\ at[0] <= Len(d) + 1 /\ Len(d) \in Nat
      /\ \A k \in 1..n :
           ws[k] \in Seq(Int) /\ at[k] = at[k - 1] + Len(ws[k]) /\ Lies(f, at[k - 1], ws[k])
  BY DEF Looping, Begins
<1>2. PICK start : start = With(o, Done(at[0], <<>>))
  OBVIOUS
<1>3. start.at = at[0] /\ start.val = <<>> /\ start.objs = o /\ IsGot(start)
  BY <1>2, GotIs, DoneIs
<1>4. PICK g : Repeats(n, start, read, g) /\ Repeat(n, start, read) = g[n]
  BY <1>1, RepeatIs DEF RepeatTo
<1> DEFINE Right(k) == Outcome(d, at[k], o, g[k], AllOf(Rs, k, vals), c)
           Z == {k \in 0..n : Right(k)}
<1>5. Right(0)
  <2>1. <<>> \in AllOf(Rs, 0, vals)[o]
    <3>1. <<>> \in Seq(vals) /\ Len(<<>>) = 0
      OBVIOUS
    <3>2. \A k \in 1..0 : FALSE
      OBVIOUS
    <3> QED
      BY <3>1, <3>2 DEF AllOf
  <2>2. g[0] = start
    BY <1>4 DEF Repeats
  <2> QED
    BY <1>1, <1>3, <2>1, <2>2, HeapFacts DEF Outcome, Turns
<1>6. ASSUME NEW k \in 1..n, Right(k - 1) PROVE Right(k)
  <2>0. PICK a \in Nat, l \in Nat, e \in Nat :
          a = at[k - 1] /\ l = Len(ws[k]) /\ e = Len(d) + 1
    <3>1. k - 1 \in 0..n
      BY <1>1
    <3>2. at[k - 1] \in Nat /\ Len(ws[k]) \in Nat /\ Len(d) + 1 \in Nat
      BY <1>1, <3>1
    <3> QED
      BY <3>2
  <2>1. at[k] = a + l /\ ws[k] \in Seq(Int) /\ Lies(f, a, ws[k]) /\ g[k] = Further(g[k - 1], read, k)
    BY <1>1, <1>4, <2>0 DEF Repeats
  <2>2. CASE a > e
    <3>1. g[k - 1].at = Eof
      BY <1>6, <2>0, <2>2 DEF Outcome
    <3>2. g[k] = g[k - 1]
      BY <2>1, <3>1 DEF Further, Eof
    <3>3. ~(at[k] <= Len(d) + 1)
      BY <2>0, <2>1, <2>2
    <3> QED
      BY <3>1, <3>2, <3>3 DEF Outcome
  <2>3. CASE a <= e
    <3>1. PICK h, xs : h = g[k - 1].objs /\ xs = g[k - 1].val
      OBVIOUS
    <3>2. /\ g[k - 1].at = a /\ h \in Heaps /\ xs \in AllOf(Rs, k - 1, vals)[h]
          /\ Grows(o, h) /\ (c = 0 => h = o)
      BY <1>6, <2>0, <2>3, <3>1 DEF Outcome
    <3>3. PICK x : x = read[k][<<a, h>>]
      OBVIOUS
    <3>4. g[k] = Got(x, Append(xs, x.val), x.objs)
      BY <2>1, <3>1, <3>2, <3>3 DEF Further, Pushed
    <3>5. a >= at[0]
      <4>1. k - 1 \in 0..n
        BY <1>1
      <4> QED
        BY <1>1, <2>0, <4>1, LaterPosition
    <3>6. Outcome(d, a + l, h, x, Rs[k], c)
      <4>1. Cutting(d, f, a, ws[k])
        BY <1>1, <2>0, <2>1, <2>3 DEF Cutting
      <4> QED
        BY <2>0, <3>2, <3>3, <3>5, <4>1 DEF Turns, TakesTurn
    <3>7. g[k].at = x.at /\ g[k].val = Append(xs, x.val) /\ g[k].objs = x.objs /\ IsGot(g[k])
      <4>1. PICK y : y = Append(xs, x.val)
        OBVIOUS
      <4>2. PICK z : z = g[k]
        OBVIOUS
      <4>3. z = [at |-> x.at, val |-> y, objs |-> x.objs]
        BY <3>4, <4>1, <4>2 DEF Got
      <4>4. z.at = x.at /\ z.val = y /\ z.objs = x.objs
        BY <4>3
      <4>5. IsGot(z)
        BY <4>3, <4>4 DEF IsGot
      <4> QED
        BY <4>1, <4>2, <4>4, <4>5
    <3>8. CASE a + l <= e
      <4>1. /\ x.at = a + l /\ x.objs \in Heaps /\ x.val \in Rs[k][x.objs] /\ Grows(h, x.objs)
            /\ (c = 0 => x.objs = h)
        BY <2>0, <3>6, <3>8 DEF Outcome
      <4>2. Grows(o, x.objs)
        BY <3>2, <4>1, HeapFacts
      <4>3. Append(xs, x.val) \in AllOf(Rs, k, vals)[x.objs]
        <5>1. PICK m \in Nat : m = k - 1 /\ m + 1 = k
          BY <1>1
        <5>2. \A j \in 1..m + 1 : Growing(Rs[j]) /\ \A hh \in Heaps : Rs[j][hh] \subseteq vals
          <6>1. \A j \in 1..m + 1 : j \in 1..n
            BY <1>1, <5>1
          <6> QED
            BY <6>1 DEF Turns
        <5>3. xs \in AllOf(Rs, m, vals)[h] /\ x.val \in Rs[m + 1][x.objs]
          BY <3>2, <4>1, <5>1
        <5>4. Append(xs, x.val) \in AllOf(Rs, m + 1, vals)[x.objs]
          BY <3>2, <4>1, <5>2, <5>3, AppendAll
        <5> QED
          BY <5>1, <5>4
      <4> QED
        BY <2>0, <2>1, <3>2, <3>7, <3>8, <4>1, <4>2, <4>3 DEF Outcome, Turns
    <3>9. CASE ~(a + l <= e)
      <4>1. x.at = Eof
        BY <2>0, <3>6, <3>9 DEF Outcome
      <4> QED
        BY <2>0, <2>1, <3>7, <3>9, <4>1 DEF Outcome
    <3> QED
      BY <3>8, <3>9
  <2> QED
    BY <2>0, <2>2, <2>3
<1> HIDE DEF Right
<1>7. \A k \in 0..n : k \in Z
  <2>1. 0 \in Z
    BY <1>1, <1>5
  <2>2. ASSUME NEW k \in 1..n, k - 1 \in Z PROVE k \in Z
    BY <1>6, <2>2
  <2> HIDE DEF Z
  <2> QED
    BY <1>1, <2>1, <2>2, StepByStep
<1>8. Right(n)
  BY <1>1, <1>7
<1> QED
  BY <1>2, <1>4, <1>8 DEF Right, LoopOutcome

-----------------------------------------------------------------------------
(* Fields, runs and counted lists of a file that may be cut.               *)

LEMMA CutFacts ==
  \A d, f, p, w : Cutting(d, f, p, w) =>
    /\ Len(d) \in Nat /\ p \in Nat /\ p > 0 /\ Len(w) \in Nat /\ p <= Len(d) + 1
    /\ Begins(d, f) /\ Lies(f, p, w) /\ w \in Seq(Int) /\ DOMAIN d = 1..Len(d)
  BY DEF Cutting, Begins, Lies

LEMMA FieldEnds ==
  \A d, f, p, x : Begins(d, f) /\ Lies(f, p, <<x>>) =>
    IF p <= Len(d) THEN Field(d, p) = p + 1 /\ d[p] = x /\ p \in DOMAIN d /\ ~(Field(d, p) < 0)
    ELSE Field(d, p) = Eof /\ Field(d, p) < 0
<1> SUFFICES ASSUME NEW d, NEW f, NEW p, NEW x, Begins(d, f), Lies(f, p, <<x>>)
             PROVE  IF p <= Len(d) THEN Field(d, p) = p + 1 /\ d[p] = x /\ p \in DOMAIN d /\ ~(Field(d, p) < 0)
                    ELSE Field(d, p) = Eof /\ Field(d, p) < 0
  OBVIOUS
<1>1. f[p] = x /\ p \in Nat /\ p > 0
  BY LiesField
<1>2. PICK l \in Nat : l = Len(d) /\ DOMAIN d = 1..l
  BY DEF Begins
<1>3. CASE p <= l
  <2>1. p \in 1..l
    BY <1>1, <1>3
  <2>2. d[p] = f[p]
    BY <1>2, <2>1 DEF Begins
  <2> QED
    BY <1>1, <1>2, <1>3, <2>1, <2>2 DEF Field, Present, At
<1>4. CASE ~(p <= l)
  <2>1. p \notin 1..l
    BY <1>4
  <2> QED
    BY <1>1, <1>2, <1>4, <2>1 DEF Field, Present, At, Eof
<1> QED
  BY <1>2, <1>3, <1>4

\* The first field, and what follows it where d goes on.
FirstCut(d, f, p, x, b) ==
  /\ p \in Nat /\ p > 0 /\ p + Len(<<x>> \o b) = p + 1 + Len(b) /\ Len(b) \in Nat /\ Len(d) \in Nat
  /\ IF p <= Len(d)
     THEN Field(d, p) = p + 1 /\ d[p] = x /\ Cutting(d, f, p + 1, b) /\ ~(Field(d, p) < 0)
     ELSE Field(d, p) = Eof /\ Field(d, p) < 0 /\ ~(p + Len(<<x>> \o b) <= Len(d) + 1)
LEMMA CutFirst ==
  \A d, f, p : \A x \in Int : \A b \in Seq(Int) :
    Cutting(d, f, p, <<x>> \o b) => FirstCut(d, f, p, x, b)
<1> SUFFICES ASSUME NEW d, NEW f, NEW p, NEW x \in Int, NEW b \in Seq(Int), Cutting(d, f, p, <<x>> \o b)
             PROVE  FirstCut(d, f, p, x, b)
  OBVIOUS
<1>1. PICK a : a = <<x>>
  OBVIOUS
<1>2. a \in Seq(Int) /\ Len(a) = 1
  BY <1>1
<1>3. Cutting(d, f, p, a \o b)
  BY <1>1
<1>4. PICK w : w = a \o b
  OBVIOUS
<1>5. Cutting(d, f, p, w)
  BY <1>3, <1>4
<1>6. Begins(d, f) /\ Lies(f, p, w)
  BY <1>5, CutFacts
<1>7. Splits(f, p, a, b)
  BY <1>2, <1>4, <1>6, LiesJoined
<1>8. Lies(f, p, a) /\ Lies(f, p + 1, b) /\ p + Len(a \o b) = (p + 1) + Len(b)
  BY <1>2, <1>7 DEF Splits
<1>9. PICK m \in Nat, l \in Nat : m = Len(b) /\ l = Len(d)
  BY <1>5, CutFacts
<1>10. p \in Nat /\ p > 0 /\ p <= l + 1
  BY <1>5, <1>9, CutFacts
<1>11. IF p <= l THEN Field(d, p) = p + 1 /\ d[p] = x /\ ~(Field(d, p) < 0)
       ELSE Field(d, p) = Eof /\ Field(d, p) < 0
  BY <1>1, <1>6, <1>8, <1>9, FieldEnds
<1>12. p <= l => Cutting(d, f, p + 1, b)
  BY <1>6, <1>8, <1>9, <1>10 DEF Cutting
<1>13. ~(p <= l) => ~((p + 1) + m <= l + 1)
  BY <1>10
<1> QED
  BY <1>1, <1>8, <1>9, <1>10, <1>11, <1>12, <1>13 DEF FirstCut

\* Two parts.
PartsCut(d, f, p, a, b) ==
  /\ p \in Nat /\ Len(a) \in Nat /\ Len(b) \in Nat /\ Len(d) \in Nat
  /\ p + Len(a \o b) = (p + Len(a)) + Len(b)
  /\ Cutting(d, f, p, a)
  /\ p + Len(a) <= Len(d) + 1 => Cutting(d, f, p + Len(a), b)
LEMMA CutParts ==
  \A d, f, p : \A a, b \in Seq(Int) : Cutting(d, f, p, a \o b) => PartsCut(d, f, p, a, b)
<1> SUFFICES ASSUME NEW d, NEW f, NEW p, NEW a \in Seq(Int), NEW b \in Seq(Int), Cutting(d, f, p, a \o b)
             PROVE  PartsCut(d, f, p, a, b)
  OBVIOUS
<1>4. PICK w : w = a \o b
  OBVIOUS
<1>5. Cutting(d, f, p, w)
  BY <1>4
<1>6. Begins(d, f) /\ Lies(f, p, w) /\ p \in Nat /\ p <= Len(d) + 1 /\ Len(d) \in Nat
  BY <1>5, CutFacts
<1>7. Splits(f, p, a, b)
  BY <1>4, <1>6, LiesJoined
<1>8. Lies(f, p, a) /\ Lies(f, p + Len(a), b) /\ p + Len(a \o b) = (p + Len(a)) + Len(b)
  BY <1>7 DEF Splits
<1>9. Len(a) \in Nat /\ Len(b) \in Nat
  OBVIOUS
<1> QED
  BY <1>6, <1>8, <1>9 DEF PartsCut, Cutting

LEMMA NothingRead ==
  \A d, q, o, R, c : ~(q <= Len(d) + 1) => Outcome(d, q, o, With(o, Failed(Eof)), R, c)
<1>1. \A o : With(o, Failed(Eof)).at = Eof
  BY DEF With, Got, Failed
<1> QED
  BY <1>1 DEF Outcome

\* What reads one thing, without a heap.
ReadsOne(d, q, r, x) == IF q <= Len(d) + 1 THEN r = Done(q, x) ELSE r = Failed(Eof)
LEMMA FieldOnce ==
  \A d, f, p : \A x \in Int : Cutting(d, f, p, <<x>>) => ReadsOne(d, p + 1, ReadField(d, p), x)
<1> SUFFICES ASSUME NEW d, NEW f, NEW p, NEW x \in Int, Cutting(d, f, p, <<x>>)
             PROVE  ReadsOne(d, p + 1, ReadField(d, p), x)
  OBVIOUS
<1>1. PICK w : w = <<x>>
  OBVIOUS
<1>2. Begins(d, f) /\ Lies(f, p, <<x>>) /\ Len(d) \in Nat /\ p \in Nat
  BY <1>1, CutFacts
<1>3. IF p <= Len(d) THEN Field(d, p) = p + 1 /\ d[p] = x /\ ~(Field(d, p) < 0)
      ELSE Field(d, p) = Eof /\ Field(d, p) < 0
  BY <1>2, FieldEnds
<1>4. p <= Len(d) <=> p + 1 <= Len(d) + 1
  BY <1>2
<1> QED
  BY <1>3, <1>4 DEF ReadsOne, ReadField

LEMMA RunOnce ==
  \A d, f, p : \A w \in Seq(Int) :
    /\ Run(w) \in Seq(Int)
    /\ Cutting(d, f, p, Run(w)) => ReadsOne(d, p + Len(Run(w)), ReadRun(d, p), w)
<1> SUFFICES ASSUME NEW d, NEW f, NEW p, NEW w \in Seq(Int)
             PROVE  /\ Run(w) \in Seq(Int)
                    /\ Cutting(d, f, p, Run(w)) => ReadsOne(d, p + Len(Run(w)), ReadRun(d, p), w)
  OBVIOUS
<1>1. Run(w) \in Seq(Int) /\ \A data, q : Lies(data, q, Run(w)) => RunBack(data, q, w)
  BY RunReadsBack
<1>2. ASSUME Cutting(d, f, p, Run(w)) PROVE ReadsOne(d, p + Len(Run(w)), ReadRun(d, p), w)
  <2>1. Begins(d, f) /\ Lies(f, p, Run(w))
    BY <1>2, CutFacts
  <2>2. CASE p + Len(Run(w)) <= Len(d) + 1
    <3>1. Lies(d, p, Run(w))
      BY <1>1, <2>1, <2>2, StillLies
    <3> QED
      BY <1>1, <2>2, <3>1 DEF RunBack, ReadsOne
  <2>3. CASE ~(p + Len(Run(w)) <= Len(d) + 1)
    <3>1. PICK n \in Nat : n = Len(w) /\ Run(w) = <<n>> \o w
      BY DEF Run
    <3>2. FirstCut(d, f, p, n, w)
      BY <1>2, <3>1, CutFirst
    <3>3. CASE p <= Len(d)
      <4>1. Field(d, p) = p + 1 /\ d[p] = n /\ ~(Field(d, p) < 0) /\ p + Len(Run(w)) = p + 1 + n
        BY <3>1, <3>2, <3>3 DEF FirstCut
      <4>2. p + 1 + n > Len(d) + 1
        BY <2>3, <3>1, <3>2, <4>1 DEF FirstCut
      <4>3. ReadUnits(d, p + 1, n) = Failed(Eof)
        BY <4>2 DEF ReadUnits
      <4> QED
        BY <2>3, <4>1, <4>3 DEF ReadRun, ReadsOne
    <3>4. CASE ~(p <= Len(d))
      <4>1. Field(d, p) = Eof /\ Field(d, p) < 0
        BY <3>2, <3>4 DEF FirstCut
      <4> QED
        BY <2>3, <4>1 DEF ReadRun, ReadsOne
    <3> QED
      BY <3>3, <3>4
  <2> QED
    BY <2>2, <2>3
<1> QED
  BY <1>1, <1>2

\* The same in a heap, which is not looked at.
LEMMA OnceIsRight ==
  \A d, q, r, x, R, c : \A o \in Heaps :
    c # 1 /\ ReadsOne(d, q, r, x) /\ x \in R[o] => Outcome(d, q, o, With(o, r), R, c)
<1> SUFFICES ASSUME NEW d, NEW q, NEW r, NEW x, NEW R, NEW c, NEW o \in Heaps, c # 1, ReadsOne(d, q, r, x), x \in R[o]
             PROVE  Outcome(d, q, o, With(o, r), R, c)
  OBVIOUS
<1>1. CASE q <= Len(d) + 1
  <2>1. r.at = q /\ r.val = x
    BY <1>1, DoneIs DEF ReadsOne
  <2>2. PICK z : z = With(o, r)
    OBVIOUS
  <2>3. z = [at |-> q, val |-> x, objs |-> o]
    BY <2>1, <2>2 DEF With, Got
  <2>4. z.at = q /\ z.val = x /\ z.objs = o
    BY <2>3
  <2>5. IsGot(z)
    BY <2>3, <2>4 DEF IsGot
  <2> QED
    BY <1>1, <2>2, <2>4, <2>5, HeapFacts DEF Outcome
<1>2. CASE ~(q <= Len(d) + 1)
  BY <1>2, NothingRead DEF ReadsOne
<1> QED
  BY <1>1, <1>2

\* Sequences, one after the other.
FlatRight(d, p, ws, reads, Rs, vals, c, o) ==
  Outcome(d, p + Len(Flat(ws)), o, Repeat(Len(ws), With(o, Done(p, <<>>)), reads),
          AllOf(Rs, Len(ws), vals), c)
LEMMA FlatIsRight ==
  \A d, f, p, reads, Rs, vals, c : \A ws \in Seq(Seq(Int)) : \A o \in Heaps :
    Cutting(d, f, p, Flat(ws)) /\ Turns(d, f, p, Len(ws), ws, reads, Rs, vals, c)
      => FlatRight(d, p, ws, reads, Rs, vals, c, o)
<1> SUFFICES ASSUME NEW d, NEW f, NEW p, NEW reads, NEW Rs, NEW vals, NEW c, NEW ws \in Seq(Seq(Int)),
                    NEW o \in Heaps, Cutting(d, f, p, Flat(ws)),
                    Turns(d, f, p, Len(ws), ws, reads, Rs, vals, c)
             PROVE  FlatRight(d, p, ws, reads, Rs, vals, c, o)
  OBVIOUS
<1>1. PICK n \in Nat : n = Len(ws)
  OBVIOUS
<1>2. PICK at : IsChain(at, f, p, ws)
  BY CutFacts, LiesList
<1>3. at[0] = p /\ at[n] = p + Len(Flat(ws))
  BY <1>1, <1>2 DEF IsChain
<1>4. Looping(d, f, n, at, ws)
  <2>1. at \in [0..n -> Nat] /\ Begins(d, f) /\ p <= Len(d) + 1
    BY <1>1, <1>2, CutFacts DEF IsChain
  <2>2. ASSUME NEW k \in 1..n
        PROVE  ws[k] \in Seq(Int) /\ at[k] = at[k - 1] + Len(ws[k]) /\ Lies(f, at[k - 1], ws[k])
    BY <1>1, <1>2 DEF IsChain
  <2> QED
    BY <1>3, <2>1, <2>2 DEF Looping
<1>5. Turns(d, f, at[0], n, ws, reads, Rs, vals, c)
  BY <1>1, <1>3
<1>6. LoopOutcome(d, n, at, reads, Rs, vals, c, o)
  BY <1>4, <1>5, LoopRight
<1> QED
  BY <1>1, <1>3, <1>6 DEF LoopOutcome, FlatRight

\* A number and as many sequences.
Counting(d, p, o, reads) ==
  IF Field(d, p) < 0 THEN With(o, Failed(Field(d, p)))
  ELSE Repeat(d[p], With(o, Done(p + 1, <<>>)), reads)
CountRight(d, p, ws, reads, Rs, vals, c, o) ==
  Outcome(d, p + Len(Numbered(ws)), o, Counting(d, p, o, reads), AllOf(Rs, Len(ws), vals), c)
LEMMA CountingRight ==
  \A d, f, p, reads, Rs, vals, c : \A ws \in Seq(Seq(Int)) : \A o \in Heaps :
    Cutting(d, f, p, Numbered(ws)) /\ Turns(d, f, p + 1, Len(ws), ws, reads, Rs, vals, c)
      => CountRight(d, p, ws, reads, Rs, vals, c, o)
<1> SUFFICES ASSUME NEW d, NEW f, NEW p, NEW reads, NEW Rs, NEW vals, NEW c, NEW ws \in Seq(Seq(Int)),
                    NEW o \in Heaps, Cutting(d, f, p, Numbered(ws)),
                    Turns(d, f, p + 1, Len(ws), ws, reads, Rs, vals, c)
             PROVE  CountRight(d, p, ws, reads, Rs, vals, c, o)
  OBVIOUS
<1>1. PICK n \in Nat : n = Len(ws)
  OBVIOUS
<1>2. Flat(ws) \in Seq(Int)
  BY Flattened DEF Flat
<1>3. FirstCut(d, f, p, n, Flat(ws))
  BY <1>1, <1>2, CutFirst DEF Numbered
<1>4. CASE p <= Len(d)
  <2>1. /\ ~(Field(d, p) < 0) /\ d[p] = n /\ Cutting(d, f, p + 1, Flat(ws))
        /\ p + Len(Numbered(ws)) = p + 1 + Len(Flat(ws))
    BY <1>1, <1>3, <1>4 DEF FirstCut, Numbered
  <2>2. FlatRight(d, p + 1, ws, reads, Rs, vals, c, o)
    BY <2>1, FlatIsRight
  <2>3. Counting(d, p, o, reads) = Repeat(Len(ws), With(o, Done(p + 1, <<>>)), reads)
    BY <1>1, <2>1 DEF Counting
  <2> QED
    BY <2>1, <2>2, <2>3 DEF FlatRight, CountRight
<1>5. CASE ~(p <= Len(d))
  <2>1. Field(d, p) = Eof /\ Field(d, p) < 0 /\ ~(p + Len(Numbered(ws)) <= Len(d) + 1)
    BY <1>1, <1>3, <1>5 DEF FirstCut, Numbered
  <2>2. Counting(d, p, o, reads) = With(o, Failed(Eof))
    BY <2>1 DEF Counting
  <2> QED
    BY <2>1, <2>2, NothingRead DEF CountRight
<1> QED
  BY <1>4, <1>5

-----------------------------------------------------------------------------
(* Values.                                                                 *)

\* What is a copy of v, n lists deep, in a heap.
Like(objs, n, v) == [h \in Heaps |-> {w \in Stored : <<v, w>> \in Likes(objs, h)[n]}]
Before(objs, h, n) == IF n = 0 THEN {} ELSE Likes(objs, h)[n - 1]
LEMMA LikesAre ==
  \A objs \in Seq(Object) : \A n \in 0..Len(objs) : \A h : \A v, w \in Stored :
    <<v, w>> \in Likes(objs, h)[n] <=> SameValue(objs, v, h, w, Before(objs, h, n))
<1> SUFFICES ASSUME NEW objs \in Seq(Object), NEW n \in 0..Len(objs), NEW h, NEW v \in Stored, NEW w \in Stored
             PROVE  <<v, w>> \in Likes(objs, h)[n] <=> SameValue(objs, v, h, w, Before(objs, h, n))
  OBVIOUS
<1>1. ComparesNested(objs, h, Likes(objs, h))
  BY LikesDeepen
<1>2. PICK like : like = Before(objs, h, n)
  OBVIOUS
<1>3. Likes(objs, h)[n] = {x \in Stored \X Stored : SameValue(objs, x[1], h, x[2], like)}
  <2>1. CASE n = 0
    BY <1>1, <1>2, <2>1 DEF ComparesNested, Before
  <2>2. CASE n # 0
    <3>1. n \in 1..Len(objs)
      BY <2>2
    <3> QED
      BY <1>1, <1>2, <2>2, <3>1 DEF ComparesNested, Before
  <2> QED
    BY <2>1, <2>2
<1>4. PICK x : x = <<v, w>>
  OBVIOUS
<1>5. x \in Stored \X Stored /\ x[1] = v /\ x[2] = w
  BY <1>4
<1> QED
  BY <1>2, <1>3, <1>4, <1>5

LEMMA LikesPairs ==
  \A objs \in Seq(Object) : \A n \in 0..Len(objs) : \A h, x, y :
    <<x, y>> \in Likes(objs, h)[n] => x \in Stored /\ y \in Stored
<1> SUFFICES ASSUME NEW objs \in Seq(Object), NEW n \in 0..Len(objs), NEW h, NEW x, NEW y,
                    <<x, y>> \in Likes(objs, h)[n]
             PROVE  x \in Stored /\ y \in Stored
  OBVIOUS
<1>1. ComparesNested(objs, h, Likes(objs, h))
  BY LikesDeepen
<1>2. Likes(objs, h)[n] \subseteq Stored \X Stored
  <2>1. CASE n = 0
    BY <1>1, <2>1 DEF ComparesNested
  <2>2. CASE n # 0
    <3>1. n \in 1..Len(objs)
      BY <2>2
    <3> QED
      BY <1>1, <3>1 DEF ComparesNested
  <2> QED
    BY <2>1, <2>2
<1>3. <<x, y>> \in Stored \X Stored
  BY <1>2
<1> QED
  BY <1>3

LEMMA SameValueGrows ==
  \A objs, v, w, like, more : \A a, b \in Heaps :
    Grows(a, b) /\ like \subseteq more /\ SameValue(objs, v, a, w, like) => SameValue(objs, v, b, w, more)
<1> SUFFICES ASSUME NEW objs, NEW v, NEW w, NEW like, NEW more, NEW a \in Heaps, NEW b \in Heaps,
                    Grows(a, b), like \subseteq more, SameValue(objs, v, a, w, like)
             PROVE  SameValue(objs, v, b, w, more)
  OBVIOUS
<1>1. CASE v.t \notin Handle
  BY <1>1 DEF SameValue
<1>2. CASE v.t \in Handle
  <2>1. /\ v.t = w.t /\ w.v \in DOMAIN a /\ a[w.v].kind = w.t
        /\ SameContents(objs, v.v, a, w.v, like)
    BY <1>2 DEF SameValue, Refers
  <2>2. w.v \in DOMAIN b /\ b[w.v] = a[w.v]
    <3>1. a \in Seq(Object) /\ b \in Seq(Object)
      BY HeapFacts
    <3> QED
      BY <2>1, <3>1 DEF Grows
  <2>3. SameContents(objs, v.v, b, w.v, more)
    BY <2>1, <2>2 DEF SameContents
  <2> QED
    BY <1>2, <2>1, <2>2, <2>3 DEF SameValue, Refers
<1> QED
  BY <1>1, <1>2

\* A copy stays a copy while the heap grows.
StaysLike(objs, n) == \A a, b \in Heaps : Grows(a, b) => Likes(objs, a)[n] \subseteq Likes(objs, b)[n]
LEMMA LikesGrow ==
  \A objs \in Seq(Object) : \A n \in 0..Len(objs) : StaysLike(objs, n)
<1> SUFFICES ASSUME NEW objs \in Seq(Object) PROVE \A n \in 0..Len(objs) : StaysLike(objs, n)
  OBVIOUS
<1> DEFINE Z == {n \in 0..Len(objs) : StaysLike(objs, n)}
<1>0. PICK m \in Nat : m = Len(objs)
  OBVIOUS
<1>1. ASSUME NEW n \in 0..m,
             \A a, b \in Heaps : Grows(a, b) => Before(objs, a, n) \subseteq Before(objs, b, n)
      PROVE  n \in Z
  <2>1. ASSUME NEW a \in Heaps, NEW b \in Heaps, Grows(a, b), NEW x \in Likes(objs, a)[n]
        PROVE  x \in Likes(objs, b)[n]
    <3>0. ComparesNested(objs, a, Likes(objs, a))
      BY LikesDeepen
    <3>1. Likes(objs, a)[n] \subseteq Stored \X Stored
      <4>1. CASE n = 0
        BY <3>0, <4>1 DEF ComparesNested
      <4>2. CASE n # 0
        <5>1. n \in 1..Len(objs)
          BY <1>0, <4>2
        <5> QED
          BY <3>0, <5>1 DEF ComparesNested
      <4> QED
        BY <4>1, <4>2
    <3>2. PICK v \in Stored, w \in Stored : x = <<v, w>>
      BY <3>1
    <3>3. SameValue(objs, v, a, w, Before(objs, a, n))
      BY <1>0, <3>2, LikesAre
    <3>4. SameValue(objs, v, b, w, Before(objs, b, n))
      BY <1>1, <2>1, <3>3, SameValueGrows
    <3> QED
      BY <1>0, <3>2, <3>4, LikesAre
  <2> QED
    BY <1>0, <2>1 DEF StaysLike
<1>2. 0 \in Z
  BY <1>1 DEF Before
<1>3. ASSUME NEW n \in 1..m, n - 1 \in Z PROVE n \in Z
  <2>1. \A a, b \in Heaps : Grows(a, b) => Before(objs, a, n) \subseteq Before(objs, b, n)
    BY <1>3 DEF Before, StaysLike
  <2> HIDE DEF Z
  <2> QED
    BY <1>1, <2>1
<1> HIDE DEF Z
<1>4. \A n \in 0..m : n \in Z
  BY <1>2, <1>3, StepByStep
<1> QED
  BY <1>0, <1>4 DEF Z

LEMMA LikeGrowing ==
  \A objs \in Seq(Object) : \A n \in 0..Len(objs) : \A v :
    Growing(Like(objs, n, v)) /\ \A h \in Heaps : Like(objs, n, v)[h] \subseteq Stored
<1> SUFFICES ASSUME NEW objs \in Seq(Object), NEW n \in 0..Len(objs), NEW v
             PROVE  Growing(Like(objs, n, v)) /\ \A h \in Heaps : Like(objs, n, v)[h] \subseteq Stored
  OBVIOUS
<1>1. StaysLike(objs, n)
  BY LikesGrow
<1> QED
  BY <1>1 DEF Growing, Like, StaysLike

\* v, which is at most n lists deep, as it is written and read.
Good(objs, n, v) == v \in Stored /\ Refers(objs, v, EndsWithin(objs)[n])
Allocates(objs, v) == IF v.t \notin Handle THEN 0 ELSE IF Plain(objs[v.v]) THEN 1 ELSE 2
ReadRight(objs, n, v, w, d, f, p, m, o) ==
  Cutting(d, f, p, w) /\ m >= (Len(d) + 1) - p =>
    Outcome(d, p + Len(w), o, Reader(d)[m][<<p, o>>], Like(objs, n, v), Allocates(objs, v))
ValueRight(objs, n, v) ==
  /\ Writer(objs)[n][v] \in Seq(Int)
  /\ \A d, f, p : \A o \in Heaps : \A m \in 0..Len(d) : ReadRight(objs, n, v, Writer(objs)[n][v], d, f, p, m, o)

LEMMA StoredFacts ==
  /\ \A v \in Stored : v.t \in DOMAIN TagOf /\ v.v \in Int /\ v = [t |-> v.t, v |-> v.v]
  /\ \A v \in Stored : v.t = "Null" => v = NullValue
  /\ \A t \in {"Int", "Float", "Bool"} \cup Handle : \A x \in Int : [t |-> t, v |-> x] \in Stored
  /\ NullValue \in Stored /\ NullValue.t = "Null"
<1>1. /\ NullValue \in Stored /\ NullValue.t = "Null" /\ NullValue.v = 0
      /\ NullValue = [t |-> NullValue.t, v |-> NullValue.v]
  BY DEF Stored, NullValue
<1>2. DOMAIN TagOf = {"Int", "Float", "Bool", "Null", "String", "List"}
  BY TagFacts
<1>3. \A v \in Stored : v.t \in DOMAIN TagOf /\ v.v \in Int /\ v = [t |-> v.t, v |-> v.v]
  <2> SUFFICES ASSUME NEW v \in Stored PROVE v.t \in DOMAIN TagOf /\ v.v \in Int /\ v = [t |-> v.t, v |-> v.v]
    OBVIOUS
  <2>1. CASE v = NullValue
    BY <1>1, <1>2, <2>1
  <2>2. CASE v # NullValue
    <3>1. v \in [t : {"Int", "Float", "Bool"} \cup Handle, v : Int]
      BY <2>2 DEF Stored
    <3> QED
      BY <1>2, <3>1 DEF Handle
  <2> QED
    BY <2>1, <2>2
<1>4. \A v \in Stored : v.t = "Null" => v = NullValue
  BY DEF Stored, Handle
<1>5. \A t \in {"Int", "Float", "Bool"} \cup Handle : \A x \in Int : [t |-> t, v |-> x] \in Stored
  BY DEF Stored
<1> QED
  BY <1>1, <1>3, <1>4, <1>5

\* What Reader does with its place, and Writer with a value.
Below(nested, n) == IF n = 0 THEN <<>> ELSE nested[n - 1]
LEMMA ReaderReads ==
  \A d : Len(d) \in Nat => \A m \in 0..Len(d) : \A p \in Int : \A o \in Seq(Object) :
    Reader(d)[m][<<p, o>>] = ReadNested(d, p, o, Below(Reader(d), m))
<1> SUFFICES ASSUME NEW d, Len(d) \in Nat, NEW m \in 0..Len(d), NEW p \in Int, NEW o \in Seq(Object)
             PROVE  Reader(d)[m][<<p, o>>] = ReadNested(d, p, o, Below(Reader(d), m))
  OBVIOUS
<1>1. ReadsNested(d, Reader(d))
  BY ReaderDeepens
<1>2. PICK sub : sub = Below(Reader(d), m)
  OBVIOUS
<1>3. Reader(d)[m] = [x \in Places |-> ReadNested(d, x[1], x[2], sub)]
  <2>1. CASE m = 0
    BY <1>1, <1>2, <2>1 DEF ReadsNested, Below
  <2>2. CASE m # 0
    <3>1. m \in 1..Len(d)
      BY <2>2
    <3> QED
      BY <1>1, <1>2, <2>2, <3>1 DEF ReadsNested, Below
  <2> QED
    BY <2>1, <2>2
<1>4. PICK x : x = <<p, o>>
  OBVIOUS
<1>5. x \in Places /\ x[1] = p /\ x[2] = o
  BY <1>4 DEF Places
<1> QED
  BY <1>2, <1>3, <1>4, <1>5
LEMMA WriterWrites ==
  \A objs \in Seq(Object) : \A n \in 0..Len(objs) : \A v \in Stored :
    Writer(objs)[n][v] = WriteNested(objs, Below(Writer(objs), n), v)
<1> SUFFICES ASSUME NEW objs \in Seq(Object), NEW n \in 0..Len(objs), NEW v \in Stored
             PROVE  Writer(objs)[n][v] = WriteNested(objs, Below(Writer(objs), n), v)
  OBVIOUS
<1>1. WritesNested(objs, Writer(objs))
  BY WriterDeepens
<1>2. PICK sub : sub = Below(Writer(objs), n)
  OBVIOUS
<1>3. Writer(objs)[n] = [x \in Stored |-> WriteNested(objs, sub, x)]
  <2>1. CASE n = 0
    BY <1>1, <1>2, <2>1 DEF WritesNested, Below
  <2>2. CASE n # 0
    <3>1. n \in 1..Len(objs)
      BY <2>2
    <3> QED
      BY <1>1, <1>2, <2>2, <3>1 DEF WritesNested, Below
  <2> QED
    BY <2>1, <2>2
<1> QED
  BY <1>2, <1>3

\* A handle is one of an object whose elements are less deep.
LEMMA HandleResolves ==
  \A objs \in Seq(Object) : \A n \in 0..Len(objs) : \A v :
    Good(objs, n, v) /\ v.t \in Handle =>
      /\ n # 0 /\ v.v \in DOMAIN objs /\ objs[v.v].kind = v.t /\ objs[v.v] \in Object
      /\ v.t = "String" => objs[v.v].data \in Seq(Int)
      /\ v.t = "List" => /\ objs[v.v].data \in Seq(Stored)
                         /\ \A k \in DOMAIN objs[v.v].data : Good(objs, n - 1, objs[v.v].data[k])
<1> SUFFICES ASSUME NEW objs \in Seq(Object), NEW n \in 0..Len(objs), NEW v, Good(objs, n, v), v.t \in Handle
             PROVE  /\ n # 0 /\ v.v \in DOMAIN objs /\ objs[v.v].kind = v.t /\ objs[v.v] \in Object
                    /\ v.t = "String" => objs[v.v].data \in Seq(Int)
                    /\ v.t = "List" => /\ objs[v.v].data \in Seq(Stored)
                                       /\ \A k \in DOMAIN objs[v.v].data : Good(objs, n - 1, objs[v.v].data[k])
  OBVIOUS
<1>1. EndsNest(objs, EndsWithin(objs))
  BY EndsDeepen
<1>2. v.v \in EndsWithin(objs)[n] /\ objs[v.v].kind = v.t
  BY DEF Good, Refers
<1>3. n # 0
  BY <1>1, <1>2 DEF EndsNest
<1>4. v.v \in Ending(objs, EndsWithin(objs)[n - 1])
  <2>1. n \in 1..Len(objs)
    BY <1>3
  <2> QED
    BY <1>1, <1>2, <2>1 DEF EndsNest
<1>5. v.v \in DOMAIN objs /\ objs[v.v] \in Object
  BY <1>4 DEF Ending
<1>6. v.t = "String" => objs[v.v].data \in Seq(Int)
  BY <1>2, <1>5 DEF Object
<1>7. v.t = "List" => objs[v.v].data \in Seq(Stored)
  BY <1>2, <1>5 DEF Object
<1>8. ASSUME v.t = "List", NEW k \in DOMAIN objs[v.v].data PROVE Good(objs, n - 1, objs[v.v].data[k])
  <2>1. objs[v.v].data[k] \in Stored
    BY <1>7, <1>8
  <2>2. Refers(objs, objs[v.v].data[k], EndsWithin(objs)[n - 1])
    BY <1>2, <1>4, <1>8 DEF Ending
  <2> QED
    BY <2>1, <2>2 DEF Good
<1> QED
  BY <1>2, <1>3, <1>5, <1>6, <1>7, <1>8

\* A tag and what follows.
AfterTag(d, p, o, read, t) ==
  CASE t = "Null" -> With(o, Done(p + 1, NullValue))
    [] t = "String" -> Allocated("String", With(o, ReadRun(d, p + 1)))
    [] t = "List" -> Allocated("List", ReadElements(d, p + 1, o, read))
    [] OTHER -> Payload(TagOf[t], With(o, ReadField(d, p + 1)))
ReadsTag(d, f, p, o, read, t, b) ==
  /\ FirstCut(d, f, p, TagOf[t], b)
  /\ ReadNested(d, p, o, read) = IF p <= Len(d) THEN AfterTag(d, p, o, read, t) ELSE With(o, Failed(Eof))
LEMMA TagRead ==
  \A d, f, p, o, read, t : \A b \in Seq(Int) :
    t \in DOMAIN TagOf /\ Cutting(d, f, p, <<TagOf[t]>> \o b) => ReadsTag(d, f, p, o, read, t, b)
<1> SUFFICES ASSUME NEW d, NEW f, NEW p, NEW o, NEW read, NEW t, NEW b \in Seq(Int), t \in DOMAIN TagOf,
                    Cutting(d, f, p, <<TagOf[t]>> \o b)
             PROVE  ReadsTag(d, f, p, o, read, t, b)
  OBVIOUS
<1>1. PICK tag : tag = TagOf[t]
  OBVIOUS
<1>2. tag \in Int /\ IsTag(tag) /\ (t = "Null" <=> tag = 3) /\ (t = "String" <=> tag = 4) /\ (t = "List" <=> tag = 5)
  BY <1>1, TagFacts
<1>3. FirstCut(d, f, p, tag, b)
  BY <1>1, <1>2, CutFirst
<1>4. ~(p <= Len(d)) => ReadNested(d, p, o, read) = With(o, Failed(Eof))
  BY <1>3 DEF FirstCut, ReadNested
<1>5. ASSUME p <= Len(d) PROVE ReadNested(d, p, o, read) = AfterTag(d, p, o, read, t)
  <2>1. ~(Field(d, p) < 0) /\ d[p] = tag
    BY <1>3, <1>5 DEF FirstCut
  <2>2. TagOf.Null = 3 /\ TagOf.String = 4 /\ TagOf.List = 5
    BY TagFacts
  <2> QED
    BY <1>1, <1>2, <2>1, <2>2 DEF ReadNested, AfterTag
<1> QED
  BY <1>1, <1>3, <1>4, <1>5 DEF ReadsTag

\* An allocation after what was read of a string, or of a list.
LEMMA AllocatedIs ==
  \A kind, r : IsGot(r) /\ ~(r.at < 0) =>
    /\ IsGot(Allocated(kind, r)) /\ Allocated(kind, r).at = r.at
    /\ Allocated(kind, r).val = [t |-> kind, v |-> Len(r.objs) + 1]
    /\ Allocated(kind, r).objs = Append(r.objs, [kind |-> kind, data |-> r.val])
<1> SUFFICES ASSUME NEW kind, NEW r, IsGot(r), ~(r.at < 0)
             PROVE  /\ IsGot(Allocated(kind, r)) /\ Allocated(kind, r).at = r.at
                    /\ Allocated(kind, r).val = [t |-> kind, v |-> Len(r.objs) + 1]
                    /\ Allocated(kind, r).objs = Append(r.objs, [kind |-> kind, data |-> r.val])
  OBVIOUS
<1>1. PICK v, h : v = [t |-> kind, v |-> Len(r.objs) + 1] /\ h = Append(r.objs, [kind |-> kind, data |-> r.val])
  OBVIOUS
<1>2. PICK z : z = Allocated(kind, r)
  OBVIOUS
<1>3. z = [at |-> r.at, val |-> v, objs |-> h]
  BY <1>1, <1>2 DEF Allocated, Got
<1>4. z.at = r.at /\ z.val = v /\ z.objs = h
  BY <1>3
<1>5. IsGot(z)
  BY <1>3, <1>4 DEF IsGot
<1> QED
  BY <1>1, <1>2, <1>4, <1>5

\* The heap with one object more.
Grown(h, obj, g) ==
  /\ g \in Heaps /\ Grows(h, g) /\ Len(g) = Len(h) + 1 /\ Len(h) \in Nat
  /\ Len(h) + 1 \in DOMAIN g /\ g[Len(h) + 1] = obj
LEMMA OneMore ==
  \A h \in Heaps : \A obj \in Object :
    (Len(h) = 0 => Plain(obj)) => Grown(h, obj, Append(h, obj))
<1> SUFFICES ASSUME NEW h \in Heaps, NEW obj \in Object, Len(h) = 0 => Plain(obj)
             PROVE  Grown(h, obj, Append(h, obj))
  OBVIOUS
<1>1. PICK g : g = Append(h, obj)
  OBVIOUS
<1>2. h \in Seq(Object)
  BY HeapFacts
<1>3. PICK l \in Nat : l = Len(h)
  BY <1>2
<1>4. g \in Seq(Object) /\ Len(g) = l + 1 /\ g[l + 1] = obj /\ \A k \in 1..l : g[k] = h[k]
  BY <1>1, <1>2, <1>3
<1>5. l + 1 \in DOMAIN g
  BY <1>4
<1>6. Plain(g[1])
  <2>1. CASE l = 0
    BY <1>3, <1>4, <2>1
  <2>2. CASE l # 0
    <3>1. 1 \in 1..l /\ l > 0
      BY <2>2
    <3>2. Plain(h[1])
      BY <1>3, <3>1 DEF Heaps
    <3> QED
      BY <1>4, <3>1, <3>2
  <2> QED
    BY <2>1, <2>2
<1>7. g \in Heaps
  BY <1>4, <1>6 DEF Heaps
<1>8. Grows(h, g)
  BY <1>3, <1>4 DEF Grows
<1> QED
  BY <1>1, <1>3, <1>4, <1>5, <1>7, <1>8 DEF Grown

\* The outcome of an allocation, for a copy of v, after r in a heap h.
Allocating(objs, n, v, d, q, r, c, o, h) ==
  /\ v.t \in Handle /\ IsGot(r) /\ r.at = q /\ ~(q < 0) /\ r.objs = h /\ Grows(o, h) /\ q <= Len(d) + 1
  /\ [kind |-> v.t, data |-> r.val] \in Object
  /\ Len(h) = 0 => Plain([kind |-> v.t, data |-> r.val])
  /\ c # 0 /\ (c = 1 => h = o)
  /\ \A g \in Heaps : Grown(h, [kind |-> v.t, data |-> r.val], g) =>
       [t |-> v.t, v |-> Len(h) + 1] \in Like(objs, n, v)[g]
LEMMA AllocationRight ==
  \A objs, n, v, d, q, r, c : \A o, h \in Heaps :
    Allocating(objs, n, v, d, q, r, c, o, h) => Outcome(d, q, o, Allocated(v.t, r), Like(objs, n, v), c)
<1> SUFFICES ASSUME NEW objs, NEW n, NEW v, NEW d, NEW q, NEW r, NEW c, NEW o \in Heaps, NEW h \in Heaps,
                    Allocating(objs, n, v, d, q, r, c, o, h)
             PROVE  Outcome(d, q, o, Allocated(v.t, r), Like(objs, n, v), c)
  OBVIOUS
<1> USE DEF Allocating
<1>1. PICK obj, z, w : /\ obj = [kind |-> v.t, data |-> r.val] /\ z = Allocated(v.t, r)
                       /\ w = [t |-> v.t, v |-> Len(h) + 1]
  OBVIOUS
<1>2. IsGot(z) /\ z.at = q /\ z.val = w /\ z.objs = Append(h, obj)
  BY <1>1, AllocatedIs
<1>3. Grown(h, obj, z.objs)
  BY <1>1, <1>2, OneMore
<1>4. z.objs \in Heaps /\ Grows(h, z.objs) /\ Len(z.objs) = Len(h) + 1
  BY <1>3 DEF Grown
<1>5. w \in Like(objs, n, v)[z.objs]
  BY <1>1, <1>3, <1>4
<1>6. Grows(o, z.objs)
  BY <1>4, HeapFacts
<1> QED
  BY <1>1, <1>2, <1>4, <1>5, <1>6 DEF Outcome

\* A value that is no handle.
LEMMA PlainRight ==
  \A objs \in Seq(Object) : \A n \in 0..Len(objs) : \A v \in Stored :
    v.t \notin Handle => ValueRight(objs, n, v)
<1> SUFFICES ASSUME NEW objs \in Seq(Object), NEW n \in 0..Len(objs), NEW v \in Stored, v.t \notin Handle
             PROVE  ValueRight(objs, n, v)
  OBVIOUS
<1>1. PICK w : w = Writer(objs)[n][v]
  OBVIOUS
<1>2. Allocates(objs, v) = 0
  BY DEF Allocates
<1>3. v.t \in DOMAIN TagOf /\ v.v \in Int /\ v = [t |-> v.t, v |-> v.v] /\ (v.t = "Null" => v = NullValue)
  BY StoredFacts
<1>4. PICK tag : tag = TagOf[v.t] /\ tag \in Int /\ TypeOf(tag) = v.t
  BY <1>3, TagFacts
<1>5. w = WriteNested(objs, Below(Writer(objs), n), v)
  BY <1>1, WriterWrites
<1>6. \A h \in Heaps : v \in Like(objs, n, v)[h]
  <2> SUFFICES ASSUME NEW h \in Heaps PROVE v \in Like(objs, n, v)[h]
    OBVIOUS
  <2>1. SameValue(objs, v, h, v, Before(objs, h, n))
    BY DEF SameValue
  <2>2. <<v, v>> \in Likes(objs, h)[n]
    BY <2>1, LikesAre
  <2> QED
    BY <2>2 DEF Like
<1>7. CASE v.t = "Null"
  <2>1. w = <<tag>>
    BY <1>4, <1>5, <1>7, TagFacts DEF WriteNested
  <2>2. w = <<tag>> \o <<>> /\ w \in Seq(Int)
    BY <1>4, <2>1
  <2>3. ASSUME NEW d, NEW f, NEW p, NEW o \in Heaps, NEW m \in 0..Len(d), Cutting(d, f, p, w)
        PROVE  Outcome(d, p + Len(w), o, Reader(d)[m][<<p, o>>], Like(objs, n, v), 0)
    <3>1. PICK read : read = Below(Reader(d), m)
      OBVIOUS
    <3>2. Len(d) \in Nat /\ p \in Nat
      BY <2>3, CutFacts
    <3>3. Reader(d)[m][<<p, o>>] = ReadNested(d, p, o, read)
      <4>1. o \in Seq(Object) /\ p \in Int
        BY <3>2, HeapFacts
      <4> QED
        BY <3>1, <3>2, <4>1, ReaderReads
    <3>4. <<>> \in Seq(Int) /\ Len(<<>>) = 0
      OBVIOUS
    <3>5. ReadsTag(d, f, p, o, read, v.t, <<>>)
      BY <1>3, <1>4, <2>2, <2>3, <3>4, TagRead
    <3>6. p + Len(w) = p + 1
      BY <2>1, <3>2
    <3>7. CASE p <= Len(d)
      <4>1. ReadNested(d, p, o, read) = With(o, Done(p + 1, NullValue))
        BY <1>7, <3>5, <3>7 DEF ReadsTag, AfterTag
      <4>2. ReadsOne(d, p + 1, Done(p + 1, NullValue), v)
        BY <1>3, <1>7, <3>2, <3>7 DEF ReadsOne
      <4>3. 0 # 1
        OBVIOUS
      <4> QED
        BY <1>6, <3>3, <3>6, <4>1, <4>2, <4>3, OnceIsRight
    <3>8. CASE ~(p <= Len(d))
      <4>1. ~(p + Len(w) <= Len(d) + 1)
        BY <3>2, <3>6, <3>8
      <4>2. ReadNested(d, p, o, read) = With(o, Failed(Eof))
        BY <3>5, <3>8 DEF ReadsTag
      <4> QED
        BY <3>3, <4>1, <4>2, NothingRead
    <3> QED
      BY <3>7, <3>8
  <2> QED
    BY <1>1, <1>2, <2>2, <2>3 DEF ValueRight, ReadRight
<1>8. CASE v.t # "Null"
  <2>0. v.t \in {"Int", "Float", "Bool"}
    BY <1>3, <1>8, TagFacts DEF Handle
  <2>1. w = <<tag, v.v>>
    BY <1>4, <1>5, <2>0 DEF WriteNested
  <2>2. PICK x, b : x \in Int /\ x = v.v /\ b = <<x>>
    BY <1>3
  <2>3. w = <<tag>> \o b /\ w \in Seq(Int) /\ b \in Seq(Int) /\ Len(b) = 1 /\ Len(w) = 2
    BY <1>4, <2>1, <2>2, PairIsJoined
  <2>4. ASSUME NEW d, NEW f, NEW p, NEW o \in Heaps, NEW m \in 0..Len(d), Cutting(d, f, p, w)
        PROVE  Outcome(d, p + Len(w), o, Reader(d)[m][<<p, o>>], Like(objs, n, v), 0)
    <3>1. PICK read : read = Below(Reader(d), m)
      OBVIOUS
    <3>2. Len(d) \in Nat /\ p \in Nat
      BY <2>4, CutFacts
    <3>3. Reader(d)[m][<<p, o>>] = ReadNested(d, p, o, read)
      <4>1. o \in Seq(Object) /\ p \in Int
        BY <3>2, HeapFacts
      <4> QED
        BY <3>1, <3>2, <4>1, ReaderReads
    <3>5. ReadsTag(d, f, p, o, read, v.t, b)
      BY <1>3, <1>4, <2>3, <2>4, TagRead
    <3>6. p + Len(w) = p + 2
      BY <2>3
    <3>7. CASE p <= Len(d)
      <4>1. ReadNested(d, p, o, read) = Payload(tag, With(o, ReadField(d, p + 1)))
        BY <1>4, <2>0, <3>5, <3>7 DEF ReadsTag, AfterTag
      <4>2. Cutting(d, f, p + 1, b)
        BY <3>5, <3>7 DEF ReadsTag, FirstCut
      <4>3. ReadsOne(d, (p + 1) + 1, ReadField(d, p + 1), x)
        BY <2>2, <4>2, FieldOnce
      <4>4. (p + 1) + 1 = p + 2
        BY <3>2
      <4>5. CASE p + 2 <= Len(d) + 1
        <5>1. ReadField(d, p + 1) = Done(p + 2, x)
          BY <4>3, <4>4, <4>5 DEF ReadsOne
        <5>2. PICK y : y = With(o, ReadField(d, p + 1))
          OBVIOUS
        <5>3. y = [at |-> p + 2, val |-> x, objs |-> o]
          BY <5>1, <5>2, DoneIs DEF With, Got
        <5>4. PICK z : z = Payload(tag, y)
          OBVIOUS
        <5>5. ~(p + 2 < 0)
          BY <3>2
        <5>6. z = [at |-> p + 2, val |-> v, objs |-> o]
          BY <1>3, <1>4, <2>2, <5>3, <5>4, <5>5 DEF Payload
        <5>7. z.at = p + 2 /\ z.val = v /\ z.objs = o
          BY <5>6
        <5>8. IsGot(z)
          BY <5>6, <5>7 DEF IsGot
        <5>9. Reader(d)[m][<<p, o>>] = z
          BY <3>3, <4>1, <5>2, <5>4
        <5> QED
          BY <1>6, <3>6, <4>5, <5>7, <5>8, <5>9, HeapFacts DEF Outcome
      <4>6. CASE ~(p + 2 <= Len(d) + 1)
        <5>1. ReadField(d, p + 1) = Failed(Eof)
          BY <4>3, <4>4, <4>6 DEF ReadsOne
        <5>2. With(o, Failed(Eof)).at = Eof
          BY DEF With, Got, Failed
        <5>3. Payload(tag, With(o, Failed(Eof))) = With(o, Failed(Eof))
          BY <5>2 DEF Payload, Eof
        <5> QED
          BY <3>3, <3>6, <4>1, <4>6, <5>1, <5>3, NothingRead
      <4> QED
        BY <4>5, <4>6
    <3>8. CASE ~(p <= Len(d))
      <4>1. ~(p + Len(w) <= Len(d) + 1)
        BY <3>2, <3>6, <3>8
      <4>2. ReadNested(d, p, o, read) = With(o, Failed(Eof))
        BY <3>5, <3>8 DEF ReadsTag
      <4> QED
        BY <3>3, <4>1, <4>2, NothingRead
    <3> QED
      BY <3>7, <3>8
  <2> QED
    BY <1>1, <1>2, <2>3, <2>4 DEF ValueRight, ReadRight
<1> QED
  BY <1>7, <1>8

\* A string.
LEMMA StringRight ==
  \A objs \in Seq(Object) : \A n \in 0..Len(objs) : \A v :
    Good(objs, n, v) /\ v.t = "String" => ValueRight(objs, n, v)
<1> SUFFICES ASSUME NEW objs \in Seq(Object), NEW n \in 0..Len(objs), NEW v, Good(objs, n, v), v.t = "String"
             PROVE  ValueRight(objs, n, v)
  OBVIOUS
<1>0. v \in Stored /\ v.t \in Handle /\ v.t \in DOMAIN TagOf
  BY StoredFacts DEF Good, Handle
<1>1. PICK w : w = Writer(objs)[n][v]
  OBVIOUS
<1>2. PICK s : s = objs[v.v].data
  OBVIOUS
<1>3. s \in Seq(Int) /\ v.v \in DOMAIN objs /\ objs[v.v].kind = "String"
  BY <1>0, <1>2, HandleResolves
<1>4. Allocates(objs, v) = 1
  BY <1>0, <1>3 DEF Allocates, Plain
<1>5. PICK tag : tag = TagOf[v.t] /\ tag \in Int /\ tag = TagOf.String
  BY <1>0, TagFacts
<1>6. w = <<tag>> \o Run(s)
  <2>1. w = WriteNested(objs, Below(Writer(objs), n), v)
    BY <1>0, <1>1, WriterWrites
  <2> QED
    BY <1>2, <1>5, <2>1 DEF WriteNested
<1>7. PICK b : b = Run(s) /\ b \in Seq(Int) /\ Len(b) \in Nat
  <2>1. Run(s) \in Seq(Int)
    BY <1>3, RunReadsBack
  <2> QED
    BY <2>1
<1>8. w = <<tag>> \o b /\ w \in Seq(Int)
  BY <1>5, <1>6, <1>7
<1>9. ASSUME NEW d, NEW f, NEW p, NEW o \in Heaps, NEW m \in 0..Len(d), Cutting(d, f, p, w)
      PROVE  Outcome(d, p + Len(w), o, Reader(d)[m][<<p, o>>], Like(objs, n, v), 1)
  <2>1. PICK read : read = Below(Reader(d), m)
    OBVIOUS
  <2>2. Len(d) \in Nat /\ p \in Nat
    BY <1>9, CutFacts
  <2>3. Reader(d)[m][<<p, o>>] = ReadNested(d, p, o, read)
    <3>1. o \in Seq(Object) /\ p \in Int
      BY <2>2, HeapFacts
    <3> QED
      BY <2>1, <2>2, <3>1, ReaderReads
  <2>4. ReadsTag(d, f, p, o, read, v.t, b)
    BY <1>0, <1>5, <1>7, <1>8, <1>9, TagRead
  <2>5. p + Len(w) = (p + 1) + Len(b)
    BY <1>5, <1>8, <2>4 DEF ReadsTag, FirstCut
  <2>6. CASE p <= Len(d)
    <3>1. ReadNested(d, p, o, read) = Allocated("String", With(o, ReadRun(d, p + 1)))
      BY <2>4, <2>6 DEF ReadsTag, AfterTag
    <3>2. Cutting(d, f, p + 1, b)
      BY <2>4, <2>6 DEF ReadsTag, FirstCut
    <3>3. ReadsOne(d, (p + 1) + Len(b), ReadRun(d, p + 1), s)
      BY <1>3, <1>7, <3>2, RunOnce
    <3>4. PICK q : q = (p + 1) + Len(b) /\ q \in Nat
      BY <1>7, <2>2
    <3>5. CASE q <= Len(d) + 1
      <4>1. ReadRun(d, p + 1) = Done(q, s)
        BY <3>3, <3>4, <3>5 DEF ReadsOne
      <4>2. PICK y : y = With(o, ReadRun(d, p + 1))
        OBVIOUS
      <4>3. y = [at |-> q, val |-> s, objs |-> o]
        BY <4>1, <4>2, DoneIs DEF With, Got
      <4>4. y.at = q /\ y.val = s /\ y.objs = o
        BY <4>3
      <4>5. IsGot(y)
        BY <4>3, <4>4 DEF IsGot
      <4>6. [kind |-> v.t, data |-> s] \in Object /\ Plain([kind |-> v.t, data |-> s])
        BY <1>3 DEF Object, Plain
      <4>7. ASSUME NEW g \in Heaps, Grown(o, [kind |-> v.t, data |-> s], g)
            PROVE  [t |-> v.t, v |-> Len(o) + 1] \in Like(objs, n, v)[g]
        <5>1. PICK c, l : c = [t |-> v.t, v |-> Len(o) + 1] /\ l = Len(o) + 1
          OBVIOUS
        <5>2. l \in DOMAIN g /\ g[l] = [kind |-> v.t, data |-> s] /\ c.t = v.t /\ c.v = l /\ l \in Int
          BY <4>7, <5>1 DEF Grown
        <5>3. c \in Stored
          BY <1>0, <5>1, <5>2, StoredFacts
        <5>4. SameValue(objs, v, g, c, Before(objs, g, n))
          BY <1>0, <1>2, <1>3, <5>2 DEF SameValue, SameContents, Refers
        <5>5. <<v, c>> \in Likes(objs, g)[n]
          BY <1>0, <5>3, <5>4, LikesAre
        <5> QED
          BY <5>1, <5>3, <5>5 DEF Like
      <4>8. Allocating(objs, n, v, d, q, y, 1, o, o)
        BY <1>0, <3>4, <3>5, <4>4, <4>5, <4>6, <4>7, HeapFacts DEF Allocating
      <4>9. Outcome(d, q, o, Allocated(v.t, y), Like(objs, n, v), 1)
        BY <4>8, AllocationRight
      <4> QED
        BY <2>3, <2>5, <3>1, <3>4, <4>2, <4>9
    <3>6. CASE ~(q <= Len(d) + 1)
      <4>1. ReadRun(d, p + 1) = Failed(Eof)
        BY <3>3, <3>4, <3>6 DEF ReadsOne
      <4>2. With(o, Failed(Eof)).at = Eof
        BY DEF With, Got, Failed
      <4>3. Allocated("String", With(o, Failed(Eof))) = With(o, Failed(Eof))
        BY <4>2 DEF Allocated, Eof
      <4> QED
        BY <2>3, <2>5, <3>1, <3>4, <3>6, <4>1, <4>3, NothingRead
    <3> QED
      BY <3>5, <3>6
  <2>7. CASE ~(p <= Len(d))
    <3>1. ~(p + Len(w) <= Len(d) + 1)
      BY <1>5, <1>8, <2>4, <2>7 DEF ReadsTag, FirstCut
    <3>2. ReadNested(d, p, o, read) = With(o, Failed(Eof))
      BY <2>4, <2>7 DEF ReadsTag
    <3> QED
      BY <2>3, <3>1, <3>2, NothingRead
  <2> QED
    BY <2>6, <2>7
<1> QED
  BY <1>1, <1>4, <1>8, <1>9 DEF ValueRight, ReadRight

\* A weaker claim on the heap.
LEMMA OutcomeWeaker ==
  \A d, q, o, r, R, c, e :
    Outcome(d, q, o, r, R, c) /\ (e = 0 => c = 0) /\ e # 1 => Outcome(d, q, o, r, R, e)
  BY DEF Outcome

\* The elements of a list, one list less deep.
Elements(objs, n, s, ws, d, p, m, c) ==
  /\ \A k \in 1..Len(s) : ValueRight(objs, n - 1, s[k]) /\ ws[k] = Writer(objs)[n - 1][s[k]]
  /\ Len(d) \in Nat /\ p \in Nat /\ m \in 0..Len(d) /\ m >= (Len(d) + 1) - p
  /\ c = IF \E k \in DOMAIN s : s[k].t \in Handle THEN 2 ELSE 0
TurnOfEach(objs, n, s, ws, d, f, p, m, c) ==
  Turns(d, f, p, Len(s), ws, [k \in Nat |-> Reader(d)[m]],
        [k \in 1..Len(s) |-> Like(objs, n - 1, s[k])], Stored, c)
LEMMA ElementsTurn ==
  \A objs \in Seq(Object) : \A n \in 1..Len(objs) : \A s \in Seq(Stored) : \A ws, d, f, p, m, c :
    Elements(objs, n, s, ws, d, p, m, c) => TurnOfEach(objs, n, s, ws, d, f, p, m, c)
<1> SUFFICES ASSUME NEW objs \in Seq(Object), NEW n \in 1..Len(objs), NEW s \in Seq(Stored), NEW ws,
                    NEW d, NEW f, NEW p, NEW m, NEW c, Elements(objs, n, s, ws, d, p, m, c)
             PROVE  TurnOfEach(objs, n, s, ws, d, f, p, m, c)
  OBVIOUS
<1>a. /\ \A k \in 1..Len(s) : ValueRight(objs, n - 1, s[k]) /\ ws[k] = Writer(objs)[n - 1][s[k]]
      /\ Len(d) \in Nat /\ p \in Nat /\ m \in 0..Len(d) /\ m >= (Len(d) + 1) - p
      /\ c = IF \E k \in DOMAIN s : s[k].t \in Handle THEN 2 ELSE 0
  BY DEF Elements
<1> USE <1>a
<1>0. n - 1 \in 0..Len(objs) /\ DOMAIN s = 1..Len(s) /\ Len(s) \in Nat
  OBVIOUS
<1>1. PICK reads, Rs : reads = [k \in Nat |-> Reader(d)[m]] /\ Rs = [k \in 1..Len(s) |-> Like(objs, n - 1, s[k])]
  OBVIOUS
<1>2. ASSUME NEW k \in 1..Len(s)
      PROVE  /\ Growing(Rs[k]) /\ \A h \in Heaps : Rs[k][h] \subseteq Stored
             /\ TakesTurn(d, f, p, ws[k], reads[k], Rs[k], c)
  <2>1. PICK R, w, x : R = Rs[k] /\ w = ws[k] /\ x = s[k]
    OBVIOUS
  <2>2. R = Like(objs, n - 1, x) /\ reads[k] = Reader(d)[m] /\ w = Writer(objs)[n - 1][x]
    BY <1>0, <1>1, <2>1
  <2>3. Growing(R) /\ \A h \in Heaps : R[h] \subseteq Stored
    BY <1>0, <2>2, LikeGrowing
  <2>4. ASSUME NEW q \in Nat, NEW h \in Heaps, q >= p, Cutting(d, f, q, w)
        PROVE  Outcome(d, q + Len(w), h, Reader(d)[m][<<q, h>>], R, c)
    <3>1. m >= (Len(d) + 1) - q
      BY <2>4
    <3>2. ReadRight(objs, n - 1, x, w, d, f, q, m, h)
      BY <2>1, <2>2 DEF ValueRight
    <3>3. Outcome(d, q + Len(w), h, Reader(d)[m][<<q, h>>], R, Allocates(objs, x))
      BY <2>2, <2>4, <3>1, <3>2 DEF ReadRight
    <3>4. (c = 0 => Allocates(objs, x) = 0) /\ c # 1
      BY <1>0, <2>1 DEF Allocates
    <3> QED
      BY <3>3, <3>4, OutcomeWeaker
  <2>5. TakesTurn(d, f, p, w, reads[k], R, c)
    BY <2>2, <2>4 DEF TakesTurn
  <2> QED
    BY <2>1, <2>3, <2>5
<1>3. c # 1
  OBVIOUS
<1> QED
  BY <1>1, <1>2, <1>3 DEF Turns, TurnOfEach

\* What is written of a list.
ListWritten(objs, n, v, s, ws, b, tag, w) ==
  /\ s \in Seq(Stored) /\ s = objs[v.v].data /\ v.v \in DOMAIN objs /\ objs[v.v].kind = "List"
  /\ v \in Stored /\ v.t = "List" /\ v.t \in Handle /\ v.t \in DOMAIN TagOf
  /\ ws \in Seq(Seq(Int)) /\ Len(ws) = Len(s) /\ \A k \in 1..Len(s) : ws[k] = Writer(objs)[n - 1][s[k]]
  /\ b = Numbered(ws) /\ b \in Seq(Int) /\ tag = TagOf[v.t] /\ tag \in Int
  /\ w = <<tag>> \o b /\ w \in Seq(Int) /\ w = Writer(objs)[n][v]
LEMMA ListIsWritten ==
  \A objs \in Seq(Object) : \A n \in 1..Len(objs) : \A v :
    Good(objs, n, v) /\ v.t = "List" /\ (\A x : Good(objs, n - 1, x) => ValueRight(objs, n - 1, x))
      => \E s, ws, b, tag, w : ListWritten(objs, n, v, s, ws, b, tag, w)
<1> SUFFICES ASSUME NEW objs \in Seq(Object), NEW n \in 1..Len(objs), NEW v, Good(objs, n, v), v.t = "List",
                    \A x : Good(objs, n - 1, x) => ValueRight(objs, n - 1, x)
             PROVE  \E s, ws, b, tag, w : ListWritten(objs, n, v, s, ws, b, tag, w)
  OBVIOUS
<1>0. v \in Stored /\ v.t \in Handle /\ v.t \in DOMAIN TagOf /\ n \in 0..Len(objs)
  BY StoredFacts DEF Good, Handle
<1>1. PICK w, s : w = Writer(objs)[n][v] /\ s = objs[v.v].data
  OBVIOUS
<1>3. /\ s \in Seq(Stored) /\ v.v \in DOMAIN objs /\ objs[v.v].kind = "List"
      /\ \A k \in DOMAIN s : Good(objs, n - 1, s[k])
  BY <1>0, <1>1, HandleResolves
<1>4. PICK write : write = Writer(objs)[n - 1]
  OBVIOUS
<1>5. PICK ws : ws = [k \in DOMAIN s |-> write[s[k]]]
  OBVIOUS
<1>6. \A k \in DOMAIN s : ws[k] \in Seq(Int)
  BY <1>3, <1>4, <1>5 DEF ValueRight
<1>7. ws \in Seq(Seq(Int)) /\ Len(ws) = Len(s) /\ DOMAIN s = 1..Len(s)
  <2>1. IsSequence(s)
    BY <1>3 DEF IsSequence
  <2>2. ws = [k \in DOMAIN s |-> ws[k]]
    BY <1>5
  <2> QED
    BY <1>6, <2>1, <2>2, SameLength
<1>8. PICK tag : tag = TagOf[v.t] /\ tag \in Int /\ tag = TagOf.List
  BY <1>0, TagFacts
<1>9. PICK b : b = Numbered(ws) /\ b \in Seq(Int)
  <2>1. Numbered(ws) \in Seq(Int)
    BY <1>7, NumberedLies
  <2> QED
    BY <2>1
<1>10. w = <<tag>> \o b
  <2>1. w = WriteNested(objs, Below(Writer(objs), n), v)
    BY <1>0, <1>1, WriterWrites
  <2>2. Below(Writer(objs), n) = write
    BY <1>4 DEF Below
  <2>3. w = <<tag>> \o Counted(LAMBDA e : write[e], s)
    <3>1. WriteNested(objs, write, v) = WriteList(write, objs[v.v].data)
      BY DEF WriteNested
    <3>2. WriteList(write, s) = <<TagOf.List>> \o Counted(LAMBDA e : write[e], s)
      BY DEF WriteList
    <3>3. w = WriteList(write, s)
      BY <1>1, <2>1, <2>2, <3>1
    <3> QED
      BY <1>8, <3>2, <3>3
  <2>4. Counted(LAMBDA e : write[e], s) = b
    BY <1>5, <1>7, <1>9 DEF Counted, Each, Numbered, Flat
  <2> QED
    BY <2>3, <2>4
<1>11. w \in Seq(Int)
  BY <1>8, <1>9, <1>10
<1> QED
  BY <1>0, <1>1, <1>3, <1>4, <1>5, <1>7, <1>8, <1>9, <1>10, <1>11 DEF ListWritten

\* A copy of a list, with copies of its elements.
LEMMA ListLike ==
  \A objs \in Seq(Object) : \A n \in 1..Len(objs) : \A v, s, ws, b, tag, w, xs : \A h, g \in Heaps :
    /\ ListWritten(objs, n, v, s, ws, b, tag, w)
    /\ xs \in AllOf([k \in 1..Len(s) |-> Like(objs, n - 1, s[k])], Len(s), Stored)[h]
    /\ Grown(h, [kind |-> v.t, data |-> xs], g)
    => [t |-> v.t, v |-> Len(h) + 1] \in Like(objs, n, v)[g]
<1> SUFFICES ASSUME NEW objs \in Seq(Object), NEW n \in 1..Len(objs), NEW v, NEW s, NEW ws, NEW b, NEW tag, NEW w,
                    NEW xs, NEW h \in Heaps, NEW g \in Heaps,
                    ListWritten(objs, n, v, s, ws, b, tag, w),
                    xs \in AllOf([k \in 1..Len(s) |-> Like(objs, n - 1, s[k])], Len(s), Stored)[h],
                    Grown(h, [kind |-> v.t, data |-> xs], g)
             PROVE  [t |-> v.t, v |-> Len(h) + 1] \in Like(objs, n, v)[g]
  OBVIOUS
<1>0. n - 1 \in 0..Len(objs) /\ n \in 0..Len(objs) /\ n # 0
  OBVIOUS
<1>1. PICK c, l : c = [t |-> v.t, v |-> Len(h) + 1] /\ l = Len(h) + 1
  OBVIOUS
<1>2. PICK obj : obj = [kind |-> v.t, data |-> xs]
  OBVIOUS
<1>3. /\ l \in DOMAIN g /\ g[l] = obj /\ c.t = v.t /\ c.v = l /\ l \in Int /\ Grows(h, g)
      /\ obj.kind = v.t /\ obj.data = xs
  BY <1>1, <1>2 DEF Grown
<1>4. c \in Stored
  BY <1>1, <1>3, StoredFacts DEF ListWritten
<1>5. s \in Seq(Stored) /\ s = objs[v.v].data /\ objs[v.v].kind = "List" /\ v.t = "List" /\ v.t \in Handle /\ v \in Stored
  BY DEF ListWritten
<1>6. DOMAIN s = 1..Len(s)
  BY <1>5
<1>7. xs \in Seq(Stored) /\ Len(xs) = Len(s) /\ \A k \in 1..Len(s) : xs[k] \in Like(objs, n - 1, s[k])[h]
  BY DEF AllOf
<1>8. ASSUME NEW k \in 1..Len(s) PROVE <<s[k], xs[k]>> \in Likes(objs, g)[n - 1]
  <2>1. <<s[k], xs[k]>> \in Likes(objs, h)[n - 1]
    BY <1>7 DEF Like
  <2>2. StaysLike(objs, n - 1)
    BY <1>0, LikesGrow
  <2> QED
    BY <1>3, <2>1, <2>2 DEF StaysLike
<1>9. SameContents(objs, v.v, g, l, Likes(objs, g)[n - 1])
  BY <1>3, <1>5, <1>6, <1>7, <1>8 DEF SameContents
<1>10. SameValue(objs, v, g, c, Before(objs, g, n))
  BY <1>0, <1>3, <1>5, <1>9 DEF SameValue, Refers, Before
<1>11. <<v, c>> \in Likes(objs, g)[n]
  BY <1>0, <1>4, <1>5, <1>10, LikesAre
<1> QED
  BY <1>1, <1>4, <1>11 DEF Like

\* In a heap without objects there are no copies of handles.
LEMMA NoHandleYet ==
  \A objs \in Seq(Object) : \A n \in 1..Len(objs) : \A s \in Seq(Stored) : \A xs : \A h \in Heaps :
    Len(h) = 0 /\ xs \in AllOf([k \in 1..Len(s) |-> Like(objs, n - 1, s[k])], Len(s), Stored)[h] =>
      Plain([kind |-> "List", data |-> xs])
<1> SUFFICES ASSUME NEW objs \in Seq(Object), NEW n \in 1..Len(objs), NEW s \in Seq(Stored), NEW xs, NEW h \in Heaps,
                    Len(h) = 0, xs \in AllOf([k \in 1..Len(s) |-> Like(objs, n - 1, s[k])], Len(s), Stored)[h]
             PROVE  Plain([kind |-> "List", data |-> xs])
  OBVIOUS
<1>1. xs \in Seq(Stored) /\ Len(xs) = Len(s) /\ \A k \in 1..Len(s) : xs[k] \in Like(objs, n - 1, s[k])[h]
  BY DEF AllOf
<1>2. ASSUME NEW k \in DOMAIN xs PROVE xs[k].t \notin Handle
  <2>1. PICK v, x : v = s[k] /\ x = xs[k]
    OBVIOUS
  <2>2. v \in Stored /\ x \in Stored /\ <<v, x>> \in Likes(objs, h)[n - 1]
    <3>1. k \in 1..Len(s)
      BY <1>1
    <3>2. v \in Stored /\ x \in Stored
      BY <1>1, <2>1, <3>1
    <3>3. x \in Like(objs, n - 1, v)[h]
      BY <1>1, <2>1, <3>1
    <3>4. <<v, x>> \in Likes(objs, h)[n - 1]
      BY <3>3 DEF Like
    <3> QED
      BY <3>2, <3>4
  <2>3. PICK like : SameValue(objs, v, h, x, like)
    <3>1. n - 1 \in 0..Len(objs)
      OBVIOUS
    <3> QED
      BY <2>2, <3>1, LikesAre
  <2>4. DOMAIN h = {}
    <3>1. h \in Seq(Object)
      BY HeapFacts
    <3> QED
      BY <3>1
  <2>5. x.t \notin Handle
    BY <2>3, <2>4 DEF SameValue, Refers
  <2> QED
    BY <2>1, <2>5
<1> QED
  BY <1>2 DEF Plain

\* A list.
LEMMA ListRight ==
  \A objs \in Seq(Object) : \A n \in 1..Len(objs) : \A v :
    Good(objs, n, v) /\ v.t = "List" /\ (\A x : Good(objs, n - 1, x) => ValueRight(objs, n - 1, x))
      => ValueRight(objs, n, v)
<1> SUFFICES ASSUME NEW objs \in Seq(Object), NEW n \in 1..Len(objs), NEW v, Good(objs, n, v), v.t = "List",
                    \A x : Good(objs, n - 1, x) => ValueRight(objs, n - 1, x)
             PROVE  ValueRight(objs, n, v)
  OBVIOUS
<1>0. n \in 0..Len(objs) /\ n # 0
  OBVIOUS
<1>1. PICK s, ws, b, tag, w : ListWritten(objs, n, v, s, ws, b, tag, w)
  BY ListIsWritten
<1>2. /\ s \in Seq(Stored) /\ s = objs[v.v].data /\ objs[v.v].kind = "List"
      /\ v \in Stored /\ v.t = "List" /\ v.t \in Handle /\ v.t \in DOMAIN TagOf
      /\ ws \in Seq(Seq(Int)) /\ Len(ws) = Len(s) /\ \A k \in 1..Len(s) : ws[k] = Writer(objs)[n - 1][s[k]]
      /\ b = Numbered(ws) /\ b \in Seq(Int) /\ tag = TagOf[v.t] /\ tag \in Int
      /\ w = <<tag>> \o b /\ w \in Seq(Int) /\ w = Writer(objs)[n][v]
  BY <1>1 DEF ListWritten
<1>3. \A k \in 1..Len(s) : Good(objs, n - 1, s[k])
  <2>1. \A k \in DOMAIN s : Good(objs, n - 1, s[k])
    BY <1>0, <1>2, HandleResolves
  <2>2. DOMAIN s = 1..Len(s)
    BY <1>2
  <2> QED
    BY <2>1, <2>2
<1>4. PICK c, e : /\ c = IF \E k \in DOMAIN s : s[k].t \in Handle THEN 2 ELSE 0
                  /\ e = Allocates(objs, v)
  OBVIOUS
<1>5. e # 0 /\ (e = 1 => c = 0)
  BY <1>2, <1>4 DEF Allocates, Plain
<1>6. ASSUME NEW d, NEW f, NEW p, NEW o \in Heaps, NEW m \in 0..Len(d), Cutting(d, f, p, w),
             m >= (Len(d) + 1) - p
      PROVE  Outcome(d, p + Len(w), o, Reader(d)[m][<<p, o>>], Like(objs, n, v), e)
  <2>1. PICK read : read = Below(Reader(d), m)
    OBVIOUS
  <2>2. Len(d) \in Nat /\ p \in Nat
    BY <1>6, CutFacts
  <2>3. Reader(d)[m][<<p, o>>] = ReadNested(d, p, o, read)
    <3>1. o \in Seq(Object) /\ p \in Int
      BY <2>2, HeapFacts
    <3> QED
      BY <2>1, <2>2, <3>1, ReaderReads
  <2>4. ReadsTag(d, f, p, o, read, v.t, b)
    BY <1>2, <1>6, TagRead
  <2>5. p + Len(w) = (p + 1) + Len(b) /\ Len(b) \in Nat
    BY <1>2, <2>4 DEF ReadsTag, FirstCut
  <2>6. CASE p <= Len(d)
    <3>1. ReadNested(d, p, o, read) = Allocated("List", ReadElements(d, p + 1, o, read))
      BY <1>2, <2>4, <2>6 DEF ReadsTag, AfterTag
    <3>2. Cutting(d, f, p + 1, b)
      BY <2>4, <2>6 DEF ReadsTag, FirstCut
    <3>3. PICK j : j = m - 1 /\ j \in 0..Len(d) /\ j >= (Len(d) + 1) - (p + 2) /\ p + 2 \in Nat
      BY <1>6, <2>2, <2>6
    <3>4. read = Reader(d)[j]
      <4>1. m # 0
        BY <2>2, <3>3
      <4> QED
        BY <2>1, <3>3, <4>1 DEF Below
    <3>5. PICK reads, Rs : /\ reads = [k \in Nat |-> Reader(d)[j]]
                           /\ Rs = [k \in 1..Len(s) |-> Like(objs, n - 1, s[k])]
      OBVIOUS
    <3>6. Elements(objs, n, s, ws, d, p + 2, j, c)
      BY <1>2, <1>3, <1>4, <2>2, <3>3 DEF Elements
    <3>7. Turns(d, f, (p + 1) + 1, Len(ws), ws, reads, Rs, Stored, c)
      <4>1. TurnOfEach(objs, n, s, ws, d, f, p + 2, j, c)
        BY <1>2, <3>6, ElementsTurn
      <4>2. (p + 1) + 1 = p + 2
        BY <2>2
      <4> QED
        BY <1>2, <3>5, <4>1, <4>2 DEF TurnOfEach
    <3>8. CountRight(d, p + 1, ws, reads, Rs, Stored, c, o)
      BY <1>2, <3>2, <3>7, CountingRight
    <3>9. PICK r, q : r = ReadElements(d, p + 1, o, read) /\ q = (p + 1) + Len(b)
      OBVIOUS
    <3>10. r = Counting(d, p + 1, o, reads)
      BY <3>4, <3>5, <3>9 DEF ReadElements, Counting
    <3>11. Outcome(d, q, o, r, AllOf(Rs, Len(s), Stored), c) /\ q \in Nat
      BY <1>2, <2>2, <2>5, <3>8, <3>9, <3>10 DEF CountRight
    <3>12. CASE q <= Len(d) + 1
      <4>1. PICK h, xs : h = r.objs /\ xs = r.val
        OBVIOUS
      <4>2. /\ IsGot(r) /\ r.at = q /\ h \in Heaps /\ xs \in AllOf(Rs, Len(s), Stored)[h]
            /\ Grows(o, h) /\ (c = 0 => h = o)
        BY <3>11, <3>12, <4>1 DEF Outcome
      <4>3. [kind |-> v.t, data |-> xs] \in Object
        <5>1. xs \in Seq(Stored)
          BY <4>2 DEF AllOf
        <5> QED
          BY <1>2, <5>1 DEF Object
      <4>4. Len(h) = 0 => Plain([kind |-> v.t, data |-> xs])
        BY <1>2, <3>5, <4>2, NoHandleYet
      <4>5. ASSUME NEW g \in Heaps, Grown(h, [kind |-> v.t, data |-> xs], g)
            PROVE  [t |-> v.t, v |-> Len(h) + 1] \in Like(objs, n, v)[g]
        BY <1>1, <3>5, <4>2, <4>5, ListLike
      <4>6. Allocating(objs, n, v, d, q, r, e, o, h)
        BY <1>2, <1>5, <3>11, <3>12, <4>1, <4>2, <4>3, <4>4, <4>5 DEF Allocating
      <4>7. Outcome(d, q, o, Allocated(v.t, r), Like(objs, n, v), e)
        BY <4>2, <4>6, AllocationRight
      <4> QED
        BY <1>2, <2>3, <2>5, <3>1, <3>9, <4>7
    <3>13. CASE ~(q <= Len(d) + 1)
      <4>1. r.at = Eof
        BY <3>11, <3>13 DEF Outcome
      <4>2. Allocated("List", r) = r
        BY <4>1 DEF Allocated, Eof
      <4> QED
        BY <2>3, <2>5, <3>1, <3>9, <3>13, <4>1, <4>2 DEF Outcome
    <3> QED
      BY <3>12, <3>13
  <2>7. CASE ~(p <= Len(d))
    <3>1. ~(p + Len(w) <= Len(d) + 1)
      BY <1>2, <2>4, <2>7 DEF ReadsTag, FirstCut
    <3>2. ReadNested(d, p, o, read) = With(o, Failed(Eof))
      BY <2>4, <2>7 DEF ReadsTag
    <3> QED
      BY <2>3, <3>1, <3>2, NothingRead
  <2> QED
    BY <2>6, <2>7
<1> QED
  BY <1>2, <1>4, <1>6 DEF ValueRight, ReadRight

\* Every value that is at most n lists deep is read as a copy, where the file goes so far.
LEMMA ValuesRight ==
  \A objs \in Seq(Object) : \A n \in 0..Len(objs) : \A v : Good(objs, n, v) => ValueRight(objs, n, v)
<1> SUFFICES ASSUME NEW objs \in Seq(Object)
             PROVE  \A n \in 0..Len(objs) : \A v : Good(objs, n, v) => ValueRight(objs, n, v)
  OBVIOUS
<1> DEFINE Z == {n \in 0..Len(objs) : \A v : Good(objs, n, v) => ValueRight(objs, n, v)}
<1>0. PICK m \in Nat : m = Len(objs)
  OBVIOUS
<1>1. 0 \in Z
  <2>1. ASSUME NEW v, Good(objs, 0, v) PROVE ValueRight(objs, 0, v)
    <3>1. 0 \in 0..Len(objs) /\ v \in Stored
      BY <1>0, <2>1 DEF Good
    <3>2. v.t \notin Handle
      BY <2>1, <3>1, HandleResolves
    <3> QED
      BY <3>1, <3>2, PlainRight
  <2> QED
    BY <1>0, <2>1
<1>2. ASSUME NEW n \in 1..m, n - 1 \in Z PROVE n \in Z
  <2>1. \A x : Good(objs, n - 1, x) => ValueRight(objs, n - 1, x)
    BY <1>2
  <2>2. ASSUME NEW v, Good(objs, n, v) PROVE ValueRight(objs, n, v)
    <3>1. n \in 0..Len(objs) /\ n \in 1..Len(objs) /\ v \in Stored
      BY <1>0, <2>2 DEF Good
    <3>2. CASE v.t \notin Handle
      BY <3>1, <3>2, PlainRight
    <3>3. CASE v.t = "String"
      BY <2>2, <3>1, <3>3, StringRight
    <3>4. CASE v.t = "List"
      BY <2>1, <2>2, <3>1, <3>4, ListRight
    <3> QED
      BY <3>2, <3>3, <3>4 DEF Handle
  <2> QED
    BY <1>0, <2>2
<1> HIDE DEF Z
<1>3. \A n \in 0..m : n \in Z
  BY <1>1, <1>2, StepByStep
<1> QED
  BY <1>0, <1>3 DEF Z

-----------------------------------------------------------------------------
(* Opcodes.                                                                *)

\* An operand that has the kind that its opcode says, and its copies.
Fits(objs, kind, x) == IF kind = "u32" THEN x \in Int ELSE x \in Stored /\ Writable(objs, x)
OperandLike(objs, kind, x) ==
  [h \in Heaps |-> IF kind = "u32" THEN {x} ELSE Like(objs, Len(objs), x)[h]]
OperandRight(objs, kind, x) ==
  /\ WriteOperand(objs, kind, x) \in Seq(Int)
  /\ Growing(OperandLike(objs, kind, x))
  /\ \A h \in Heaps : OperandLike(objs, kind, x)[h] \subseteq Int \cup Stored
  /\ \A d, f, p : \A o \in Heaps :
       Cutting(d, f, p, WriteOperand(objs, kind, x)) =>
         Outcome(d, p + Len(WriteOperand(objs, kind, x)), o, ReadOperand(d, p, o, kind),
                 OperandLike(objs, kind, x), 2)
LEMMA OperandsRight ==
  \A objs \in Seq(Object) : \A kind, x : Fits(objs, kind, x) => OperandRight(objs, kind, x)
<1> SUFFICES ASSUME NEW objs \in Seq(Object), NEW kind, NEW x, Fits(objs, kind, x)
             PROVE  OperandRight(objs, kind, x)
  OBVIOUS
<1>1. PICK w, R : w = WriteOperand(objs, kind, x) /\ R = OperandLike(objs, kind, x)
  OBVIOUS
<1>2. CASE kind = "u32"
  <2>1. x \in Int /\ w = <<x>> /\ w \in Seq(Int) /\ Len(w) = 1
    BY <1>1, <1>2 DEF Fits, WriteOperand
  <2>2. \A h \in Heaps : R[h] = {x}
    BY <1>1, <1>2 DEF OperandLike
  <2>3. Growing(R) /\ \A h \in Heaps : R[h] \subseteq Int \cup Stored
    BY <2>1, <2>2 DEF Growing
  <2>4. ASSUME NEW d, NEW f, NEW p, NEW o \in Heaps, Cutting(d, f, p, w)
        PROVE  Outcome(d, p + Len(w), o, ReadOperand(d, p, o, kind), R, 2)
    <3>1. ReadsOne(d, p + 1, ReadField(d, p), x)
      BY <2>1, <2>4, FieldOnce
    <3>2. ReadOperand(d, p, o, kind) = With(o, ReadField(d, p))
      BY <1>2 DEF ReadOperand
    <3>3. x \in R[o] /\ 2 # 1
      BY <2>2
    <3> QED
      BY <2>1, <3>1, <3>2, <3>3, OnceIsRight
  <2> QED
    BY <1>1, <2>1, <2>3, <2>4 DEF OperandRight
<1>3. CASE kind # "u32"
  <2>0. PICK n \in Nat : n = Len(objs) /\ n \in 0..Len(objs)
    OBVIOUS
  <2>1. Good(objs, n, x)
    BY <1>3, <2>0 DEF Fits, Good, Writable
  <2>2. w = Writer(objs)[n][x]
    BY <1>1, <1>3, <2>0 DEF WriteOperand, WriteValue
  <2>3. ValueRight(objs, n, x)
    BY <2>0, <2>1, ValuesRight
  <2>4. w \in Seq(Int)
    BY <2>2, <2>3 DEF ValueRight
  <2>5. \A h \in Heaps : R[h] = Like(objs, n, x)[h]
    BY <1>1, <1>3, <2>0 DEF OperandLike
  <2>6. Growing(R) /\ \A h \in Heaps : R[h] \subseteq Int \cup Stored
    BY <2>0, <2>5, LikeGrowing DEF Growing
  <2>7. ASSUME NEW d, NEW f, NEW p, NEW o \in Heaps, Cutting(d, f, p, w)
        PROVE  Outcome(d, p + Len(w), o, ReadOperand(d, p, o, kind), R, 2)
    <3>1. PICK m \in Nat : m = Len(d) /\ m \in 0..Len(d) /\ m >= (Len(d) + 1) - p
      BY <2>7, CutFacts
    <3>2. ReadRight(objs, n, x, w, d, f, p, m, o)
      BY <2>2, <2>3, <3>1 DEF ValueRight
    <3>3. ReadOperand(d, p, o, kind) = Reader(d)[m][<<p, o>>]
      BY <1>3, <3>1 DEF ReadOperand, ReadValue
    <3>4. Outcome(d, p + Len(w), o, ReadOperand(d, p, o, kind), Like(objs, n, x), Allocates(objs, x))
      BY <2>7, <3>1, <3>2, <3>3 DEF ReadRight
    <3> QED
      BY <2>5, <3>4 DEF Outcome
  <2> QED
    BY <1>1, <2>4, <2>6, <2>7 DEF OperandRight
<1> QED
  BY <1>2, <1>3

Ops == {Tags[k] : k \in DOMAIN Tags}
Opcodes == [op : Ops, args : Seq(Int \cup Stored)]
\* An opcode with the operands that it takes, and its copies.
FileOpcode(objs) ==
  {i \in Opcodes : /\ Len(i.args) = Len(Operands(i.op))
                   /\ \A k \in 1..Len(i.args) : Fits(objs, Operands(i.op)[k], i.args[k])}
OpcodeLike(objs, i) == [h \in Heaps |-> {j \in Opcodes : SameOpcode(objs, i, h, j)}]

LEMMA TagOfOps == \A op \in Ops : TagOfOp(op) \in DOMAIN Tags /\ Tags[TagOfOp(op)] = op /\ TagOfOp(op) \in Int
<1>1. DOMAIN Tags \subseteq Int
  BY DEF Tags
<1>2. ASSUME NEW op \in Ops PROVE TagOfOp(op) \in DOMAIN Tags /\ Tags[TagOfOp(op)] = op
  BY DEF Ops, TagOfOp
<1> QED
  BY <1>1, <1>2

LEMMA OpcodeGrowing ==
  \A objs \in Seq(Object) : \A i :
    Growing(OpcodeLike(objs, i)) /\ \A h \in Heaps : OpcodeLike(objs, i)[h] \subseteq Opcodes
<1> SUFFICES ASSUME NEW objs \in Seq(Object), NEW i
             PROVE  Growing(OpcodeLike(objs, i)) /\ \A h \in Heaps : OpcodeLike(objs, i)[h] \subseteq Opcodes
  OBVIOUS
<1>1. \A h \in Heaps : OpcodeLike(objs, i)[h] = {j \in Opcodes : SameOpcode(objs, i, h, j)}
  BY DEF OpcodeLike
<1>2. StaysLike(objs, Len(objs))
  <2>1. Len(objs) \in 0..Len(objs)
    OBVIOUS
  <2> QED
    BY <2>1, LikesGrow
<1>3. ASSUME NEW a \in Heaps, NEW b \in Heaps, Grows(a, b), NEW j, SameOpcode(objs, i, a, j)
      PROVE  SameOpcode(objs, i, b, j)
  BY <1>2, <1>3 DEF SameOpcode, Copied, StaysLike
<1> QED
  BY <1>1, <1>3 DEF Growing

\* What is written of the operands of an opcode.
OperandFields(objs, i) ==
  [k \in DOMAIN i.args |-> WriteOperand(objs, Operands(i.op)[k], i.args[k])]
OperandReaders(d, op) == [k \in Nat |-> [x \in Places |-> ReadOperand(d, x[1], x[2], Operands(op)[k])]]
OperandCopies(objs, i) == [k \in 1..Len(i.args) |-> OperandLike(objs, Operands(i.op)[k], i.args[k])]
OpcodeWritten(objs, i) ==
  /\ OperandFields(objs, i) \in Seq(Seq(Int)) /\ Len(OperandFields(objs, i)) = Len(i.args)
  /\ Flat(OperandFields(objs, i)) \in Seq(Int)
  /\ WriteOpcode(objs, i) = <<TagOfOp(i.op) - 1>> \o Flat(OperandFields(objs, i))
  /\ WriteOpcode(objs, i) \in Seq(Int)
LEMMA OpcodeIsWritten ==
  \A objs \in Seq(Object) : \A i \in FileOpcode(objs) : OpcodeWritten(objs, i)
<1> SUFFICES ASSUME NEW objs \in Seq(Object), NEW i \in FileOpcode(objs) PROVE OpcodeWritten(objs, i)
  OBVIOUS
<1>1. PICK ws, s : ws = OperandFields(objs, i) /\ s = i.args
  OBVIOUS
<1>2. /\ i.op \in Ops /\ s \in Seq(Int \cup Stored) /\ DOMAIN s = 1..Len(s)
      /\ \A k \in 1..Len(s) : Fits(objs, Operands(i.op)[k], s[k])
  BY <1>1 DEF FileOpcode, Opcodes
<1>3. ws = [k \in DOMAIN s |-> WriteOperand(objs, Operands(i.op)[k], s[k])]
  BY <1>1 DEF OperandFields
<1>4. \A k \in DOMAIN s : ws[k] \in Seq(Int)
  BY <1>2, <1>3, OperandsRight DEF OperandRight
<1>5. ws \in Seq(Seq(Int)) /\ Len(ws) = Len(s)
  <2>1. IsSequence(s)
    BY <1>2 DEF IsSequence
  <2>2. ws = [k \in DOMAIN s |-> ws[k]]
    BY <1>3
  <2> QED
    BY <1>4, <2>1, <2>2, SameLength
<1>6. Flat(ws) \in Seq(Int)
  BY <1>5, Flattened DEF Flat
<1>7. WriteOpcode(objs, i) = <<TagOfOp(i.op) - 1>> \o Flat(ws)
  <2>1. PICK ks : ks = [k \in DOMAIN s |-> k]
    OBVIOUS
  <2>2. [k \in DOMAIN ks |-> WriteOperand(objs, Operands(i.op)[ks[k]], s[ks[k]])] = ws
    BY <1>3, <2>1
  <2>3. Each(LAMBDA k : WriteOperand(objs, Operands(i.op)[k], s[k]), ks) = Flat(ws)
    BY <2>2 DEF Each, Flat
  <2>4. WriteOpcode(objs, i)
          = <<TagOfOp(i.op) - 1>> \o Each(LAMBDA k : WriteOperand(objs, Operands(i.op)[k], s[k]), ks)
    BY <1>1, <2>1 DEF WriteOpcode
  <2> QED
    BY <2>3, <2>4
<1>8. WriteOpcode(objs, i) \in Seq(Int)
  <2>1. PICK t \in Int : t = TagOfOp(i.op) - 1
    BY <1>2, TagOfOps
  <2> QED
    BY <1>6, <1>7, <2>1
<1> QED
  BY <1>1, <1>5, <1>6, <1>7, <1>8 DEF OpcodeWritten

OperandsInTurn(objs, i, d, f, p) ==
  Turns(d, f, p, Len(i.args), OperandFields(objs, i), OperandReaders(d, i.op), OperandCopies(objs, i),
        Int \cup Stored, 2)
LEMMA OperandsTurn ==
  \A objs \in Seq(Object) : \A i \in FileOpcode(objs) : \A d, f, p : OperandsInTurn(objs, i, d, f, p)
<1> SUFFICES ASSUME NEW objs \in Seq(Object), NEW i \in FileOpcode(objs), NEW d, NEW f, NEW p
             PROVE  OperandsInTurn(objs, i, d, f, p)
  OBVIOUS
<1>1. PICK ws, reads, Rs, n : /\ ws = OperandFields(objs, i) /\ reads = OperandReaders(d, i.op)
                              /\ Rs = OperandCopies(objs, i) /\ n = Len(i.args)
  OBVIOUS
<1>2. n \in Nat /\ DOMAIN i.args = 1..n /\ \A k \in 1..n : Fits(objs, Operands(i.op)[k], i.args[k])
  BY <1>1 DEF FileOpcode, Opcodes
<1>3. ASSUME NEW k \in 1..n
      PROVE  /\ Growing(Rs[k]) /\ \A h \in Heaps : Rs[k][h] \subseteq Int \cup Stored
             /\ TakesTurn(d, f, p, ws[k], reads[k], Rs[k], 2)
  <2>1. PICK kind, x, R, w : kind = Operands(i.op)[k] /\ x = i.args[k] /\ R = Rs[k] /\ w = ws[k]
    OBVIOUS
  <2>2. R = OperandLike(objs, kind, x) /\ w = WriteOperand(objs, kind, x)
    BY <1>1, <1>2, <2>1 DEF OperandCopies, OperandFields
  <2>3. OperandRight(objs, kind, x)
    BY <1>2, <2>1, OperandsRight
  <2>4. Growing(R) /\ \A h \in Heaps : R[h] \subseteq Int \cup Stored
    BY <2>2, <2>3 DEF OperandRight
  <2>5. ASSUME NEW q \in Nat, NEW h \in Heaps, Cutting(d, f, q, w)
        PROVE  Outcome(d, q + Len(w), h, reads[k][<<q, h>>], R, 2)
    <3>1. Outcome(d, q + Len(w), h, ReadOperand(d, q, h, kind), R, 2)
      BY <2>2, <2>3, <2>5 DEF OperandRight
    <3>2. PICK x2 : x2 = <<q, h>>
      OBVIOUS
    <3>3. x2 \in Places /\ x2[1] = q /\ x2[2] = h
      BY <3>2, HeapFacts DEF Places
    <3>4. k \in Nat
      BY <1>2
    <3>5. reads[k] = [x3 \in Places |-> ReadOperand(d, x3[1], x3[2], Operands(i.op)[k])]
      BY <1>1, <3>4 DEF OperandReaders
    <3>6. reads[k][x2] = ReadOperand(d, q, h, kind)
      BY <2>1, <3>3, <3>5
    <3> QED
      BY <3>1, <3>2, <3>6
  <2>6. TakesTurn(d, f, p, w, reads[k], R, 2)
    BY <2>5 DEF TakesTurn
  <2> QED
    BY <2>1, <2>4, <2>6
<1>4. 2 # 1
  OBVIOUS
<1> QED
  BY <1>1, <1>3, <1>4 DEF Turns, OperandsInTurn

\* An opcode of its operands.
LEMMA OpcodeIs ==
  \A op, r : IsGot(r) /\ ~(r.at < 0) =>
    /\ IsGot(Opcode(op, r)) /\ Opcode(op, r).at = r.at /\ Opcode(op, r).objs = r.objs
    /\ Opcode(op, r).val = [op |-> op, args |-> r.val]
<1> SUFFICES ASSUME NEW op, NEW r, IsGot(r), ~(r.at < 0)
             PROVE  /\ IsGot(Opcode(op, r)) /\ Opcode(op, r).at = r.at /\ Opcode(op, r).objs = r.objs
                    /\ Opcode(op, r).val = [op |-> op, args |-> r.val]
  OBVIOUS
<1>1. PICK i, a, xs, o : i = [op |-> op, args |-> r.val] /\ a = r.at /\ xs = r.val /\ o = r.objs
  OBVIOUS
<1>2. r = [at |-> a, val |-> xs, objs |-> o]
  BY <1>1 DEF IsGot
<1>3. PICK z : z = Opcode(op, r)
  OBVIOUS
<1>4. z = [r EXCEPT !.val = i]
  BY <1>1, <1>3 DEF Opcode
<1>5. z = [at |-> a, val |-> i, objs |-> o]
  BY <1>2, <1>4
<1>6. z.at = a /\ z.val = i /\ z.objs = o
  BY <1>5
<1>7. IsGot(z)
  BY <1>5, <1>6 DEF IsGot
<1> QED
  BY <1>1, <1>3, <1>6, <1>7

LEMMA OpcodeOfCopies ==
  \A objs \in Seq(Object) : \A i \in FileOpcode(objs) : \A h \in Heaps : \A xs :
    xs \in AllOf(OperandCopies(objs, i), Len(i.args), Int \cup Stored)[h] =>
      [op |-> i.op, args |-> xs] \in OpcodeLike(objs, i)[h]
<1> SUFFICES ASSUME NEW objs \in Seq(Object), NEW i \in FileOpcode(objs), NEW h \in Heaps, NEW xs,
                    xs \in AllOf(OperandCopies(objs, i), Len(i.args), Int \cup Stored)[h]
             PROVE  [op |-> i.op, args |-> xs] \in OpcodeLike(objs, i)[h]
  OBVIOUS
<1>1. PICK s, n, j : s = i.args /\ n = Len(s) /\ j = [op |-> i.op, args |-> xs]
  OBVIOUS
<1>2. i.op \in Ops /\ s \in Seq(Int \cup Stored) /\ DOMAIN s = 1..n
  BY <1>1 DEF FileOpcode, Opcodes
<1>3. /\ xs \in Seq(Int \cup Stored) /\ Len(xs) = n
      /\ \A k \in 1..n : xs[k] \in OperandCopies(objs, i)[k][h]
  BY <1>1 DEF AllOf
<1>4. j \in Opcodes /\ j.op = i.op /\ j.args = xs
  BY <1>1, <1>2, <1>3 DEF Opcodes
<1>5. ASSUME NEW k \in DOMAIN s
      PROVE  IF Operands(i.op)[k] = "u32" THEN s[k] = xs[k] ELSE Copied(objs, s[k], h, xs[k])
  <2>1. PICK kind, x, y : kind = Operands(i.op)[k] /\ x = s[k] /\ y = xs[k]
    OBVIOUS
  <2>2. y \in OperandLike(objs, kind, x)[h]
    BY <1>1, <1>2, <1>3, <2>1 DEF OperandCopies
  <2>3. CASE kind = "u32"
    <3>1. OperandLike(objs, kind, x)[h] = {x}
      BY <2>3 DEF OperandLike
    <3> QED
      BY <2>1, <2>2, <2>3, <3>1
  <2>4. CASE kind # "u32"
    <3>1. OperandLike(objs, kind, x)[h] = Like(objs, Len(objs), x)[h]
      BY <2>4 DEF OperandLike
    <3>2. <<x, y>> \in Likes(objs, h)[Len(objs)]
      BY <2>2, <3>1 DEF Like
    <3> QED
      BY <2>1, <2>4, <3>2 DEF Copied
  <2> QED
    BY <2>3, <2>4
<1>6. SameOpcode(objs, i, h, j)
  BY <1>1, <1>3, <1>4, <1>5 DEF SameOpcode
<1> QED
  BY <1>1, <1>4, <1>6 DEF OpcodeLike

OpcodeRight(objs, i) ==
  /\ WriteOpcode(objs, i) \in Seq(Int)
  /\ \A d, f, p : \A o \in Heaps :
       Cutting(d, f, p, WriteOpcode(objs, i)) =>
         Outcome(d, p + Len(WriteOpcode(objs, i)), o, ReadOpcode(d, p, o), OpcodeLike(objs, i), 2)
LEMMA OpcodesRight ==
  \A objs \in Seq(Object) : \A i \in FileOpcode(objs) : OpcodeRight(objs, i)
<1> SUFFICES ASSUME NEW objs \in Seq(Object), NEW i \in FileOpcode(objs) PROVE OpcodeRight(objs, i)
  OBVIOUS
<1>1. PICK ws, s, b, w, t : /\ ws = OperandFields(objs, i) /\ s = i.args /\ b = Flat(ws)
                            /\ w = WriteOpcode(objs, i) /\ t = TagOfOp(i.op) - 1
  OBVIOUS
<1>2. /\ ws \in Seq(Seq(Int)) /\ Len(ws) = Len(s) /\ b \in Seq(Int) /\ w \in Seq(Int) /\ w = <<t>> \o b
  BY <1>1, OpcodeIsWritten DEF OpcodeWritten
<1>3. i.op \in Ops /\ Len(s) = Len(Operands(i.op))
  BY <1>1 DEF FileOpcode, Opcodes
<1>4. t \in Int /\ t + 1 \in DOMAIN Tags /\ Tags[t + 1] = i.op
  <2>1. PICK k \in Int : k = TagOfOp(i.op) /\ k \in DOMAIN Tags /\ Tags[k] = i.op
    BY <1>3, TagOfOps
  <2>2. t = k - 1 /\ t + 1 = k
    BY <1>1, <2>1
  <2> QED
    BY <2>1, <2>2
<1>5. ASSUME NEW d, NEW f, NEW p, NEW o \in Heaps, Cutting(d, f, p, w)
      PROVE  Outcome(d, p + Len(w), o, ReadOpcode(d, p, o), OpcodeLike(objs, i), 2)
  <2>1. FirstCut(d, f, p, t, b)
    BY <1>2, <1>4, <1>5, CutFirst
  <2>2. p + Len(w) = p + 1 + Len(b) /\ p \in Nat /\ Len(b) \in Nat
    BY <1>2, <2>1 DEF FirstCut
  <2>3. CASE p <= Len(d)
    <3>1. d[p] = t /\ Cutting(d, f, p + 1, b) /\ ~(Field(d, p) < 0)
      BY <2>1, <2>3 DEF FirstCut
    <3>2. PICK reads, Rs : reads = OperandReaders(d, i.op) /\ Rs = OperandCopies(objs, i)
      OBVIOUS
    <3>3. Turns(d, f, p + 1, Len(ws), ws, reads, Rs, Int \cup Stored, 2)
      BY <1>1, <1>2, <3>2, OperandsTurn DEF OperandsInTurn
    <3>4. FlatRight(d, p + 1, ws, reads, Rs, Int \cup Stored, 2, o)
      BY <1>1, <1>2, <3>1, <3>3, FlatIsRight
    <3>5. PICK r, q : r = Repeat(Len(ws), With(o, Done(p + 1, <<>>)), reads) /\ q = p + Len(w)
      OBVIOUS
    <3>6. Outcome(d, q, o, r, AllOf(Rs, Len(s), Int \cup Stored), 2)
      BY <1>1, <1>2, <2>2, <3>4, <3>5 DEF FlatRight
    <3>7. ReadOpcode(d, p, o) = Opcode(i.op, r)
      <4>1. r = Repeat(Len(Operands(i.op)), With(o, Done(p + 1, <<>>)), OperandReaders(d, i.op))
        BY <1>2, <1>3, <3>2, <3>5
      <4>2. d[p] + 1 \in DOMAIN Tags /\ Tags[d[p] + 1] = i.op
        BY <1>4, <3>1
      <4> QED
        BY <3>1, <4>1, <4>2 DEF ReadOpcode, OperandReaders
    <3>8. CASE q <= Len(d) + 1
      <4>1. IsGot(r) /\ r.at = q /\ r.objs \in Heaps /\ r.val \in AllOf(Rs, Len(s), Int \cup Stored)[r.objs]
            /\ Grows(o, r.objs)
        BY <3>6, <3>8 DEF Outcome
      <4>2. ~(r.at < 0)
        BY <2>2, <3>5, <4>1
      <4>3. PICK z : z = Opcode(i.op, r)
        OBVIOUS
      <4>4. IsGot(z) /\ z.at = q /\ z.objs = r.objs /\ z.val = [op |-> i.op, args |-> r.val]
        BY <4>1, <4>2, <4>3, OpcodeIs
      <4>5. z.val \in OpcodeLike(objs, i)[z.objs]
        BY <1>1, <3>2, <4>1, <4>4, OpcodeOfCopies
      <4> QED
        BY <3>5, <3>7, <3>8, <4>1, <4>3, <4>4, <4>5 DEF Outcome
    <3>9. CASE ~(q <= Len(d) + 1)
      <4>1. r.at = Eof
        BY <3>6, <3>9 DEF Outcome
      <4>2. Opcode(i.op, r) = r
        BY <4>1 DEF Opcode, Eof
      <4> QED
        BY <3>5, <3>7, <3>9, <4>1, <4>2 DEF Outcome
    <3> QED
      BY <3>8, <3>9
  <2>4. CASE ~(p <= Len(d))
    <3>1. Field(d, p) = Eof /\ Field(d, p) < 0 /\ ~(p + Len(w) <= Len(d) + 1)
      BY <1>2, <2>1, <2>4 DEF FirstCut
    <3>2. ReadOpcode(d, p, o) = With(o, Failed(Eof))
      BY <3>1 DEF ReadOpcode
    <3> QED
      BY <3>1, <3>2, NothingRead
  <2> QED
    BY <2>3, <2>4
<1> QED
  BY <1>1, <1>2, <1>5 DEF OpcodeRight

LEMMA AllOfGrows ==
  \A Rs, vals : \A n \in Nat : (\A k \in 1..n : Growing(Rs[k])) =>
    Growing(AllOf(Rs, n, vals)) /\ \A h \in Heaps : AllOf(Rs, n, vals)[h] \subseteq Seq(vals)
<1> SUFFICES ASSUME NEW Rs, NEW vals, NEW n \in Nat, \A k \in 1..n : Growing(Rs[k])
             PROVE  /\ Growing(AllOf(Rs, n, vals))
                    /\ \A h \in Heaps : AllOf(Rs, n, vals)[h] \subseteq Seq(vals)
  OBVIOUS
<1>1. \A h \in Heaps : AllOf(Rs, n, vals)[h]
                         = {xs \in Seq(vals) : Len(xs) = n /\ \A k \in 1..n : xs[k] \in Rs[k][h]}
  BY DEF AllOf
<1>2. ASSUME NEW a \in Heaps, NEW b \in Heaps, Grows(a, b), NEW k \in 1..n PROVE Rs[k][a] \subseteq Rs[k][b]
  BY <1>2 DEF Growing
<1> QED
  BY <1>1, <1>2 DEF Growing

\* The code of a function.
CodeFields(objs, code) == [k \in DOMAIN code |-> WriteOpcode(objs, code[k])]
CodeReaders(d) == [k \in Nat |-> [x \in Places |-> ReadOpcode(d, x[1], x[2])]]
CodeCopies(objs, code) == [k \in 1..Len(code) |-> OpcodeLike(objs, code[k])]
CodeLike(objs, code) == AllOf(CodeCopies(objs, code), Len(code), Opcodes)
WriteCode(objs, code) == Counted(LAMBDA i : WriteOpcode(objs, i), code)
CodeRight(objs, code) ==
  /\ WriteCode(objs, code) \in Seq(Int)
  /\ Growing(CodeLike(objs, code)) /\ \A h \in Heaps : CodeLike(objs, code)[h] \subseteq Seq(Opcodes)
  /\ \A d, f, p : \A o \in Heaps :
       Cutting(d, f, p, WriteCode(objs, code)) =>
         Outcome(d, p + Len(WriteCode(objs, code)), o, ReadCode(d, p, o), CodeLike(objs, code), 2)
LEMMA CodesRight ==
  \A objs \in Seq(Object) : \A code \in Seq(FileOpcode(objs)) : CodeRight(objs, code)
<1> SUFFICES ASSUME NEW objs \in Seq(Object), NEW code \in Seq(FileOpcode(objs)) PROVE CodeRight(objs, code)
  OBVIOUS
<1>1. PICK ws, w, n, Rs : /\ ws = CodeFields(objs, code) /\ w = WriteCode(objs, code) /\ n = Len(code)
                          /\ Rs = CodeCopies(objs, code)
  OBVIOUS
<1>2. n \in Nat /\ DOMAIN code = 1..n /\ \A k \in 1..n : code[k] \in FileOpcode(objs)
  BY <1>1
<1>3. ASSUME NEW k \in 1..n
      PROVE  ws[k] = WriteOpcode(objs, code[k]) /\ OpcodeRight(objs, code[k]) /\ Rs[k] = OpcodeLike(objs, code[k])
  BY <1>1, <1>2, OpcodesRight DEF CodeFields, CodeCopies
<1>4. ws \in Seq(Seq(Int)) /\ Len(ws) = n
  <2>1. IsSequence(code)
    BY DEF IsSequence
  <2>2. ws = [k \in DOMAIN code |-> ws[k]]
    BY <1>1 DEF CodeFields
  <2>3. \A k \in DOMAIN code : ws[k] \in Seq(Int)
    BY <1>2, <1>3 DEF OpcodeRight
  <2> QED
    BY <1>1, <2>1, <2>2, <2>3, SameLength
<1>5. w = Numbered(ws) /\ w \in Seq(Int)
  <2>1. w = <<n>> \o Flat(ws)
    BY <1>1 DEF WriteCode, Counted, Each, Flat, CodeFields
  <2> QED
    BY <1>4, <2>1, NumberedLies DEF Numbered
<1>6. ASSUME NEW k \in 1..n PROVE Growing(Rs[k]) /\ \A h \in Heaps : Rs[k][h] \subseteq Opcodes
  BY <1>3, OpcodeGrowing
<1>7. Growing(CodeLike(objs, code)) /\ \A h \in Heaps : CodeLike(objs, code)[h] \subseteq Seq(Opcodes)
  BY <1>1, <1>2, <1>6, AllOfGrows DEF CodeLike
<1>8. ASSUME NEW d, NEW f, NEW p, NEW o \in Heaps, Cutting(d, f, p, w)
      PROVE  Outcome(d, p + Len(w), o, ReadCode(d, p, o), CodeLike(objs, code), 2)
  <2>1. PICK reads : reads = CodeReaders(d)
    OBVIOUS
  <2>2. ASSUME NEW k \in 1..n PROVE TakesTurn(d, f, p + 1, ws[k], reads[k], Rs[k], 2)
    <3>1. PICK i, v, R : i = code[k] /\ v = ws[k] /\ R = Rs[k]
      OBVIOUS
    <3>2. v = WriteOpcode(objs, i) /\ OpcodeRight(objs, i) /\ R = OpcodeLike(objs, i) /\ k \in Nat
      BY <1>2, <1>3, <3>1
    <3>3. reads[k] = [x \in Places |-> ReadOpcode(d, x[1], x[2])]
      BY <2>1, <3>2 DEF CodeReaders
    <3>4. ASSUME NEW q \in Nat, NEW h \in Heaps, Cutting(d, f, q, v)
          PROVE  Outcome(d, q + Len(v), h, reads[k][<<q, h>>], R, 2)
      <4>1. Outcome(d, q + Len(v), h, ReadOpcode(d, q, h), R, 2)
        BY <3>2, <3>4 DEF OpcodeRight
      <4>2. PICK x : x = <<q, h>>
        OBVIOUS
      <4>3. x \in Places /\ x[1] = q /\ x[2] = h
        BY <4>2, HeapFacts DEF Places
      <4>4. reads[k][x] = ReadOpcode(d, q, h)
        BY <3>3, <4>3
      <4> QED
        BY <4>1, <4>2, <4>4
    <3>5. TakesTurn(d, f, p + 1, v, reads[k], R, 2)
      BY <3>4 DEF TakesTurn
    <3> QED
      BY <3>1, <3>5
  <2>3. Turns(d, f, p + 1, Len(ws), ws, reads, Rs, Opcodes, 2)
    <3>1. 2 # 1
      OBVIOUS
    <3> QED
      BY <1>4, <1>6, <2>2, <3>1 DEF Turns
  <2>4. CountRight(d, p, ws, reads, Rs, Opcodes, 2, o)
    BY <1>4, <1>5, <1>8, <2>3, CountingRight
  <2>5. ReadCode(d, p, o) = Counting(d, p, o, reads)
    BY <2>1 DEF ReadCode, Counting, CodeReaders
  <2> QED
    BY <1>1, <1>4, <1>5, <2>4, <2>5 DEF CountRight, CodeLike
<1> QED
  BY <1>1, <1>5, <1>7, <1>8 DEF CodeRight

\* The parts of a function, as they are written.
LEMMA JoinPair ==
  \A n, ws, w : IsJoin(n, ws, w) /\ ws[n + 1] \in Seq(Int) /\ ws[n + 2] \in Seq(Int) =>
    IsJoin(n + 2, ws, w \o (ws[n + 1] \o ws[n + 2]))
<1> SUFFICES ASSUME NEW n, NEW ws, NEW w, IsJoin(n, ws, w), ws[n + 1] \in Seq(Int), ws[n + 2] \in Seq(Int)
             PROVE  IsJoin(n + 2, ws, w \o (ws[n + 1] \o ws[n + 2]))
  OBVIOUS
<1>1. PICK a, b : a = ws[n + 1] /\ b = ws[n + 2]
  OBVIOUS
<1>2. n \in Nat /\ w \in Seq(Int) /\ a \in Seq(Int) /\ b \in Seq(Int) /\ a \o b \in Seq(Int)
  BY <1>1 DEF IsJoin
<1>3. PICK u : u = (w \o a) \o b
  OBVIOUS
<1>4. IsJoin(n + 1, ws, w \o a)
  BY <1>1, <1>2, JoinMore
<1>5. IsJoin((n + 1) + 1, ws, u)
  <2>1. (n + 1) + 1 = n + 2
    BY <1>2
  <2> QED
    BY <1>1, <1>2, <1>3, <1>4, <2>1, JoinMore
<1>6. u = w \o (a \o b)
  <2>1. PICK v, x, y : v = w \o a /\ x = a \o b /\ y = w \o x
    OBVIOUS
  <2>2. PICK lw \in Nat, la \in Nat, lb \in Nat : lw = Len(w) /\ la = Len(a) /\ lb = Len(b)
    BY <1>2
  <2>3. /\ v \in Seq(Int) /\ Len(v) = lw + la
        /\ \A k \in 1..lw + la : v[k] = IF k <= lw THEN w[k] ELSE a[k - lw]
    BY <1>2, <2>1, <2>2
  <2>4. /\ x \in Seq(Int) /\ Len(x) = la + lb
        /\ \A k \in 1..la + lb : x[k] = IF k <= la THEN a[k] ELSE b[k - la]
    BY <1>2, <2>1, <2>2
  <2>5. /\ u \in Seq(Int) /\ Len(u) = (lw + la) + lb
        /\ \A k \in 1..(lw + la) + lb : u[k] = IF k <= lw + la THEN v[k] ELSE b[k - (lw + la)]
    BY <1>2, <1>3, <2>1, <2>2, <2>3
  <2>6. /\ y \in Seq(Int) /\ Len(y) = lw + (la + lb)
        /\ \A k \in 1..lw + (la + lb) : y[k] = IF k <= lw THEN w[k] ELSE x[k - lw]
    BY <1>2, <2>1, <2>2, <2>4
  <2>7. PICK l \in Nat : l = lw + la + lb
    OBVIOUS
  <2>8. ASSUME NEW k \in 1..l PROVE u[k] = y[k]
    <3>1. CASE k <= lw
      <4>1. k \in 1..lw + la /\ k <= lw + la
        BY <2>7, <3>1
      <4>2. k \in 1..(lw + la) + lb /\ k \in 1..lw + (la + lb)
        BY <2>7
      <4>3. u[k] = v[k]
        BY <2>5, <4>1, <4>2
      <4>4. v[k] = w[k]
        BY <2>3, <3>1, <4>1
      <4>5. y[k] = w[k]
        BY <2>6, <3>1, <4>2
      <4> QED
        BY <4>3, <4>4, <4>5
    <3>2. CASE ~(k <= lw) /\ k <= lw + la
      <4>1. k \in 1..lw + la /\ k - lw \in 1..la + lb /\ k - lw <= la
        BY <2>7, <3>2
      <4>2. k \in 1..(lw + la) + lb /\ k \in 1..lw + (la + lb)
        BY <2>7
      <4>3. u[k] = v[k]
        BY <2>5, <3>2, <4>2
      <4>4. v[k] = a[k - lw]
        BY <2>3, <3>2, <4>1
      <4>5. y[k] = x[k - lw]
        BY <2>6, <3>2, <4>2
      <4>6. x[k - lw] = a[k - lw]
        BY <2>4, <4>1
      <4> QED
        BY <4>3, <4>4, <4>5, <4>6
    <3>3. CASE ~(k <= lw + la)
      <4>1. k - lw \in 1..la + lb /\ ~(k - lw <= la) /\ (k - lw) - la = k - (lw + la) /\ ~(k <= lw)
        BY <2>7, <3>3
      <4>2. k \in 1..(lw + la) + lb /\ k \in 1..lw + (la + lb)
        BY <2>7
      <4>3. u[k] = b[k - (lw + la)]
        BY <2>5, <3>3, <4>2
      <4>4. y[k] = x[k - lw]
        BY <2>6, <4>1, <4>2
      <4>5. x[k - lw] = b[(k - lw) - la]
        BY <2>4, <4>1
      <4> QED
        BY <4>1, <4>3, <4>4, <4>5
    <3> QED
      BY <3>1, <3>2, <3>3
  <2>9. DOMAIN u = 1..l /\ DOMAIN y = 1..l /\ u = [k \in 1..l |-> u[k]] /\ y = [k \in 1..l |-> y[k]]
    BY <2>5, <2>6, <2>7
  <2> QED
    BY <2>1, <2>8, <2>9
<1> QED
  <2>1. (n + 1) + 1 = n + 2
    BY <1>2
  <2> QED
    BY <1>1, <1>5, <1>6, <2>1

FileFunction(objs) == [name : Seq(Int), arity : Int, num_locals : Int, code : Seq(FileOpcode(objs))]
FunctionFields(objs, fn) == <<Run(fn.name), <<fn.arity>>, <<fn.num_locals>>, WriteCode(objs, fn.code)>>
FunctionWritten(objs, fn) ==
  /\ IsJoin(4, FunctionFields(objs, fn), SerializeFunction(objs, fn))
  /\ \A k \in 1..4 : FunctionFields(objs, fn)[k] \in Seq(Int)
LEMMA FunctionIsWritten ==
  \A objs \in Seq(Object) : \A fn \in FileFunction(objs) : FunctionWritten(objs, fn)
<1> SUFFICES ASSUME NEW objs \in Seq(Object), NEW fn \in FileFunction(objs) PROVE FunctionWritten(objs, fn)
  OBVIOUS
<1>1. PICK ws, a, b, x, y :
        /\ ws = FunctionFields(objs, fn) /\ a = Run(fn.name) /\ b = WriteCode(objs, fn.code)
        /\ x = <<fn.arity>> /\ y = <<fn.num_locals>>
  OBVIOUS
<1>2. fn.name \in Seq(Int) /\ fn.arity \in Int /\ fn.num_locals \in Int /\ fn.code \in Seq(FileOpcode(objs))
  BY DEF FileFunction
<1>3. ws[1] = a /\ ws[2] = x /\ ws[3] = y /\ ws[4] = b
  BY <1>1 DEF FunctionFields
<1>4. a \in Seq(Int) /\ b \in Seq(Int) /\ x \in Seq(Int) /\ y \in Seq(Int)
  <2>1. a \in Seq(Int)
    BY <1>1, <1>2, RunReadsBack
  <2>2. b \in Seq(Int)
    BY <1>1, <1>2, CodesRight DEF CodeRight
  <2>3. x \in Seq(Int) /\ y \in Seq(Int)
    BY <1>1, <1>2
  <2> QED
    BY <2>1, <2>2, <2>3
<1>5. IsJoin(1, ws, a)
  BY <1>3, <1>4, JoinOne
<1>6. IsJoin(3, ws, a \o (x \o y))
  <2>1. 1 + 1 = 2 /\ 1 + 2 = 3
    OBVIOUS
  <2>2. ws[1 + 1] = x /\ ws[1 + 2] = y
    BY <1>3, <2>1
  <2> QED
    BY <1>4, <1>5, <2>1, <2>2, JoinPair
<1>7. IsJoin(4, ws, (a \o (x \o y)) \o b)
  BY <1>3, <1>4, <1>6, JoinNext
<1>8. SerializeFunction(objs, fn) = (a \o (x \o y)) \o b
  <2>1. <<fn.arity, fn.num_locals>> = x \o y
    BY <1>1, PairIsJoined
  <2> QED
    BY <1>1, <2>1 DEF SerializeFunction, Run, WriteCode
<1>9. \A k \in 1..4 : ws[k] \in Seq(Int)
  <2>1. \A k \in 1..4 : k = 1 \/ k = 2 \/ k = 3 \/ k = 4
    OBVIOUS
  <2> QED
    BY <1>3, <1>4, <2>1
<1> QED
  BY <1>1, <1>7, <1>8, <1>9 DEF FunctionWritten

ReadFunctions == [name : Seq(Int), arity : Int, num_locals : Int, code : Seq(Opcodes)]
FunctionLike(objs, fn) == [h \in Heaps |-> {g \in ReadFunctions : SameFunction(objs, fn, h, g)}]
LEMMA FunctionGrowing ==
  \A objs \in Seq(Object) : \A fn :
    Growing(FunctionLike(objs, fn)) /\ \A h \in Heaps : FunctionLike(objs, fn)[h] \subseteq ReadFunctions
<1> SUFFICES ASSUME NEW objs \in Seq(Object), NEW fn
             PROVE  /\ Growing(FunctionLike(objs, fn))
                    /\ \A h \in Heaps : FunctionLike(objs, fn)[h] \subseteq ReadFunctions
  OBVIOUS
<1>1. \A h \in Heaps : FunctionLike(objs, fn)[h] = {g \in ReadFunctions : SameFunction(objs, fn, h, g)}
  BY DEF FunctionLike
<1>2. ASSUME NEW a \in Heaps, NEW b \in Heaps, Grows(a, b), NEW g \in ReadFunctions, SameFunction(objs, fn, a, g)
      PROVE  SameFunction(objs, fn, b, g)
  <2>1. ASSUME NEW k \in DOMAIN fn.code, SameOpcode(objs, fn.code[k], a, g.code[k])
        PROVE  SameOpcode(objs, fn.code[k], b, g.code[k])
    <3>1. StaysLike(objs, Len(objs))
      <4>1. Len(objs) \in 0..Len(objs)
        OBVIOUS
      <4> QED
        BY <4>1, LikesGrow
    <3> QED
      BY <1>2, <2>1, <3>1 DEF SameOpcode, Copied, StaysLike
  <2> QED
    BY <1>2, <2>1 DEF SameFunction
<1> QED
  BY <1>1, <1>2 DEF Growing

\* A function of its parts.
LEMMA FunctionIs ==
  \A r : IsGot(r) /\ ~(r.at < 0) =>
    /\ IsGot(Function(r)) /\ Function(r).at = r.at /\ Function(r).objs = r.objs
    /\ Function(r).val = BuildFunction(r.val)
<1> SUFFICES ASSUME NEW r, IsGot(r), ~(r.at < 0)
             PROVE  /\ IsGot(Function(r)) /\ Function(r).at = r.at /\ Function(r).objs = r.objs
                    /\ Function(r).val = BuildFunction(r.val)
  OBVIOUS
<1>1. PICK g, a, xs, o : g = BuildFunction(r.val) /\ a = r.at /\ xs = r.val /\ o = r.objs
  OBVIOUS
<1>2. r = [at |-> a, val |-> xs, objs |-> o]
  BY <1>1 DEF IsGot
<1>3. PICK z : z = Function(r)
  OBVIOUS
<1>4. z = [r EXCEPT !.val = g]
  BY <1>1, <1>3 DEF Function
<1>5. z = [at |-> a, val |-> g, objs |-> o]
  BY <1>2, <1>4
<1>6. z.at = a /\ z.val = g /\ z.objs = o
  BY <1>5
<1>7. IsGot(z)
  BY <1>5, <1>6 DEF IsGot
<1> QED
  BY <1>1, <1>3, <1>6, <1>7

PartLike(objs, fn, k) ==
  [h \in Heaps |-> IF k = 1 THEN {fn.name} ELSE IF k = 2 THEN {fn.arity} ELSE IF k = 3 THEN {fn.num_locals}
                   ELSE CodeLike(objs, fn.code)[h]]
PartCopies(objs, fn) == [k \in 1..4 |-> PartLike(objs, fn, k)]
PartVals == (Seq(Int) \cup Int) \cup Seq(Opcodes)
PartReaders(d) == [k \in Nat |-> [x \in Places |-> ReadFunctionPart(d, x[1], x[2], k)]]
LEMMA FunctionOfCopies ==
  \A objs \in Seq(Object) : \A fn \in FileFunction(objs) : \A h \in Heaps : \A xs :
    xs \in AllOf(PartCopies(objs, fn), 4, PartVals)[h] => BuildFunction(xs) \in FunctionLike(objs, fn)[h]
<1> SUFFICES ASSUME NEW objs \in Seq(Object), NEW fn \in FileFunction(objs), NEW h \in Heaps, NEW xs,
                    xs \in AllOf(PartCopies(objs, fn), 4, PartVals)[h]
             PROVE  BuildFunction(xs) \in FunctionLike(objs, fn)[h]
  OBVIOUS
<1>1. PICK g, code, c : g = BuildFunction(xs) /\ code = fn.code /\ c = xs[4]
  OBVIOUS
<1>2. fn.name \in Seq(Int) /\ fn.arity \in Int /\ fn.num_locals \in Int /\ code \in Seq(FileOpcode(objs))
  BY <1>1 DEF FileFunction
<1>3. ASSUME NEW k \in 1..4 PROVE xs[k] \in PartLike(objs, fn, k)[h]
  BY <1>3 DEF AllOf, PartCopies
<1>4. xs[1] = fn.name /\ xs[2] = fn.arity /\ xs[3] = fn.num_locals /\ c \in CodeLike(objs, code)[h]
  <2>1. 1 \in 1..4 /\ 2 \in 1..4 /\ 3 \in 1..4 /\ 4 \in 1..4
    OBVIOUS
  <2>2. xs[1] \in PartLike(objs, fn, 1)[h] /\ xs[2] \in PartLike(objs, fn, 2)[h]
        /\ xs[3] \in PartLike(objs, fn, 3)[h] /\ xs[4] \in PartLike(objs, fn, 4)[h]
    BY <1>3, <2>1
  <2> QED
    BY <1>1, <2>2 DEF PartLike
<1>5. /\ c \in Seq(Opcodes) /\ Len(c) = Len(code)
      /\ \A k \in 1..Len(code) : c[k] \in OpcodeLike(objs, code[k])[h]
  BY <1>4 DEF CodeLike, AllOf, CodeCopies
<1>6. g.name = fn.name /\ g.arity = fn.arity /\ g.num_locals = fn.num_locals /\ g.code = c /\ g \in ReadFunctions
  <2>1. PICK a, b, e : a = xs[1] /\ b = xs[2] /\ e = xs[3]
    OBVIOUS
  <2>2. g = [name |-> a, arity |-> b, num_locals |-> e, code |-> c]
    BY <1>1, <2>1 DEF BuildFunction
  <2> QED
    BY <1>2, <1>4, <1>5, <2>1, <2>2 DEF ReadFunctions
<1>7. ASSUME NEW k \in DOMAIN code PROVE SameOpcode(objs, code[k], h, c[k])
  <2>1. k \in 1..Len(code)
    BY <1>2
  <2> QED
    BY <1>5, <2>1 DEF OpcodeLike
<1>8. SameFunction(objs, fn, h, g)
  BY <1>1, <1>5, <1>6, <1>7 DEF SameFunction
<1> QED
  BY <1>1, <1>6, <1>8 DEF FunctionLike

\* The reading of each part.
PartTurn(objs, fn, d, f, p, k) ==
  /\ Growing(PartCopies(objs, fn)[k]) /\ \A h \in Heaps : PartCopies(objs, fn)[k][h] \subseteq PartVals
  /\ TakesTurn(d, f, p, FunctionFields(objs, fn)[k], PartReaders(d)[k], PartCopies(objs, fn)[k], 2)
LEMMA PartsTurn ==
  \A objs \in Seq(Object) : \A fn \in FileFunction(objs) : \A d, f, p : \A k \in 1..4 :
    PartTurn(objs, fn, d, f, p, k)
<1> SUFFICES ASSUME NEW objs \in Seq(Object), NEW fn \in FileFunction(objs), NEW d, NEW f, NEW p, NEW k \in 1..4
             PROVE  PartTurn(objs, fn, d, f, p, k)
  OBVIOUS
<1>1. fn.name \in Seq(Int) /\ fn.arity \in Int /\ fn.num_locals \in Int /\ fn.code \in Seq(FileOpcode(objs))
  BY DEF FileFunction
<1>2. PICK R, w, code : R = PartLike(objs, fn, k) /\ w = FunctionFields(objs, fn)[k] /\ code = fn.code
  OBVIOUS
<1>3. R = PartCopies(objs, fn)[k]
  BY <1>2 DEF PartCopies
<1>4. \A q \in Nat : \A h \in Heaps : PartReaders(d)[k][<<q, h>>] = ReadFunctionPart(d, q, h, k)
  <2>1. ASSUME NEW q \in Nat, NEW h \in Heaps PROVE PartReaders(d)[k][<<q, h>>] = ReadFunctionPart(d, q, h, k)
    <3>1. PICK x : x = <<q, h>>
      OBVIOUS
    <3>2. x \in Places /\ x[1] = q /\ x[2] = h
      BY <3>1, HeapFacts DEF Places
    <3>3. k \in Nat
      OBVIOUS
    <3>4. PartReaders(d)[k] = [y \in Places |-> ReadFunctionPart(d, y[1], y[2], k)]
      BY <3>3 DEF PartReaders
    <3>5. PartReaders(d)[k][x] = ReadFunctionPart(d, q, h, k)
      BY <3>2, <3>4
    <3> QED
      BY <3>1, <3>5
  <2> QED
    BY <2>1
<1>5. CASE k \in 1..3
  <2>1. PICK x : /\ x \in PartVals /\ \A h \in Heaps : R[h] = {x}
                 /\ \A q : \A h : Cutting(d, f, q, w) =>
                      \E r : ReadFunctionPart(d, q, h, k) = With(h, r) /\ ReadsOne(d, q + Len(w), r, x)
    <3>1. CASE k = 1
      <4>1. w = Run(fn.name)
        BY <1>2, <3>1 DEF FunctionFields
      <4>2. \A h \in Heaps : R[h] = {fn.name}
        BY <1>2, <3>1 DEF PartLike
      <4>3. ASSUME NEW q, NEW h, Cutting(d, f, q, w)
            PROVE  ReadFunctionPart(d, q, h, k) = With(h, ReadRun(d, q)) /\ ReadsOne(d, q + Len(w), ReadRun(d, q), fn.name)
        <5>1. ReadsOne(d, q + Len(w), ReadRun(d, q), fn.name)
          BY <1>1, <4>1, <4>3, RunOnce
        <5> QED
          BY <3>1, <5>1 DEF ReadFunctionPart
      <4>4. fn.name \in PartVals
        BY <1>1 DEF PartVals
      <4> QED
        BY <4>2, <4>3, <4>4
    <3>2. CASE k \in {2, 3}
      <4>1. PICK x \in Int : x = (IF k = 2 THEN fn.arity ELSE fn.num_locals)
        BY <1>1
      <4>2. w = <<x>> /\ Len(w) = 1
        <5>1. w = <<x>>
          BY <1>2, <3>2, <4>1 DEF FunctionFields
        <5> QED
          BY <5>1
      <4>3. \A h \in Heaps : R[h] = {x}
        BY <1>2, <3>2, <4>1 DEF PartLike
      <4>4. ASSUME NEW q, NEW h, Cutting(d, f, q, w)
            PROVE  ReadFunctionPart(d, q, h, k) = With(h, ReadField(d, q)) /\ ReadsOne(d, q + Len(w), ReadField(d, q), x)
        <5>1. ReadsOne(d, q + 1, ReadField(d, q), x)
          BY <4>2, <4>4, FieldOnce
        <5> QED
          BY <3>2, <4>2, <5>1 DEF ReadFunctionPart
      <4>5. x \in PartVals
        BY DEF PartVals
      <4> QED
        BY <4>3, <4>4, <4>5
    <3>3. k = 1 \/ k \in {2, 3}
      BY <1>5
    <3> QED
      BY <3>1, <3>2, <3>3, Zenon
  <2>2. Growing(R) /\ \A h \in Heaps : R[h] \subseteq PartVals
    BY <2>1 DEF Growing
  <2>3. ASSUME NEW q \in Nat, NEW h \in Heaps, Cutting(d, f, q, w)
        PROVE  Outcome(d, q + Len(w), h, PartReaders(d)[k][<<q, h>>], R, 2)
    <3>1. PICK r : ReadFunctionPart(d, q, h, k) = With(h, r) /\ ReadsOne(d, q + Len(w), r, x)
      BY <2>1, <2>3
    <3>2. x \in R[h] /\ 2 # 1
      BY <2>1
    <3>3. Outcome(d, q + Len(w), h, With(h, r), R, 2)
      BY <3>1, <3>2, OnceIsRight
    <3> QED
      BY <1>4, <3>1, <3>3
  <2>4. TakesTurn(d, f, p, w, PartReaders(d)[k], R, 2)
    BY <2>3 DEF TakesTurn
  <2> QED
    BY <1>2, <1>3, <2>2, <2>4 DEF PartTurn
<1>6. CASE k = 4
  <2>1. w = WriteCode(objs, code)
    BY <1>2, <1>6 DEF FunctionFields
  <2>2. CodeRight(objs, code)
    BY <1>1, <1>2, CodesRight
  <2>3. \A h \in Heaps : R[h] = CodeLike(objs, code)[h]
    BY <1>2, <1>6 DEF PartLike
  <2>4. Growing(R) /\ \A h \in Heaps : R[h] \subseteq PartVals
    BY <2>2, <2>3 DEF CodeRight, Growing, PartVals
  <2>5. ASSUME NEW q \in Nat, NEW h \in Heaps, Cutting(d, f, q, w)
        PROVE  Outcome(d, q + Len(w), h, PartReaders(d)[k][<<q, h>>], R, 2)
    <3>1. Outcome(d, q + Len(w), h, ReadCode(d, q, h), CodeLike(objs, code), 2)
      BY <2>1, <2>2, <2>5 DEF CodeRight
    <3>2. PartReaders(d)[k][<<q, h>>] = ReadCode(d, q, h)
      BY <1>4, <1>6, <2>5 DEF ReadFunctionPart
    <3> QED
      BY <2>3, <3>1, <3>2 DEF Outcome
  <2>6. TakesTurn(d, f, p, w, PartReaders(d)[k], R, 2)
    BY <2>5 DEF TakesTurn
  <2> QED
    BY <1>2, <1>3, <2>4, <2>6 DEF PartTurn
<1> QED
  BY <1>5, <1>6

\* A function, as it is written and read.
FunctionRight(objs, fn) ==
  /\ SerializeFunction(objs, fn) \in Seq(Int)
  /\ \A d, f, p : \A o \in Heaps :
       Cutting(d, f, p, SerializeFunction(objs, fn)) =>
         Outcome(d, p + Len(SerializeFunction(objs, fn)), o, DeserializeFunction(d, p, o),
                 FunctionLike(objs, fn), 2)
LEMMA FunctionsRight ==
  \A objs \in Seq(Object) : \A fn \in FileFunction(objs) : FunctionRight(objs, fn)
<1> SUFFICES ASSUME NEW objs \in Seq(Object), NEW fn \in FileFunction(objs) PROVE FunctionRight(objs, fn)
  OBVIOUS
<1>1. PICK w, ws, Rs : w = SerializeFunction(objs, fn) /\ ws = FunctionFields(objs, fn) /\ Rs = PartCopies(objs, fn)
  OBVIOUS
<1>2. IsJoin(4, ws, w) /\ \A k \in 1..4 : ws[k] \in Seq(Int)
  BY <1>1, FunctionIsWritten DEF FunctionWritten
<1>3. w \in Seq(Int)
  BY <1>2 DEF IsJoin
<1>4. ASSUME NEW d, NEW f, NEW p, NEW o \in Heaps, Cutting(d, f, p, w)
      PROVE  Outcome(d, p + Len(w), o, DeserializeFunction(d, p, o), FunctionLike(objs, fn), 2)
  <2>1. Begins(d, f) /\ Lies(f, p, w) /\ p \in Nat /\ p <= Len(d) + 1 /\ Len(d) \in Nat /\ Len(w) \in Nat
    BY <1>4, CutFacts
  <2>2. PICK at : Lay(at, f, p, 4, ws, w)
    BY <1>2, <2>1 DEF IsJoin
  <2>3. at[0] = p /\ at[4] = p + Len(w)
    BY <2>2 DEF Lay
  <2>4. Looping(d, f, 4, at, ws)
    <3>1. 4 \in Nat
      OBVIOUS
    <3> QED
      BY <1>2, <2>1, <2>2, <3>1 DEF Lay, Looping
  <2>5. PICK reads : reads = PartReaders(d)
    OBVIOUS
  <2>6. Turns(d, f, at[0], 4, ws, reads, Rs, PartVals, 2)
    <3>1. 2 # 1
      OBVIOUS
    <3>2. \A k \in 1..4 : PartTurn(objs, fn, d, f, at[0], k)
      BY PartsTurn
    <3> QED
      BY <1>1, <2>5, <3>1, <3>2 DEF PartTurn, Turns
  <2>7. LoopOutcome(d, 4, at, reads, Rs, PartVals, 2, o)
    BY <2>4, <2>6, LoopRight
  <2>8. PICK r, q : r = Repeat(4, With(o, Done(p, <<>>)), reads) /\ q = p + Len(w)
    OBVIOUS
  <2>9. Outcome(d, q, o, r, AllOf(Rs, 4, PartVals), 2)
    BY <2>3, <2>7, <2>8 DEF LoopOutcome
  <2>10. DeserializeFunction(d, p, o) = Function(r)
    BY <2>5, <2>8 DEF DeserializeFunction, PartReaders
  <2>11. CASE q <= Len(d) + 1
    <3>1. /\ IsGot(r) /\ r.at = q /\ r.objs \in Heaps /\ r.val \in AllOf(Rs, 4, PartVals)[r.objs]
          /\ Grows(o, r.objs)
      BY <2>9, <2>11 DEF Outcome
    <3>2. ~(r.at < 0)
      BY <2>1, <2>8, <3>1
    <3>3. PICK z : z = Function(r)
      OBVIOUS
    <3>4. IsGot(z) /\ z.at = q /\ z.objs = r.objs /\ z.val = BuildFunction(r.val)
      BY <3>1, <3>2, <3>3, FunctionIs
    <3>5. z.val \in FunctionLike(objs, fn)[z.objs]
      BY <1>1, <3>1, <3>4, FunctionOfCopies
    <3> QED
      BY <2>8, <2>10, <2>11, <3>1, <3>3, <3>4, <3>5 DEF Outcome
  <2>12. CASE ~(q <= Len(d) + 1)
    <3>1. r.at = Eof
      BY <2>9, <2>12 DEF Outcome
    <3>2. Function(r) = r
      BY <3>1 DEF Function, Eof
    <3> QED
      BY <2>8, <2>10, <2>12, <3>1, <3>2 DEF Outcome
  <2> QED
    BY <2>11, <2>12
<1> QED
  BY <1>1, <1>3, <1>4 DEF FunctionRight

\* The functions of a module.
FunctionsFields(objs, fns) == [k \in DOMAIN fns |-> SerializeFunction(objs, fns[k])]
FunctionReaders(d) == [k \in Nat |-> [x \in Places |-> DeserializeFunction(d, x[1], x[2])]]
FunctionCopies(objs, fns) == [k \in 1..Len(fns) |-> FunctionLike(objs, fns[k])]
FunctionsInTurn(objs, fns, d, f, p) ==
  /\ FunctionsFields(objs, fns) \in Seq(Seq(Int)) /\ Len(FunctionsFields(objs, fns)) = Len(fns)
  /\ Turns(d, f, p, Len(fns), FunctionsFields(objs, fns), FunctionReaders(d), FunctionCopies(objs, fns),
           ReadFunctions, 2)
LEMMA FunctionsTurn ==
  \A objs \in Seq(Object) : \A fns \in Seq(FileFunction(objs)) : \A d, f, p : FunctionsInTurn(objs, fns, d, f, p)
<1> SUFFICES ASSUME NEW objs \in Seq(Object), NEW fns \in Seq(FileFunction(objs)), NEW d, NEW f, NEW p
             PROVE  FunctionsInTurn(objs, fns, d, f, p)
  OBVIOUS
<1>1. PICK ws, reads, Rs, n : /\ ws = FunctionsFields(objs, fns) /\ reads = FunctionReaders(d)
                              /\ Rs = FunctionCopies(objs, fns) /\ n = Len(fns)
  OBVIOUS
<1>2. n \in Nat /\ DOMAIN fns = 1..n /\ \A k \in 1..n : fns[k] \in FileFunction(objs)
  BY <1>1
<1>3. ASSUME NEW k \in 1..n
      PROVE  /\ ws[k] = SerializeFunction(objs, fns[k]) /\ FunctionRight(objs, fns[k])
             /\ Rs[k] = FunctionLike(objs, fns[k])
  BY <1>1, <1>2, FunctionsRight DEF FunctionsFields, FunctionCopies
<1>4. ws \in Seq(Seq(Int)) /\ Len(ws) = n
  <2>1. IsSequence(fns)
    BY DEF IsSequence
  <2>2. ws = [k \in DOMAIN fns |-> ws[k]]
    BY <1>1 DEF FunctionsFields
  <2>3. \A k \in DOMAIN fns : ws[k] \in Seq(Int)
    BY <1>2, <1>3 DEF FunctionRight
  <2> QED
    BY <1>1, <2>1, <2>2, <2>3, SameLength
<1>5. ASSUME NEW k \in 1..n PROVE Growing(Rs[k]) /\ \A h \in Heaps : Rs[k][h] \subseteq ReadFunctions
  BY <1>3, FunctionGrowing
<1>6. ASSUME NEW k \in 1..n PROVE TakesTurn(d, f, p, ws[k], reads[k], Rs[k], 2)
  <2>1. PICK fn, v, R : fn = fns[k] /\ v = ws[k] /\ R = Rs[k]
    OBVIOUS
  <2>2. v = SerializeFunction(objs, fn) /\ FunctionRight(objs, fn) /\ R = FunctionLike(objs, fn) /\ k \in Nat
    BY <1>2, <1>3, <2>1
  <2>3. reads[k] = [x \in Places |-> DeserializeFunction(d, x[1], x[2])]
    BY <1>1, <2>2 DEF FunctionReaders
  <2>4. ASSUME NEW q \in Nat, NEW h \in Heaps, Cutting(d, f, q, v)
        PROVE  Outcome(d, q + Len(v), h, reads[k][<<q, h>>], R, 2)
    <3>1. Outcome(d, q + Len(v), h, DeserializeFunction(d, q, h), R, 2)
      BY <2>2, <2>4 DEF FunctionRight
    <3>2. PICK x : x = <<q, h>>
      OBVIOUS
    <3>3. x \in Places /\ x[1] = q /\ x[2] = h
      BY <3>2, HeapFacts DEF Places
    <3>4. reads[k][x] = DeserializeFunction(d, q, h)
      BY <2>3, <3>3
    <3> QED
      BY <3>1, <3>2, <3>4
  <2>5. TakesTurn(d, f, p, v, reads[k], R, 2)
    BY <2>4 DEF TakesTurn
  <2> QED
    BY <2>1, <2>5
<1>7. 2 # 1
  OBVIOUS
<1> QED
  BY <1>1, <1>4, <1>5, <1>6, <1>7 DEF Turns, FunctionsInTurn

\* A module file: four fields, then the functions.
ModuleWritten(objs, fns, w, b) ==
  /\ IsSequence(w) /\ Len(w) \in Nat /\ DOMAIN w = 1..Len(w)
  /\ Len(w) = 4 + Len(b) /\ b = Flat(FunctionsFields(objs, fns)) /\ b \in Seq(Int) /\ Len(b) \in Nat
  /\ w[1] = PAUB /\ w[2] = ModuleVersion /\ w[3] = Len(fns) /\ Lies(w, 5, b)
LEMMA ModuleIsWritten ==
  \A objs \in Seq(Object) : \A fns \in Seq(FileFunction(objs)) :
    \E b : ModuleWritten(objs, fns, SerializeModule(objs, fns), b)
<1> SUFFICES ASSUME NEW objs \in Seq(Object), NEW fns \in Seq(FileFunction(objs))
             PROVE  \E b : ModuleWritten(objs, fns, SerializeModule(objs, fns), b)
  OBVIOUS
<1>1. PICK ws, b, n, x, w : /\ ws = FunctionsFields(objs, fns) /\ b = Flat(ws) /\ n = Len(fns)
                            /\ x = Instructions(fns) /\ w = SerializeModule(objs, fns)
  OBVIOUS
<1>2. ws \in Seq(Seq(Int))
  BY <1>1, FunctionsTurn DEF FunctionsInTurn
<1>3. b \in Seq(Int) /\ Len(b) \in Nat
  <2>1. b \in Seq(Int)
    BY <1>1, <1>2, Flattened DEF Flat
  <2> QED
    BY <2>1
<1>4. PICK h : h = <<PAUB, ModuleVersion, n, x>>
  OBVIOUS
<1>5. w = h \o b
  BY <1>1, <1>4 DEF SerializeModule, Each, Flat, FunctionsFields
<1>6. PICK X : X = {PAUB, x} \cup Int
  OBVIOUS
<1>7. h \in Seq(X) /\ b \in Seq(X) /\ Len(h) = 4 /\ h[1] = PAUB /\ h[2] = ModuleVersion /\ h[3] = n
  <2>1. ModuleVersion \in X /\ n \in X /\ PAUB \in X /\ x \in X
    BY <1>1, <1>6 DEF ModuleVersion
  <2>2. h \in Seq(X) /\ Len(h) = 4 /\ h[1] = PAUB /\ h[2] = ModuleVersion /\ h[3] = n
    BY <1>4, <2>1
  <2>3. b \in Seq(X)
    BY <1>3, <1>6
  <2> QED
    BY <2>2, <2>3
<1>8. w \in Seq(X) /\ Comes(w, h, b)
  BY <1>5, <1>7, Appended
<1>9. Len(w) = 4 + Len(b) /\ w[1] = PAUB /\ w[2] = ModuleVersion /\ w[3] = n /\ Lies(w, 5, b) /\ IsSequence(w)
  <2>1. 1 \in 1..4 /\ 2 \in 1..4 /\ 3 \in 1..4 /\ 4 + 1 = 5
    OBVIOUS
  <2> QED
    BY <1>7, <1>8, <2>1 DEF Comes
<1>10. DOMAIN w = 1..Len(w) /\ Len(w) \in Nat
  BY <1>8
<1> QED
  BY <1>1, <1>3, <1>9, <1>10 DEF ModuleWritten

\* Of a file that goes on to its end, the functions; of any other, the error.
ModuleRead(objs, fns, w, d) ==
  IF Len(w) <= Len(d)
  THEN /\ DeserializeModule(d).at > 0
       /\ \A k \in 1..Len(fns) :
            SameFunction(objs, fns[k], DeserializeModule(d).objs, DeserializeModule(d).val[k])
  ELSE DeserializeModule(d).at = Eof
LEMMA ModulesRight ==
  \A objs \in Seq(Object) : \A fns \in Seq(FileFunction(objs)) : \A d :
    Begins(d, SerializeModule(objs, fns)) => ModuleRead(objs, fns, SerializeModule(objs, fns), d)
<1> SUFFICES ASSUME NEW objs \in Seq(Object), NEW fns \in Seq(FileFunction(objs)), NEW d,
                    Begins(d, SerializeModule(objs, fns))
             PROVE  ModuleRead(objs, fns, SerializeModule(objs, fns), d)
  OBVIOUS
<1>1. PICK w : w = SerializeModule(objs, fns)
  OBVIOUS
<1>2. PICK b : ModuleWritten(objs, fns, w, b)
  BY <1>1, ModuleIsWritten
<1>3. /\ Begins(d, w) /\ Len(w) = 4 + Len(b) /\ b = Flat(FunctionsFields(objs, fns)) /\ b \in Seq(Int)
      /\ w[1] = PAUB /\ w[2] = ModuleVersion /\ w[3] = Len(fns) /\ Lies(w, 5, b)
  BY <1>1, <1>2 DEF ModuleWritten
<1>4. PICK l \in Nat, m \in Nat : l = Len(d) /\ m = Len(b) /\ DOMAIN d = 1..l /\ Len(w) = 4 + m
  <2>1. Len(d) \in Nat /\ Len(b) \in Nat /\ DOMAIN d = 1..Len(d)
    BY <1>2, <1>3 DEF Begins, ModuleWritten
  <2> QED
    BY <1>3, <2>1
<1>5. \A k \in 1..l : d[k] = w[k]
  BY <1>3, <1>4 DEF Begins
<1>6. PICK r : r = DeserializeModule(d)
  OBVIOUS
<1>7. With(<<>>, Failed(Eof)).at = Eof
  BY DEF With, Got, Failed
<1>b. l # 0 => d # <<>>
  <2>1. Len(<<>>) = 0
    OBVIOUS
  <2> QED
    BY <1>4, <2>1
<1>8. CASE l < 4
  <2>1. r.at = Eof
    <3>1. CASE l = 0
      <4>1. PICK X : d \in Seq(X)
        BY <1>3 DEF Begins, IsSequence
      <4>2. d = <<>>
        BY <1>4, <3>1, <4>1, EmptyList
      <4> QED
        BY <1>6, <1>7, <4>2 DEF DeserializeModule
    <3>2. CASE l = 1
      <4>1. 1 \in 1..l /\ l < 2
        BY <3>2
      <4>2. d[1] = w[1]
        BY <1>5, <4>1
      <4>3. d # <<>> /\ d[1] = PAUB /\ Len(d) < 2
        BY <1>3, <1>4, <1>b, <3>2, <4>1, <4>2
      <4> QED
        BY <1>6, <1>7, <4>3 DEF DeserializeModule
    <3>3. CASE l \in {2, 3}
      <4>1. 1 \in 1..l /\ 2 \in 1..l /\ ~(Len(d) < 2) /\ Len(d) < 4
        <5>1. 1 \in 1..l /\ 2 \in 1..l /\ ~(l < 2)
          BY <3>3
        <5> QED
          BY <1>4, <1>8, <5>1
      <4>a. d[1] = w[1] /\ d[2] = w[2] /\ l # 0
        BY <1>5, <3>3, <4>1
      <4>2. d # <<>> /\ d[1] = PAUB /\ d[2] = ModuleVersion
        BY <1>3, <1>b, <4>a
      <4> QED
        BY <1>6, <1>7, <4>1, <4>2 DEF DeserializeModule
    <3> QED
      BY <1>8, <3>1, <3>2, <3>3
  <2>2. ~(Len(w) <= Len(d))
    BY <1>4, <1>8
  <2> QED
    BY <1>1, <1>6, <2>1, <2>2 DEF ModuleRead
<1>9. CASE ~(l < 4)
  <2>1. PICK ws, reads, Rs, n : /\ ws = FunctionsFields(objs, fns) /\ reads = FunctionReaders(d)
                                /\ Rs = FunctionCopies(objs, fns) /\ n = Len(fns)
    OBVIOUS
  <2>2. FunctionsInTurn(objs, fns, d, w, 5)
    BY FunctionsTurn
  <2>3. ws \in Seq(Seq(Int)) /\ Len(ws) = n /\ Turns(d, w, 5, Len(ws), ws, reads, Rs, ReadFunctions, 2)
    BY <2>1, <2>2 DEF FunctionsInTurn
  <2>4. Cutting(d, w, 5, Flat(ws))
    <3>1. 5 <= Len(d) + 1
      BY <1>4, <1>9
    <3> QED
      BY <1>3, <2>1, <3>1 DEF Cutting
  <2>5. <<>> \in Heaps
    BY HeapFacts
  <2>6. FlatRight(d, 5, ws, reads, Rs, ReadFunctions, 2, <<>>)
    BY <2>3, <2>4, <2>5, FlatIsRight
  <2>7. r = Repeat(Len(ws), With(<<>>, Done(5, <<>>)), reads)
    <3>1. 1 \in 1..l /\ 2 \in 1..l /\ 3 \in 1..l /\ ~(Len(d) < 2) /\ ~(Len(d) < 4)
      BY <1>4, <1>9
    <3>2. d # <<>> /\ d[1] = PAUB /\ d[2] = ModuleVersion /\ d[3] = n
      BY <1>3, <1>4, <1>5, <2>1, <3>1
    <3>3. r = Repeat(d[3], With(<<>>, Done(5, <<>>)), FunctionReaders(d))
      BY <1>6, <3>1, <3>2 DEF DeserializeModule, FunctionReaders
    <3> QED
      BY <2>1, <2>3, <3>2, <3>3
  <2>8. Outcome(d, 5 + m, <<>>, r, AllOf(Rs, n, ReadFunctions), 2)
    BY <1>3, <1>4, <2>1, <2>3, <2>6, <2>7 DEF FlatRight
  <2>9. CASE Len(w) <= Len(d)
    <3>1. 5 + m <= Len(d) + 1
      BY <1>4, <2>9
    <3>2. r.at = 5 + m /\ r.objs \in Heaps /\ r.val \in AllOf(Rs, n, ReadFunctions)[r.objs]
      BY <2>8, <3>1 DEF Outcome
    <3>3. r.at > 0
      BY <3>2
    <3>4. ASSUME NEW k \in 1..n PROVE SameFunction(objs, fns[k], r.objs, r.val[k])
      <4>1. r.val[k] \in Rs[k][r.objs]
        BY <3>2 DEF AllOf
      <4>2. Rs[k] = FunctionLike(objs, fns[k])
        BY <2>1 DEF FunctionCopies
      <4> QED
        BY <3>2, <4>1, <4>2 DEF FunctionLike
    <3> QED
      BY <1>1, <1>6, <2>1, <2>9, <3>3, <3>4 DEF ModuleRead
  <2>10. CASE ~(Len(w) <= Len(d))
    <3>1. ~(5 + m <= Len(d) + 1)
      BY <1>4, <2>10
    <3>2. r.at = Eof
      BY <2>8, <3>1 DEF Outcome
    <3> QED
      BY <1>1, <1>6, <2>10, <3>2 DEF ModuleRead
  <2> QED
    BY <2>9, <2>10
<1> QED
  BY <1>8, <1>9

-----------------------------------------------------------------------------
(* The arenas of HeapVec.                                                  *)

LEMMA ObjsTyped == objects \in Seq(HeapObject) => Objs \in Seq(Object)
<1> SUFFICES ASSUME objects \in Seq(HeapObject) PROVE Objs \in Seq(Object)
  OBVIOUS
<1>1. PICK n \in Nat : n = Len(objects) /\ DOMAIN objects = 1..n
  OBVIOUS
<1>2. \A i \in 1..n : objects[i] \in HeapObject /\ objects[i].kind \in Handle /\ objects[i].elems \in Seq(Value)
  <2>1. \A i \in 1..n : objects[i] \in HeapObject
    BY <1>1
  <2> QED
    BY <2>1 DEF HeapObject, Kinds, Handle
<1>3. ASSUME NEW v \in Value PROVE Val(v) \in Stored
  <2>1. CASE v = Prim
    <3>1. Val(v) = [t |-> "Int", v |-> 7]
      BY <2>1 DEF Val
    <3> QED
      BY <3>1, StoredFacts
  <2>2. CASE v # Prim
    <3>1. v \in Ref
      BY <2>2 DEF Value
    <3>2. v.kind \in Handle /\ v.index \in Int
      BY <3>1 DEF Ref, Kinds, Handle
    <3>3. PICK t : t = IF v.index \in DOMAIN objects THEN objects[v.index].kind ELSE v.kind
      OBVIOUS
    <3>4. t \in Handle
      BY <1>1, <1>2, <3>2, <3>3
    <3>5. Val(v) = [t |-> t, v |-> v.index]
      BY <2>2, <3>3 DEF Val
    <3> QED
      BY <3>2, <3>4, <3>5, StoredFacts
  <2> QED
    BY <2>1, <2>2
<1>4. ASSUME NEW i \in 1..n PROVE [kind |-> objects[i].kind, data |-> Contents(i)] \in Object
  <2>1. PICK kind, s, c : kind = objects[i].kind /\ s = objects[i].elems /\ c = Contents(i)
    OBVIOUS
  <2>2. CASE kind = "String"
    <3>1. c = <<i, i>> /\ i \in Int
      BY <2>1, <2>2 DEF Contents
    <3>2. c \in Seq(Int)
      BY <3>1
    <3> QED
      BY <2>1, <2>2, <3>2 DEF Object
  <2>3. CASE kind = "List"
    <3>1. s \in Seq(Value) /\ c = [k \in DOMAIN s |-> Val(s[k])]
      BY <1>2, <2>1, <2>3 DEF Contents
    <3>2. PICK m \in Nat : m = Len(s) /\ DOMAIN s = 1..m
      BY <3>1
    <3>3. \A k \in 1..m : s[k] \in Value
      BY <3>1, <3>2
    <3>4. \A k \in 1..m : Val(s[k]) \in Stored
      BY <1>3, <3>3
    <3>5. c \in [1..m -> Stored]
      BY <3>1, <3>2, <3>4
    <3>6. c \in Seq(Stored)
      BY <3>2, <3>5
    <3> QED
      BY <2>1, <2>3, <3>6 DEF Object
  <2> QED
    BY <1>2, <2>1, <2>2, <2>3 DEF Handle
<1>5. Objs \in [1..n -> Object]
  BY <1>1, <1>4 DEF Objs
<1> QED
  BY <1>1, <1>5

LEMMA WritableTyped ==
  \A objs \in Seq(Object) : \A v \in WritableValues(objs) :
    v \in Stored /\ Writable(objs, v) /\ v.t \in Handle /\ v.v \in DOMAIN objs /\ objs[v.v].kind = v.t
<1> SUFFICES ASSUME NEW objs \in Seq(Object), NEW v \in WritableValues(objs)
             PROVE  v \in Stored /\ Writable(objs, v) /\ v.t \in Handle /\ v.v \in DOMAIN objs /\ objs[v.v].kind = v.t
  OBVIOUS
<1>1. Writable(objs, v) /\ \E i \in DOMAIN objs : v = [t |-> objs[i].kind, v |-> i]
  BY DEF WritableValues
<1>2. PICK i \in DOMAIN objs : v = [t |-> objs[i].kind, v |-> i]
  BY <1>1
<1>3. objs[i] \in Object /\ i \in Int
  OBVIOUS
<1>4. objs[i].kind \in Handle
  BY <1>3 DEF Object, Handle
<1>5. v.t = objs[i].kind /\ v.v = i
  BY <1>2
<1>6. v \in Stored
  BY <1>2, <1>3, <1>4, StoredFacts
<1> QED
  BY <1>1, <1>4, <1>5, <1>6

\* The functions that hold v are ones that can be written.
LEMMA OperationFits ==
  \A objs : \A op \in Ops : \A args \in Seq(Int \cup Stored) :
    /\ Len(args) = Len(Operands(op)) /\ \A k \in 1..Len(args) : Fits(objs, Operands(op)[k], args[k])
    => Operation(op, args) \in FileOpcode(objs)
<1> SUFFICES ASSUME NEW objs, NEW op \in Ops, NEW args \in Seq(Int \cup Stored), Len(args) = Len(Operands(op)),
                    \A k \in 1..Len(args) : Fits(objs, Operands(op)[k], args[k])
             PROVE  Operation(op, args) \in FileOpcode(objs)
  OBVIOUS
<1>1. PICK i : i = Operation(op, args)
  OBVIOUS
<1>2. i = [op |-> op, args |-> args]
  BY <1>1 DEF Operation
<1>3. i \in Opcodes /\ i.op = op /\ i.args = args
  BY <1>2 DEF Opcodes
<1> QED
  BY <1>1, <1>3 DEF FileOpcode

LEMMA OpsNamed ==
  /\ "Push" \in Ops /\ "FileSeek" \in Ops /\ "Jump" \in Ops /\ "HttpPost" \in Ops /\ "Dup" \in Ops /\ "Call" \in Ops
  /\ Operands("Push") = <<"value">> /\ Operands("FileSeek") = <<"u32", "value">> /\ Operands("Jump") = <<"u32">>
  /\ Operands("HttpPost") = <<"value", "value">> /\ Operands("Dup") = <<>> /\ Operands("Call") = <<"u32">>
<1>1. /\ Tags[2] = "Push" /\ Tags[31] = "FileSeek" /\ Tags[20] = "Jump" /\ Tags[38] = "HttpPost"
      /\ Tags[4] = "Dup" /\ Tags[25] = "Call"
  BY DEF Tags
<1>2. {2, 31, 20, 38, 4, 25} \subseteq DOMAIN Tags
  BY DEF Tags
<1>3. "Push" \in Ops /\ "FileSeek" \in Ops /\ "Jump" \in Ops /\ "HttpPost" \in Ops /\ "Dup" \in Ops /\ "Call" \in Ops
  <2>1. 2 \in DOMAIN Tags /\ 31 \in DOMAIN Tags /\ 20 \in DOMAIN Tags /\ 38 \in DOMAIN Tags /\ 4 \in DOMAIN Tags
        /\ 25 \in DOMAIN Tags
    BY <1>2
  <2> QED
    BY <1>1, <2>1 DEF Ops
<1>4. Operands("Push") = <<"value">> /\ Operands("FileSeek") = <<"u32", "value">> /\ Operands("Jump") = <<"u32">>
  BY DEF Operands
<1>5. Operands("HttpPost") = <<"value", "value">> /\ Operands("Dup") = <<>> /\ Operands("Call") = <<"u32">>
  BY DEF Operands
<1> QED
  BY <1>3, <1>4, <1>5

LEMMA FunctionsTyped ==
  \A objs : \A v \in Stored : Writable(objs, v) =>
    Functions(v) \in Seq(FileFunction(objs)) /\ Len(Functions(v)) = 2
<1> SUFFICES ASSUME NEW objs, NEW v \in Stored, Writable(objs, v)
             PROVE  Functions(v) \in Seq(FileFunction(objs)) /\ Len(Functions(v)) = 2
  OBVIOUS
<1> DEFINE I(op, args) == Operation(op, args)
<1>1. PICK null : null = [t |-> "Null", v |-> 0]
  OBVIOUS
<1>2. null \in Stored /\ Writable(objs, null)
  BY <1>1 DEF Stored, NullValue, Writable, Refers, Handle
<1>3. \A kind, x : \/ kind = "value" /\ x \in {v, null}
                   \/ kind = "u32" /\ x \in Int
                   => Fits(objs, kind, x)
  BY <1>2 DEF Fits
<1>4. /\ <<v>> \in Seq(Int \cup Stored) /\ <<3, v>> \in Seq(Int \cup Stored) /\ <<1>> \in Seq(Int \cup Stored)
      /\ <<v, null>> \in Seq(Int \cup Stored) /\ <<>> \in Seq(Int \cup Stored)
  <2>1. PICK S : S = Int \cup Stored
    OBVIOUS
  <2>2. v \in S /\ null \in S /\ 3 \in S /\ 1 \in S
    BY <1>2, <2>1
  <2>3. <<v>> \in Seq(S) /\ <<3, v>> \in Seq(S) /\ <<1>> \in Seq(S) /\ <<v, null>> \in Seq(S) /\ <<>> \in Seq(S)
    BY <2>2
  <2> QED
    BY <2>1, <2>3
<1>5. I("Push", <<v>>) \in FileOpcode(objs)
  <2>1. PICK s, ks : s = <<v>> /\ ks = <<"value">>
    OBVIOUS
  <2>2. Len(s) = 1 /\ Len(ks) = 1 /\ \A k \in 1..1 : s[k] = v /\ ks[k] = "value"
    BY <2>1
  <2> QED
    BY <1>3, <1>4, <2>1, <2>2, OpsNamed, OperationFits
<1>6. I("FileSeek", <<3, v>>) \in FileOpcode(objs)
  <2>1. PICK s, ks : s = <<3, v>> /\ ks = <<"u32", "value">>
    OBVIOUS
  <2>2. Len(s) = 2 /\ Len(ks) = 2 /\ s[1] = 3 /\ s[2] = v /\ ks[1] = "u32" /\ ks[2] = "value"
    BY <2>1
  <2>3. \A k \in 1..2 : Fits(objs, ks[k], s[k])
    <3>1. \A k \in 1..2 : k = 1 \/ k = 2
      OBVIOUS
    <3> QED
      BY <1>3, <2>2, <3>1
  <2> QED
    BY <1>4, <2>1, <2>2, <2>3, OpsNamed, OperationFits
<1>7. I("Jump", <<1>>) \in FileOpcode(objs) /\ I("Call", <<1>>) \in FileOpcode(objs)
  <2>1. PICK s, ks : s = <<1>> /\ ks = <<"u32">>
    OBVIOUS
  <2>2. Len(s) = 1 /\ Len(ks) = 1 /\ \A k \in 1..1 : s[k] = 1 /\ ks[k] = "u32"
    BY <2>1
  <2>3. \A k \in 1..1 : Fits(objs, ks[k], s[k])
    BY <1>3, <2>2
  <2> QED
    BY <1>4, <2>1, <2>2, <2>3, OpsNamed, OperationFits
<1>8. I("HttpPost", <<v, null>>) \in FileOpcode(objs)
  <2>1. PICK s, ks : s = <<v, null>> /\ ks = <<"value", "value">>
    OBVIOUS
  <2>2. Len(s) = 2 /\ Len(ks) = 2 /\ s[1] = v /\ s[2] = null /\ ks[1] = "value" /\ ks[2] = "value"
    BY <2>1
  <2>3. \A k \in 1..2 : Fits(objs, ks[k], s[k])
    <3>1. \A k \in 1..2 : k = 1 \/ k = 2
      OBVIOUS
    <3> QED
      BY <1>3, <2>2, <3>1
  <2> QED
    BY <1>4, <2>1, <2>2, <2>3, OpsNamed, OperationFits
<1>9. I("Dup", <<>>) \in FileOpcode(objs)
  <2>1. PICK s : s = <<>> /\ Len(s) = 0
    OBVIOUS
  <2>2. \A k \in 1..0 : Fits(objs, s[k], s[k])
    OBVIOUS
  <2> QED
    BY <1>4, <2>1, <2>2, OpsNamed, OperationFits
<1>10. PICK S, i, j, k, l, m, n :
         /\ S = FileOpcode(objs) /\ i = I("Push", <<v>>) /\ j = I("FileSeek", <<3, v>>) /\ k = I("Jump", <<1>>)
         /\ l = I("HttpPost", <<v, null>>) /\ m = I("Dup", <<>>) /\ n = I("Call", <<1>>)
  OBVIOUS
<1>11. <<i, j, k>> \in Seq(S) /\ <<l, m, n>> \in Seq(S)
  <2>1. i \in S /\ j \in S /\ k \in S /\ l \in S /\ m \in S /\ n \in S
    BY <1>5, <1>6, <1>7, <1>8, <1>9, <1>10
  <2> QED
    BY <2>1
<1>12. PICK a, b, f, g : /\ a = <<i, j, k>> /\ b = <<l, m, n>>
                         /\ f = [name |-> <<>>, arity |-> 0, num_locals |-> 2, code |-> a]
                         /\ g = [name |-> <<8>>, arity |-> 1, num_locals |-> 1, code |-> b]
  OBVIOUS
<1>13. f \in FileFunction(objs) /\ g \in FileFunction(objs)
  <2>1. <<>> \in Seq(Int) /\ <<8>> \in Seq(Int)
    OBVIOUS
  <2> QED
    BY <1>10, <1>11, <1>12, <2>1 DEF FileFunction
<1>14. Functions(v) = <<f, g>>
  BY <1>1, <1>10, <1>12 DEF Functions
<1>15. <<f, g>> \in Seq(FileFunction(objs)) /\ Len(<<f, g>>) = 2
  BY <1>13
<1> QED
  BY <1>14, <1>15

LEMMA ModuleBack == objects \in Seq(HeapObject) => ModuleReadsBack
<1> SUFFICES ASSUME objects \in Seq(HeapObject), Built, NEW objs \in {Objs}, NEW v \in WritableValues(objs),
                    NEW r \in {DeserializeModule(SerializeModule(objs, Functions(v)))}
             PROVE  r.at > 0 /\ \A k \in 1..2 : SameFunction(objs, Functions(v)[k], r.objs, r.val[k])
  BY DEF ModuleReadsBack
<1>1. objs \in Seq(Object)
  BY ObjsTyped
<1>2. PICK fns, w : fns = Functions(v) /\ w = SerializeModule(objs, fns)
  OBVIOUS
<1>3. fns \in Seq(FileFunction(objs)) /\ Len(fns) = 2
  BY <1>1, <1>2, WritableTyped, FunctionsTyped
<1>4. PICK b : ModuleWritten(objs, fns, w, b)
  BY <1>1, <1>2, <1>3, ModuleIsWritten
<1>5. Begins(w, w) /\ Len(w) <= Len(w)
  BY <1>4 DEF ModuleWritten, Begins
<1>6. ModuleRead(objs, fns, w, w)
  BY <1>1, <1>2, <1>3, <1>5, ModulesRight
<1>7. r = DeserializeModule(w)
  BY <1>2
<1> QED
  BY <1>2, <1>3, <1>5, <1>6, <1>7 DEF ModuleRead

LEMMA ModuleCut == objects \in Seq(HeapObject) => CutModuleRefused
<1> SUFFICES ASSUME objects \in Seq(HeapObject), Built, NEW objs \in {Objs}, NEW v \in WritableValues(objs),
                    NEW data \in {SerializeModule(objs, Functions(v))}, NEW n \in 0..Len(data) - 1
             PROVE  DeserializeModule(SubSeq(data, 1, n)).at = Eof
  BY DEF CutModuleRefused
<1>1. objs \in Seq(Object)
  BY ObjsTyped
<1>2. PICK fns : fns = Functions(v)
  OBVIOUS
<1>3. fns \in Seq(FileFunction(objs)) /\ data = SerializeModule(objs, fns)
  BY <1>1, <1>2, WritableTyped, FunctionsTyped
<1>4. PICK b : ModuleWritten(objs, fns, data, b)
  BY <1>1, <1>3, ModuleIsWritten
<1>5. IsSequence(data) /\ Len(data) \in Nat
  BY <1>4 DEF ModuleWritten
<1>6. PICK d : d = SubSeq(data, 1, n)
  OBVIOUS
<1>7. n \in 0..Len(data) /\ n < Len(data)
  BY <1>5
<1>8. Begins(d, data)
  BY <1>5, <1>6, <1>7, PrefixBegins
<1>9. Len(d) = n
  <2>1. PICK X : data \in Seq(X)
    BY <1>5 DEF IsSequence
  <2> QED
    BY <1>5, <1>6, <1>7, <2>1
<1>10. ModuleRead(objs, fns, data, d)
  BY <1>1, <1>3, <1>8, ModulesRight
<1>11. ~(Len(data) <= Len(d))
  BY <1>5, <1>7, <1>9
<1> QED
  BY <1>6, <1>10, <1>11 DEF ModuleRead

-----------------------------------------------------------------------------
(* The numbers of SerCtx and of DeCtx.                                     *)

LEMMA RecorderRecords ==
  \A objs \in Seq(Object) : \A n \in 0..Len(objs) : \A m \in Seq(Int) : \A x \in Stored :
    Recorder(objs)[n][<<m, x>>] = SerMapNested(objs, m, x, Below(Recorder(objs), n))
<1> SUFFICES ASSUME NEW objs \in Seq(Object), NEW n \in 0..Len(objs), NEW m \in Seq(Int), NEW x \in Stored
             PROVE  Recorder(objs)[n][<<m, x>>] = SerMapNested(objs, m, x, Below(Recorder(objs), n))
  OBVIOUS
<1>1. RecordsNested(objs, Recorder(objs))
  BY RecorderDeepens
<1>2. PICK sub : sub = Below(Recorder(objs), n)
  OBVIOUS
<1>3. Recorder(objs)[n] = [y \in Seq(Int) \X Stored |-> SerMapNested(objs, y[1], y[2], sub)]
  <2>1. CASE n = 0
    BY <1>1, <1>2, <2>1 DEF RecordsNested, Below
  <2>2. CASE n # 0
    <3>1. n \in 1..Len(objs)
      BY <2>2
    <3> QED
      BY <1>1, <1>2, <2>2, <3>1 DEF RecordsNested, Below
  <2> QED
    BY <2>1, <2>2
<1>4. PICK y : y = <<m, x>>
  OBVIOUS
<1>5. y \in Seq(Int) \X Stored /\ y[1] = m /\ y[2] = x
  BY <1>4
<1> QED
  BY <1>2, <1>3, <1>4, <1>5

\* The object that was numbered first stays the first.
Kept(m, g) == g \in Seq(Int) /\ Len(g) > 0 /\ g[1] = m[1]
Keeps(record, x) == \A m \in Seq(Int) : Len(m) > 0 => Kept(m, record[<<m, x>>])
LEMMA SerMapOfKeeps ==
  \A record, s : \A m \in Seq(Int) :
    /\ Len(s) \in Nat /\ Len(m) > 0 /\ \A k \in 1..Len(s) : Keeps(record, s[k])
    => Kept(m, SerMapOf(m, s, record))
<1> SUFFICES ASSUME NEW record, NEW s, NEW m \in Seq(Int), Len(s) \in Nat, Len(m) > 0,
                    \A k \in 1..Len(s) : Keeps(record, s[k])
             PROVE  Kept(m, SerMapOf(m, s, record))
  OBVIOUS
<1>1. PICK f : RecordsOver(m, s, record, f) /\ SerMapOf(m, s, record) = f[Len(s)]
  BY SerMapOfIs DEF RecordsTo
<1>2. PICK n \in Nat : n = Len(s)
  OBVIOUS
<1> DEFINE Z == {k \in 0..n : Kept(m, f[k])}
<1>3. 0 \in Z
  BY <1>1 DEF RecordsOver, Kept
<1>4. ASSUME NEW k \in 1..n, k - 1 \in Z PROVE k \in Z
  <2>1. PICK g : g = f[k - 1]
    OBVIOUS
  <2>2. g \in Seq(Int) /\ Len(g) > 0 /\ g[1] = m[1]
    BY <1>4, <2>1 DEF Kept
  <2>3. f[k] = record[<<g, s[k]>>]
    BY <1>1, <1>2, <2>1 DEF RecordsOver
  <2>4. Kept(g, f[k])
    BY <1>2, <2>2, <2>3 DEF Keeps
  <2> QED
    BY <2>2, <2>4 DEF Kept
<1> HIDE DEF Z
<1>5. \A k \in 0..n : k \in Z
  BY <1>3, <1>4, StepByStep
<1>6. Kept(m, f[n])
  BY <1>5 DEF Z
<1> QED
  BY <1>1, <1>2, <1>6

\* Nothing is numbered for values that are no handles.
LEMMA SerMapOfSame ==
  \A record, s, m : Len(s) \in Nat /\ (\A k \in 1..Len(s) : record[<<m, s[k]>>] = m) => SerMapOf(m, s, record) = m
<1> SUFFICES ASSUME NEW record, NEW s, NEW m, Len(s) \in Nat, \A k \in 1..Len(s) : record[<<m, s[k]>>] = m
             PROVE  SerMapOf(m, s, record) = m
  OBVIOUS
<1>1. PICK f : RecordsOver(m, s, record, f) /\ SerMapOf(m, s, record) = f[Len(s)]
  BY SerMapOfIs DEF RecordsTo
<1>2. PICK n \in Nat : n = Len(s)
  OBVIOUS
<1> DEFINE Z == {k \in 0..n : f[k] = m}
<1>3. 0 \in Z
  BY <1>1 DEF RecordsOver
<1>4. ASSUME NEW k \in 1..n, k - 1 \in Z PROVE k \in Z
  <2>1. f[k] = record[<<f[k - 1], s[k]>>] /\ f[k - 1] = m
    BY <1>1, <1>2, <1>4 DEF RecordsOver
  <2> QED
    BY <1>2, <2>1
<1> HIDE DEF Z
<1>5. \A k \in 0..n : k \in Z
  BY <1>3, <1>4, StepByStep
<1>6. f[n] = m
  BY <1>5 DEF Z
<1> QED
  BY <1>1, <1>2, <1>6

LEMMA RecordKeeps ==
  \A m \in Seq(Int) : \A i \in Int :
    /\ RecordObject(m, i) \in Seq(Int) /\ Len(RecordObject(m, i)) > 0
    /\ Len(m) > 0 => RecordObject(m, i)[1] = m[1]
    /\ m = <<>> => RecordObject(m, i) = <<i>>
<1> SUFFICES ASSUME NEW m \in Seq(Int), NEW i \in Int
             PROVE  /\ RecordObject(m, i) \in Seq(Int) /\ Len(RecordObject(m, i)) > 0
                    /\ Len(m) > 0 => RecordObject(m, i)[1] = m[1]
                    /\ m = <<>> => RecordObject(m, i) = <<i>>
  OBVIOUS
<1>1. CASE \E k \in DOMAIN m : m[k] = i
  <2>1. RecordObject(m, i) = m
    BY <1>1 DEF RecordObject
  <2>2. Len(m) > 0 /\ m # <<>>
    BY <1>1
  <2> QED
    BY <2>1, <2>2
<1>2. CASE ~(\E k \in DOMAIN m : m[k] = i)
  <2>1. PICK g : g = Append(m, i)
    OBVIOUS
  <2>2. RecordObject(m, i) = g
    BY <1>2, <2>1 DEF RecordObject
  <2>3. g \in Seq(Int) /\ Len(g) = Len(m) + 1 /\ Len(m) \in Nat /\ \A k \in 1..Len(m) : g[k] = m[k]
    BY <2>1
  <2>4. Len(m) > 0 => g[1] = m[1]
    BY <2>3
  <2>5. m = <<>> => g = <<i>>
    BY <2>1
  <2>6. Len(g) > 0
    BY <2>3
  <2> QED
    BY <2>2, <2>3, <2>4, <2>5, <2>6
<1> QED
  BY <1>1, <1>2

LEMMA RecorderKeeps ==
  \A objs \in Seq(Object) : \A n \in 0..Len(objs) : \A x : Good(objs, n, x) => Keeps(Recorder(objs)[n], x)
<1> SUFFICES ASSUME NEW objs \in Seq(Object)
             PROVE  \A n \in 0..Len(objs) : \A x : Good(objs, n, x) => Keeps(Recorder(objs)[n], x)
  OBVIOUS
<1> DEFINE Z == {n \in 0..Len(objs) : \A x : Good(objs, n, x) => Keeps(Recorder(objs)[n], x)}
<1>0. PICK l \in Nat : l = Len(objs)
  OBVIOUS
<1>1. ASSUME NEW n \in 0..l, NEW x, Good(objs, n, x), x.t \notin Handle PROVE Keeps(Recorder(objs)[n], x)
  <2>1. ASSUME NEW m \in Seq(Int), Len(m) > 0 PROVE Kept(m, Recorder(objs)[n][<<m, x>>])
    <3>1. Recorder(objs)[n][<<m, x>>] = SerMapNested(objs, m, x, Below(Recorder(objs), n))
      BY <1>0, <1>1, RecorderRecords DEF Good
    <3>2. Recorder(objs)[n][<<m, x>>] = m
      BY <1>1, <3>1 DEF SerMapNested, Handle
    <3> QED
      BY <2>1, <3>2 DEF Kept
  <2> QED
    BY <2>1 DEF Keeps
<1>2. 0 \in Z
  <2>1. ASSUME NEW x, Good(objs, 0, x) PROVE Keeps(Recorder(objs)[0], x)
    <3>1. 0 \in 0..Len(objs)
      BY <1>0
    <3>2. x.t \notin Handle
      BY <2>1, <3>1, HandleResolves
    <3> QED
      BY <1>0, <1>1, <2>1, <3>1, <3>2
  <2> QED
    BY <1>0, <2>1
<1>3. ASSUME NEW n \in 1..l, n - 1 \in Z PROVE n \in Z
  <2>0. n \in 0..l /\ n # 0 /\ Below(Recorder(objs), n) = Recorder(objs)[n - 1]
    BY DEF Below
  <2>1. ASSUME NEW x, Good(objs, n, x), x.t \in Handle PROVE Keeps(Recorder(objs)[n], x)
    <3>1. ASSUME NEW m \in Seq(Int), Len(m) > 0 PROVE Kept(m, Recorder(objs)[n][<<m, x>>])
      <4>1. PICK record : record = Recorder(objs)[n - 1]
        OBVIOUS
      <4>2. Recorder(objs)[n][<<m, x>>] = SerMapNested(objs, m, x, record) /\ x.v \in Int
        BY <1>0, <2>0, <2>1, <4>1, RecorderRecords, StoredFacts DEF Good
      <4>3. PICK g : g = RecordObject(m, x.v)
        OBVIOUS
      <4>4. g \in Seq(Int) /\ Len(g) > 0 /\ g[1] = m[1]
        BY <3>1, <4>2, <4>3, RecordKeeps
      <4>5. CASE x.t = "String"
        BY <4>2, <4>3, <4>4, <4>5 DEF SerMapNested, Kept
      <4>6. CASE x.t = "List"
        <5>1. PICK s : s = objs[x.v].data
          OBVIOUS
        <5>2. s \in Seq(Stored) /\ \A k \in DOMAIN s : Good(objs, n - 1, s[k])
          BY <1>0, <2>0, <2>1, <4>6, <5>1, HandleResolves
        <5>3. Len(s) \in Nat /\ \A k \in 1..Len(s) : Keeps(record, s[k])
          <6>1. DOMAIN s = 1..Len(s) /\ Len(s) \in Nat
            BY <5>2
          <6> QED
            BY <1>3, <4>1, <5>2, <6>1
        <5>4. Kept(g, SerMapOf(g, s, record))
          BY <4>4, <5>3, SerMapOfKeeps
        <5>5. Recorder(objs)[n][<<m, x>>] = SerMapOf(g, s, record)
          BY <4>2, <4>3, <4>6, <5>1 DEF SerMapNested
        <5> QED
          BY <4>4, <5>4, <5>5 DEF Kept
      <4> QED
        BY <2>1, <4>5, <4>6 DEF Handle
    <3> QED
      BY <3>1 DEF Keeps
  <2>2. \A x : Good(objs, n, x) => Keeps(Recorder(objs)[n], x)
    BY <1>1, <2>0, <2>1
  <2> QED
    BY <1>0, <2>0, <2>2
<1> HIDE DEF Z
<1>4. \A n \in 0..l : n \in Z
  BY <1>2, <1>3, StepByStep
<1> QED
  BY <1>0, <1>4 DEF Z

\* What has a copy without handles has none itself.
LEMMA PlainCopy ==
  \A objs \in Seq(Object) : \A n \in 0..Len(objs) : \A h \in Heaps : \A v, w :
    /\ <<v, w>> \in Likes(objs, h)[n] /\ v.t \in Handle /\ v.v \in DOMAIN objs /\ objs[v.v].kind = v.t
    /\ Plain(h[w.v])
    => Plain(objs[v.v])
<1> SUFFICES ASSUME NEW objs \in Seq(Object), NEW n \in 0..Len(objs), NEW h \in Heaps, NEW v, NEW w,
                    <<v, w>> \in Likes(objs, h)[n], v.t \in Handle, v.v \in DOMAIN objs, objs[v.v].kind = v.t,
                    Plain(h[w.v]), objs[v.v].kind = "List"
             PROVE  \A k \in DOMAIN objs[v.v].data : objs[v.v].data[k].t \notin Handle
  BY DEF Plain
<1>1. v \in Stored /\ w \in Stored
  BY LikesPairs
<1>2. SameValue(objs, v, h, w, Before(objs, h, n))
  BY <1>1, LikesAre
<1>3. PICK s, c : s = objs[v.v].data /\ c = h[w.v].data
  OBVIOUS
<1>4. v.t = w.t /\ w.v \in DOMAIN h /\ h[w.v].kind = w.t /\ SameContents(objs, v.v, h, w.v, Before(objs, h, n))
  BY <1>2 DEF SameValue, Refers
<1>5. Len(s) = Len(c) /\ \A k \in DOMAIN s : <<s[k], c[k]>> \in Before(objs, h, n)
  BY <1>3, <1>4 DEF SameContents
<1>6. s \in Seq(Stored) /\ c \in Seq(Stored)
  <2>1. objs[v.v] \in Object
    OBVIOUS
  <2>2. h \in Seq(Object)
    BY HeapFacts DEF Heaps
  <2>3. h[w.v] \in Object
    BY <1>4, <2>2
  <2>4. h[w.v].kind = "List"
    BY <1>4
  <2> QED
    BY <1>3, <2>1, <2>3, <2>4 DEF Object
<1>7. ASSUME NEW k \in DOMAIN s PROVE s[k].t \notin Handle
  <2>1. PICK x, y : x = s[k] /\ y = c[k]
    OBVIOUS
  <2>2. k \in DOMAIN c /\ x \in Stored /\ y \in Stored
    <3>1. k \in DOMAIN c
      BY <1>5, <1>6
    <3> QED
      BY <1>6, <2>1, <3>1
  <2>3. <<x, y>> \in Before(objs, h, n)
    BY <1>5, <2>1
  <2>4. n # 0 /\ <<x, y>> \in Likes(objs, h)[n - 1]
    BY <2>3 DEF Before
  <2>5. PICK like : SameValue(objs, x, h, y, like)
    <3>1. n - 1 \in 0..Len(objs)
      BY <2>4
    <3> QED
      BY <2>2, <2>4, <3>1, LikesAre
  <2>6. y.t \notin Handle
    BY <1>3, <1>4, <2>1, <2>2 DEF Plain
  <2> QED
    BY <2>1, <2>5, <2>6 DEF SameValue
<1> QED
  BY <1>3, <1>7

MapStarts(objs, v) ==
  /\ SerMap(objs, v) \in Seq(Int) /\ Len(SerMap(objs, v)) > 0 /\ SerMap(objs, v)[1] = v.v
  /\ Plain(objs[v.v]) => SerMap(objs, v) = <<v.v>>
LEMMA SerMapFirst ==
  \A objs \in Seq(Object) : \A v \in WritableValues(objs) : MapStarts(objs, v)
<1> SUFFICES ASSUME NEW objs \in Seq(Object), NEW v \in WritableValues(objs) PROVE MapStarts(objs, v)
  OBVIOUS
<1>1. PICK n \in Nat : n = Len(objs) /\ n \in 0..Len(objs)
  OBVIOUS
<1>2. v \in Stored /\ Writable(objs, v) /\ v.t \in Handle /\ v.v \in DOMAIN objs /\ objs[v.v].kind = v.t
  BY WritableTyped
<1>3. Good(objs, n, v) /\ v.v \in Int
  BY <1>1, <1>2 DEF Good, Writable
<1>4. n # 0 /\ n - 1 \in 0..Len(objs)
  BY <1>1, <1>2
<1>5. PICK record, map, none : record = Recorder(objs)[n - 1] /\ map = SerMap(objs, v) /\ none = <<>>
  OBVIOUS
<1>6. none \in Seq(Int)
  BY <1>5
<1>7. map = SerMapNested(objs, none, v, record)
  <2>1. map = Recorder(objs)[n][<<none, v>>]
    BY <1>1, <1>5 DEF SerMap
  <2>2. Below(Recorder(objs), n) = record
    BY <1>4, <1>5 DEF Below
  <2> QED
    BY <1>1, <1>2, <1>6, <2>1, <2>2, RecorderRecords
<1>8. PICK g : g = <<v.v>>
  OBVIOUS
<1>9. RecordObject(none, v.v) = g /\ g \in Seq(Int) /\ Len(g) > 0 /\ g[1] = v.v
  <2>1. RecordObject(none, v.v) = g
    BY <1>3, <1>5, <1>6, <1>8, RecordKeeps
  <2> QED
    BY <1>3, <1>8, <2>1
<1>10. CASE v.t = "String"
  <2>1. map = g
    BY <1>7, <1>9, <1>10 DEF SerMapNested
  <2> QED
    BY <1>5, <1>8, <1>9, <2>1 DEF MapStarts
<1>11. CASE v.t = "List"
  <2>1. PICK s : s = objs[v.v].data
    OBVIOUS
  <2>2. map = SerMapOf(g, s, record)
    BY <1>7, <1>9, <1>11, <2>1 DEF SerMapNested
  <2>3. s \in Seq(Stored) /\ \A k \in DOMAIN s : Good(objs, n - 1, s[k])
    BY <1>1, <1>2, <1>3, <1>11, <2>1, HandleResolves
  <2>4. DOMAIN s = 1..Len(s) /\ Len(s) \in Nat
    BY <2>3
  <2>5. Kept(g, map)
    <3>1. \A k \in 1..Len(s) : Keeps(record, s[k])
      BY <1>4, <1>5, <2>3, <2>4, RecorderKeeps
    <3> QED
      BY <1>9, <2>2, <2>4, <3>1, SerMapOfKeeps
  <2>6. ASSUME Plain(objs[v.v]) PROVE map = g
    <3>1. ASSUME NEW k \in 1..Len(s) PROVE record[<<g, s[k]>>] = g
      <4>1. PICK x : x = s[k]
        OBVIOUS
      <4>2. x \in Stored /\ x.t \notin Handle
        BY <1>2, <1>11, <2>1, <2>3, <2>4, <2>6, <4>1 DEF Plain
      <4>3. record[<<g, x>>] = SerMapNested(objs, g, x, Below(Recorder(objs), n - 1))
        BY <1>4, <1>5, <1>9, <4>2, RecorderRecords
      <4>4. record[<<g, x>>] = g
        BY <4>2, <4>3 DEF SerMapNested, Handle
      <4> QED
        BY <4>1, <4>4
    <3> QED
      BY <2>2, <2>4, <3>1, SerMapOfSame
  <2> QED
    BY <1>5, <1>8, <1>9, <2>5, <2>6 DEF MapStarts, Kept
<1> QED
  BY <1>2, <1>10, <1>11 DEF Handle

\* What is read of a value that was written.
CopyRead(objs, v, r) ==
  /\ r.objs \in Heaps /\ r.val \in Stored /\ <<v, r.val>> \in Likes(objs, r.objs)[Len(objs)]
  /\ Plain(objs[v.v]) => Len(r.objs) = 1
LEMMA CopyIsRead ==
  \A objs \in Seq(Object) : \A v \in WritableValues(objs) : CopyRead(objs, v, ReadValue(WriteValue(objs, v), 1, <<>>))
<1> SUFFICES ASSUME NEW objs \in Seq(Object), NEW v \in WritableValues(objs)
             PROVE  CopyRead(objs, v, ReadValue(WriteValue(objs, v), 1, <<>>))
  OBVIOUS
<1>1. PICK n \in Nat : n = Len(objs) /\ n \in 0..Len(objs)
  OBVIOUS
<1>2. v \in Stored /\ Writable(objs, v) /\ v.t \in Handle /\ v.v \in DOMAIN objs /\ objs[v.v].kind = v.t
  BY WritableTyped
<1>3. Good(objs, n, v)
  BY <1>1, <1>2 DEF Good, Writable
<1>4. ValueRight(objs, n, v)
  BY <1>1, <1>3, ValuesRight
<1>5. PICK w : w = WriteValue(objs, v)
  OBVIOUS
<1>6. w = Writer(objs)[n][v] /\ w \in Seq(Int)
  BY <1>1, <1>4, <1>5 DEF WriteValue, ValueRight
<1>7. PICK l \in Nat : l = Len(w) /\ DOMAIN w = 1..l
  BY <1>6
<1>8. Cutting(w, w, 1, w)
  <2>1. Begins(w, w)
    BY <1>6, <1>7 DEF Begins, IsSequence
  <2>2. Lies(w, 1, w)
    BY <1>6, LiesItself
  <2>3. 1 <= Len(w) + 1
    BY <1>7
  <2> QED
    BY <1>6, <2>1, <2>2, <2>3 DEF Cutting
<1>9. PICK r, o : r = ReadValue(w, 1, o) /\ o = <<>>
  OBVIOUS
<1>10. r = Reader(w)[l][<<1, o>>] /\ o \in Heaps /\ Len(o) = 0
  BY <1>7, <1>9, HeapFacts DEF ReadValue
<1>11. ReadRight(objs, n, v, w, w, w, 1, l, o)
  <2>1. l \in 0..Len(w)
    BY <1>7
  <2> QED
    BY <1>4, <1>6, <1>10, <2>1 DEF ValueRight
<1>12. Outcome(w, 1 + l, o, r, Like(objs, n, v), Allocates(objs, v))
  <2>1. l >= (Len(w) + 1) - 1
    BY <1>7
  <2> QED
    BY <1>7, <1>8, <1>10, <1>11, <2>1 DEF ReadRight
<1>13. /\ r.objs \in Heaps /\ r.val \in Like(objs, n, v)[r.objs]
       /\ Allocates(objs, v) = 1 => Len(r.objs) = Len(o) + 1
  <2>1. 1 + l <= Len(w) + 1
    BY <1>7
  <2> QED
    BY <1>12, <2>1 DEF Outcome
<1>14. r.val \in Stored /\ <<v, r.val>> \in Likes(objs, r.objs)[n]
  BY <1>13 DEF Like
<1>15. Plain(objs[v.v]) => Len(r.objs) = 1
  <2>1. Plain(objs[v.v]) => Allocates(objs, v) = 1
    BY <1>2 DEF Allocates
  <2> QED
    BY <1>10, <1>13, <2>1
<1> QED
  BY <1>1, <1>5, <1>9, <1>13, <1>14, <1>15 DEF CopyRead

\* How far the numbers of SerCtx and DeCtx agree.
AgreeOnOneObject ==
  Built =>
    \A objs \in {Objs} : \A v \in WritableValues(objs) :
      \A r \in {ReadValue(WriteValue(objs, v), 1, <<>>)}, map \in {SerMap(objs, v)} :
        NumbersAgree(objs, map, r.objs) <=> Len(r.objs) = 1
LEMMA MapsRight == objects \in Seq(HeapObject) => AgreeOnOneObject
<1> DEFINE Agrees(objs, map, h, k) ==
             LET w == DeMap(h)[k] IN
             Copied(objs, [t |-> objs[map[k]].kind, v |-> map[k]], h, [t |-> h[w].kind, v |-> w])
<1> SUFFICES ASSUME objects \in Seq(HeapObject), Built, NEW objs \in {Objs}, NEW v \in WritableValues(objs),
                    NEW r \in {ReadValue(WriteValue(objs, v), 1, <<>>)}, NEW map \in {SerMap(objs, v)}
             PROVE  (\A k \in DOMAIN map : Agrees(objs, map, r.objs, k)) <=> Len(r.objs) = 1
  BY DEF AgreeOnOneObject, NumbersAgree
<1>1. objs \in Seq(Object)
  BY ObjsTyped
<1>2. v \in Stored /\ v.t \in Handle /\ v.v \in DOMAIN objs /\ objs[v.v].kind = v.t
  BY <1>1, WritableTyped
<1>3. /\ map \in Seq(Int) /\ Len(map) > 0 /\ map[1] = v.v /\ (Plain(objs[v.v]) => map = <<v.v>>)
  BY <1>1, SerMapFirst DEF MapStarts
<1>4. PICK h, x, n : h = r.objs /\ x = r.val /\ n = Len(objs)
  OBVIOUS
<1>5. /\ h \in Heaps /\ x \in Stored /\ <<v, x>> \in Likes(objs, h)[n] /\ n \in 0..Len(objs)
      /\ Plain(objs[v.v]) => Len(h) = 1
  BY <1>1, <1>4, CopyIsRead DEF CopyRead
<1>6. x.t = v.t /\ x.v \in DOMAIN h /\ h[x.v].kind = x.t
  <2>1. SameValue(objs, v, h, x, Before(objs, h, n))
    BY <1>1, <1>2, <1>5, LikesAre
  <2> QED
    BY <1>2, <2>1 DEF SameValue, Refers
<1>7. DOMAIN h = 1..Len(h) /\ Len(h) \in Nat /\ Len(h) > 0 /\ 1 \in DOMAIN h /\ Plain(h[1])
  <2>1. DOMAIN h = 1..Len(h) /\ Len(h) \in Nat
    BY <1>5, HeapFacts
  <2>2. Len(h) > 0
    BY <1>6, <2>1
  <2> QED
    BY <1>5, <2>1, <2>2 DEF Heaps
<1>8. PICK c : c = [t |-> h[1].kind, v |-> 1]
  OBVIOUS
<1>9. Agrees(objs, map, h, 1) <=> <<v, c>> \in Likes(objs, h)[n]
  <2>1. DeMap(h)[1] = 1
    BY <1>7 DEF DeMap
  <2>2. [t |-> objs[map[1]].kind, v |-> map[1]] = v
    BY <1>2, <1>3, StoredFacts
  <2> QED
    BY <1>4, <1>8, <2>1, <2>2 DEF Copied
<1>10. ASSUME \A k \in DOMAIN map : Agrees(objs, map, h, k) PROVE Len(h) = 1
  <2>1. 1 \in DOMAIN map
    BY <1>3
  <2>2. <<v, c>> \in Likes(objs, h)[n]
    <3>1. Agrees(objs, map, h, 1)
      BY <1>10, <2>1
    <3> QED
      BY <1>9, <3>1
  <2>3. Plain(h[c.v])
    BY <1>7, <1>8
  <2>4. Plain(objs[v.v])
    BY <1>1, <1>2, <1>5, <2>2, <2>3, PlainCopy
  <2> QED
    BY <1>5, <2>4
<1>11. ASSUME Len(h) = 1, NEW k \in DOMAIN map PROVE Agrees(objs, map, h, k)
  <2>1. x.v = 1
    BY <1>6, <1>7, <1>11
  <2>2. Plain(objs[v.v])
    BY <1>1, <1>2, <1>5, <1>7, <2>1, PlainCopy
  <2>3. k = 1
    <3>1. map = <<v.v>>
      BY <1>3, <2>2
    <3> QED
      BY <3>1
  <2>4. x = c
    BY <1>5, <1>6, <1>8, <2>1, StoredFacts
  <2> QED
    BY <1>5, <1>9, <2>3, <2>4
<1> HIDE DEF Agrees
<1> QED
  BY <1>4, <1>10, <1>11
-----------------------------------------------------------------------------
\* chunk.rs: a module file with a string or a nested list of the heap in every place where
\* an opcode holds a value, written and read, has the functions it had, with copies of the
\* objects, in whatever order the arena has them, shared or not, and however deep they nest.
THEOREM ModulesReadBack == VecSpec => []ModuleReadsBack
<1>1. IInv => ModuleReadsBack
  BY ModuleBack DEF IInv
<1> QED
  BY <1>1, VecInvariant, PTL

\* chunk.rs: a module file that ends before its last field is refused wherever it is cut:
\* no reader takes what is missing for something else.
THEOREM CutModulesAreRefused == VecSpec => []CutModuleRefused
<1>1. IInv => CutModuleRefused
  BY ModuleCut DEF IInv
<1> QED
  BY <1>1, VecInvariant, PTL

\* serialize.rs: how far the maps of SerCtx and DeCtx are from the counterparts that the
\* comments call them (MapsCorrespond).  The writer numbers a list before its elements and
\* an object once, the reader after them and once for each occurrence: their numbers mean
\* the same exactly for the values with which one object is read, whatever the arena.
THEOREM NumbersAgreeOnOneObject == VecSpec => []AgreeOnOneObject
<1>1. IInv => AgreeOnOneObject
  BY MapsRight DEF IInv
<1> QED
  BY <1>1, VecInvariant, PTL
=============================================================================
