---------------------------- MODULE ProgramProofs ----------------------------
(***************************************************************************)
(* What holds of every program, with any number of instructions, crashes   *)
(* and restarts: lemmas about the machine of module Interpreter, and the   *)
(* theorems about snapshot files of module Program.                        *)
(***************************************************************************)
EXTENDS Program, FileProofs

-----------------------------------------------------------------------------
(* The operators return values, an error or a panic.                       *)

LEMMA DivWithin ==
  \A a \in Nat : \A b \in Nat \ {0} :
    /\ a \div b \in Nat /\ a \div b <= a /\ (b > 1 /\ a > 0 => a \div b < a)
    /\ a - b * (a \div b) \in Nat /\ a - b * (a \div b) <= a
<1> SUFFICES ASSUME NEW a \in Nat, NEW b \in Nat \ {0}
             PROVE  /\ a \div b \in Nat /\ a \div b <= a /\ (b > 1 /\ a > 0 => a \div b < a)
                    /\ a - b * (a \div b) \in Nat /\ a - b * (a \div b) <= a
  OBVIOUS
<1>1. PICK q, r : q = a \div b /\ r = a % b
  OBVIOUS
<1>2. q \in Int /\ r \in Int /\ a = b * q + r /\ 0 <= r /\ r < b
  BY <1>1
<1>3. q >= 0
  <2>1. q < 0 => b * q <= -b
    BY <1>2
  <2> QED
    BY <1>2, <2>1
<1>4. b * q >= q /\ b * q >= 0 /\ (b > 1 /\ q > 0 => b * q > q)
  BY <1>2, <1>3
<1> QED
  BY <1>1, <1>2, <1>3, <1>4

LEMMA Truncated ==
  \A a, b \in Int : b # 0 =>
    /\ TruncDiv(a, b) \in Int /\ -Abs(a) <= TruncDiv(a, b) /\ TruncDiv(a, b) <= Abs(a)
    /\ b # -1 /\ a < 0 => TruncDiv(a, b) < Abs(a)
    /\ TruncMod(a, b) \in Int /\ -Abs(a) <= TruncMod(a, b) /\ TruncMod(a, b) <= Abs(a)
    /\ a < 0 => TruncMod(a, b) <= 0
<1> SUFFICES ASSUME NEW a \in Int, NEW b \in Int, b # 0
             PROVE  /\ TruncDiv(a, b) \in Int /\ -Abs(a) <= TruncDiv(a, b) /\ TruncDiv(a, b) <= Abs(a)
                    /\ b # -1 /\ a < 0 => TruncDiv(a, b) < Abs(a)
                    /\ TruncMod(a, b) \in Int /\ -Abs(a) <= TruncMod(a, b) /\ TruncMod(a, b) <= Abs(a)
                    /\ a < 0 => TruncMod(a, b) <= 0
  OBVIOUS
<1>1. PICK c, d : c = Abs(a) /\ d = Abs(b)
  OBVIOUS
<1>2. c \in Nat /\ d \in Nat \ {0} /\ (a < 0 => c = -a) /\ (~(a < 0) => c = a)
      /\ (b < 0 => d = -b) /\ (~(b < 0) => d = b)
  BY <1>1 DEF Abs
<1>3. PICK q : q = c \div d
  OBVIOUS
<1>4. PICK n : n = d * q
  OBVIOUS
<1>5. /\ q \in Nat /\ q <= c /\ (d > 1 /\ c > 0 => q < c) /\ n \in Int
      /\ c - n \in Nat /\ c - n <= c
  <2>1. q \in Nat /\ q <= c /\ (d > 1 /\ c > 0 => q < c) /\ c - d * q \in Nat /\ c - d * q <= c
    BY <1>2, <1>3, DivWithin
  <2> QED
    BY <1>2, <1>4, <2>1
<1>6. TruncDiv(a, b) = IF (a < 0) = (b < 0) THEN q ELSE -q
  BY <1>1, <1>3 DEF TruncDiv
<1>7. b * TruncDiv(a, b) = IF a < 0 THEN -n ELSE n
  <2>1. b * q = IF b < 0 THEN -n ELSE n
    BY <1>2, <1>4, <1>5
  <2>2. b * (-q) = IF b < 0 THEN n ELSE -n
    BY <1>2, <1>4, <1>5
  <2> QED
    BY <1>5, <1>6, <2>1, <2>2
<1>8. TruncMod(a, b) = IF a < 0 THEN -(c - n) ELSE c - n
  BY <1>2, <1>5, <1>7 DEF TruncMod
<1>9. b # -1 /\ a < 0 => TruncDiv(a, b) < c
  BY <1>2, <1>5, <1>6
<1>10. TruncDiv(a, b) \in Int /\ -c <= TruncDiv(a, b) /\ TruncDiv(a, b) <= c
  BY <1>2, <1>5, <1>6
<1>11. /\ TruncMod(a, b) \in Int /\ -c <= TruncMod(a, b) /\ TruncMod(a, b) <= c
       /\ a < 0 => TruncMod(a, b) <= 0
  BY <1>2, <1>5, <1>8
<1> QED
  BY <1>1, <1>9, <1>10, <1>11

LEMMA Wrapped == \A n \in Int : Wrap(n) \in Ints
<1> SUFFICES ASSUME NEW n \in Int PROVE Wrap(n) \in Ints
  OBVIOUS
<1>1. PICK w : w = 2 * HalfRange
  OBVIOUS
<1>2. w \in Nat /\ w > 0 /\ HalfRange \in Nat
  BY <1>1, ValueConstants
<1>3. PICK r : r = (n + HalfRange) % w
  OBVIOUS
<1>4. r \in Int /\ 0 <= r /\ r < w
  BY <1>2, <1>3
<1>5. Wrap(n) = r - HalfRange
  BY <1>1, <1>3 DEF Wrap
<1> QED
  BY <1>1, <1>2, <1>4, <1>5 DEF Ints, MinInt, MaxInt

LEMMA IntsResult == \A n \in Int : \A build : IntResult(build, n) \in Result
<1> SUFFICES ASSUME NEW n \in Int, NEW build PROVE IntResult(build, n) \in Result
  OBVIOUS
<1>1. \A k \in Ints : IntV(k) \in Result
  BY DEF IntV, Result, Value
<1>2. Panics \in Result
  BY DEF Result
<1> QED
  BY <1>1, <1>2, Wrapped DEF IntResult

LEMMA DividedResult ==
  \A a, b \in Ints : /\ DivResult(a, b, TruncDiv(a, b)) \in Result
                     /\ DivResult(a, b, TruncMod(a, b)) \in Result
<1> SUFFICES ASSUME NEW a \in Ints, NEW b \in Ints
             PROVE  /\ DivResult(a, b, TruncDiv(a, b)) \in Result
                    /\ DivResult(a, b, TruncMod(a, b)) \in Result
  OBVIOUS
<1>1. /\ a \in Int /\ b \in Int /\ -HalfRange <= a /\ a <= HalfRange - 1
      /\ HalfRange \in Nat
  BY ValueConstants DEF Ints, MinInt, MaxInt
<1>2. \A k \in Ints : IntV(k) \in Result
  BY DEF IntV, Result, Value
<1>3. Panics \in Result
  BY DEF Result
<1>4. ASSUME b # 0, ~(a = MinInt /\ b = -1)
      PROVE  TruncDiv(a, b) \in Ints /\ TruncMod(a, b) \in Ints
  <2>1. PICK c, q, r : c = Abs(a) /\ q = TruncDiv(a, b) /\ r = TruncMod(a, b)
    OBVIOUS
  <2>2. /\ q \in Int /\ -c <= q /\ q <= c /\ (b # -1 /\ a < 0 => q < c)
        /\ r \in Int /\ -c <= r /\ r <= c /\ (a < 0 => r <= 0)
    BY <1>1, <1>4, <2>1, Truncated
  <2>3. (a < 0 => c = -a) /\ (~(a < 0) => c = a)
    BY <2>1 DEF Abs
  <2>4. q \in -HalfRange..HalfRange - 1 /\ r \in -HalfRange..HalfRange - 1
    BY <1>1, <1>4, <2>2, <2>3 DEF MinInt
  <2> QED
    BY <2>1, <2>4 DEF Ints, MinInt, MaxInt
<1> QED
  BY <1>2, <1>3, <1>4 DEF DivResult

\* Floats.
LEMMA FloatsStay ==
  \A x, y \in Floats :
    FNeg(x) \in Floats /\ FAdd(x, y) \in Floats /\ FMul(x, y) \in Floats
      /\ FDiv(x, y) \in Floats /\ FMod(x, y) \in Floats
<1> SUFFICES ASSUME NEW x \in Floats, NEW y \in Floats
             PROVE  FNeg(x) \in Floats /\ FAdd(x, y) \in Floats /\ FMul(x, y) \in Floats
                      /\ FDiv(x, y) \in Floats /\ FMod(x, y) \in Floats
  OBVIOUS
<1>1. /\ Infinity \in Nat \ {0} /\ x \in Int /\ y \in Int /\ NaN = Infinity + 1
      /\ Floats = -Infinity..Infinity + 1
      /\ -Infinity <= x /\ x <= Infinity + 1 /\ -Infinity <= y /\ y <= Infinity + 1
  BY ValueConstants DEF Floats, NaN
<1>2. NaN \in Floats /\ Infinity \in Floats /\ -Infinity \in Floats /\ 0 \in Floats
  BY <1>1
<1>3. \A n \in Int : Round(n) \in Floats
  BY <1>1 DEF Round
<1>4. ASSUME NEW n \in Int, n # NaN, n \in Floats, NEW q \in Int, -Abs(n) <= q, q <= Abs(n)
      PROVE  q \in Floats
  BY <1>1, <1>4 DEF Abs
<1>5. FNeg(x) \in Floats
  BY <1>1, <1>2 DEF FNeg
<1>6. FAdd(x, y) \in Floats
  <2>1. x + y \in Int
    BY <1>1
  <2>2. Round(x + y) \in Floats
    BY <1>3, <2>1
  <2> QED
    BY <1>2, <2>2 DEF FAdd
<1>7. FMul(x, y) \in Floats
  <2>1. x * y \in Int
    BY <1>1
  <2> QED
    BY <1>2, <1>3, <2>1 DEF FMul
<1>8. FDiv(x, y) \in Floats
  <2>1. x # NaN /\ y # 0 => TruncDiv(x, y) \in Floats
    BY <1>1, <1>4, Truncated
  <2> QED
    BY <1>2, <2>1 DEF FDiv
<1>9. FMod(x, y) \in Floats
  <2>1. x # NaN /\ y # 0 => TruncMod(x, y) \in Floats
    BY <1>1, <1>4, Truncated
  <2> QED
    BY <1>2, <2>1 DEF FMod
<1> QED
  BY <1>5, <1>6, <1>7, <1>8, <1>9

\* What a value can hold.
LEMMA ValueHolds ==
  \A x \in Value :
    /\ x.t = "Int" => x.v \in Ints
    /\ x.t = "Float" => x.v \in Floats
    /\ x.t = "Bool" => x.v \in {0, 1}
    /\ x.t \in {"Int", "Float", "Bool", "Null", "String", "List"}
    /\ x.v \in Int
<1>1. Ints \subseteq Int /\ Floats \subseteq Int
  BY ValueConstants DEF Ints, Floats, MinInt, MaxInt, NaN
<1> SUFFICES ASSUME NEW x \in Value
             PROVE  /\ x.t = "Int" => x.v \in Ints
                    /\ x.t = "Float" => x.v \in Floats
                    /\ x.t = "Bool" => x.v \in {0, 1}
                    /\ x.t \in {"Int", "Float", "Bool", "Null", "String", "List"}
                    /\ x.v \in Int
  OBVIOUS
<1>2. CASE x \in [t : {"Int"}, v : Ints]
  BY <1>1, <1>2
<1>3. CASE x \in [t : {"Float"}, v : Floats]
  BY <1>1, <1>3
<1>4. CASE x \in [t : {"Bool"}, v : {0, 1}]
  BY <1>4
<1>5. CASE x = Null
  BY <1>5 DEF Null
<1>6. CASE x \in Refs
  BY <1>6 DEF Refs
<1> QED
  BY <1>2, <1>3, <1>4, <1>5, <1>6 DEF Value

LEMMA Results ==
  /\ \A x \in Floats : FloatV(x) \in Result
  /\ \A b : BoolV(b) \in Result
  /\ TypeError \in Result /\ Panics \in Result
BY DEF FloatV, BoolV, Result, Value

\* The operators on values.
LEMMA ArithmeticResult ==
  \A op \in Binary : \A build : \A l, r \in Value : Arithmetic(op, build, l, r) \in Result
<1> SUFFICES ASSUME NEW op \in Binary, NEW build, NEW l \in Value, NEW r \in Value
             PROVE  Arithmetic(op, build, l, r) \in Result
  OBVIOUS
<1>1. PICK a, b : a = l.v /\ b = r.v
  OBVIOUS
<1>2. /\ Both("Int", l, r) => a \in Ints /\ b \in Ints /\ a + b \in Int /\ a - b \in Int /\ a * b \in Int
      /\ Both("Float", l, r) => a \in Floats /\ b \in Floats
  <2>1. Ints \subseteq Int
    BY ValueConstants DEF Ints, MinInt, MaxInt
  <2>2. Both("Int", l, r) => a \in Ints /\ b \in Ints
    BY <1>1, ValueHolds DEF Both
  <2>3. Both("Float", l, r) => a \in Floats /\ b \in Floats
    BY <1>1, ValueHolds DEF Both
  <2>4. \A m, n \in Int : m + n \in Int /\ m - n \in Int /\ m * n \in Int
    OBVIOUS
  <2> QED
    BY <2>1, <2>2, <2>3, <2>4
<1>3. Add(build, l, r) \in Result /\ Mul(build, l, r) \in Result
  BY <1>1, <1>2, IntsResult, FloatsStay, Results DEF Add, Mul
<1>4. Sub(build, l, r) \in Result
  <2>1. Both("Float", l, r) => FAdd(a, FNeg(b)) \in Floats
    BY <1>2, FloatsStay
  <2> QED
    BY <1>1, <1>2, <2>1, IntsResult, Results DEF Sub
<1>5. Div(l, r) \in Result /\ Modulo(l, r) \in Result
  BY <1>1, <1>2, DividedResult, FloatsStay, Results DEF Div, Modulo
<1>6. Eq(l, r) \in Result /\ Neq(l, r) \in Result
  BY Results DEF Eq, Neq
<1>7. \A x, y : Lt(x, y) \in Result /\ Lte(x, y) \in Result
  BY Results DEF Lt, Lte
<1>8. Gt(l, r) \in Result /\ Gte(l, r) \in Result
  BY <1>7 DEF Gt, Gte
<1>9. And(l, r) \in Result /\ Or(l, r) \in Result
  BY Results DEF And, Or
<1> QED
  BY <1>3, <1>4, <1>5, <1>6, <1>7, <1>8, <1>9 DEF Arithmetic, Binary

LEMMA UnaryResult ==
  \A build : \A x \in Value : Neg(build, x) \in Result /\ Not(x) \in Result
<1> SUFFICES ASSUME NEW build, NEW x \in Value
             PROVE  Neg(build, x) \in Result /\ Not(x) \in Result
  OBVIOUS
<1>1. x.t = "Int" => -x.v \in Int
  BY ValueHolds, x.v \in Int
<1>2. x.t = "Float" => FNeg(x.v) \in Floats
  BY ValueHolds, FloatsStay
<1> QED
  BY <1>1, <1>2, IntsResult, Results DEF Neg, Not

-----------------------------------------------------------------------------
(* Machines, and what may be in their snapshots.  T are the times, counted *)
(* in instructions, that they may have come to.                            *)

Stream == [kind : Int, buffer : Seq(Int)]
Tables == UNION {[S -> Stream] : S \in {S \in SUBSET Int : IsFiniteSet(S)}}
IntValue == [t : {"Int"}, v : Int]
VmObject == [kind : {"String"}, data : Seq(Int)] \cup [kind : {"List"}, data : Seq(IntValue)]
VmFrame == [function : Int, ip : Int, locals : Seq(Value)]
RootEntry == [status : {"Running", "Yielded"}, pc : Int, handles : Tables]

\* References are to the objects 1..n of the snapshot.
Placed(n) == Value \cap FileValue(1..n)
PlacedFrame(n) == [function : Int, ip : Int, locals : Seq(Placed(n))]
StreamField ==
  [id : Int, kind : Int, strategy : {2}, params : {<<>>}, cached : {<<bytes>> : bytes \in Seq(Int)},
   position : {<<>>}]
RootField(pc, handles) ==
  [id |-> 0, parent |-> <<>>, status |-> 1, pc |-> <<pc>>, children |-> <<>>, stack |-> <<>>,
   frames |-> <<>>, handles |-> handles]
IsSaved(T, s) ==
  /\ s = [hash |-> s.hash, time |-> s.time, objects |-> s.objects, frames |-> s.frames,
          stack |-> s.stack, handles |-> s.handles, tasks |-> s.tasks]
  /\ s.time \in T /\ s.objects \in Seq(VmObject)
  /\ s.stack \in Seq(Placed(Len(s.objects))) /\ s.frames \in Seq(PlacedFrame(Len(s.objects)))
  /\ s.handles \in Seq(StreamField)
  /\ \/ s.tasks = <<>>
     \/ \E pc \in Int, handles \in Seq(StreamField) : s.tasks = <<RootField(pc, handles)>>

MachineFields(T, snapshot) ==
  [frames : Seq(VmFrame), stack : Seq(Value), running : BOOLEAN, objects : Seq(VmObject),
   marked : SUBSET Nat, handles : Tables, entry : RootEntry, snapshot : {snapshot},
   outcome : {"ok", "error", "dead"}, steps : T]
IsMachine(T, m) ==
  /\ m \in MachineFields(T, m.snapshot) /\ m.marked \subseteq DOMAIN m.objects
  /\ m.snapshot = NoSnapshot \/ IsSaved(T, m.snapshot)

LEMMA MachineIs ==
  \A T, m : IsMachine(T, m) =>
    /\ m.frames \in Seq(VmFrame) /\ m.stack \in Seq(Value) /\ m.running \in BOOLEAN
    /\ m.objects \in Seq(VmObject) /\ m.marked \subseteq DOMAIN m.objects /\ m.handles \in Tables
    /\ m.entry \in RootEntry /\ m.outcome \in {"ok", "error", "dead"} /\ m.steps \in T
    /\ m.snapshot = NoSnapshot \/ IsSaved(T, m.snapshot)
    /\ Len(m.stack) \in Nat /\ Len(m.frames) \in Nat /\ Len(m.objects) \in Nat
BY DEF IsMachine, MachineFields

\* One field of a machine can be changed for another of its kind.
WithFrames(m, x) == [m EXCEPT !.frames = x]
WithStack(m, x) == [m EXCEPT !.stack = x]
WithRunning(m, x) == [m EXCEPT !.running = x]
WithObjects(m, x) == [m EXCEPT !.objects = x]
WithMarked(m, x) == [m EXCEPT !.marked = x]
WithHandles(m, x) == [m EXCEPT !.handles = x]
WithEntry(m, x) == [m EXCEPT !.entry = x]
WithSnapshot(m, x) == [m EXCEPT !.snapshot = x]
WithOutcome(m, x) == [m EXCEPT !.outcome = x]
WithSteps(m, x) == [m EXCEPT !.steps = x]
LEMMA MachineWith ==
  \A T, m : IsMachine(T, m) =>
    /\ \A x \in Seq(VmFrame) : IsMachine(T, WithFrames(m, x))
    /\ \A x \in Seq(Value) : IsMachine(T, WithStack(m, x))
    /\ \A x \in BOOLEAN : IsMachine(T, WithRunning(m, x))
    /\ \A x \in Seq(VmObject) : DOMAIN m.objects \subseteq DOMAIN x => IsMachine(T, WithObjects(m, x))
    /\ \A x : x \subseteq DOMAIN m.objects => IsMachine(T, WithMarked(m, x))
    /\ \A x \in Tables : IsMachine(T, WithHandles(m, x))
    /\ \A x \in RootEntry : IsMachine(T, WithEntry(m, x))
    /\ \A x : IsSaved(T, x) => IsMachine(T, WithSnapshot(m, x))
    /\ \A x \in {"ok", "error", "dead"} : IsMachine(T, WithOutcome(m, x))
    /\ \A x \in T : IsMachine(T, WithSteps(m, x))
<1> SUFFICES ASSUME NEW T, NEW m, IsMachine(T, m)
    PROVE
    /\ \A x \in Seq(VmFrame) : IsMachine(T, WithFrames(m, x))
    /\ \A x \in Seq(Value) : IsMachine(T, WithStack(m, x))
    /\ \A x \in BOOLEAN : IsMachine(T, WithRunning(m, x))
    /\ \A x \in Seq(VmObject) : DOMAIN m.objects \subseteq DOMAIN x => IsMachine(T, WithObjects(m, x))
    /\ \A x : x \subseteq DOMAIN m.objects => IsMachine(T, WithMarked(m, x))
    /\ \A x \in Tables : IsMachine(T, WithHandles(m, x))
    /\ \A x \in RootEntry : IsMachine(T, WithEntry(m, x))
    /\ \A x : IsSaved(T, x) => IsMachine(T, WithSnapshot(m, x))
    /\ \A x \in {"ok", "error", "dead"} : IsMachine(T, WithOutcome(m, x))
    /\ \A x \in T : IsMachine(T, WithSteps(m, x))
  OBVIOUS
<1>1. \A x \in Seq(VmFrame) : IsMachine(T, WithFrames(m, x))
  BY DEF IsMachine, MachineFields, WithFrames
<1>2. \A x \in Seq(Value) : IsMachine(T, WithStack(m, x))
  BY DEF IsMachine, MachineFields, WithStack
<1>3. \A x \in BOOLEAN : IsMachine(T, WithRunning(m, x))
  BY DEF IsMachine, MachineFields, WithRunning
<1>4. \A x \in Seq(VmObject) : DOMAIN m.objects \subseteq DOMAIN x => IsMachine(T, WithObjects(m, x))
  BY DEF IsMachine, MachineFields, WithObjects
<1>5. \A x : x \subseteq DOMAIN m.objects => IsMachine(T, WithMarked(m, x))
  <2>1. DOMAIN m.objects \subseteq Nat
    BY DEF IsMachine, MachineFields
  <2> QED
    BY <2>1 DEF IsMachine, MachineFields, WithMarked
<1>6. \A x \in Tables : IsMachine(T, WithHandles(m, x))
  BY DEF IsMachine, MachineFields, WithHandles
<1>7. \A x \in RootEntry : IsMachine(T, WithEntry(m, x))
  BY DEF IsMachine, MachineFields, WithEntry
<1>8. \A x : IsSaved(T, x) => IsMachine(T, WithSnapshot(m, x))
  BY DEF IsMachine, MachineFields, WithSnapshot
<1>9. \A x \in {"ok", "error", "dead"} : IsMachine(T, WithOutcome(m, x))
  BY DEF IsMachine, MachineFields, WithOutcome
<1>10. \A x \in T : IsMachine(T, WithSteps(m, x))
  BY DEF IsMachine, MachineFields, WithSteps
<1> QED
  BY <1>1, <1>2, <1>3, <1>4, <1>5, <1>6, <1>7, <1>8, <1>9, <1>10

-----------------------------------------------------------------------------
(* Opcodes lead from machine to machine.                                   *)

LEMMA ErrDead == \A T, m : IsMachine(T, m) => IsMachine(T, Err(m)) /\ IsMachine(T, Dead(m))
BY MachineWith DEF Err, Dead, WithOutcome

LEMMA Emptied == \A T, m : IsMachine(T, m) => IsMachine(T, [m EXCEPT !.stack = <<>>])
<1>1. \A x : x = <<>> => x \in Seq(Value)
  OBVIOUS
<1> QED
  BY <1>1, MachineWith DEF WithStack

LEMMA Popped ==
  \A T, m : \A n \in Nat : IsMachine(T, m) /\ n <= Len(m.stack) => IsMachine(T, Pop(m, n))
<1> SUFFICES ASSUME NEW T, NEW m, NEW n \in Nat, IsMachine(T, m), n <= Len(m.stack)
             PROVE  IsMachine(T, Pop(m, n))
  OBVIOUS
<1>1. m.stack \in Seq(Value) /\ Len(m.stack) \in Nat
  BY MachineIs
<1>2. PICK s : s = SubSeq(m.stack, 1, Len(m.stack) - n)
  OBVIOUS
<1>3. s \in Seq(Value)
  BY <1>1, <1>2
<1>4. Pop(m, n) = WithStack(m, s)
  BY <1>2 DEF Pop, WithStack
<1> QED
  BY <1>3, <1>4, MachineWith

LEMMA Pushed == \A T, m : \A x \in Value : IsMachine(T, m) => IsMachine(T, Push(m, x))
<1> SUFFICES ASSUME NEW T, NEW m, NEW x \in Value, IsMachine(T, m) PROVE IsMachine(T, Push(m, x))
  OBVIOUS
<1>1. PICK s : s = Append(m.stack, x)
  OBVIOUS
<1>2. s \in Seq(Value)
  BY <1>1, MachineIs
<1>3. Push(m, x) = WithStack(m, s)
  BY <1>1 DEF Push, WithStack
<1> QED
  BY <1>2, <1>3, MachineWith

LEMMA UnderIs ==
  \A T, m : \A n \in Nat : IsMachine(T, m) /\ n < Len(m.stack) => Under(m, n) \in Value
<1> SUFFICES ASSUME NEW T, NEW m, NEW n \in Nat, IsMachine(T, m), n < Len(m.stack)
             PROVE  Under(m, n) \in Value
  OBVIOUS
<1>1. m.stack \in Seq(Value) /\ Len(m.stack) \in Nat
  BY MachineIs
<1>2. Len(m.stack) - n \in 1..Len(m.stack)
  BY <1>1
<1> QED
  BY <1>1, <1>2 DEF Under

\* A stack that is not empty has a top.
LEMMA TopIs ==
  \A T, m : IsMachine(T, m) /\ m.stack # <<>> =>
    /\ Under(m, 0) \in Value /\ IsMachine(T, Pop(m, 1))
    /\ Len(m.stack) >= 1
<1> SUFFICES ASSUME NEW T, NEW m, IsMachine(T, m), m.stack # <<>>
             PROVE  Under(m, 0) \in Value /\ IsMachine(T, Pop(m, 1)) /\ Len(m.stack) >= 1
  OBVIOUS
<1>1. Len(m.stack) >= 1
  BY MachineIs, EmptyList
<1> QED
  BY <1>1, UnderIs, Popped, 0 < Len(m.stack), 0 \in Nat, 1 \in Nat

LEMMA ProducedIs ==
  \A T, m : \A x \in Result : IsMachine(T, m) => IsMachine(T, Produce(m, x))
BY ErrDead, Pushed DEF Produce, Result

LEMMA BinaryStep ==
  \A T, m, build : \A op \in Binary : IsMachine(T, m) => IsMachine(T, BinaryOp(m, build, op))
<1> SUFFICES ASSUME NEW T, NEW m, NEW build, NEW op \in Binary, IsMachine(T, m)
             PROVE  IsMachine(T, BinaryOp(m, build, op))
  OBVIOUS
<1>1. CASE Len(m.stack) < 2
  BY <1>1, Emptied, ErrDead DEF BinaryOp
<1>2. CASE ~(Len(m.stack) < 2)
  <2>1. 0 < Len(m.stack) /\ 1 < Len(m.stack) /\ 2 <= Len(m.stack)
    BY <1>2, MachineIs
  <2>2. Under(m, 1) \in Value /\ Under(m, 0) \in Value /\ IsMachine(T, Pop(m, 2))
    BY <2>1, UnderIs, Popped
  <2>3. Arithmetic(op, build, Under(m, 1), Under(m, 0)) \in Result
    BY <2>2, ArithmeticResult
  <2> QED
    BY <1>2, <2>2, <2>3, ProducedIs DEF BinaryOp
<1> QED
  BY <1>1, <1>2

LEMMA UnaryStep ==
  \A T, m, build, op : IsMachine(T, m) => IsMachine(T, UnaryOp(m, build, op))
BY ErrDead, TopIs, UnaryResult, ProducedIs DEF UnaryOp

\* The frame that a fetch found.
LEMMA HereIs ==
  \A T, m : IsMachine(T, m) /\ m.frames # <<>> =>
    /\ Len(m.frames) \in DOMAIN m.frames /\ Here(m) \in VmFrame
    /\ \A f \in VmFrame : IsMachine(T, [m EXCEPT !.frames[Len(m.frames)] = f])
<1> SUFFICES ASSUME NEW T, NEW m, IsMachine(T, m), m.frames # <<>>
             PROVE  /\ Len(m.frames) \in DOMAIN m.frames /\ Here(m) \in VmFrame
                    /\ \A f \in VmFrame : IsMachine(T, [m EXCEPT !.frames[Len(m.frames)] = f])
  OBVIOUS
<1>1. m.frames \in Seq(VmFrame) /\ Len(m.frames) \in Nat
  BY MachineIs
<1>2. Len(m.frames) # 0
  BY <1>1, EmptyList
<1>3. Len(m.frames) \in DOMAIN m.frames
  BY <1>1, <1>2
<1>4. Here(m) \in VmFrame
  BY <1>1, <1>3 DEF Here
<1>5. ASSUME NEW f \in VmFrame PROVE IsMachine(T, [m EXCEPT !.frames[Len(m.frames)] = f])
  <2>1. PICK s : s = [m.frames EXCEPT ![Len(m.frames)] = f]
    OBVIOUS
  <2>2. s \in Seq(VmFrame)
    BY <1>1, <2>1
  <2>3. [m EXCEPT !.frames[Len(m.frames)] = f] = WithFrames(m, s)
    BY <2>1 DEF WithFrames
  <2> QED
    BY <2>2, <2>3, MachineWith
<1> QED
  BY <1>3, <1>4, <1>5

LEMMA IpSet ==
  \A T, m : \A ip \in Int : IsMachine(T, m) /\ m.frames # <<>> =>
    /\ IsMachine(T, SetIp(m, ip)) /\ SetIp(m, ip).frames # <<>>
    /\ Len(SetIp(m, ip).frames) = Len(m.frames)
<1> SUFFICES ASSUME NEW T, NEW m, NEW ip \in Int, IsMachine(T, m), m.frames # <<>>
             PROVE  /\ IsMachine(T, SetIp(m, ip)) /\ SetIp(m, ip).frames # <<>>
                    /\ Len(SetIp(m, ip).frames) = Len(m.frames)
  OBVIOUS
<1>1. PICK f : f = [Here(m) EXCEPT !.ip = ip]
  OBVIOUS
<1>2. f \in VmFrame
  BY <1>1, HereIs DEF VmFrame
<1>3. SetIp(m, ip) = [m EXCEPT !.frames[Len(m.frames)] = f]
  BY <1>1 DEF SetIp, Here
<1>4. IsMachine(T, SetIp(m, ip))
  BY <1>2, <1>3, HereIs
<1>5. m.frames \in Seq(VmFrame) /\ Len(m.frames) \in Nat /\ Len(m.frames) # 0
  BY MachineIs, EmptyList
<1>6. SetIp(m, ip).frames = [m.frames EXCEPT ![Len(m.frames)] = f]
  <2>1. m = [frames |-> m.frames, stack |-> m.stack, running |-> m.running, objects |-> m.objects,
             marked |-> m.marked, handles |-> m.handles, entry |-> m.entry, snapshot |-> m.snapshot,
             outcome |-> m.outcome, steps |-> m.steps]
    BY DEF IsMachine, MachineFields
  <2> QED
    BY <1>3, <2>1
<1>7. Len(SetIp(m, ip).frames) = Len(m.frames)
  BY <1>5, <1>6
<1>8. SetIp(m, ip).frames # <<>>
  BY <1>5, <1>7
<1> QED
  BY <1>4, <1>7, <1>8

LEMMA JumpStep ==
  \A T, m, truth : \A ip \in Nat : IsMachine(T, m) /\ m.frames # <<>> => IsMachine(T, JumpWhen(m, truth, ip))
<1> SUFFICES ASSUME NEW T, NEW m, NEW truth, NEW ip \in Nat, IsMachine(T, m), m.frames # <<>>
             PROVE  IsMachine(T, JumpWhen(m, truth, ip))
  OBVIOUS
<1>1. m.stack # <<>> => IsMachine(T, Pop(m, 1)) /\ Pop(m, 1).frames # <<>>
  <2>1. Pop(m, 1).frames = m.frames
    BY DEF Pop, IsMachine, MachineFields
  <2> QED
    BY <2>1, TopIs
<1>2. m.stack # <<>> => IsMachine(T, SetIp(Pop(m, 1), ip))
  BY <1>1, IpSet, ip \in Int
<1> QED
  BY <1>1, <1>2, ErrDead DEF JumpWhen

LEMMA LoadStep ==
  \A T, m, k : IsMachine(T, m) /\ m.frames # <<>> => IsMachine(T, Load(m, k))
<1> SUFFICES ASSUME NEW T, NEW m, NEW k, IsMachine(T, m), m.frames # <<>> PROVE IsMachine(T, Load(m, k))
  OBVIOUS
<1>1. k \in DOMAIN Here(m).locals => Here(m).locals[k] \in Value
  BY HereIs DEF VmFrame
<1> QED
  BY <1>1, ErrDead, Pushed DEF Load

LEMMA StoreStep ==
  \A T, m, k : IsMachine(T, m) /\ m.frames # <<>> => IsMachine(T, Store(m, k))
<1> SUFFICES ASSUME NEW T, NEW m, NEW k, IsMachine(T, m), m.frames # <<>> PROVE IsMachine(T, Store(m, k))
  OBVIOUS
<1>1. CASE m.stack = <<>>
  BY <1>1, ErrDead DEF Store
<1>2. CASE m.stack # <<>>
  <2>1. PICK q : q = Pop(m, 1)
    OBVIOUS
  <2>2. IsMachine(T, q) /\ Under(m, 0) \in Value
    BY <1>2, <2>1, TopIs
  <2>3. q.frames = m.frames
    BY <2>1 DEF Pop, IsMachine, MachineFields
  <2>4. PICK f : f = [Here(m) EXCEPT !.locals[k] = Under(m, 0)]
    OBVIOUS
  <2>5. Here(m) \in VmFrame /\ Here(m) = q.frames[Len(q.frames)]
    BY <2>3, HereIs DEF Here
  <2>6. f \in VmFrame
    <3>1. PICK old, new : old = Here(m).locals /\ new = [old EXCEPT ![k] = Under(m, 0)]
      OBVIOUS
    <3>2. old \in Seq(Value) /\ Under(m, 0) \in Value
      BY <2>2, <2>5, <3>1 DEF VmFrame
    <3>3. new \in Seq(Value)
      <4>1. PICK n \in Nat : n = Len(old) /\ old \in [1..n -> Value]
        BY <3>2
      <4>2. new \in [1..n -> Value]
        BY <3>1, <3>2, <4>1
      <4> QED
        BY <4>2
    <3>4. f = [Here(m) EXCEPT !.locals = new]
      BY <2>4, <3>1
    <3> QED
      BY <2>5, <3>3, <3>4 DEF VmFrame
  <2>7. IsMachine(T, [q EXCEPT !.frames[Len(q.frames)] = f])
    BY <2>2, <2>3, <2>6, HereIs
  <2>8. [q EXCEPT !.frames[Len(m.frames)].locals[k] = Under(m, 0)]
          = [q EXCEPT !.frames[Len(q.frames)] = f]
    BY <2>3, <2>4, <2>5
  <2> QED
    BY <1>2, <2>1, <2>2, <2>7, <2>8, ErrDead DEF Store
<1> QED
  BY <1>1, <1>2

LEMMA CallStep ==
  \A p, T, m : \A f \in Nat : IsProgram(p) /\ IsMachine(T, m) => IsMachine(T, Call(p, m, f))
<1> SUFFICES ASSUME NEW p, NEW T, NEW m, NEW f \in Nat, IsProgram(p), IsMachine(T, m)
             PROVE  IsMachine(T, Call(p, m, f))
  OBVIOUS
<1>1. CASE f + 1 \notin DOMAIN p.functions
  BY <1>1, ErrDead DEF Call
<1>2. CASE f + 1 \in DOMAIN p.functions
  <2>1. PICK g : g = p.functions[f + 1]
    OBVIOUS
  <2>2. PICK n, l \in Nat : n = g.arity /\ l = g.locals
    BY <1>2, <2>1 DEF IsProgram, IsFunction
  <2>3. CASE Len(m.stack) < n
    BY <1>2, <2>1, <2>2, <2>3, Emptied, ErrDead DEF Call
  <2>4. CASE ~(Len(m.stack) < n)
    <3>1. m.stack \in Seq(Value) /\ Len(m.stack) \in Nat /\ n <= Len(m.stack) /\ m.frames \in Seq(VmFrame)
      BY <2>2, <2>4, MachineIs
    <3>2. PICK args : args = Arguments(m, n)
      OBVIOUS
    <3>3. args \in Seq(Value)
      <4>1. Len(m.stack) - n + 1 \in Nat /\ Len(m.stack) - n + 1 >= 1
        BY <2>2, <3>1
      <4> QED
        BY <3>1, <3>2, <4>1 DEF Arguments
    <3>4. Null \in Value
      BY DEF Value
    <3>5. PICK locals : locals = Resized(args, l)
      OBVIOUS
    <3>6. locals \in Seq(Value)
      <4>1. \A k \in 1..l : (IF k \in DOMAIN args THEN args[k] ELSE Null) \in Value
        BY <3>3, <3>4
      <4> QED
        BY <2>2, <3>5, <4>1 DEF Resized
    <3>7. Frame(f, locals) \in VmFrame
      BY <3>6 DEF Frame, VmFrame
    <3>8. PICK q : q = Pop(m, n)
      OBVIOUS
    <3>9. IsMachine(T, q) /\ q.frames = m.frames
      <4>1. IsMachine(T, q)
        BY <2>2, <3>1, <3>8, Popped
      <4> QED
        BY <3>8, <4>1 DEF Pop, IsMachine, MachineFields
    <3>10. PICK fs : fs = Append(m.frames, Frame(f, locals))
      OBVIOUS
    <3>11. fs \in Seq(VmFrame)
      BY <3>1, <3>7, <3>10
    <3>12. IsMachine(T, WithFrames(q, fs))
      BY <3>9, <3>11, MachineWith
    <3>13. Call(p, m, f) = [q EXCEPT !.frames = Append(@, Frame(f, locals))]
      BY <1>2, <2>1, <2>2, <2>4, <3>2, <3>5, <3>8 DEF Call
    <3> QED
      BY <3>9, <3>10, <3>12, <3>13 DEF WithFrames
  <2> QED
    BY <2>3, <2>4
<1> QED
  BY <1>1, <1>2

LEMMA ReturnStep ==
  \A T, m : IsMachine(T, m) /\ m.frames # <<>> => IsMachine(T, Return(m))
<1> SUFFICES ASSUME NEW T, NEW m, IsMachine(T, m), m.frames # <<>> PROVE IsMachine(T, Return(m))
  OBVIOUS
<1>1. m.frames \in Seq(VmFrame) /\ Len(m.frames) \in Nat /\ Len(m.frames) # 0
  BY MachineIs, EmptyList
<1>2. PICK fs, run : fs = SubSeq(m.frames, 1, Len(m.frames) - 1) /\ run = (Len(m.frames) > 1)
  OBVIOUS
<1>3. fs \in Seq(VmFrame) /\ run \in BOOLEAN
  BY <1>1, <1>2
<1>4. IsMachine(T, WithRunning(WithFrames(m, fs), run))
  BY <1>3, MachineWith
<1>5. Return(m) = WithRunning(WithFrames(m, fs), run)
  BY <1>2 DEF Return, WithRunning, WithFrames
<1> QED
  BY <1>4, <1>5

LEMMA HaltStep == \A T, m : IsMachine(T, m) => IsMachine(T, [m EXCEPT !.running = FALSE])
BY MachineWith, FALSE \in BOOLEAN DEF WithRunning

-----------------------------------------------------------------------------
(* Captures.                                                               *)

\* How many of M are up to i.  Every number up to that of all of them is one's.
Rank(M, i) == Cardinality({j \in M : j <= i})
LEMMA RankIs ==
  ASSUME NEW M, IsFiniteSet(M), M \subseteq Nat
  PROVE  /\ Cardinality(M) \in Nat /\ \A i \in M : Rank(M, i) \in 1..Cardinality(M)
         /\ \A i, j \in M : i < j => Rank(M, i) < Rank(M, j)
         /\ \A k \in 1..Cardinality(M) : \E i \in M : Rank(M, i) = k
<1> DEFINE upTo(i) == {j \in M : j <= i}
           C == 1..Cardinality(M)
           f == [i \in M |-> Rank(M, i)]
<1>1. Cardinality(M) \in Nat
  BY FS_CardinalityType
<1>2. ASSUME NEW i \in M PROVE IsFiniteSet(upTo(i)) /\ Rank(M, i) \in C
  <2>1. upTo(i) \in SUBSET M /\ i \in upTo(i) /\ Rank(M, i) = Cardinality(upTo(i))
    BY <1>2 DEF Rank
  <2> HIDE DEF upTo
  <2>2. IsFiniteSet(upTo(i)) /\ Cardinality(upTo(i)) <= Cardinality(M)
    BY <2>1, FS_Subset
  <2>3. Cardinality(upTo(i)) \in Nat /\ Cardinality(upTo(i)) # 0
    BY <2>1, <2>2, FS_CardinalityType, FS_EmptySet
  <2> QED
    BY <1>1, <2>1, <2>2, <2>3
<1>3. ASSUME NEW i \in M, NEW j \in M, i < j PROVE Rank(M, i) < Rank(M, j)
  <2>1. upTo(i) \in SUBSET upTo(j) /\ j \in upTo(j) /\ j \notin upTo(i)
    <3>1. \A k \in M : k <= i => k <= j
      BY <1>3
    <3>2. ~(j <= i) /\ j <= j
      BY <1>3
    <3> QED
      BY <1>3, <3>1, <3>2
  <2>2. Rank(M, i) = Cardinality(upTo(i)) /\ Rank(M, j) = Cardinality(upTo(j))
    BY DEF Rank
  <2>3. IsFiniteSet(upTo(i)) /\ IsFiniteSet(upTo(j))
    BY <1>2
  <2> HIDE DEF upTo
  <2>4. /\ Cardinality(upTo(i)) <= Cardinality(upTo(j)) /\ Cardinality(upTo(i)) # Cardinality(upTo(j))
        /\ Cardinality(upTo(i)) \in Nat /\ Cardinality(upTo(j)) \in Nat
    BY <2>1, <2>3, FS_Subset, FS_CardinalityType
  <2> QED
    BY <2>2, <2>4
<1>4. IsFiniteSet(C) /\ Cardinality(C) = Cardinality(M)
  BY <1>1, FS_Interval
<1>5. f \in Injection(M, C)
  <2>1. f \in [M -> C]
    BY <1>2
  <2>2. ASSUME NEW i \in M, NEW j \in M, f[i] = f[j] PROVE i = j
    <3>1. i < j \/ j < i \/ i = j
      OBVIOUS
    <3>2. Rank(M, i) = Rank(M, j)
      <4>1. f[i] = Rank(M, i) /\ f[j] = Rank(M, j)
        OBVIOUS
      <4> HIDE DEF f
      <4> QED
        BY <2>2, <4>1
    <3>3. PICK r \in Int : r = Rank(M, i) /\ r = Rank(M, j)
      <4>1. Rank(M, i) \in C
        BY <1>2
      <4>2. \A r \in C : r \in Int
        BY <1>1
      <4> QED
        BY <3>2, <4>1, <4>2
    <3>4. ~(i < j)
      <4>1. i < j => r < r
        BY <1>3, <3>3
      <4> QED
        BY <4>1
    <3>5. ~(j < i)
      <4>1. j < i => r < r
        BY <1>3, <3>3
      <4> QED
        BY <4>1
    <3> QED
      BY <3>1, <3>4, <3>5
  <2> HIDE DEF f, C
  <2> QED
    BY <2>1, <2>2 DEF Injection, IsInjective
<1>6. \A k \in C : \E i \in M : f[i] = k
  <2> HIDE DEF f, C
  <2>1. f \in Surjection(M, C)
    BY <1>4, <1>5, FS_Injection
  <2> QED
    BY <2>1 DEF Surjection
<1>7. \A k \in C : \E i \in M : Rank(M, i) = k
  BY <1>6
<1> QED
  BY <1>1, <1>2, <1>3, <1>7

LEMMA SlotsFinite ==
  ASSUME NEW T, NEW m, IsMachine(T, m), NEW M, M \subseteq DOMAIN m.objects
  PROVE  IsFiniteSet(M) /\ M \subseteq Nat
<1>1. DOMAIN m.objects = 1..Len(m.objects) /\ Len(m.objects) \in Nat
  BY MachineIs
<1>2. IsFiniteSet(1..Len(m.objects)) /\ M \in SUBSET (1..Len(m.objects))
  BY <1>1, FS_Interval
<1> QED
  BY <1>2, FS_Subset

\* The objects of a snapshot are those of the machine.
LEMMA KeptIs ==
  ASSUME NEW T, NEW m, IsMachine(T, m), NEW M, M \subseteq DOMAIN m.objects
  PROVE  Kept(m, M) \in Seq(VmObject) /\ Len(Kept(m, M)) = Cardinality(M) /\ Cardinality(M) \in Nat
<1>1. IsFiniteSet(M) /\ M \subseteq Nat
  BY SlotsFinite
<1>2. PICK n \in Nat : n = Cardinality(M)
  BY <1>1, RankIs
<1>3. \A k \in 1..n : \E i \in M : Rank(M, i) = k
  BY <1>1, <1>2, RankIs
<1>4. \A k \in 1..n : (CHOOSE i \in M : Rank(M, i) = k) \in M
  BY <1>3
<1>5. \A k \in 1..n : m.objects[CHOOSE i \in M : Rank(M, i) = k] \in VmObject
  BY <1>4, MachineIs
<1>6. PICK s : s = Kept(m, M)
  OBVIOUS
<1>7. s = [k \in 1..n |-> m.objects[CHOOSE i \in M : Rank(M, i) = k]]
  BY <1>2, <1>6 DEF Kept, Rank
<1>8. \A k \in 1..n : s[k] \in VmObject
  BY <1>5, <1>7
<1>9. s = [k \in 1..n |-> s[k]]
  BY <1>7
<1> HIDE DEF VmObject
<1>10. s \in Seq(VmObject) /\ Len(s) = n
  BY <1>8, <1>9
<1> QED
  BY <1>2, <1>6, <1>10

\* References become positions of objects that are kept.
LEMMA MovedIs ==
  ASSUME NEW M, IsFiniteSet(M), M \subseteq Nat, NEW x \in Value, x \in Refs => x.v \in M
  PROVE  Moved(M, x) \in Placed(Cardinality(M))
<1>1. PICK n : n = Cardinality(M)
  OBVIOUS
<1>2. CASE x \in Refs
  <2>1. PICK r : r = Rank(M, x.v)
    OBVIOUS
  <2>2. r \in 1..n /\ n \in Nat
    BY <1>1, <1>2, <2>1, RankIs
  <2>3. Moved(M, x) = [x EXCEPT !.v = r]
    BY <1>2, <2>1 DEF Moved, Rank
  <2>4. Moved(M, x) \in [t : {"String", "List"}, v : 1..n]
    BY <1>2, <2>2, <2>3 DEF Refs
  <2>5. Moved(M, x) \in Refs
    BY <2>2, <2>4 DEF Refs
  <2> QED
    BY <1>1, <2>4, <2>5 DEF Placed, FileValue, Value
<1>3. CASE x \notin Refs
  <2>1. Moved(M, x) = x
    BY <1>3 DEF Moved
  <2>2. x \in FileValue(1..n)
    <3>1. Ints \subseteq Int /\ Floats \subseteq Int /\ {0, 1} \subseteq Int
      BY ValueConstants DEF Ints, Floats, MinInt, MaxInt, NaN
    <3>2. Null = NullValue
      BY DEF Null, NullValue
    <3>3. CASE x \in [t : {"Int"}, v : Ints] \/ x \in [t : {"Float"}, v : Floats] \/ x \in [t : {"Bool"}, v : {0, 1}]
      BY <3>1, <3>3 DEF FileValue
    <3>4. CASE x = Null
      BY <3>2, <3>4 DEF FileValue
    <3> QED
      BY <1>3, <3>3, <3>4 DEF Value
  <2> QED
    BY <1>1, <2>1, <2>2 DEF Placed
<1> QED
  BY <1>2, <1>3

LEMMA MovedAllIs ==
  ASSUME NEW M, IsFiniteSet(M), M \subseteq Nat, NEW s \in Seq(Value),
         \A k \in DOMAIN s : s[k] \in Refs => s[k].v \in M
  PROVE  MovedAll(M, s) \in Seq(Placed(Cardinality(M)))
<1>1. PICK P0 : P0 = Placed(Cardinality(M))
  OBVIOUS
<1>2. ASSUME NEW k \in DOMAIN s PROVE Moved(M, s[k]) \in P0
  <2>1. PICK x \in Value : x = s[k]
    OBVIOUS
  <2>2. x \in Refs => x.v \in M
    BY <2>1
  <2> QED
    BY <1>1, <2>1, <2>2, MovedIs
<1>3. PICK ys : ys = MovedAll(M, s)
  OBVIOUS
<1>4. ys = [k \in DOMAIN s |-> Moved(M, s[k])]
  BY <1>3 DEF MovedAll
<1>5. ys = [k \in DOMAIN s |-> ys[k]] /\ \A k \in DOMAIN s : ys[k] \in P0
  BY <1>2, <1>4
<1>6. ys \in Seq(P0)
  BY <1>5, EachFields
<1> QED
  BY <1>1, <1>3, <1>6

LEMMA FramesMoved ==
  ASSUME NEW T, NEW m, IsMachine(T, m), NEW M, IsFiniteSet(M), M \subseteq Nat,
         \A x \in ValuesOf(m) \cap Refs : x.v \in M
  PROVE  Frames(m, M) \in Seq(PlacedFrame(Cardinality(M)))
<1>1. PICK n : n = Cardinality(M)
  OBVIOUS
<1>2. m.frames \in Seq(VmFrame)
  BY MachineIs
<1>3. ASSUME NEW j \in DOMAIN m.frames
      PROVE  [m.frames[j] EXCEPT !.locals = MovedAll(M, @)] \in PlacedFrame(n)
  <2>1. PICK f : f = m.frames[j]
    OBVIOUS
  <2>2. f \in VmFrame
    BY <1>2, <2>1
  <2>3. \A k \in DOMAIN f.locals : f.locals[k] \in ValuesOf(m)
    BY <2>1 DEF ValuesOf
  <2>4. f.locals \in Seq(Value)
    BY <2>2 DEF VmFrame
  <2>5. MovedAll(M, f.locals) \in Seq(Placed(n))
    BY <1>1, <2>3, <2>4, MovedAllIs
  <2>6. [f EXCEPT !.locals = MovedAll(M, f.locals)] \in PlacedFrame(n)
    BY <2>2, <2>5 DEF VmFrame, PlacedFrame
  <2> QED
    BY <2>1, <2>6
<1>4. PICK ys : ys = Frames(m, M)
  OBVIOUS
<1>5. ys = [j \in DOMAIN m.frames |-> [m.frames[j] EXCEPT !.locals = MovedAll(M, @)]]
  BY <1>4 DEF Frames
<1>6. ys = [j \in DOMAIN m.frames |-> ys[j]] /\ \A j \in DOMAIN m.frames : ys[j] \in PlacedFrame(n)
  BY <1>3, <1>5
<1>7. ys \in Seq(PlacedFrame(n))
  BY <1>2, <1>6, EachFields
<1> QED
  BY <1>1, <1>4, <1>7

-----------------------------------------------------------------------------
(* Tables of streams.                                                      *)

LEMMA TableIs ==
  \A table \in Tables :
    /\ IsFiniteSet(DOMAIN table) /\ DOMAIN table \subseteq Int /\ table \in [DOMAIN table -> Stream]
    /\ \A h \in DOMAIN table : table[h].kind \in Int /\ table[h].buffer \in Seq(Int)
<1> SUFFICES ASSUME NEW table \in Tables
             PROVE  /\ IsFiniteSet(DOMAIN table) /\ DOMAIN table \subseteq Int
                    /\ table \in [DOMAIN table -> Stream]
                    /\ \A h \in DOMAIN table : table[h].kind \in Int /\ table[h].buffer \in Seq(Int)
  OBVIOUS
<1>1. PICK S \in SUBSET Int : IsFiniteSet(S) /\ table \in [S -> Stream]
  BY DEF Tables
<1>2. DOMAIN table = S
  BY <1>1
<1>3. \A h \in S : table[h] \in Stream
  BY <1>1
<1> QED
  BY <1>1, <1>2, <1>3 DEF Stream

LEMMA IsTable ==
  \A S \in SUBSET Int : \A table : IsFiniteSet(S) /\ table \in [S -> Stream] => table \in Tables
BY DEF Tables

LEMMA HandlesListed == \A table \in Tables : Handles(table) \in Seq(StreamField)
<1> SUFFICES ASSUME NEW table \in Tables PROVE Handles(table) \in Seq(StreamField)
  OBVIOUS
<1>1. PICK S, ids : S = DOMAIN table /\ ids = Seqs!SetToSeq(S)
  OBVIOUS
<1>2. ids \in Seq(S) /\ S \subseteq Int
  BY <1>1, SetIsListed, TableIs
<1>3. PICK ys : ys = Handles(table)
  OBVIOUS
<1>4. ys = [k \in DOMAIN ids |->
              [id |-> ids[k], kind |-> table[ids[k]].kind, strategy |-> 2, params |-> <<>>,
               cached |-> <<table[ids[k]].buffer>>, position |-> <<>>]]
  BY <1>1, <1>3 DEF Handles
<1>5. ASSUME NEW k \in DOMAIN ids PROVE ys[k] \in StreamField
  <2>1. PICK h \in S : h = ids[k]
    <3>1. ids[k] \in S
      BY <1>2
    <3> QED
      BY <3>1
  <2>2. PICK kind \in Int, bytes \in Seq(Int) : kind = table[h].kind /\ bytes = table[h].buffer
    BY <1>1, TableIs
  <2>3. ys[k] = [id |-> h, kind |-> kind, strategy |-> 2, params |-> <<>>, cached |-> <<bytes>>,
                 position |-> <<>>]
    BY <1>4, <2>1, <2>2
  <2>4. h \in Int /\ <<bytes>> \in {<<b>> : b \in Seq(Int)}
    BY <1>2
  <2> QED
    BY <2>3, <2>4 DEF StreamField
<1>6. ys = [k \in DOMAIN ids |-> ys[k]]
  BY <1>4
<1> QED
  BY <1>2, <1>3, <1>5, <1>6, EachFields

LEMMA WithoutIs == \A table \in Tables : \A ids : Without(table, ids) \in Tables
<1> SUFFICES ASSUME NEW table \in Tables, NEW ids PROVE Without(table, ids) \in Tables
  OBVIOUS
<1>1. PICK S : S = DOMAIN table
  OBVIOUS
<1>2. IsFiniteSet(S) /\ S \subseteq Int /\ table \in [S -> Stream]
  BY <1>1, TableIs
<1>3. IsFiniteSet(S \ ids)
  BY <1>2, FS_Difference
<1>4. Without(table, ids) = [h \in S \ ids |-> table[h]]
  BY <1>1 DEF Without
<1>5. Without(table, ids) \in [S \ ids -> Stream]
  BY <1>2, <1>4
<1>6. S \ ids \in SUBSET Int
  BY <1>2
<1> QED
  BY <1>3, <1>5, <1>6, IsTable

LEMMA OverIs == \A table, other \in Tables : Over(table, other) \in Tables
<1> SUFFICES ASSUME NEW table \in Tables, NEW other \in Tables PROVE Over(table, other) \in Tables
  OBVIOUS
<1>1. PICK S, O : S = DOMAIN table /\ O = DOMAIN other
  OBVIOUS
<1>2. /\ IsFiniteSet(S) /\ S \subseteq Int /\ table \in [S -> Stream]
      /\ IsFiniteSet(O) /\ O \subseteq Int /\ other \in [O -> Stream]
  BY <1>1, TableIs
<1>3. IsFiniteSet(S \cup O) /\ S \cup O \in SUBSET Int
  BY <1>2, FS_Union
<1>4. Over(table, other) = [h \in S \cup O |-> IF h \in O THEN other[h] ELSE table[h]]
  BY <1>1 DEF Over
<1>5. Over(table, other) \in [S \cup O -> Stream]
  BY <1>2, <1>4
<1> QED
  BY <1>3, <1>5, IsTable

\* A list has finitely many entries.
LEMMA FewIds ==
  ASSUME NEW X, NEW s \in Seq(X)
  PROVE  IsFiniteSet({s[k].id : k \in DOMAIN s})
<1> DEFINE I == {s[k].id : k \in DOMAIN s}
           f == [k \in DOMAIN s |-> s[k].id]
<1>1. IsFiniteSet(DOMAIN s)
  <2>1. DOMAIN s = 1..Len(s) /\ Len(s) \in Int /\ 1 \in Int
    OBVIOUS
  <2> QED
    BY <2>1, FS_Interval
<1>2. f \in Surjection(DOMAIN s, I)
  <2>1. f \in [DOMAIN s -> I]
    OBVIOUS
  <2>2. \A i \in I : \E k \in DOMAIN s : f[k] = i
    OBVIOUS
  <2> HIDE DEF f, I
  <2> QED
    BY <2>1, <2>2 DEF Surjection
<1> HIDE DEF f, I
<1>3. IsFiniteSet(I)
  BY <1>1, <1>2, FS_Surjection
<1> QED
  BY <1>3 DEF I

LEMMA TableOfHandles == \A handles \in Seq(StreamField) : Table(handles) \in Tables
<1> SUFFICES ASSUME NEW handles \in Seq(StreamField) PROVE Table(handles) \in Tables
  OBVIOUS
<1>1. PICK S : S = {handles[k].id : k \in DOMAIN handles}
  OBVIOUS
<1>2. IsFiniteSet(S)
  BY <1>1, FewIds
<1>3. \A k \in DOMAIN handles : handles[k] \in StreamField
  OBVIOUS
<1>4. S \in SUBSET Int
  BY <1>1, <1>3 DEF StreamField
<1>5. PICK t : t = Table(handles)
  OBVIOUS
<1>6. t = [h \in S |-> LET k == CHOOSE j \in DOMAIN handles : handles[j].id = h
                       IN  [kind |-> handles[k].kind, buffer |-> handles[k].cached[1]]]
  BY <1>1, <1>5 DEF Table
<1>7. ASSUME NEW h \in S PROVE t[h] \in Stream
  <2>1. PICK k : k = CHOOSE j \in DOMAIN handles : handles[j].id = h
    OBVIOUS
  <2>2. k \in DOMAIN handles
    <3>1. \E j \in DOMAIN handles : handles[j].id = h
      BY <1>1
    <3> QED
      BY <2>1, <3>1
  <2>3. PICK f \in StreamField : f = handles[k]
    BY <1>3, <2>2
  <2>4. PICK bytes \in Seq(Int) : f.cached = <<bytes>>
    BY DEF StreamField
  <2>5. f.kind \in Int /\ f.cached[1] \in Seq(Int)
    BY <2>4 DEF StreamField
  <2>6. t[h] = [kind |-> f.kind, buffer |-> f.cached[1]]
    BY <1>6, <2>1, <2>3
  <2> QED
    BY <2>5, <2>6 DEF Stream
<1>8. t \in [S -> Stream]
  BY <1>6, <1>7
<1> QED
  BY <1>2, <1>4, <1>5, <1>8, IsTable

\* A write is to a stream that is there.
LEMMA TableWritten ==
  \A table \in Tables : \A h \in DOMAIN table : \A bytes \in Seq(Int) :
    [table EXCEPT ![h].buffer = table[h].buffer \o bytes] \in Tables
<1> SUFFICES ASSUME NEW table \in Tables, NEW h \in DOMAIN table, NEW bytes \in Seq(Int)
             PROVE  [table EXCEPT ![h].buffer = table[h].buffer \o bytes] \in Tables
  OBVIOUS
<1>1. PICK S : S = DOMAIN table
  OBVIOUS
<1>2. IsFiniteSet(S) /\ S \subseteq Int /\ table \in [S -> Stream] /\ h \in S
  BY <1>1, TableIs
<1>3. PICK b : b = table[h].buffer \o bytes
  OBVIOUS
<1>4. b \in Seq(Int)
  <2>1. table[h].buffer \in Seq(Int)
    BY TableIs
  <2> QED
    BY <1>3, <2>1
<1>5. [table[h] EXCEPT !.buffer = b] \in Stream
  BY <1>2, <1>4 DEF Stream
<1>6. PICK x \in Stream : x = [table[h] EXCEPT !.buffer = b]
  BY <1>5
<1>7. [table EXCEPT ![h] = x] \in [S -> Stream]
  BY <1>2
<1>8. [table EXCEPT ![h].buffer = b] = [table EXCEPT ![h] = x]
  BY <1>6
<1> QED
  BY <1>2, <1>3, <1>7, <1>8, IsTable

-----------------------------------------------------------------------------
(* A capture of a machine is a snapshot that a file can hold.              *)

LEMMA TasksSaved ==
  \A T, m, M : IsMachine(T, m) =>
    \/ Saved(m, M) = <<>>
    \/ \E pc \in Int, handles \in Seq(StreamField) : Saved(m, M) = <<RootField(pc, handles)>>
<1> SUFFICES ASSUME NEW T, NEW m, NEW M, IsMachine(T, m), Saved(m, M) # <<>>
             PROVE  \E pc \in Int, handles \in Seq(StreamField) : Saved(m, M) = <<RootField(pc, handles)>>
  OBVIOUS
<1>1. m.entry.pc \in Int /\ m.entry.handles \in Tables
  BY MachineIs DEF RootEntry
<1>2. PICK pc \in Int, handles \in Seq(StreamField) : pc = m.entry.pc /\ handles = Handles(m.entry.handles)
  BY <1>1, HandlesListed
<1>3. Saved(m, M) = <<RootField(pc, handles)>>
  BY <1>2 DEF Saved, RootField
<1> QED
  BY <1>3

\* The references that a machine holds are to objects that a capture marks.
LEMMA MarksHold ==
  \A T, m, p : IsMachine(T, m) /\ CanCapture(p, m) =>
    /\ Marks(m) \subseteq DOMAIN m.objects
    /\ \A x \in ValuesOf(m) \cap Refs : x.v \in Marks(m)
BY DEF Marks, CanCapture

LEMMA CapturedIs ==
  \A T, m, p : IsMachine(T, m) /\ CanCapture(p, m) => IsSaved(T, Captured(p, m))
<1> SUFFICES ASSUME NEW T, NEW m, NEW p, IsMachine(T, m), CanCapture(p, m)
             PROVE  IsSaved(T, Captured(p, m))
  OBVIOUS
<1>1. PICK M : M = m.marked \cup Marks(m)
  OBVIOUS
<1>2. M \subseteq DOMAIN m.objects /\ \A x \in ValuesOf(m) \cap Refs : x.v \in M
  BY <1>1, MarksHold, MachineIs
<1>3. IsFiniteSet(M) /\ M \subseteq Nat
  BY <1>2, SlotsFinite
<1>4. PICK objects : objects = Kept(m, M)
  OBVIOUS
<1>5. PICK n \in Nat : n = Cardinality(M)
  BY <1>2, KeptIs
<1>6. objects \in Seq(VmObject) /\ Len(objects) = n
  BY <1>2, <1>4, <1>5, KeptIs
<1>7. PICK stack : stack = MovedAll(M, m.stack)
  OBVIOUS
<1>8. stack \in Seq(Placed(n))
  <2>1. m.stack \in Seq(Value)
    BY MachineIs
  <2>2. \A k \in DOMAIN m.stack : m.stack[k] \in ValuesOf(m)
    BY DEF ValuesOf
  <2>3. \A k \in DOMAIN m.stack : m.stack[k] \in Refs => m.stack[k].v \in M
    BY <1>2, <2>2
  <2> QED
    BY <1>3, <1>5, <1>7, <2>1, <2>3, MovedAllIs
<1>9. PICK frames : frames = Frames(m, M)
  OBVIOUS
<1>10. frames \in Seq(PlacedFrame(n))
  BY <1>2, <1>3, <1>5, <1>9, FramesMoved
<1>11. PICK handles : handles = Handles(Without(m.handles, DOMAIN m.entry.handles))
  OBVIOUS
<1>12. handles \in Seq(StreamField)
  BY <1>11, MachineIs, WithoutIs, HandlesListed
<1>13. PICK s, hash, tasks : s = Captured(p, m) /\ hash = CodeHash(p, m) /\ tasks = Saved(m, M)
  OBVIOUS
<1>14. s = [hash |-> hash, time |-> m.steps, objects |-> objects, frames |-> frames, stack |-> stack,
            handles |-> handles, tasks |-> tasks]
  BY <1>1, <1>4, <1>7, <1>9, <1>11, <1>13 DEF Captured
<1>15. tasks = <<>> \/ \E pc \in Int, hs \in Seq(StreamField) : tasks = <<RootField(pc, hs)>>
  BY <1>13, TasksSaved
<1>16. m.steps \in T
  BY MachineIs
<1>17. /\ s.hash = hash /\ s.time = m.steps /\ s.objects = objects /\ s.frames = frames
       /\ s.stack = stack /\ s.handles = handles /\ s.tasks = tasks
  BY <1>14
<1> HIDE DEF VmObject, Placed, PlacedFrame, StreamField, RootField
<1>18. IsSaved(T, s)
  BY <1>6, <1>8, <1>10, <1>12, <1>14, <1>15, <1>16, <1>17 DEF IsSaved
<1> QED
  BY <1>13, <1>18

LEMMA AfterCaptureIs ==
  \A T, m : IsMachine(T, m) => IsMachine(T, AfterCapture(m))
<1> SUFFICES ASSUME NEW T, NEW m, IsMachine(T, m) PROVE IsMachine(T, AfterCapture(m))
  OBVIOUS
<1>1. PICK x : x = m.marked \cup Marks(m)
  OBVIOUS
<1>2. x \subseteq DOMAIN m.objects
  BY <1>1, MachineIs DEF Marks
<1>3. AfterCapture(m) = WithMarked(m, x)
  BY <1>1 DEF AfterCapture, WithMarked
<1> QED
  BY <1>2, <1>3, MachineWith

LEMMA YieldStep ==
  \A T, m, p : IsMachine(T, m) /\ m.frames # <<>> => IsMachine(T, Yield(p, m))
<1> SUFFICES ASSUME NEW T, NEW m, NEW p, IsMachine(T, m), m.frames # <<>>
             PROVE  IsMachine(T, Yield(p, m))
  OBVIOUS
<1>1. PICK y, entry : y = Yielding(m)
                      /\ entry = [status |-> "Yielded", pc |-> Here(m).ip, handles |-> m.handles]
  OBVIOUS
<1>2. IsMachine(T, y)
  <2>1. Here(m).ip \in Int
    BY HereIs DEF VmFrame
  <2>2. entry \in RootEntry
    BY <1>1, <2>1, MachineIs DEF RootEntry
  <2>3. y = WithEntry(m, entry)
    BY <1>1 DEF Yielding, WithEntry
  <2> QED
    BY <2>2, <2>3, MachineWith
<1>3. CASE ~CanCapture(p, y)
  BY <1>1, <1>2, <1>3, ErrDead DEF Yield
<1>4. CASE CanCapture(p, y)
  <2>1. PICK a, s : a = AfterCapture(y) /\ s = Captured(p, y)
    OBVIOUS
  <2>2. IsMachine(T, a) /\ IsSaved(T, s)
    BY <1>2, <1>4, <2>1, AfterCaptureIs, CapturedIs
  <2>3. IsMachine(T, WithRunning(WithSnapshot(a, s), FALSE))
    BY <2>2, MachineWith, FALSE \in BOOLEAN
  <2>4. Yield(p, m) = WithRunning(WithSnapshot(a, s), FALSE)
    BY <1>1, <1>4, <2>1 DEF Yield, WithRunning, WithSnapshot
  <2> QED
    BY <2>3, <2>4
<1> QED
  BY <1>3, <1>4

-----------------------------------------------------------------------------
(* Streams.                                                                *)

LEMMA TextIs ==
  \A T, m : \A x \in Value : IsMachine(T, m) => Text(m, x) \in Seq(Int)
<1> SUFFICES ASSUME NEW T, NEW m, NEW x \in Value, IsMachine(T, m) PROVE Text(m, x) \in Seq(Int)
  OBVIOUS
<1>1. x.v \in Int /\ x.t \in {"Int", "Float", "Bool", "Null", "String", "List"}
  BY ValueHolds
<1>2. \A n \in Int : <<n>> \in Seq(Int)
  OBVIOUS
<1>3. <<>> \in Seq(Int)
  OBVIOUS
<1>4. x.v \in DOMAIN m.objects /\ m.objects[x.v].kind = "String" => m.objects[x.v].data \in Seq(Int)
  <2>1. x.v \in DOMAIN m.objects => m.objects[x.v] \in VmObject
    BY MachineIs
  <2> QED
    BY <2>1 DEF VmObject
<1>5. 100 + x.v \in Int /\ 102 \in Int
  BY <1>1
<1> QED
  BY <1>1, <1>2, <1>3, <1>4, <1>5 DEF Text

LEMMA WriteStep == \A T, m, kind : IsMachine(T, m) => IsMachine(T, Write(m, kind))
<1> SUFFICES ASSUME NEW T, NEW m, NEW kind, IsMachine(T, m) PROVE IsMachine(T, Write(m, kind))
  OBVIOUS
<1>1. CASE m.stack = <<>>
  BY <1>1, ErrDead DEF Write
<1>2. CASE m.stack # <<>> /\ Streams(m, kind) = {}
  BY <1>2, ErrDead, TopIs DEF Write
<1>3. CASE m.stack # <<>> /\ Streams(m, kind) # {}
  <2>1. PICK h : h = CHOOSE s \in Streams(m, kind) : TRUE
    OBVIOUS
  <2>2. h \in DOMAIN m.handles
    <3>1. h \in Streams(m, kind)
      BY <1>3, <2>1
    <3> QED
      BY <3>1 DEF Streams
  <2>3. PICK q, bytes : q = Pop(m, 1) /\ bytes = Text(m, Under(m, 0))
    OBVIOUS
  <2>4. IsMachine(T, q) /\ bytes \in Seq(Int)
    BY <1>3, <2>3, TopIs, TextIs
  <2>5. q.handles = m.handles
    BY <2>3 DEF Pop, IsMachine, MachineFields
  <2>6. PICK t : t = [m.handles EXCEPT ![h].buffer = m.handles[h].buffer \o bytes]
    OBVIOUS
  <2>7. t \in Tables
    BY <2>2, <2>4, <2>6, MachineIs, TableWritten
  <2>8. PICK w : w = [q EXCEPT !.handles[h].buffer = q.handles[h].buffer \o bytes]
    OBVIOUS
  <2>9. Write(m, kind) = w
    BY <1>3, <2>1, <2>3, <2>8 DEF Write
  <2>10. w = WithHandles(q, t)
    BY <2>5, <2>6, <2>8 DEF WithHandles
  <2> QED
    BY <2>4, <2>7, <2>9, <2>10, MachineWith
<1> QED
  BY <1>1, <1>2, <1>3

LEMMA ReadStep == \A T, m : IsMachine(T, m) => IsMachine(T, Read(m))
<1> SUFFICES ASSUME NEW T, NEW m, IsMachine(T, m) PROVE IsMachine(T, Read(m))
  OBVIOUS
<1>1. CASE Streams(m, Stdin) = {}
  BY <1>1, Pushed, Null \in Value DEF Read, Value
<1>2. CASE Streams(m, Stdin) # {}
  <2>1. PICK h : h = CHOOSE s \in Streams(m, Stdin) : TRUE
    OBVIOUS
  <2>2. h \in DOMAIN m.handles
    <3>1. h \in Streams(m, Stdin)
      BY <1>2, <2>1
    <3> QED
      BY <3>1 DEF Streams
  <2>3. PICK bytes \in Seq(Int) : bytes = m.handles[h].buffer
    BY <2>2, MachineIs, TableIs
  <2>4. PICK ints : ints = [k \in DOMAIN bytes |-> IntV(bytes[k])]
    OBVIOUS
  <2>5. ints \in Seq(IntValue)
    <3>1. \A k \in DOMAIN bytes : IntV(bytes[k]) \in IntValue
      BY DEF IntV, IntValue
    <3>2. ints = [k \in DOMAIN bytes |-> ints[k]] /\ \A k \in DOMAIN bytes : ints[k] \in IntValue
      BY <2>4, <3>1
    <3> QED
      BY <3>2, EachFields
  <2>6. PICK o, objects : o = Object("List", ints) /\ objects = Append(m.objects, o)
    OBVIOUS
  <2>7. o \in VmObject
    BY <2>5, <2>6 DEF Object, VmObject
  <2>8. PICK n \in Nat : n = Len(m.objects)
    BY MachineIs
  <2>9. m.objects \in Seq(VmObject)
    BY MachineIs
  <2> HIDE DEF VmObject
  <2>10. objects \in Seq(VmObject) /\ DOMAIN m.objects \subseteq DOMAIN objects
    <3>1. objects \in Seq(VmObject)
      BY <2>6, <2>7, <2>9
    <3>2. DOMAIN m.objects = 1..n /\ DOMAIN objects = 1..n + 1
      BY <2>6, <2>7, <2>8, <2>9
    <3> QED
      BY <2>8, <3>1, <3>2
  <2>11. IsMachine(T, WithObjects(m, objects))
    BY <2>10, MachineWith
  <2>12. n + 1 \in Nat /\ ListV(n + 1) \in Value
    <3>1. \A k \in Nat : ListV(k) \in Refs
      BY DEF ListV, Refs
    <3> QED
      BY <3>1, n + 1 \in Nat DEF Value
  <2>13. Read(m) = Push(WithObjects(m, objects), ListV(n + 1))
    BY <1>2, <2>1, <2>3, <2>4, <2>6, <2>8 DEF Read, WithObjects
  <2> QED
    BY <2>11, <2>12, <2>13, Pushed
<1> QED
  BY <1>1, <1>2

-----------------------------------------------------------------------------
(* A turn of run().                                                        *)

LEMMA ExecuteStep ==
  \A T, p, build, m, i :
    IsProgram(p) /\ IsMachine(T, m) /\ m.frames # <<>> /\ i.op \in Opcodes /\ i.arg \in Operands(i.op)
      => IsMachine(T, Execute(p, build, m, i))
<1> SUFFICES ASSUME NEW T, NEW p, NEW build, NEW m, NEW i,
                    IsProgram(p), IsMachine(T, m), m.frames # <<>>,
                    i.op \in Opcodes, i.arg \in Operands(i.op)
             PROVE  IsMachine(T, Execute(p, build, m, i))
  OBVIOUS
<1>1. PICK op, k : op = i.op /\ k = i.arg
  OBVIOUS
<1>2. op # "Push" => k \in Nat
  BY <1>1 DEF Operands
<1>3. CASE op = "Push"
  <2>1. Execute(p, build, m, i) = Push(m, k)
    BY <1>1, <1>3 DEF Execute, Binary, Unary
  <2>2. k \in Value
    BY <1>1, <1>3 DEF Operands
  <2> QED
    BY <2>1, <2>2, Pushed
<1>4. CASE op = "Pop"
  <2>1. Execute(p, build, m, i) = IF m.stack = <<>> THEN Err(m) ELSE Pop(m, 1)
    BY <1>1, <1>4 DEF Execute, Binary, Unary
  <2> QED
    BY <2>1, ErrDead, TopIs
<1>5. CASE op = "Dup"
  <2>1. Execute(p, build, m, i) = IF m.stack = <<>> THEN Err(m) ELSE Push(m, Under(m, 0))
    BY <1>1, <1>5 DEF Execute, Binary, Unary
  <2> QED
    BY <2>1, ErrDead, TopIs, Pushed
<1>6. CASE op \in Binary
  <2>1. Execute(p, build, m, i) = BinaryOp(m, build, op)
    BY <1>1, <1>6 DEF Execute, Binary, Unary
  <2> QED
    BY <1>6, <2>1, BinaryStep
<1>7. CASE op \in Unary
  <2>1. Execute(p, build, m, i) = UnaryOp(m, build, op)
    BY <1>1, <1>7 DEF Execute, Binary, Unary
  <2> QED
    BY <2>1, UnaryStep
<1>8. CASE op = "Jump"
  <2>1. Execute(p, build, m, i) = SetIp(m, k)
    BY <1>1, <1>8 DEF Execute, Binary, Unary
  <2>2. k \in Int
    BY <1>2, <1>8
  <2> QED
    BY <2>1, <2>2, IpSet
<1>9. CASE op \in {"JumpIfTrue", "JumpIfFalse"}
  <2>1. Execute(p, build, m, i) = JumpWhen(m, op = "JumpIfTrue", k)
    BY <1>1, <1>9 DEF Execute, Binary, Unary
  <2> QED
    BY <1>2, <1>9, <2>1, JumpStep
<1>10. CASE op = "Load"
  <2>1. Execute(p, build, m, i) = Load(m, k)
    BY <1>1, <1>10 DEF Execute, Binary, Unary
  <2> QED
    BY <2>1, LoadStep
<1>11. CASE op = "Store"
  <2>1. Execute(p, build, m, i) = Store(m, k)
    BY <1>1, <1>11 DEF Execute, Binary, Unary
  <2> QED
    BY <2>1, StoreStep
<1>12. CASE op = "Call"
  <2>1. Execute(p, build, m, i) = Call(p, m, k)
    BY <1>1, <1>12 DEF Execute, Binary, Unary
  <2> QED
    BY <1>2, <1>12, <2>1, CallStep
<1>13. CASE op = "Return"
  <2>1. Execute(p, build, m, i) = Return(m)
    BY <1>1, <1>13 DEF Execute, Binary, Unary
  <2> QED
    BY <2>1, ReturnStep
<1>14. CASE op = "Yield"
  <2>1. Execute(p, build, m, i) = Yield(p, m)
    BY <1>1, <1>14 DEF Execute, Binary, Unary
  <2> QED
    BY <2>1, YieldStep
<1>15. CASE op = "Halt"
  <2>1. Execute(p, build, m, i) = [m EXCEPT !.running = FALSE]
    BY <1>1, <1>15 DEF Execute, Binary, Unary
  <2> QED
    BY <2>1, HaltStep
<1>16. CASE op = "StdinRead"
  <2>1. Execute(p, build, m, i) = Read(m)
    BY <1>1, <1>16 DEF Execute, Binary, Unary
  <2> QED
    BY <2>1, ReadStep
<1>17. CASE op = "StdoutWrite"
  <2>1. Execute(p, build, m, i) = Write(m, Stdout)
    BY <1>1, <1>17 DEF Execute, Binary, Unary
  <2> QED
    BY <2>1, WriteStep
<1>18. CASE op = "StderrWrite"
  <2>1. Execute(p, build, m, i) = Write(m, Stderr)
    BY <1>1, <1>18 DEF Execute, Binary, Unary
  <2> QED
    BY <2>1, WriteStep
<1>19. CASE op = "TimerSleep"
  <2>1. Execute(p, build, m, i) = m
    BY <1>1, <1>19 DEF Execute, Binary, Unary
  <2> QED
    BY <2>1
<1> QED
  BY <1>1, <1>3, <1>4, <1>5, <1>6, <1>7, <1>8, <1>9, <1>10, <1>11, <1>12, <1>13, <1>14, <1>15, <1>16,
     <1>17, <1>18, <1>19 DEF Opcodes

LEMMA StepIs ==
  \A T, p, build, m : IsProgram(p) /\ IsMachine(T, m) /\ m.steps + 1 \in T => IsMachine(T, Step(p, build, m))
<1> SUFFICES ASSUME NEW T, NEW p, NEW build, NEW m, IsProgram(p), IsMachine(T, m), m.steps + 1 \in T
             PROVE  IsMachine(T, Step(p, build, m))
  OBVIOUS
<1>1. CASE ~Fetchable(p, m)
  BY <1>1, ErrDead DEF Step
<1>2. CASE Fetchable(p, m)
  <2>1. PICK ip : ip = Here(m).ip + 1
    OBVIOUS
  <2>2. m.frames # <<>> /\ ip \in Int
    BY <1>2, <2>1, HereIs DEF Fetchable, VmFrame
  <2>3. PICK q : q = SetIp(m, ip)
    OBVIOUS
  <2>4. IsMachine(T, q) /\ q.frames # <<>> /\ q.steps = m.steps
    <3>1. q.steps = m.steps
      BY <2>3 DEF SetIp, IsMachine, MachineFields
    <3> QED
      BY <2>2, <2>3, <3>1, IpSet
  <2>5. PICK r : r = WithOutcome(WithSteps(q, m.steps + 1), "ok")
    OBVIOUS
  <2>6. IsMachine(T, r) /\ r.frames # <<>>
    <3>1. IsMachine(T, r)
      BY <2>4, <2>5, MachineWith
    <3>2. r.frames = q.frames
      BY <2>4, <2>5 DEF WithOutcome, WithSteps, IsMachine, MachineFields
    <3> QED
      BY <2>4, <3>1, <3>2
  <2>7. PICK i : i = Fetched(p, m)
    OBVIOUS
  <2>8. i.op \in Opcodes /\ i.arg \in Operands(i.op)
    BY <1>2, <2>7 DEF Fetchable, Fetched, IsProgram, IsFunction
  <2>9. IsMachine(T, Execute(p, build, r, i))
    BY <2>6, <2>8, ExecuteStep
  <2>10. r = [q EXCEPT !.steps = @ + 1, !.outcome = "ok"]
    BY <2>4, <2>5 DEF WithOutcome, WithSteps
  <2>11. Step(p, build, m) = Execute(p, build, r, i)
    BY <1>2, <2>1, <2>3, <2>7, <2>10 DEF Step
  <2> QED
    BY <2>9, <2>11
<1> QED
  BY <1>1, <1>2

-----------------------------------------------------------------------------
(* A program just loaded.                                                  *)

LEMMA NoStreams == <<>> \in Tables
<1>1. <<>> \in [1..0 -> Stream]
  <2>1. <<>> \in Seq(Stream) /\ Len(<<>>) = 0
    OBVIOUS
  <2> QED
    BY <2>1
<1>2. IsFiniteSet(1..0) /\ 1..0 \in SUBSET Int
  <2>1. 0 \in Int /\ 1 \in Int
    OBVIOUS
  <2> QED
    BY <2>1, FS_Interval
<1> QED
  BY <1>1, <1>2, IsTable

LEMMA LoadedIs == \A T, p : IsProgram(p) /\ 0 \in T => IsMachine(T, Loaded(p))
<1> SUFFICES ASSUME NEW T, NEW p, IsProgram(p), 0 \in T PROVE IsMachine(T, Loaded(p))
  OBVIOUS
<1>1. PICK f : f = Frame(0, Nulls(p.functions[1].locals))
  OBVIOUS
<1>2. f \in VmFrame
  <2>1. PICK n \in Nat : n = p.functions[1].locals
    BY DEF IsProgram, IsFunction
  <2>2. Null \in Value
    BY DEF Value
  <2>3. Nulls(n) \in Seq(Value)
    BY <2>2 DEF Nulls
  <2> QED
    BY <1>1, <2>1, <2>3 DEF Frame, VmFrame
<1>3. PICK objects : objects = [k \in DOMAIN p.constants |-> Object("String", p.constants[k])]
  OBVIOUS
<1>4. objects \in Seq(VmObject)
  <2>1. p.constants \in Seq(Seq(Int))
    BY DEF IsProgram
  <2>2. \A k \in DOMAIN p.constants : Object("String", p.constants[k]) \in VmObject
    BY <2>1 DEF Object, VmObject
  <2>3. objects = [k \in DOMAIN p.constants |-> objects[k]]
        /\ \A k \in DOMAIN p.constants : objects[k] \in VmObject
    BY <1>3, <2>2
  <2> QED
    BY <2>1, <2>3, EachFields
<1>5. p.streams \in Tables
  <2>1. PICK S : S = DOMAIN p.streams
    OBVIOUS
  <2>2. IsFiniteSet(S) /\ S \in SUBSET Int /\ p.streams \in [S -> Stream]
    BY <2>1 DEF IsProgram, Stream
  <2> QED
    BY <2>2, IsTable
<1>6. PICK entry : entry = [status |-> "Running", pc |-> 0, handles |-> <<>>]
  OBVIOUS
<1>7. entry \in RootEntry
  BY <1>6, NoStreams DEF RootEntry
<1>8. PICK frames : frames = <<f>>
  OBVIOUS
<1>9. frames \in Seq(VmFrame)
  BY <1>2, <1>8
<1>10. PICK m : m = Loaded(p)
  OBVIOUS
<1>11. m = [frames |-> frames, stack |-> <<>>, running |-> TRUE, objects |-> objects, marked |-> {},
            handles |-> p.streams, entry |-> entry, snapshot |-> NoSnapshot, outcome |-> "ok", steps |-> 0]
  BY <1>1, <1>3, <1>6, <1>8, <1>10 DEF Loaded
<1> HIDE DEF VmFrame, VmObject, RootEntry, Tables, Value
<1>12. m \in MachineFields(T, NoSnapshot)
  <2>1. <<>> \in Seq(Value) /\ {} \in SUBSET Nat
    OBVIOUS
  <2> QED
    BY <1>4, <1>5, <1>7, <1>9, <1>11, <2>1 DEF MachineFields
<1>13. m.snapshot = NoSnapshot /\ m.marked = {}
  BY <1>11
<1>14. IsMachine(T, m)
  BY <1>12, <1>13 DEF IsMachine
<1> QED
  BY <1>10, <1>14

-----------------------------------------------------------------------------
(* Snapshots, in a file and in a machine.                                  *)

LEMMA SavedIsFile == \A T, s : IsSaved(T, s) => IsFileSnapshot(s) /\ FileHeap(s.objects)
<1> SUFFICES ASSUME NEW T, NEW s, IsSaved(T, s) PROVE IsFileSnapshot(s) /\ FileHeap(s.objects)
  OBVIOUS
<1>1. PICK K : K = Positions(s)
  OBVIOUS
<1>2. ASSUME NEW known PROVE VmObject \subseteq FileObject(known)
  <2>1. IntValue \subseteq FileValue(known)
    BY DEF IntValue, FileValue
  <2> HIDE DEF IntValue
  <2>2. Seq(IntValue) \subseteq Seq(FileValue(known))
    BY <2>1
  <2> QED
    BY <2>2 DEF VmObject, FileObject
<1>3. s.objects \in Seq(VmObject)
  BY DEF IsSaved
<1> HIDE DEF VmObject
<1>4. AnyHeap(K, s.objects) /\ FileHeap(s.objects)
  BY <1>2, <1>3 DEF AnyHeap, FileHeap, IsSequence
<1>5. s.stack \in Seq(FileValue(K))
  <2>1. s.stack \in Seq(Placed(Len(s.objects)))
    BY DEF IsSaved
  <2>2. \A n : Placed(n) \subseteq FileValue(1..n)
    BY DEF Placed
  <2> QED
    BY <1>1, <2>1, <2>2 DEF Positions
<1>6. s.frames \in Seq(FileFrame(K))
  <2>1. PICK n : n = Len(s.objects)
    OBVIOUS
  <2>2. s.frames \in Seq(PlacedFrame(n)) /\ K = 1..n
    BY <1>1, <2>1 DEF IsSaved, Positions
  <2>3. Seq(Placed(n)) \subseteq Seq(FileValue(1..n))
    BY DEF Placed
  <2>4. PlacedFrame(n) \subseteq FileFrame(1..n)
    BY <2>3 DEF PlacedFrame, FileFrame
  <2> QED
    BY <2>2, <2>4
<1>7. StreamField \subseteq FileHandle
  <2>1. PICK params, cached, position :
          /\ params = Seq(Int) /\ cached = {<<>>} \cup {<<bytes>> : bytes \in Seq(Int)}
          /\ position = {<<>>} \cup {<<x>> : x \in Int \ {AllOnes}}
    OBVIOUS
  <2>2. PICK none, some : none = {<<>>} /\ some = {<<bytes>> : bytes \in Seq(Int)}
    OBVIOUS
  <2>3. none \subseteq params /\ none \subseteq position /\ some \subseteq cached
    BY <2>1, <2>2
  <2>4. /\ StreamField = [id : Int, kind : Int, strategy : {2}, params : none, cached : some, position : none]
        /\ FileHandle = [id : Int, kind : Int, strategy : Int, params : params, cached : cached,
                         position : position]
    BY <2>1, <2>2 DEF StreamField, FileHandle
  <2> QED
    BY <2>3, <2>4
<1>8. \A hs \in Seq(StreamField) : hs \in Seq(FileHandle)
  BY <1>7
<1>9. s.handles \in Seq(FileHandle)
  BY <1>8 DEF IsSaved
<1>10. s.tasks \in Seq(FileTask(K))
  <2>1. CASE s.tasks = <<>>
    BY <2>1
  <2>2. ASSUME NEW pc \in Int, NEW hs \in Seq(StreamField), s.tasks = <<RootField(pc, hs)>>
        PROVE  s.tasks \in Seq(FileTask(K))
    <3>1. PICK t : t = RootField(pc, hs)
      OBVIOUS
    <3>2. t = [id |-> 0, parent |-> <<>>, status |-> 1, pc |-> <<pc>>, children |-> <<>>,
               stack |-> <<>>, frames |-> <<>>, handles |-> hs]
      BY <3>1 DEF RootField
    <3>3. hs \in Seq(FileHandle) /\ <<pc>> \in Seq(Int) /\ Len(<<pc>>) = 1
      BY <1>8
    <3>4. Len(t.pc) = Pc(t.status)
      BY <3>2, <3>3 DEF Pc
    <3>5. t \in FileTask(K)
      <4>1. PICK ints, values, frames, handles :
              /\ ints = Seq(Int) /\ values = Seq(FileValue(K)) /\ frames = Seq(FileFrame(K))
              /\ handles = Seq(FileHandle)
        OBVIOUS
      <4>2. <<>> \in ints /\ <<>> \in values /\ <<>> \in frames
        BY <4>1
      <4>3. PICK one : one = <<pc>>
        OBVIOUS
      <4>4. t \in [id : Int, parent : ints, status : Int, pc : ints, children : ints,
                   stack : values, frames : frames, handles : handles]
        BY <3>2, <3>3, <4>1, <4>2, <4>3
      <4> QED
        BY <3>4, <4>1, <4>4 DEF FileTask
    <3> HIDE DEF FileTask
    <3> QED
      BY <2>2, <3>1, <3>5
  <2> QED
    BY <2>1, <2>2 DEF IsSaved
<1>11. s = [hash |-> s.hash, time |-> s.time, objects |-> s.objects, frames |-> s.frames,
            stack |-> s.stack, handles |-> s.handles, tasks |-> s.tasks]
  BY DEF IsSaved
<1> QED
  BY <1>1, <1>4, <1>5, <1>6, <1>9, <1>10, <1>11 DEF IsFileSnapshot

\* What resume makes of what it has read of a snapshot is a machine.
LEMMA RestoredIs ==
  \A T, m, s, of :
    IsMachine(T, m) /\ IsSaved(T, of) /\ (\A f \in DOMAIN of : s[f] = of[f])
      => IsMachine(T, Restored(m, s))
<1> SUFFICES ASSUME NEW T, NEW m, NEW s, NEW of, IsMachine(T, m), IsSaved(T, of),
                    \A f \in DOMAIN of : s[f] = of[f]
             PROVE  IsMachine(T, Restored(m, s))
  OBVIOUS
<1>1. DOMAIN of = {"hash", "time", "objects", "frames", "stack", "handles", "tasks"}
  BY DEF IsSaved
<1>2. /\ s.time = of.time /\ s.objects = of.objects /\ s.frames = of.frames /\ s.stack = of.stack
      /\ s.handles = of.handles /\ s.tasks = of.tasks
  BY <1>1
<1>3. PICK n : n = Len(of.objects)
  OBVIOUS
<1>4. Seq(Placed(n)) \subseteq Seq(Value)
  BY DEF Placed
<1>5. s.stack \in Seq(Value)
  BY <1>2, <1>3, <1>4 DEF IsSaved
<1>6. s.frames \in Seq(VmFrame)
  <2>1. PlacedFrame(n) \subseteq VmFrame
    BY <1>4 DEF PlacedFrame, VmFrame
  <2>2. s.frames \in Seq(PlacedFrame(n))
    BY <1>2, <1>3 DEF IsSaved
  <2> QED
    BY <2>1, <2>2
<1>7. s.time \in T /\ s.objects \in Seq(VmObject) /\ s.handles \in Seq(StreamField)
  BY <1>2 DEF IsSaved
<1>8. PICK entry : entry = IF s.tasks = <<>> THEN m.entry
                           ELSE [status |-> "Yielded", pc |-> s.tasks[1].pc[1],
                                 handles |-> Table(s.tasks[1].handles)]
  OBVIOUS
<1>9. entry \in RootEntry
  <2>1. CASE s.tasks = <<>>
    BY <1>8, <2>1, MachineIs
  <2>2. ASSUME NEW pc \in Int, NEW hs \in Seq(StreamField), s.tasks = <<RootField(pc, hs)>>
        PROVE  entry \in RootEntry
    <3>1. s.tasks[1].pc[1] = pc /\ s.tasks[1].handles = hs
      BY <2>2 DEF RootField
    <3>2. s.tasks # <<>>
      BY <2>2
    <3>3. Table(hs) \in Tables
      BY TableOfHandles
    <3> QED
      BY <1>8, <3>1, <3>2, <3>3 DEF RootEntry
  <2> QED
    BY <1>2, <2>1, <2>2 DEF IsSaved
<1>10. PICK own : own = IF s.tasks = <<>> THEN m.handles ELSE entry.handles
  OBVIOUS
<1>11. own \in Tables
  BY <1>9, <1>10, MachineIs DEF RootEntry
<1>12. PICK handles : handles = Over(own, Table(s.handles))
  OBVIOUS
<1>13. handles \in Tables
  BY <1>7, <1>11, <1>12, TableOfHandles, OverIs
<1>14. PICK r : r = Restored(m, s)
  OBVIOUS
<1>15. r = [m EXCEPT !.objects = s.objects, !.marked = {}, !.frames = s.frames, !.stack = s.stack,
                     !.running = TRUE, !.entry = entry, !.handles = handles,
                     !.outcome = "ok", !.steps = s.time]
  BY <1>8, <1>10, <1>12, <1>14 DEF Restored
<1>16. m \in MachineFields(T, m.snapshot) /\ (m.snapshot = NoSnapshot \/ IsSaved(T, m.snapshot))
  BY DEF IsMachine
<1> HIDE DEF VmFrame, VmObject, RootEntry, Tables, Value
<1>17. r \in MachineFields(T, m.snapshot) /\ r.snapshot = m.snapshot /\ r.marked = {}
  BY <1>5, <1>6, <1>7, <1>9, <1>13, <1>15, <1>16 DEF MachineFields
<1>18. IsMachine(T, r)
  BY <1>16, <1>17 DEF IsMachine
<1> QED
  BY <1>14, <1>18

-----------------------------------------------------------------------------
(* The host.                                                               *)

Times0 == 0..MaxSteps
\* What is in the file is of the snapshot last written: all of it, or a beginning.
IsBeginning(f, s) == \E n \in 0..Len(WriteToFile(s)) : f = SubSeq(WriteToFile(s), 1, n)
Inv ==
  /\ program \in DOMAIN Programs /\ checked \in BOOLEAN /\ resumed \in BOOLEAN /\ astray \in BOOLEAN
  /\ restarts \in 0..MaxRestarts
  /\ IsMachine(Times0, vm)
  /\ yielded.of = vm.snapshot /\ yielded.astray \in BOOLEAN /\ written.astray \in BOOLEAN
  /\ file = <<>> \/ (IsSaved(Times0, written.of) /\ IsBeginning(file, written.of))

LEMMA Bounds == /\ MaxSteps \in Nat /\ MaxRestarts \in Nat /\ 0 \in Times0
                /\ Upgrade \in DOMAIN Programs /\ \A n \in DOMAIN Programs : IsProgram(Programs[n])
BY ProgramConstants, HostPrograms DEF Times0

\* A machine of the host has what the run assumes.
LEMMA InvTypes == Inv => ProgramTypeOK
<1> SUFFICES ASSUME Inv PROVE ProgramTypeOK
  OBVIOUS
<1>1. IsMachine(Times0, vm)
  BY DEF Inv
<1>2. vm.outcome \in {"ok", "error", "dead"} /\ vm.steps \in 0..MaxSteps
  BY <1>1, MachineIs DEF Times0
<1>3. \A x \in ValuesOf(vm) : x \in Value
  <2>1. vm.stack \in Seq(Value) /\ vm.frames \in Seq(VmFrame)
    BY <1>1, MachineIs
  <2>2. ASSUME NEW j \in DOMAIN vm.frames PROVE vm.frames[j].locals \in Seq(Value)
    <3>1. vm.frames[j] \in VmFrame
      BY <2>1
    <3> QED
      BY <3>1 DEF VmFrame
  <2>3. \A k \in DOMAIN vm.stack : vm.stack[k] \in Value
    BY <2>1
  <2>4. \A j \in DOMAIN vm.frames : \A k \in DOMAIN vm.frames[j].locals : vm.frames[j].locals[k] \in Value
    BY <2>2
  <2> HIDE DEF Value
  <2> QED
    BY <2>3, <2>4 DEF ValuesOf
<1> QED
  BY <1>2, <1>3 DEF Inv, ProgramTypeOK

LEMMA TakenIs == \A s, a, i : Taken(s, a, i).of = s /\ Taken(s, a, i).astray = a
BY DEF Taken

\* A snapshot stays when the machine dies, is captured or resumes another.
LEMMA SnapshotStays ==
  \A T, m : IsMachine(T, m) =>
    /\ Dead(m).snapshot = m.snapshot /\ AfterCapture(m).snapshot = m.snapshot
    /\ Dead(m).outcome = "dead" /\ \A s : Restored(m, s).snapshot = m.snapshot
BY DEF Dead, AfterCapture, Restored, IsMachine, MachineFields

LEMMA FileIsList == \A T, s : IsSaved(T, s) => IsSequence(WriteToFile(s)) /\ Len(WriteToFile(s)) \in Nat
<1> SUFFICES ASSUME NEW T, NEW s, IsSaved(T, s)
             PROVE  IsSequence(WriteToFile(s)) /\ Len(WriteToFile(s)) \in Nat
  OBVIOUS
<1>1. PICK e : Laid(s, WriteToFile(s), e)
  BY SavedIsFile, FileLaid
<1> QED
  BY <1>1 DEF Laid, IsSequence

LEMMA WritesBeginning ==
  ASSUME NEW T, NEW s, IsSaved(T, s), NEW lost \in BOOLEAN, Writes(s, lost)
  PROVE  IsBeginning(file', s)
<1>1. PICK w, n : w = WriteToFile(s) /\ n = Len(w)
  OBVIOUS
<1>2. IsSequence(w) /\ n \in Nat
  BY <1>1, FileIsList
<1>3. CASE lost
  BY <1>1, <1>2, <1>3 DEF Writes, IsBeginning
<1>4. CASE ~lost
  <2>1. SubSeq(w, 1, n) = w
    BY <1>1, <1>2 DEF IsSequence
  <2>2. n \in 0..n
    BY <1>2
  <2> QED
    BY <1>1, <1>4, <2>1, <2>2 DEF Writes, IsBeginning
<1> QED
  BY <1>3, <1>4

\* Of a beginning of a file either all is read, or an error.
LEMMA AllOrNothing ==
  ASSUME NEW T, NEW s, IsSaved(T, s), NEW f, f = <<>> \/ IsBeginning(f, s), ReadSnapshot(f).error = 0
  PROVE  Same(ReadSnapshot(f), s)
<1>1. ReadFromBytes(f).error = 0
  <2>1. \A r : ReadSections(r).error = 0 => r.error = 0
    BY DEF ReadSections
  <2> QED
    BY <2>1 DEF ReadSnapshot
<1>2. f # <<>>
  <2>1. f = <<>> => ReadFromBytes(f).error = Eof
    BY DEF ReadFromBytes
  <2>2. Eof # 0
    BY DEF Eof
  <2> QED
    BY <1>1, <2>1, <2>2
<1>3. PICK n \in 0..Len(WriteToFile(s)) : f = SubSeq(WriteToFile(s), 1, n)
  BY <1>2 DEF IsBeginning
<1>4. IsFileSnapshot(s) /\ FileHeap(s.objects)
  BY SavedIsFile
<1>5. ReadFromBytes(f) = ReadFromBytes(WriteToFile(s))
  BY <1>1, <1>3, <1>4, PrefixRead
<1>6. ReadSnapshot(f) = ReadSnapshot(WriteToFile(s))
  BY <1>5 DEF ReadSnapshot
<1> QED
  BY <1>4, <1>6, SnapshotReadsBack

LEMMA InvInit == Init => Inv
<1> SUFFICES ASSUME Init PROVE Inv
  OBVIOUS
<1>1. IsMachine(Times0, Loaded(P))
  BY Bounds, LoadedIs DEF Init, P
<1>2. Loaded(P).snapshot = NoSnapshot
  BY DEF Loaded
<1>3. 0 \in 0..MaxRestarts
  BY Bounds
<1>4. vm = Loaded(P) /\ yielded.of = NoSnapshot /\ yielded.astray = FALSE /\ written.astray = FALSE
  BY DEF Init, Taken
<1>5. IsMachine(Times0, vm) /\ yielded.of = vm.snapshot
  BY <1>1, <1>2, <1>4
<1> QED
  BY <1>3, <1>4, <1>5 DEF Init, Inv

LEMMA InvStep == Inv /\ [Next]_vars => Inv'
<1> SUFFICES ASSUME Inv, [Next]_vars PROVE Inv'
  OBVIOUS
<1> USE DEF Inv
<1>1. CASE VmStep
  <2>1. vm.steps + 1 \in Times0
    BY <1>1, Bounds, MachineIs DEF VmStep, Times0
  <2>2. IsMachine(Times0, vm')
    BY <1>1, <2>1, Bounds, StepIs DEF VmStep, P
  <2>3. astray' \in BOOLEAN
    BY <1>1 DEF VmStep
  <2>4. yielded'.of = vm'.snapshot /\ yielded'.astray \in BOOLEAN
    BY <1>1, <2>3, TakenIs DEF VmStep
  <2> QED
    BY <1>1, <2>2, <2>3, <2>4 DEF VmStep
<1>2. ASSUME NEW lost \in BOOLEAN, HostSave(lost) PROVE Inv'
  <2>1. IsSaved(Times0, vm.snapshot)
    BY <1>2, MachineIs DEF HostSave
  <2>2. IsBeginning(file', vm.snapshot)
    BY <1>2, <2>1, WritesBeginning DEF HostSave
  <2>3. written'.of = vm.snapshot /\ written'.astray \in BOOLEAN
    BY <1>2 DEF HostSave
  <2>4. IsMachine(Times0, vm') /\ vm'.snapshot = vm.snapshot
    BY <1>2, ErrDead, SnapshotStays DEF HostSave
  <2> QED
    BY <1>2, <2>1, <2>2, <2>3, <2>4 DEF HostSave
<1>3. ASSUME NEW lost \in BOOLEAN, HostCreateSnapshot(lost) PROVE Inv'
  <2>1. IsMachine(Times0, vm') /\ vm'.snapshot = vm.snapshot
    BY <1>3, ErrDead, AfterCaptureIs, SnapshotStays DEF HostCreateSnapshot
  <2>2. CASE CanCapture(P, vm)
    <3>1. PICK s : s = Captured(P, vm)
      OBVIOUS
    <3>2. IsSaved(Times0, s)
      BY <2>2, <3>1, CapturedIs
    <3>3. Writes(s, lost) /\ written' = Taken(s, astray \/ StaleHandles, ideal)
      BY <1>3, <2>2, <3>1 DEF HostCreateSnapshot
    <3>4. IsBeginning(file', s)
      BY <3>2, <3>3, WritesBeginning
    <3>5. written'.of = s /\ written'.astray \in BOOLEAN
      <4>1. PICK a \in BOOLEAN : a = (astray \/ StaleHandles)
        OBVIOUS
      <4>2. written' = Taken(s, a, ideal)
        BY <3>3, <4>1
      <4> QED
        BY <4>2, TakenIs
    <3> QED
      BY <1>3, <2>1, <3>2, <3>4, <3>5 DEF HostCreateSnapshot
  <2>3. CASE ~CanCapture(P, vm)
    BY <1>3, <2>1, <2>3 DEF HostCreateSnapshot
  <2> QED
    BY <2>2, <2>3
<1>4. CASE HostRestart
  <2>1. PICK n \in {program, Upgrade}, build \in BOOLEAN : Start(n, build)
    BY <1>4 DEF HostRestart
  <2>2. n \in DOMAIN Programs /\ IsMachine(Times0, Loaded(Programs[n]))
    BY <2>1, Bounds, LoadedIs
  <2>3. Loaded(Programs[n]).snapshot = NoSnapshot
    BY DEF Loaded
  <2>4. yielded'.of = vm'.snapshot /\ yielded'.astray \in BOOLEAN
    <3>1. vm'.snapshot = NoSnapshot
      BY <2>1, <2>3 DEF Start
    <3> QED
      BY <2>1, <3>1 DEF Start, Taken
  <2>5. restarts' \in 0..MaxRestarts
    BY <1>4, Bounds DEF HostRestart
  <2> QED
    BY <1>4, <2>1, <2>2, <2>4, <2>5 DEF HostRestart, Start
<1>5. CASE HostResume
  <2>1. PICK s : s = ReadSnapshot(file)
    OBVIOUS
  <2>2. CASE vm' = Dead(vm) /\ UNCHANGED <<resumed, astray, ideal>>
    BY <1>5, <2>2, ErrDead, SnapshotStays DEF HostResume
  <2>3. CASE s.error = 0 /\ vm' = Restored(vm, s) /\ resumed' = TRUE /\ astray' = written.astray
    <3>1. IsSaved(Times0, written.of)
      <4>1. ReadFromBytes(<<>>) = [error |-> Eof]
        BY DEF ReadFromBytes
      <4>2. ReadSnapshot(<<>>).error = Eof /\ Eof # 0
        BY <4>1 DEF ReadSnapshot, ReadSections, Eof
      <4> QED
        BY <2>1, <2>3, <4>2
    <3>2. Same(s, written.of)
      BY <2>1, <2>3, <3>1, AllOrNothing
    <3>3. IsMachine(Times0, vm')
      BY <2>3, <3>1, <3>2, RestoredIs DEF Same
    <3> QED
      BY <1>5, <2>3, <3>3, SnapshotStays DEF HostResume
  <2> QED
    BY <1>5, <2>1, <2>2, <2>3 DEF HostResume, Resumes
<1>6. CASE UNCHANGED vars
  BY <1>6 DEF vars
<1> QED
  BY <1>1, <1>2, <1>3, <1>4, <1>5, <1>6 DEF Next

LEMMA Invariant == Spec => []Inv
BY InvInit, InvStep, PTL DEF Spec

\* Whatever programs a host runs, and however often their processes are lost, in a write
\* or between two, and resumed: the values of the machine are of its types, and its counters
\* stay within their bounds.
THEOREM ProgramTypes == Spec => []ProgramTypeOK
BY Invariant, InvTypes, PTL

\* Every snapshot that a Yield or the host takes of a program, whatever its values, frames,
\* objects, streams and marks, is read back from its file as it was captured.
THEOREM SnapshotsReadBack == Spec => SavedReadsBack
<1>1. ASSUME Inv, HostSave(FALSE) PROVE Same(ReadSnapshot(file'), written'.of)
  <2>1. IsSaved(Times0, vm.snapshot)
    BY <1>1, MachineIs DEF HostSave, Inv
  <2>2. file' = WriteToFile(vm.snapshot) /\ written'.of = vm.snapshot
    BY <1>1 DEF HostSave, Writes, Inv
  <2> QED
    BY <2>1, <2>2, SavedIsFile, SnapshotReadsBack
<1>2. ASSUME Inv, HostCreateSnapshot(FALSE), vm'.outcome # "dead"
      PROVE  Same(ReadSnapshot(file'), written'.of)
  <2>1. IsMachine(Times0, vm)
    BY <1>2 DEF Inv
  <2>2. CanCapture(P, vm)
    BY <1>2, <2>1, SnapshotStays DEF HostCreateSnapshot
  <2>3. PICK s : s = Captured(P, vm)
    OBVIOUS
  <2>4. IsSaved(Times0, s)
    BY <2>1, <2>2, <2>3, CapturedIs
  <2>5. file' = WriteToFile(s) /\ written'.of = s
    BY <1>2, <2>2, <2>3, TakenIs DEF HostCreateSnapshot, Writes
  <2> QED
    BY <2>4, <2>5, SavedIsFile, SnapshotReadsBack
<1>3. Inv /\ [Next]_vars =>
        [HostSave(FALSE) \/ (HostCreateSnapshot(FALSE) /\ vm'.outcome # "dead")
           => Same(ReadSnapshot(file'), written'.of)]_vars
  BY <1>1, <1>2
<1> QED
  BY <1>3, Invariant, PTL DEF Spec, SavedReadsBack

\* A process lost in the middle of a write leaves a file of which nothing is resumed, or
\* all: a resume that goes through has every field of the snapshot that was being written,
\* wherever the write ended.
THEOREM CutFilesRefused == Spec => WholeSnapshotOnly
<1>1. ASSUME Inv, HostResume, vm'.outcome # "dead" PROVE Same(ReadSnapshot(file), written.of)
  <2>1. ReadSnapshot(file).error = 0
    BY <1>1, SnapshotStays DEF HostResume, Resumes, Inv
  <2>2. IsSaved(Times0, written.of)
    <3>1. ReadFromBytes(<<>>) = [error |-> Eof]
      BY DEF ReadFromBytes
    <3>2. ReadSnapshot(<<>>).error = Eof /\ Eof # 0
      BY <3>1 DEF ReadSnapshot, ReadSections, Eof
    <3> QED
      BY <1>1, <2>1, <3>2 DEF Inv
  <2> QED
    BY <1>1, <2>1, <2>2, AllOrNothing DEF Inv
<1>2. Inv /\ [Next]_vars => [HostResume /\ vm'.outcome # "dead" => Same(ReadSnapshot(file), written.of)]_vars
  BY <1>1
<1> QED
  BY <1>2, Invariant, PTL DEF Spec, WholeSnapshotOnly
-----------------------------------------------------------------------------
(* Two machines that differ in the numbers of their slots only.  r says    *)
(* which slot of the second stands for a slot of the first.                *)

Slots == {r \in [Nat -> Nat] : \A a, b \in Nat : a < b => r[a] < r[b]}
To(r, x) == IF x \in Refs THEN [t |-> x.t, v |-> r[x.v]] ELSE x
ToAll(r, s) == [k \in DOMAIN s |-> To(r, s[k])]
ToFrame(r, f) == [function |-> f.function, ip |-> f.ip, locals |-> ToAll(r, f.locals)]
ToFrames(r, fs) == [j \in DOMAIN fs |-> ToFrame(r, fs[j])]
SameObjects(r, os, ps) ==
  /\ \A a \in Nat : a \in DOMAIN os <=> r[a] \in DOMAIN ps
  /\ \A a \in DOMAIN os : ps[r[a]] = os[a]
  /\ \A a \in Nat : a > Len(os) => r[a] - Len(ps) = a - Len(os)
Renumbered(r, frames, stack, objects, i) ==
  i.frames = ToFrames(r, frames) /\ i.stack = ToAll(r, stack) /\ SameObjects(r, objects, i.objects)

LEMMA SlotsOrder ==
  \A r \in Slots : \A a, b \in Nat :
    /\ r[a] \in Nat /\ (r[a] = r[b] <=> a = b) /\ (r[a] <= r[b] <=> a <= b)
<1> SUFFICES ASSUME NEW r \in Slots, NEW a \in Nat, NEW b \in Nat
             PROVE  r[a] \in Nat /\ (r[a] = r[b] <=> a = b) /\ (r[a] <= r[b] <=> a <= b)
  OBVIOUS
<1>1. PICK x, y \in Nat : x = r[a] /\ y = r[b]
  BY DEF Slots
<1>2. (a < b => x < y) /\ (b < a => y < x)
  BY <1>1 DEF Slots
<1>3. a < b \/ b < a \/ a = b
  OBVIOUS
<1>4. a = b => x = y
  BY <1>1
<1> QED
  BY <1>1, <1>2, <1>3, <1>4

LEMMA RefIs == \A x \in Value : (x \in Refs <=> x.t \in {"String", "List"}) /\ (x \in Refs => x.v \in Nat)
<1> SUFFICES ASSUME NEW x \in Value
             PROVE  (x \in Refs <=> x.t \in {"String", "List"}) /\ (x \in Refs => x.v \in Nat)
  OBVIOUS
<1>1. x \in Refs => x.t \in {"String", "List"} /\ x.v \in Nat
  BY DEF Refs
<1>2. CASE x \in [t : {"Int"}, v : Ints] \/ x \in [t : {"Float"}, v : Floats] \/ x \in [t : {"Bool"}, v : {0, 1}]
  BY <1>1, <1>2
<1>3. CASE x = Null
  BY <1>1, <1>3 DEF Null
<1> QED
  BY <1>1, <1>2, <1>3 DEF Value

LEMMA ToIs ==
  \A r \in Slots : \A x \in Value :
    /\ To(r, x) \in Value /\ To(r, x).t = x.t
    /\ x \in Refs => To(r, x) = [t |-> x.t, v |-> r[x.v]] /\ To(r, x) \in Refs /\ To(r, x).v = r[x.v]
    /\ x \notin Refs => To(r, x) = x
    /\ To(r, x) \in Refs => x \in Refs
    /\ IsTruthy(To(r, x)) = IsTruthy(x)
<1> SUFFICES ASSUME NEW r \in Slots, NEW x \in Value
             PROVE  /\ To(r, x) \in Value /\ To(r, x).t = x.t
                    /\ x \in Refs => To(r, x) = [t |-> x.t, v |-> r[x.v]] /\ To(r, x) \in Refs
                                       /\ To(r, x).v = r[x.v]
                    /\ x \notin Refs => To(r, x) = x
                    /\ To(r, x) \in Refs => x \in Refs
                    /\ IsTruthy(To(r, x)) = IsTruthy(x)
  OBVIOUS
<1>1. CASE x \in Refs
  <2>1. PICK n \in Nat : n = r[x.v]
    BY <1>1, RefIs, SlotsOrder
  <2>2. To(r, x) = [t |-> x.t, v |-> n] /\ x.t \in {"String", "List"}
    BY <1>1, <2>1, RefIs DEF To
  <2>3. To(r, x) \in Refs
    BY <2>2 DEF Refs
  <2>4. To(r, x).t = x.t /\ To(r, x).v = n
    BY <2>2
  <2>5. IsTruthy(To(r, x)) /\ IsTruthy(x)
    BY <2>2, <2>4 DEF IsTruthy
  <2> QED
    BY <1>1, <2>1, <2>2, <2>3, <2>4, <2>5 DEF Value
<1>2. CASE x \notin Refs
  BY <1>2 DEF To
<1> QED
  BY <1>1, <1>2

LEMMA ArithmeticIs ==
  \A build, x, y :
    /\ Arithmetic("Add", build, x, y) = Add(build, x, y) /\ Arithmetic("Sub", build, x, y) = Sub(build, x, y)
    /\ Arithmetic("Mul", build, x, y) = Mul(build, x, y) /\ Arithmetic("Div", build, x, y) = Div(x, y)
    /\ Arithmetic("Mod", build, x, y) = Modulo(x, y) /\ Arithmetic("Eq", build, x, y) = Eq(x, y)
    /\ Arithmetic("Neq", build, x, y) = Neq(x, y) /\ Arithmetic("Lt", build, x, y) = Lt(x, y)
    /\ Arithmetic("Gt", build, x, y) = Gt(x, y) /\ Arithmetic("Lte", build, x, y) = Lte(x, y)
    /\ Arithmetic("Gte", build, x, y) = Gte(x, y) /\ Arithmetic("And", build, x, y) = And(x, y)
    /\ Arithmetic("Or", build, x, y) = Or(x, y)
BY DEF Arithmetic

\* What an operator returns does not depend on the slots, but for the panic of a checked build.
LEMMA ArithmeticTo ==
  \A r \in Slots : \A op \in Binary : \A build : \A x, y \in Value :
    Arithmetic(op, build, x, y) # Panics =>
      Arithmetic(op, FALSE, To(r, x), To(r, y)) = Arithmetic(op, build, x, y)
<1> SUFFICES ASSUME NEW r \in Slots, NEW op \in Binary, NEW build, NEW x \in Value, NEW y \in Value,
                    Arithmetic(op, build, x, y) # Panics
             PROVE  Arithmetic(op, FALSE, To(r, x), To(r, y)) = Arithmetic(op, build, x, y)
  OBVIOUS
<1>0. PICK no : no = FALSE
  OBVIOUS
<1> SUFFICES Arithmetic(op, no, To(r, x), To(r, y)) = Arithmetic(op, build, x, y)
  BY <1>0
<1>1. PICK a, b : a = To(r, x) /\ b = To(r, y)
  OBVIOUS
<1>2. a.t = x.t /\ b.t = y.t /\ (x.t \notin {"String", "List"} => a = x) /\ (y.t \notin {"String", "List"} => b = y)
  BY <1>1, ToIs, RefIs
<1>3. x.t = y.t => (a.v = b.v <=> x.v = y.v)
  <2>1. CASE x \in Refs /\ y \in Refs
    <3>1. a.v = r[x.v] /\ b.v = r[y.v] /\ x.v \in Nat /\ y.v \in Nat
      BY <1>1, <2>1, ToIs, RefIs
    <3> QED
      BY <3>1, SlotsOrder
  <2>2. CASE ~(x \in Refs /\ y \in Refs) /\ x.t = y.t
    <3>1. x \notin Refs /\ y \notin Refs
      BY <2>2, RefIs
    <3> QED
      BY <1>1, <3>1, ToIs
  <2> QED
    BY <2>1, <2>2
<1>4. \A n : IntResult(build, n) # Panics => IntResult(no, n) = IntResult(build, n)
  BY <1>0 DEF IntResult
<1>5. op = "Add" => Add(no, a, b) = Add(build, x, y)
  BY <1>2, <1>4, ArithmeticIs DEF Add, Both
<1>6. op = "Sub" => Sub(no, a, b) = Sub(build, x, y)
  BY <1>2, <1>4, ArithmeticIs DEF Sub, Both
<1>7. op = "Mul" => Mul(no, a, b) = Mul(build, x, y)
  BY <1>2, <1>4, ArithmeticIs DEF Mul, Both
<1>8. Div(a, b) = Div(x, y) /\ Modulo(a, b) = Modulo(x, y)
  BY <1>2 DEF Div, Modulo, Both
<1>9. Eq(a, b) = Eq(x, y)
  BY <1>2, <1>3 DEF Eq
<1>10. Neq(a, b) = Neq(x, y)
  BY <1>9 DEF Neq
<1>11. /\ Lt(a, b) = Lt(x, y) /\ Lt(b, a) = Lt(y, x) /\ Lte(a, b) = Lte(x, y) /\ Lte(b, a) = Lte(y, x)
  BY <1>2 DEF Lt, Lte, Number, Both, Ordered
<1>12. Gt(a, b) = Gt(x, y) /\ Gte(a, b) = Gte(x, y)
  BY <1>11 DEF Gt, Gte
<1>13. And(a, b) = And(x, y) /\ Or(a, b) = Or(x, y)
  BY <1>2 DEF And, Or, Both
<1>14. CASE op \in {"Add", "Sub", "Mul"}
  BY <1>1, <1>5, <1>6, <1>7, <1>14, ArithmeticIs
<1>15. CASE op \in {"Div", "Mod", "Eq", "Neq"}
  BY <1>1, <1>8, <1>9, <1>10, <1>15, ArithmeticIs
<1>16. CASE op \in {"Lt", "Gt", "Lte", "Gte", "And", "Or"}
  BY <1>1, <1>11, <1>12, <1>13, <1>16, ArithmeticIs
<1> QED
  BY <1>14, <1>15, <1>16 DEF Binary

LEMMA UnaryTo ==
  \A r \in Slots : \A build : \A x \in Value :
    /\ Neg(build, x) # Panics => Neg(FALSE, To(r, x)) = Neg(build, x)
    /\ Not(To(r, x)) = Not(x)
<1> SUFFICES ASSUME NEW r \in Slots, NEW build, NEW x \in Value
             PROVE  /\ Neg(build, x) # Panics => Neg(FALSE, To(r, x)) = Neg(build, x)
                    /\ Not(To(r, x)) = Not(x)
  OBVIOUS
<1>1. PICK a : a = To(r, x)
  OBVIOUS
<1>2. a.t = x.t /\ (x.t \notin {"String", "List"} => a = x)
  BY <1>1, ToIs, RefIs
<1>3. \A n : IntResult(build, n) # Panics => IntResult(FALSE, n) = IntResult(build, n)
  BY DEF IntResult
<1>4. Not(a) = Not(x)
  BY <1>2 DEF Not
<1>5. Neg(build, x) # Panics => Neg(FALSE, a) = Neg(build, x)
  BY <1>2, <1>3 DEF Neg
<1> QED
  BY <1>1, <1>4, <1>5

\* A result is no reference.
LEMMA ResultTo ==
  \A r \in Slots : \A build : \A x, y \in Value :
    /\ \A op \in Binary : Arithmetic(op, build, x, y) \notin Refs
    /\ Neg(build, x) \notin Refs /\ Not(x) \notin Refs
<1>1. /\ \A n : IntV(n) \notin Refs /\ FloatV(n) \notin Refs /\ BoolV(n) \notin Refs
      /\ Panics \notin Refs /\ TypeError \notin Refs
  BY DEF IntV, FloatV, BoolV, Panics, TypeError, Refs
<1> SUFFICES ASSUME NEW r \in Slots, NEW build, NEW x \in Value, NEW y \in Value
             PROVE  /\ \A op \in Binary : Arithmetic(op, build, x, y) \notin Refs
                    /\ Neg(build, x) \notin Refs /\ Not(x) \notin Refs
  OBVIOUS
<1>2. \A n : IntResult(build, n) \notin Refs
  BY <1>1 DEF IntResult
<1>3. \A m, n, k : DivResult(m, n, k) \notin Refs
  BY <1>1 DEF DivResult
<1>4. Neg(build, x) \notin Refs /\ Not(x) \notin Refs
  BY <1>1, <1>2 DEF Neg, Not
<1>5. Add(build, x, y) \notin Refs /\ Sub(build, x, y) \notin Refs /\ Mul(build, x, y) \notin Refs
  BY <1>1, <1>2 DEF Add, Sub, Mul
<1>6. Div(x, y) \notin Refs /\ Modulo(x, y) \notin Refs
  BY <1>1, <1>3 DEF Div, Modulo
<1>7. Eq(x, y) \notin Refs /\ Neq(x, y) \notin Refs /\ And(x, y) \notin Refs /\ Or(x, y) \notin Refs
  BY <1>1 DEF Eq, Neq, And, Or
<1>8. \A a, b : Lt(a, b) \notin Refs /\ Lte(a, b) \notin Refs
  BY <1>1 DEF Lt, Lte
<1>9. Gt(x, y) \notin Refs /\ Gte(x, y) \notin Refs
  BY <1>8 DEF Gt, Gte
<1> QED
  BY <1>4, <1>5, <1>6, <1>7, <1>8, <1>9, ArithmeticIs DEF Binary

\* Sequences of values, and frames.
LEMMA ToAllIs ==
  \A r \in Slots : \A s \in Seq(Value) :
    /\ ToAll(r, s) \in Seq(Value) /\ Len(ToAll(r, s)) = Len(s) /\ DOMAIN ToAll(r, s) = DOMAIN s
    /\ \A k \in DOMAIN s : ToAll(r, s)[k] = To(r, s[k])
    /\ ToAll(r, s) = <<>> <=> s = <<>>
<1> SUFFICES ASSUME NEW r \in Slots, NEW s \in Seq(Value)
             PROVE  /\ ToAll(r, s) \in Seq(Value) /\ Len(ToAll(r, s)) = Len(s) /\ DOMAIN ToAll(r, s) = DOMAIN s
                    /\ \A k \in DOMAIN s : ToAll(r, s)[k] = To(r, s[k])
                    /\ ToAll(r, s) = <<>> <=> s = <<>>
  OBVIOUS
<1>1. PICK ys : ys = ToAll(r, s)
  OBVIOUS
<1>2. ys = [k \in DOMAIN s |-> To(r, s[k])]
  BY <1>1 DEF ToAll
<1>3. \A k \in DOMAIN s : s[k] \in Value /\ To(r, s[k]) \in Value
  BY ToIs
<1>4. ys = [k \in DOMAIN s |-> ys[k]] /\ \A k \in DOMAIN s : ys[k] \in Value
  BY <1>2, <1>3
<1>5. ys \in Seq(Value)
  BY <1>4, EachFields
<1>6. DOMAIN ys = DOMAIN s
  BY <1>2
<1>7. Len(ys) = Len(s)
  BY <1>5, <1>6
<1>8. ys = <<>> <=> s = <<>>
  BY <1>5, <1>7
<1> QED
  BY <1>1, <1>2, <1>5, <1>6, <1>7, <1>8

LEMMA ToAllAppend ==
  \A r \in Slots : \A s \in Seq(Value) : \A x \in Value :
    ToAll(r, Append(s, x)) = Append(ToAll(r, s), To(r, x))
<1> SUFFICES ASSUME NEW r \in Slots, NEW s \in Seq(Value), NEW x \in Value
             PROVE  ToAll(r, Append(s, x)) = Append(ToAll(r, s), To(r, x))
  OBVIOUS
<1>1. PICK u, w, y : u = Append(s, x) /\ w = ToAll(r, s) /\ y = To(r, x)
  OBVIOUS
<1>2. u \in Seq(Value) /\ Len(u) = Len(s) + 1 /\ Len(s) \in Nat /\ u[Len(s) + 1] = x
      /\ \A k \in 1..Len(s) : u[k] = s[k]
  BY <1>1
<1>3. y \in Value /\ w \in Seq(Value) /\ Len(w) = Len(s) /\ \A k \in 1..Len(s) : w[k] = To(r, s[k])
  BY <1>1, ToIs, ToAllIs
<1>4. PICK a, b : a = ToAll(r, u) /\ b = Append(w, y)
  OBVIOUS
<1>5. a \in Seq(Value) /\ Len(a) = Len(s) + 1 /\ \A k \in 1..Len(s) + 1 : a[k] = To(r, u[k])
  BY <1>2, <1>4, ToAllIs
<1>6. b \in Seq(Value) /\ Len(b) = Len(s) + 1 /\ b[Len(s) + 1] = y /\ \A k \in 1..Len(s) : b[k] = w[k]
  BY <1>3, <1>4
<1>7. ASSUME NEW k \in 1..Len(s) + 1 PROVE a[k] = b[k]
  <2>1. CASE k = Len(s) + 1
    BY <1>1, <1>2, <1>5, <1>6, <2>1
  <2>2. CASE k # Len(s) + 1
    <3>1. k \in 1..Len(s)
      BY <1>2, <2>2
    <3> QED
      BY <1>2, <1>3, <1>5, <1>6, <3>1
  <2> QED
    BY <2>1, <2>2
<1>8. a = b
  BY <1>5, <1>6, <1>7
<1> QED
  BY <1>1, <1>4, <1>8

LEMMA ToAllPart ==
  \A r \in Slots : \A s \in Seq(Value) : \A m, n \in Nat :
    m >= 1 /\ n <= Len(s) => ToAll(r, SubSeq(s, m, n)) = SubSeq(ToAll(r, s), m, n)
<1> SUFFICES ASSUME NEW r \in Slots, NEW s \in Seq(Value), NEW m \in Nat, NEW n \in Nat,
                    m >= 1, n <= Len(s)
             PROVE  ToAll(r, SubSeq(s, m, n)) = SubSeq(ToAll(r, s), m, n)
  OBVIOUS
<1>1. PICK u, w : u = SubSeq(s, m, n) /\ w = ToAll(r, s)
  OBVIOUS
<1>2. PICK l \in Nat : l = IF m <= n THEN n - m + 1 ELSE 0
  <2>1. (IF m <= n THEN n - m + 1 ELSE 0) \in Nat
    OBVIOUS
  <2> QED
    BY <2>1
<1>3. \A k \in 1..l : m + k - 1 \in 1..Len(s)
  BY <1>2
<1>4. u \in Seq(Value) /\ Len(u) = l /\ \A k \in 1..l : u[k] = s[m + k - 1]
  BY <1>1, <1>2
<1>5. w \in Seq(Value) /\ Len(w) = Len(s) /\ \A k \in 1..Len(s) : w[k] = To(r, s[k])
  BY <1>1, ToAllIs
<1>6. PICK a, b : a = ToAll(r, u) /\ b = SubSeq(w, m, n)
  OBVIOUS
<1>7. a \in Seq(Value) /\ Len(a) = l /\ \A k \in 1..l : a[k] = To(r, u[k])
  BY <1>4, <1>6, ToAllIs
<1>8. b \in Seq(Value) /\ Len(b) = l /\ \A k \in 1..l : b[k] = w[m + k - 1]
  BY <1>2, <1>5, <1>6
<1>9. ASSUME NEW k \in 1..l PROVE a[k] = b[k]
  BY <1>3, <1>4, <1>5, <1>7, <1>8
<1>10. a = b
  BY <1>7, <1>8, <1>9
<1> QED
  BY <1>1, <1>6, <1>10

LEMMA ToFrameIs ==
  \A r \in Slots : \A f \in VmFrame :
    /\ ToFrame(r, f) \in VmFrame
    /\ ToFrame(r, f).function = f.function /\ ToFrame(r, f).ip = f.ip
    /\ ToFrame(r, f).locals = ToAll(r, f.locals)
<1> SUFFICES ASSUME NEW r \in Slots, NEW f \in VmFrame
             PROVE  /\ ToFrame(r, f) \in VmFrame
                    /\ ToFrame(r, f).function = f.function /\ ToFrame(r, f).ip = f.ip
                    /\ ToFrame(r, f).locals = ToAll(r, f.locals)
  OBVIOUS
<1>1. PICK xs : xs = ToAll(r, f.locals)
  OBVIOUS
<1>2. f.function \in Int /\ f.ip \in Int /\ f.locals \in Seq(Value)
  BY DEF VmFrame
<1>3. xs \in Seq(Value)
  BY <1>1, <1>2, ToAllIs
<1>4. ToFrame(r, f) = [function |-> f.function, ip |-> f.ip, locals |-> xs]
  BY <1>1 DEF ToFrame
<1> QED
  BY <1>1, <1>2, <1>3, <1>4 DEF VmFrame

LEMMA ToFramesIs ==
  \A r \in Slots : \A s \in Seq(VmFrame) :
    /\ ToFrames(r, s) \in Seq(VmFrame) /\ Len(ToFrames(r, s)) = Len(s) /\ DOMAIN ToFrames(r, s) = DOMAIN s
    /\ \A k \in DOMAIN s : ToFrames(r, s)[k] = ToFrame(r, s[k])
    /\ ToFrames(r, s) = <<>> <=> s = <<>>
<1> SUFFICES ASSUME NEW r \in Slots, NEW s \in Seq(VmFrame)
             PROVE  /\ ToFrames(r, s) \in Seq(VmFrame) /\ Len(ToFrames(r, s)) = Len(s)
                    /\ DOMAIN ToFrames(r, s) = DOMAIN s
                    /\ \A k \in DOMAIN s : ToFrames(r, s)[k] = ToFrame(r, s[k])
                    /\ ToFrames(r, s) = <<>> <=> s = <<>>
  OBVIOUS
<1>1. PICK ys : ys = ToFrames(r, s)
  OBVIOUS
<1>2. ys = [k \in DOMAIN s |-> ToFrame(r, s[k])]
  BY <1>1 DEF ToFrames
<1>3. \A k \in DOMAIN s : s[k] \in VmFrame /\ ToFrame(r, s[k]) \in VmFrame
  BY ToFrameIs
<1>4. ys = [k \in DOMAIN s |-> ys[k]] /\ \A k \in DOMAIN s : ys[k] \in VmFrame
  BY <1>2, <1>3
<1>5. ys \in Seq(VmFrame)
  BY <1>4, EachFields
<1>6. DOMAIN ys = DOMAIN s
  BY <1>2
<1>7. Len(ys) = Len(s)
  BY <1>5, <1>6
<1>8. ys = <<>> <=> s = <<>>
  BY <1>5, <1>7
<1> QED
  BY <1>1, <1>2, <1>5, <1>6, <1>7, <1>8

LEMMA ToFramesAppend ==
  \A r \in Slots : \A s \in Seq(VmFrame) : \A f \in VmFrame :
    ToFrames(r, Append(s, f)) = Append(ToFrames(r, s), ToFrame(r, f))
<1> SUFFICES ASSUME NEW r \in Slots, NEW s \in Seq(VmFrame), NEW f \in VmFrame
             PROVE  ToFrames(r, Append(s, f)) = Append(ToFrames(r, s), ToFrame(r, f))
  OBVIOUS
<1>1. PICK u, w, y : u = Append(s, f) /\ w = ToFrames(r, s) /\ y = ToFrame(r, f)
  OBVIOUS
<1>2. u \in Seq(VmFrame) /\ Len(u) = Len(s) + 1 /\ Len(s) \in Nat /\ u[Len(s) + 1] = f
      /\ \A k \in 1..Len(s) : u[k] = s[k]
  BY <1>1
<1>3. y \in VmFrame /\ w \in Seq(VmFrame) /\ Len(w) = Len(s) /\ \A k \in 1..Len(s) : w[k] = ToFrame(r, s[k])
  BY <1>1, ToFrameIs, ToFramesIs
<1>4. PICK a, b : a = ToFrames(r, u) /\ b = Append(w, y)
  OBVIOUS
<1>5. a \in Seq(VmFrame) /\ Len(a) = Len(s) + 1 /\ \A k \in 1..Len(s) + 1 : a[k] = ToFrame(r, u[k])
  BY <1>2, <1>4, ToFramesIs
<1>6. b \in Seq(VmFrame) /\ Len(b) = Len(s) + 1 /\ b[Len(s) + 1] = y /\ \A k \in 1..Len(s) : b[k] = w[k]
  BY <1>3, <1>4
<1>7. ASSUME NEW k \in 1..Len(s) + 1 PROVE a[k] = b[k]
  <2>1. CASE k = Len(s) + 1
    BY <1>1, <1>2, <1>5, <1>6, <2>1
  <2>2. CASE k # Len(s) + 1
    <3>1. k \in 1..Len(s)
      BY <1>2, <2>2
    <3> QED
      BY <1>2, <1>3, <1>5, <1>6, <3>1
  <2> QED
    BY <2>1, <2>2
<1> HIDE DEF VmFrame
<1>8. a = b
  BY <1>5, <1>6, <1>7
<1> QED
  BY <1>1, <1>4, <1>8

\* A frame is pushed, popped, or the last one changes.
LEMMA ToFramesLast ==
  \A r \in Slots : \A s \in Seq(VmFrame) : \A f \in VmFrame :
    s # <<>> =>
      /\ ToFrames(r, SubSeq(s, 1, Len(s) - 1)) = SubSeq(ToFrames(r, s), 1, Len(s) - 1)
      /\ ToFrames(r, [s EXCEPT ![Len(s)] = f]) = [ToFrames(r, s) EXCEPT ![Len(s)] = ToFrame(r, f)]
<1> SUFFICES ASSUME NEW r \in Slots, NEW s \in Seq(VmFrame), NEW f \in VmFrame, s # <<>>
             PROVE  /\ ToFrames(r, SubSeq(s, 1, Len(s) - 1)) = SubSeq(ToFrames(r, s), 1, Len(s) - 1)
                    /\ ToFrames(r, [s EXCEPT ![Len(s)] = f]) = [ToFrames(r, s) EXCEPT ![Len(s)] = ToFrame(r, f)]
  OBVIOUS
<1>1. PICK n, w, y : n = Len(s) /\ w = ToFrames(r, s) /\ y = ToFrame(r, f)
  OBVIOUS
<1>2. n \in Nat /\ n # 0
  BY <1>1, EmptyList
<1>3. y \in VmFrame /\ w \in Seq(VmFrame) /\ Len(w) = n /\ \A k \in 1..n : w[k] = ToFrame(r, s[k])
  BY <1>1, ToFrameIs, ToFramesIs
<1>4. ToFrames(r, SubSeq(s, 1, n - 1)) = SubSeq(w, 1, n - 1)
  <2>1. PICK u, b : u = SubSeq(s, 1, n - 1) /\ b = SubSeq(w, 1, n - 1)
    OBVIOUS
  <2>2. u \in Seq(VmFrame) /\ Len(u) = n - 1 /\ \A k \in 1..n - 1 : u[k] = s[k]
    BY <1>1, <1>2, <2>1
  <2>3. b \in Seq(VmFrame) /\ Len(b) = n - 1 /\ \A k \in 1..n - 1 : b[k] = w[k]
    BY <1>2, <1>3, <2>1
  <2>4. PICK a : a = ToFrames(r, u)
    OBVIOUS
  <2>5. a \in Seq(VmFrame) /\ Len(a) = n - 1 /\ \A k \in 1..n - 1 : a[k] = ToFrame(r, u[k])
    BY <2>2, <2>4, ToFramesIs
  <2>6. \A k \in 1..n - 1 : a[k] = b[k]
    BY <1>2, <1>3, <2>2, <2>3, <2>5
  <2> HIDE DEF VmFrame
  <2>7. a = b
    BY <2>3, <2>5, <2>6
  <2> QED
    BY <2>1, <2>4, <2>7
<1>5. ToFrames(r, [s EXCEPT ![n] = f]) = [w EXCEPT ![n] = y]
  <2>1. PICK u, b : u = [s EXCEPT ![n] = f] /\ b = [w EXCEPT ![n] = y]
    OBVIOUS
  <2>2. u \in Seq(VmFrame) /\ Len(u) = n /\ \A k \in 1..n : u[k] = IF k = n THEN f ELSE s[k]
    BY <1>1, <1>2, <2>1
  <2>3. b \in Seq(VmFrame) /\ Len(b) = n /\ \A k \in 1..n : b[k] = IF k = n THEN y ELSE w[k]
    BY <1>2, <1>3, <2>1
  <2>4. PICK a : a = ToFrames(r, u)
    OBVIOUS
  <2>5. a \in Seq(VmFrame) /\ Len(a) = n /\ \A k \in 1..n : a[k] = ToFrame(r, u[k])
    BY <2>2, <2>4, ToFramesIs
  <2>6. \A k \in 1..n : a[k] = b[k]
    BY <1>1, <1>3, <2>2, <2>3, <2>5
  <2> HIDE DEF VmFrame
  <2>7. a = b
    BY <2>3, <2>5, <2>6
  <2> QED
    BY <2>1, <2>4, <2>7
<1> QED
  BY <1>1, <1>4, <1>5

\* Changing a field leaves the others.
LEMMA FieldsOf ==
  \A T, m : IsMachine(T, m) =>
    /\ \A x : /\ WithFrames(m, x).frames = x
             /\ WithFrames(m, x).stack = m.stack /\ WithFrames(m, x).running = m.running /\ WithFrames(m, x).objects = m.objects
             /\ WithFrames(m, x).marked = m.marked /\ WithFrames(m, x).handles = m.handles /\ WithFrames(m, x).entry = m.entry
             /\ WithFrames(m, x).snapshot = m.snapshot /\ WithFrames(m, x).outcome = m.outcome /\ WithFrames(m, x).steps = m.steps
    /\ \A x : /\ WithStack(m, x).stack = x
             /\ WithStack(m, x).frames = m.frames /\ WithStack(m, x).running = m.running /\ WithStack(m, x).objects = m.objects
             /\ WithStack(m, x).marked = m.marked /\ WithStack(m, x).handles = m.handles /\ WithStack(m, x).entry = m.entry
             /\ WithStack(m, x).snapshot = m.snapshot /\ WithStack(m, x).outcome = m.outcome /\ WithStack(m, x).steps = m.steps
    /\ \A x : /\ WithRunning(m, x).running = x
             /\ WithRunning(m, x).frames = m.frames /\ WithRunning(m, x).stack = m.stack /\ WithRunning(m, x).objects = m.objects
             /\ WithRunning(m, x).marked = m.marked /\ WithRunning(m, x).handles = m.handles /\ WithRunning(m, x).entry = m.entry
             /\ WithRunning(m, x).snapshot = m.snapshot /\ WithRunning(m, x).outcome = m.outcome /\ WithRunning(m, x).steps = m.steps
    /\ \A x : /\ WithObjects(m, x).objects = x
             /\ WithObjects(m, x).frames = m.frames /\ WithObjects(m, x).stack = m.stack /\ WithObjects(m, x).running = m.running
             /\ WithObjects(m, x).marked = m.marked /\ WithObjects(m, x).handles = m.handles /\ WithObjects(m, x).entry = m.entry
             /\ WithObjects(m, x).snapshot = m.snapshot /\ WithObjects(m, x).outcome = m.outcome /\ WithObjects(m, x).steps = m.steps
    /\ \A x : /\ WithMarked(m, x).marked = x
             /\ WithMarked(m, x).frames = m.frames /\ WithMarked(m, x).stack = m.stack /\ WithMarked(m, x).running = m.running
             /\ WithMarked(m, x).objects = m.objects /\ WithMarked(m, x).handles = m.handles /\ WithMarked(m, x).entry = m.entry
             /\ WithMarked(m, x).snapshot = m.snapshot /\ WithMarked(m, x).outcome = m.outcome /\ WithMarked(m, x).steps = m.steps
    /\ \A x : /\ WithHandles(m, x).handles = x
             /\ WithHandles(m, x).frames = m.frames /\ WithHandles(m, x).stack = m.stack /\ WithHandles(m, x).running = m.running
             /\ WithHandles(m, x).objects = m.objects /\ WithHandles(m, x).marked = m.marked /\ WithHandles(m, x).entry = m.entry
             /\ WithHandles(m, x).snapshot = m.snapshot /\ WithHandles(m, x).outcome = m.outcome /\ WithHandles(m, x).steps = m.steps
    /\ \A x : /\ WithEntry(m, x).entry = x
             /\ WithEntry(m, x).frames = m.frames /\ WithEntry(m, x).stack = m.stack /\ WithEntry(m, x).running = m.running
             /\ WithEntry(m, x).objects = m.objects /\ WithEntry(m, x).marked = m.marked /\ WithEntry(m, x).handles = m.handles
             /\ WithEntry(m, x).snapshot = m.snapshot /\ WithEntry(m, x).outcome = m.outcome /\ WithEntry(m, x).steps = m.steps
    /\ \A x : /\ WithSnapshot(m, x).snapshot = x
             /\ WithSnapshot(m, x).frames = m.frames /\ WithSnapshot(m, x).stack = m.stack /\ WithSnapshot(m, x).running = m.running
             /\ WithSnapshot(m, x).objects = m.objects /\ WithSnapshot(m, x).marked = m.marked /\ WithSnapshot(m, x).handles = m.handles
             /\ WithSnapshot(m, x).entry = m.entry /\ WithSnapshot(m, x).outcome = m.outcome /\ WithSnapshot(m, x).steps = m.steps
    /\ \A x : /\ WithOutcome(m, x).outcome = x
             /\ WithOutcome(m, x).frames = m.frames /\ WithOutcome(m, x).stack = m.stack /\ WithOutcome(m, x).running = m.running
             /\ WithOutcome(m, x).objects = m.objects /\ WithOutcome(m, x).marked = m.marked /\ WithOutcome(m, x).handles = m.handles
             /\ WithOutcome(m, x).entry = m.entry /\ WithOutcome(m, x).snapshot = m.snapshot /\ WithOutcome(m, x).steps = m.steps
    /\ \A x : /\ WithSteps(m, x).steps = x
             /\ WithSteps(m, x).frames = m.frames /\ WithSteps(m, x).stack = m.stack /\ WithSteps(m, x).running = m.running
             /\ WithSteps(m, x).objects = m.objects /\ WithSteps(m, x).marked = m.marked /\ WithSteps(m, x).handles = m.handles
             /\ WithSteps(m, x).entry = m.entry /\ WithSteps(m, x).snapshot = m.snapshot /\ WithSteps(m, x).outcome = m.outcome
BY DEF WithFrames, WithStack, WithRunning, WithObjects, WithMarked,
       WithHandles, WithEntry, WithSnapshot, WithOutcome, WithSteps, IsMachine, MachineFields

Moves(r, m, i) ==
  /\ Renumbered(r, m.frames, m.stack, m.objects, i) /\ m.handles = i.handles /\ m.steps = i.steps
Pair(T, r, m, i) ==
  /\ r \in Slots /\ IsMachine(T, m) /\ IsMachine(Nat, i)
  /\ Moves(r, m, i) /\ m.outcome = i.outcome /\ m.running = i.running

LEMMA PairIs ==
  \A T, r, m, i : Pair(T, r, m, i) =>
    /\ r \in Slots /\ IsMachine(T, m) /\ IsMachine(Nat, i)
    /\ i.stack = ToAll(r, m.stack) /\ i.frames = ToFrames(r, m.frames)
    /\ Len(i.stack) = Len(m.stack) /\ Len(i.frames) = Len(m.frames)
    /\ (i.stack = <<>> <=> m.stack = <<>>) /\ (i.frames = <<>> <=> m.frames = <<>>)
    /\ SameObjects(r, m.objects, i.objects)
    /\ i.handles = m.handles /\ i.steps = m.steps /\ i.outcome = m.outcome /\ i.running = m.running
BY MachineIs, ToAllIs, ToFramesIs DEF Pair, Moves, Renumbered

LEMMA PairWith ==
  \A T, r, m, i : Pair(T, r, m, i) =>
    /\ \A x \in Seq(VmFrame) : Pair(T, r, WithFrames(m, x), WithFrames(i, ToFrames(r, x)))
    /\ \A x \in Seq(Value) : Pair(T, r, WithStack(m, x), WithStack(i, ToAll(r, x)))
    /\ \A x \in BOOLEAN : Pair(T, r, WithRunning(m, x), WithRunning(i, x))
    /\ \A x \in Tables : Pair(T, r, WithHandles(m, x), WithHandles(i, x))
    /\ \A x \in {"ok", "error", "dead"} : Pair(T, r, WithOutcome(m, x), WithOutcome(i, x))
    /\ \A x \in T : x \in Nat => Pair(T, r, WithSteps(m, x), WithSteps(i, x))
<1> SUFFICES ASSUME NEW T, NEW r, NEW m, NEW i, Pair(T, r, m, i)
             PROVE
    /\ \A x \in Seq(VmFrame) : Pair(T, r, WithFrames(m, x), WithFrames(i, ToFrames(r, x)))
    /\ \A x \in Seq(Value) : Pair(T, r, WithStack(m, x), WithStack(i, ToAll(r, x)))
    /\ \A x \in BOOLEAN : Pair(T, r, WithRunning(m, x), WithRunning(i, x))
    /\ \A x \in Tables : Pair(T, r, WithHandles(m, x), WithHandles(i, x))
    /\ \A x \in {"ok", "error", "dead"} : Pair(T, r, WithOutcome(m, x), WithOutcome(i, x))
    /\ \A x \in T : x \in Nat => Pair(T, r, WithSteps(m, x), WithSteps(i, x))
  OBVIOUS
<1>1. r \in Slots /\ IsMachine(T, m) /\ IsMachine(Nat, i)
  BY DEF Pair
<1>2. ASSUME NEW x \in Seq(VmFrame) PROVE Pair(T, r, WithFrames(m, x), WithFrames(i, ToFrames(r, x)))
  <2>1. PICK a, y, b : a = WithFrames(m, x) /\ y = ToFrames(r, x) /\ b = WithFrames(i, y)
    OBVIOUS
  <2>2. y \in Seq(VmFrame)
    BY <1>1, <2>1, ToFramesIs
  <2>3. IsMachine(T, a) /\ IsMachine(Nat, b)
    BY <1>1, <1>2, <2>1, <2>2, MachineWith
  <2>4. a.frames = x /\ b.frames = y
        /\ a.stack = m.stack /\ a.running = m.running /\ a.objects = m.objects
        /\ b.stack = i.stack /\ b.running = i.running /\ b.objects = i.objects
        /\ a.handles = m.handles /\ a.outcome = m.outcome /\ a.steps = m.steps
        /\ b.handles = i.handles /\ b.outcome = i.outcome /\ b.steps = i.steps
    BY <1>1, <2>1, FieldsOf
  <2> QED
    BY <1>1, <2>1, <2>3, <2>4 DEF Pair, Moves, Renumbered
<1>3. ASSUME NEW x \in Seq(Value) PROVE Pair(T, r, WithStack(m, x), WithStack(i, ToAll(r, x)))
  <2>1. PICK a, y, b : a = WithStack(m, x) /\ y = ToAll(r, x) /\ b = WithStack(i, y)
    OBVIOUS
  <2>2. y \in Seq(Value)
    BY <1>1, <2>1, ToAllIs
  <2>3. IsMachine(T, a) /\ IsMachine(Nat, b)
    BY <1>1, <1>3, <2>1, <2>2, MachineWith
  <2>4. a.stack = x /\ b.stack = y
        /\ a.frames = m.frames /\ a.running = m.running /\ a.objects = m.objects
        /\ b.frames = i.frames /\ b.running = i.running /\ b.objects = i.objects
        /\ a.handles = m.handles /\ a.outcome = m.outcome /\ a.steps = m.steps
        /\ b.handles = i.handles /\ b.outcome = i.outcome /\ b.steps = i.steps
    BY <1>1, <2>1, FieldsOf
  <2> QED
    BY <1>1, <2>1, <2>3, <2>4 DEF Pair, Moves, Renumbered
<1>4. ASSUME NEW x \in BOOLEAN PROVE Pair(T, r, WithRunning(m, x), WithRunning(i, x))
  <2>1. PICK a, y, b : a = WithRunning(m, x) /\ y = x /\ b = WithRunning(i, y)
    OBVIOUS
  <2>2. y \in BOOLEAN
    BY <1>4, <2>1
  <2>3. IsMachine(T, a) /\ IsMachine(Nat, b)
    BY <1>1, <1>4, <2>1, <2>2, MachineWith
  <2>4. a.running = x /\ b.running = y
        /\ a.frames = m.frames /\ a.stack = m.stack /\ a.objects = m.objects
        /\ b.frames = i.frames /\ b.stack = i.stack /\ b.objects = i.objects
        /\ a.handles = m.handles /\ a.outcome = m.outcome /\ a.steps = m.steps
        /\ b.handles = i.handles /\ b.outcome = i.outcome /\ b.steps = i.steps
    BY <1>1, <2>1, FieldsOf
  <2> QED
    BY <1>1, <2>1, <2>3, <2>4 DEF Pair, Moves, Renumbered
<1>5. ASSUME NEW x \in Tables PROVE Pair(T, r, WithHandles(m, x), WithHandles(i, x))
  <2>1. PICK a, y, b : a = WithHandles(m, x) /\ y = x /\ b = WithHandles(i, y)
    OBVIOUS
  <2>2. y \in Tables
    BY <1>5, <2>1
  <2>3. IsMachine(T, a) /\ IsMachine(Nat, b)
    BY <1>1, <1>5, <2>1, <2>2, MachineWith
  <2>4. a.handles = x /\ b.handles = y
        /\ a.frames = m.frames /\ a.stack = m.stack /\ a.running = m.running
        /\ b.frames = i.frames /\ b.stack = i.stack /\ b.running = i.running
        /\ a.objects = m.objects /\ a.outcome = m.outcome /\ a.steps = m.steps
        /\ b.objects = i.objects /\ b.outcome = i.outcome /\ b.steps = i.steps
    BY <1>1, <2>1, FieldsOf
  <2> QED
    BY <1>1, <2>1, <2>3, <2>4 DEF Pair, Moves, Renumbered
<1>6. ASSUME NEW x \in {"ok", "error", "dead"} PROVE Pair(T, r, WithOutcome(m, x), WithOutcome(i, x))
  <2>1. PICK a, y, b : a = WithOutcome(m, x) /\ y = x /\ b = WithOutcome(i, y)
    OBVIOUS
  <2>2. y \in {"ok", "error", "dead"}
    BY <1>6, <2>1
  <2>3. IsMachine(T, a) /\ IsMachine(Nat, b)
    BY <1>1, <1>6, <2>1, <2>2, MachineWith
  <2>4. a.outcome = x /\ b.outcome = y
        /\ a.frames = m.frames /\ a.stack = m.stack /\ a.running = m.running
        /\ b.frames = i.frames /\ b.stack = i.stack /\ b.running = i.running
        /\ a.objects = m.objects /\ a.handles = m.handles /\ a.steps = m.steps
        /\ b.objects = i.objects /\ b.handles = i.handles /\ b.steps = i.steps
    BY <1>1, <2>1, FieldsOf
  <2> QED
    BY <1>1, <2>1, <2>3, <2>4 DEF Pair, Moves, Renumbered
<1>7. ASSUME NEW x \in T, x \in Nat PROVE Pair(T, r, WithSteps(m, x), WithSteps(i, x))
  <2>1. PICK a, y, b : a = WithSteps(m, x) /\ y = x /\ b = WithSteps(i, y)
    OBVIOUS
  <2>2. y \in Nat
    BY <1>7, <2>1
  <2>3. IsMachine(T, a) /\ IsMachine(Nat, b)
    BY <1>1, <1>7, <2>1, <2>2, MachineWith
  <2>4. a.steps = x /\ b.steps = y
        /\ a.frames = m.frames /\ a.stack = m.stack /\ a.running = m.running
        /\ b.frames = i.frames /\ b.stack = i.stack /\ b.running = i.running
        /\ a.objects = m.objects /\ a.handles = m.handles /\ a.outcome = m.outcome
        /\ b.objects = i.objects /\ b.handles = i.handles /\ b.outcome = i.outcome
    BY <1>1, <2>1, FieldsOf
  <2> QED
    BY <1>1, <2>1, <2>3, <2>4 DEF Pair, Moves, Renumbered
<1> QED
  BY <1>2, <1>3, <1>4, <1>5, <1>6, <1>7

-----------------------------------------------------------------------------
(* Opcodes do the same to both.                                            *)

\* A build with overflow checks may panic where the other goes on.
Kin(T, r, a, b) == a.outcome = "dead" \/ Pair(T, r, a, b)

LEMMA PairErr == \A T, r, m, i : Pair(T, r, m, i) => Pair(T, r, Err(m), Err(i)) /\ Pair(T, r, Dead(m), Dead(i))
BY PairWith DEF Err, Dead, WithOutcome

LEMMA DeadIs == \A T, m : IsMachine(T, m) => Dead(m).outcome = "dead"
BY FieldsOf DEF Dead, WithOutcome

LEMMA PairEmptied ==
  \A T, r, m, i : Pair(T, r, m, i) => Pair(T, r, [m EXCEPT !.stack = <<>>], [i EXCEPT !.stack = <<>>])
<1> SUFFICES ASSUME NEW T, NEW r, NEW m, NEW i, Pair(T, r, m, i)
             PROVE  Pair(T, r, [m EXCEPT !.stack = <<>>], [i EXCEPT !.stack = <<>>])
  OBVIOUS
<1>1. PICK x : x = <<>>
  OBVIOUS
<1>2. x \in Seq(Value)
  BY <1>1
<1>3. ToAll(r, x) = x
  BY <1>1, <1>2, PairIs, ToAllIs
<1>4. Pair(T, r, WithStack(m, x), WithStack(i, x))
  BY <1>2, <1>3, PairWith
<1> QED
  BY <1>1, <1>4 DEF WithStack

LEMMA PairPop ==
  \A T, r, m, i : \A n \in Nat : Pair(T, r, m, i) /\ n <= Len(m.stack) => Pair(T, r, Pop(m, n), Pop(i, n))
<1> SUFFICES ASSUME NEW T, NEW r, NEW m, NEW i, NEW n \in Nat, Pair(T, r, m, i), n <= Len(m.stack)
             PROVE  Pair(T, r, Pop(m, n), Pop(i, n))
  OBVIOUS
<1>1. m.stack \in Seq(Value) /\ Len(m.stack) \in Nat /\ r \in Slots
  BY PairIs, MachineIs
<1>2. PICK l \in Nat : l = Len(m.stack) - n
  <2>1. Len(m.stack) - n \in Nat
    BY <1>1
  <2> QED
    BY <2>1
<1>3. l <= Len(m.stack) /\ 1 >= 1 /\ 1 \in Nat
  BY <1>1, <1>2
<1>4. PICK x : x = SubSeq(m.stack, 1, l)
  OBVIOUS
<1>5. x \in Seq(Value)
  BY <1>1, <1>3, <1>4
<1>6. ToAll(r, x) = SubSeq(i.stack, 1, l)
  <2>1. PICK w, one : w = m.stack /\ one = 1
    OBVIOUS
  <2>2. ToAll(r, SubSeq(w, one, l)) = SubSeq(ToAll(r, w), one, l)
    BY <1>1, <1>3, <2>1, ToAllPart
  <2> QED
    BY <1>4, <2>1, <2>2, PairIs
<1>7. Pop(m, n) = WithStack(m, x)
  BY <1>2, <1>4 DEF Pop, WithStack
<1>8. Pop(i, n) = WithStack(i, ToAll(r, x))
  <2>1. Len(i.stack) = Len(m.stack)
    BY PairIs
  <2> QED
    BY <1>2, <1>6, <2>1 DEF Pop, WithStack
<1> QED
  BY <1>5, <1>7, <1>8, PairWith

LEMMA PairUnder ==
  \A T, r, m, i : \A n \in Nat : Pair(T, r, m, i) /\ n < Len(m.stack) =>
    Under(m, n) \in Value /\ Under(i, n) = To(r, Under(m, n))
<1> SUFFICES ASSUME NEW T, NEW r, NEW m, NEW i, NEW n \in Nat, Pair(T, r, m, i), n < Len(m.stack)
             PROVE  Under(m, n) \in Value /\ Under(i, n) = To(r, Under(m, n))
  OBVIOUS
<1>1. m.stack \in Seq(Value) /\ Len(m.stack) \in Nat /\ r \in Slots
      /\ i.stack = ToAll(r, m.stack) /\ Len(i.stack) = Len(m.stack)
  BY PairIs, MachineIs
<1>2. PICK k : k = Len(m.stack) - n
  OBVIOUS
<1>3. k \in DOMAIN m.stack
  BY <1>1, <1>2
<1>4. Under(m, n) = m.stack[k] /\ Under(i, n) = i.stack[k]
  BY <1>1, <1>2 DEF Under
<1> QED
  BY <1>1, <1>3, <1>4, ToAllIs

LEMMA PairTop ==
  \A T, r, m, i : Pair(T, r, m, i) /\ m.stack # <<>> =>
    /\ Under(m, 0) \in Value /\ Under(i, 0) = To(r, Under(m, 0)) /\ Pair(T, r, Pop(m, 1), Pop(i, 1))
<1> SUFFICES ASSUME NEW T, NEW r, NEW m, NEW i, Pair(T, r, m, i), m.stack # <<>>
             PROVE  /\ Under(m, 0) \in Value /\ Under(i, 0) = To(r, Under(m, 0))
                    /\ Pair(T, r, Pop(m, 1), Pop(i, 1))
  OBVIOUS
<1>1. Len(m.stack) >= 1 /\ Len(m.stack) \in Nat
  BY PairIs, TopIs, MachineIs
<1>2. 0 < Len(m.stack) /\ 1 <= Len(m.stack) /\ 0 \in Nat /\ 1 \in Nat
  BY <1>1
<1> QED
  BY <1>2, PairUnder, PairPop

LEMMA PairPush ==
  \A T, r, m, i : \A x \in Value : Pair(T, r, m, i) => Pair(T, r, Push(m, x), Push(i, To(r, x)))
<1> SUFFICES ASSUME NEW T, NEW r, NEW m, NEW i, NEW x \in Value, Pair(T, r, m, i)
             PROVE  Pair(T, r, Push(m, x), Push(i, To(r, x)))
  OBVIOUS
<1>1. m.stack \in Seq(Value) /\ r \in Slots /\ i.stack = ToAll(r, m.stack)
  BY PairIs, MachineIs
<1>2. PICK s : s = Append(m.stack, x)
  OBVIOUS
<1>3. s \in Seq(Value)
  BY <1>1, <1>2
<1>4. ToAll(r, s) = Append(i.stack, To(r, x))
  BY <1>1, <1>2, ToAllAppend
<1>5. Push(m, x) = WithStack(m, s) /\ Push(i, To(r, x)) = WithStack(i, ToAll(r, s))
  BY <1>2, <1>4 DEF Push, WithStack
<1> QED
  BY <1>3, <1>5, PairWith

LEMMA PairProduce ==
  \A T, r, m, i, x, y : Pair(T, r, m, i) /\ x \in Result /\ x \notin Refs /\ (x # Panics => y = x) =>
    Kin(T, r, Produce(m, x), Produce(i, y))
<1> SUFFICES ASSUME NEW T, NEW r, NEW m, NEW i, NEW x, NEW y, Pair(T, r, m, i), x \in Result, x \notin Refs,
                    x # Panics => y = x
             PROVE  Kin(T, r, Produce(m, x), Produce(i, y))
  OBVIOUS
<1>1. CASE x = Panics
  <2>1. Panics # TypeError
    BY DEF Panics, TypeError
  <2>2. Produce(m, x) = Dead(m)
    BY <1>1, <2>1 DEF Produce
  <2> QED
    BY <2>2, DeadIs, PairIs DEF Kin
<1>2. CASE x = TypeError /\ x # Panics
  BY <1>2, PairErr DEF Kin, Produce
<1>3. CASE x # Panics /\ x # TypeError
  <2>1. x \in Value
    BY <1>3 DEF Result
  <2>2. To(r, x) = x
    BY <2>1, PairIs, ToIs
  <2>3. Pair(T, r, Push(m, x), Push(i, x))
    BY <2>1, <2>2, PairPush
  <2> QED
    BY <1>3, <2>3 DEF Kin, Produce
<1> QED
  BY <1>1, <1>2, <1>3

LEMMA PairBinary ==
  \A T, r, m, i, build : \A op \in Binary : Pair(T, r, m, i) =>
    Kin(T, r, BinaryOp(m, build, op), BinaryOp(i, FALSE, op))
<1> SUFFICES ASSUME NEW T, NEW r, NEW m, NEW i, NEW build, NEW op \in Binary, Pair(T, r, m, i)
             PROVE  Kin(T, r, BinaryOp(m, build, op), BinaryOp(i, FALSE, op))
  OBVIOUS
<1>1. r \in Slots /\ Len(i.stack) = Len(m.stack) /\ Len(m.stack) \in Nat
  BY PairIs, MachineIs
<1>2. CASE Len(m.stack) < 2
  BY <1>1, <1>2, PairEmptied, PairErr DEF BinaryOp, Kin
<1>3. CASE ~(Len(m.stack) < 2)
  <2>1. 0 < Len(m.stack) /\ 1 < Len(m.stack) /\ 2 <= Len(m.stack) /\ 0 \in Nat /\ 1 \in Nat /\ 2 \in Nat
    BY <1>1, <1>3
  <2>2. PICK a, b : a = Under(m, 1) /\ b = Under(m, 0)
    OBVIOUS
  <2>3. a \in Value /\ b \in Value /\ Under(i, 1) = To(r, a) /\ Under(i, 0) = To(r, b)
    <3>1. Under(m, 1) \in Value /\ Under(i, 1) = To(r, Under(m, 1))
      BY <2>1, PairUnder
    <3>2. Under(m, 0) \in Value /\ Under(i, 0) = To(r, Under(m, 0))
      BY <2>1, PairUnder
    <3> QED
      BY <2>2, <3>1, <3>2
  <2>4. PICK x, y : x = Arithmetic(op, build, a, b) /\ y = Arithmetic(op, FALSE, To(r, a), To(r, b))
    OBVIOUS
  <2>5. x \in Result /\ x \notin Refs /\ (x # Panics => y = x)
    BY <1>1, <2>3, <2>4, ArithmeticResult, ResultTo, ArithmeticTo
  <2>6. Pair(T, r, Pop(m, 2), Pop(i, 2))
    BY <2>1, PairPop
  <2>7. BinaryOp(m, build, op) = Produce(Pop(m, 2), x)
    BY <1>3, <2>2, <2>4 DEF BinaryOp
  <2>8. BinaryOp(i, FALSE, op) = Produce(Pop(i, 2), y)
    BY <1>1, <1>3, <2>3, <2>4 DEF BinaryOp
  <2> QED
    BY <2>5, <2>6, <2>7, <2>8, PairProduce
<1> QED
  BY <1>2, <1>3

LEMMA PairUnary ==
  \A T, r, m, i, build, op : Pair(T, r, m, i) => Kin(T, r, UnaryOp(m, build, op), UnaryOp(i, FALSE, op))
<1> SUFFICES ASSUME NEW T, NEW r, NEW m, NEW i, NEW build, NEW op, Pair(T, r, m, i)
             PROVE  Kin(T, r, UnaryOp(m, build, op), UnaryOp(i, FALSE, op))
  OBVIOUS
<1>1. r \in Slots /\ (i.stack = <<>> <=> m.stack = <<>>)
  BY PairIs
<1>2. CASE m.stack = <<>>
  BY <1>1, <1>2, PairErr DEF UnaryOp, Kin
<1>3. CASE m.stack # <<>>
  <2>1. PICK a : a = Under(m, 0)
    OBVIOUS
  <2>2. a \in Value /\ Under(i, 0) = To(r, a) /\ Pair(T, r, Pop(m, 1), Pop(i, 1))
    BY <1>3, <2>1, PairTop
  <2>3. PICK x, y : /\ x = (IF op = "Neg" THEN Neg(build, a) ELSE Not(a))
                    /\ y = (IF op = "Neg" THEN Neg(FALSE, To(r, a)) ELSE Not(To(r, a)))
    OBVIOUS
  <2>4. x \in Result /\ x \notin Refs /\ (x # Panics => y = x)
    <3>1. CASE op = "Neg"
      BY <1>1, <2>2, <2>3, <3>1, UnaryResult, ResultTo, UnaryTo
    <3>2. CASE op # "Neg"
      BY <1>1, <2>2, <2>3, <3>2, UnaryResult, ResultTo, UnaryTo
    <3> QED
      BY <3>1, <3>2
  <2>5. UnaryOp(m, build, op) = Produce(Pop(m, 1), x)
    BY <1>3, <2>1, <2>3 DEF UnaryOp
  <2>6. UnaryOp(i, FALSE, op) = Produce(Pop(i, 1), y)
    BY <1>1, <1>3, <2>2, <2>3 DEF UnaryOp
  <2> QED
    BY <2>2, <2>4, <2>5, <2>6, PairProduce
<1> QED
  BY <1>2, <1>3

LEMMA PairHere ==
  \A T, r, m, i : Pair(T, r, m, i) /\ m.frames # <<>> =>
    /\ Here(m) \in VmFrame /\ Here(i) = ToFrame(r, Here(m))
    /\ \A f \in VmFrame : Pair(T, r, [m EXCEPT !.frames[Len(m.frames)] = f],
                                     [i EXCEPT !.frames[Len(i.frames)] = ToFrame(r, f)])
<1> SUFFICES ASSUME NEW T, NEW r, NEW m, NEW i, Pair(T, r, m, i), m.frames # <<>>
             PROVE  /\ Here(m) \in VmFrame /\ Here(i) = ToFrame(r, Here(m))
                    /\ \A f \in VmFrame : Pair(T, r, [m EXCEPT !.frames[Len(m.frames)] = f],
                                                     [i EXCEPT !.frames[Len(i.frames)] = ToFrame(r, f)])
  OBVIOUS
<1>1. /\ m.frames \in Seq(VmFrame) /\ r \in Slots /\ i.frames = ToFrames(r, m.frames)
      /\ Len(i.frames) = Len(m.frames)
  BY PairIs, MachineIs
<1>2. Len(m.frames) \in DOMAIN m.frames /\ Here(m) \in VmFrame
  BY PairIs, HereIs
<1>3. Here(i) = ToFrame(r, Here(m))
  BY <1>1, <1>2, ToFramesIs DEF Here
<1>4. ASSUME NEW f \in VmFrame
      PROVE  Pair(T, r, [m EXCEPT !.frames[Len(m.frames)] = f],
                        [i EXCEPT !.frames[Len(i.frames)] = ToFrame(r, f)])
  <2>1. PICK s : s = [m.frames EXCEPT ![Len(m.frames)] = f]
    OBVIOUS
  <2>2. s \in Seq(VmFrame)
    BY <1>1, <2>1
  <2>3. ToFrames(r, s) = [i.frames EXCEPT ![Len(i.frames)] = ToFrame(r, f)]
    BY <1>1, <2>1, ToFramesLast
  <2>4. [m EXCEPT !.frames[Len(m.frames)] = f] = WithFrames(m, s)
    BY <2>1 DEF WithFrames
  <2>5. [i EXCEPT !.frames[Len(i.frames)] = ToFrame(r, f)] = WithFrames(i, ToFrames(r, s))
    BY <2>3 DEF WithFrames
  <2>6. Pair(T, r, WithFrames(m, s), WithFrames(i, ToFrames(r, s)))
    BY <2>2, PairWith
  <2> QED
    BY <2>4, <2>5, <2>6
<1> QED
  BY <1>2, <1>3, <1>4

LEMMA PairIp ==
  \A T, r, m, i : \A ip \in Int : Pair(T, r, m, i) /\ m.frames # <<>> => Pair(T, r, SetIp(m, ip), SetIp(i, ip))
<1> SUFFICES ASSUME NEW T, NEW r, NEW m, NEW i, NEW ip \in Int, Pair(T, r, m, i), m.frames # <<>>
             PROVE  Pair(T, r, SetIp(m, ip), SetIp(i, ip))
  OBVIOUS
<1>1. PICK h : h = Here(m)
  OBVIOUS
<1>2. h \in VmFrame /\ r \in Slots /\ Here(i) = ToFrame(r, h)
  BY <1>1, PairHere, PairIs
<1>3. PICK f : f = [h EXCEPT !.ip = ip]
  OBVIOUS
<1>4. f \in VmFrame
  BY <1>2, <1>3 DEF VmFrame
<1>5. ToFrame(r, f) = [ToFrame(r, h) EXCEPT !.ip = ip]
  BY <1>2, <1>3 DEF ToFrame, VmFrame
<1>6. SetIp(m, ip) = [m EXCEPT !.frames[Len(m.frames)] = f]
  BY <1>1, <1>3 DEF SetIp, Here
<1>7. SetIp(i, ip) = [i EXCEPT !.frames[Len(i.frames)] = ToFrame(r, f)]
  BY <1>2, <1>5 DEF SetIp, Here
<1> QED
  BY <1>4, <1>6, <1>7, PairHere

LEMMA PairJump ==
  \A T, r, m, i, truth : \A ip \in Nat : Pair(T, r, m, i) /\ m.frames # <<>> =>
    Pair(T, r, JumpWhen(m, truth, ip), JumpWhen(i, truth, ip))
<1> SUFFICES ASSUME NEW T, NEW r, NEW m, NEW i, NEW truth, NEW ip \in Nat, Pair(T, r, m, i), m.frames # <<>>
             PROVE  Pair(T, r, JumpWhen(m, truth, ip), JumpWhen(i, truth, ip))
  OBVIOUS
<1>1. r \in Slots /\ (i.stack = <<>> <=> m.stack = <<>>) /\ IsMachine(T, m)
  BY PairIs
<1>2. CASE m.stack = <<>>
  BY <1>1, <1>2, PairErr DEF JumpWhen
<1>3. CASE m.stack # <<>>
  <2>1. PICK x : x = Under(m, 0)
    OBVIOUS
  <2>2. x \in Value /\ Under(i, 0) = To(r, x) /\ Pair(T, r, Pop(m, 1), Pop(i, 1))
    BY <1>3, <2>1, PairTop
  <2>3. PICK t : t = IsTruthy(x)
    OBVIOUS
  <2>4. IsTruthy(To(r, x)) = t
    BY <1>1, <2>2, <2>3, ToIs
  <2>5. Pop(m, 1).frames = m.frames
    BY <1>1 DEF Pop, IsMachine, MachineFields
  <2>6. Pair(T, r, SetIp(Pop(m, 1), ip), SetIp(Pop(i, 1), ip))
    BY <2>2, <2>5, PairIp, ip \in Int
  <2>7. JumpWhen(m, truth, ip) = IF t = truth THEN SetIp(Pop(m, 1), ip) ELSE Pop(m, 1)
    BY <1>3, <2>1, <2>3 DEF JumpWhen
  <2>8. JumpWhen(i, truth, ip) = IF t = truth THEN SetIp(Pop(i, 1), ip) ELSE Pop(i, 1)
    BY <1>1, <1>3, <2>2, <2>4 DEF JumpWhen
  <2> QED
    BY <2>2, <2>6, <2>7, <2>8
<1> QED
  BY <1>2, <1>3

LEMMA PairLoad ==
  \A T, r, m, i, k : Pair(T, r, m, i) /\ m.frames # <<>> => Pair(T, r, Load(m, k), Load(i, k))
<1> SUFFICES ASSUME NEW T, NEW r, NEW m, NEW i, NEW k, Pair(T, r, m, i), m.frames # <<>>
             PROVE  Pair(T, r, Load(m, k), Load(i, k))
  OBVIOUS
<1>1. PICK s : s = Here(m).locals
  OBVIOUS
<1>2. s \in Seq(Value) /\ r \in Slots /\ Here(i).locals = ToAll(r, s)
  <2>1. Here(m) \in VmFrame /\ Here(i) = ToFrame(r, Here(m)) /\ r \in Slots
    BY PairHere, PairIs
  <2> QED
    BY <1>1, <2>1, ToFrameIs DEF VmFrame
<1>3. CASE k \in DOMAIN s
  <2>1. s[k] \in Value /\ ToAll(r, s)[k] = To(r, s[k]) /\ k \in DOMAIN ToAll(r, s)
    BY <1>2, <1>3, ToAllIs
  <2>2. Load(m, k) = Push(m, s[k]) /\ Load(i, k) = Push(i, To(r, s[k]))
    BY <1>1, <1>2, <1>3, <2>1 DEF Load
  <2> QED
    BY <2>1, <2>2, PairPush
<1>4. CASE k \notin DOMAIN s
  <2>1. k \notin DOMAIN ToAll(r, s)
    BY <1>2, <1>4, ToAllIs
  <2> QED
    BY <1>1, <1>2, <1>4, <2>1, PairErr DEF Load
<1> QED
  BY <1>3, <1>4

LEMMA ToAllExcept ==
  \A r \in Slots : \A s \in Seq(Value) : \A x \in Value : \A k \in DOMAIN s :
    /\ [s EXCEPT ![k] = x] \in Seq(Value)
    /\ ToAll(r, [s EXCEPT ![k] = x]) = [ToAll(r, s) EXCEPT ![k] = To(r, x)]
<1> SUFFICES ASSUME NEW r \in Slots, NEW s \in Seq(Value), NEW x \in Value, NEW k \in DOMAIN s
             PROVE  /\ [s EXCEPT ![k] = x] \in Seq(Value)
                    /\ ToAll(r, [s EXCEPT ![k] = x]) = [ToAll(r, s) EXCEPT ![k] = To(r, x)]
  OBVIOUS
<1>1. PICK n \in Nat : n = Len(s) /\ s \in [1..n -> Value]
  OBVIOUS
<1>2. PICK u, w, y : u = [s EXCEPT ![k] = x] /\ w = ToAll(r, s) /\ y = To(r, x)
  OBVIOUS
<1>3. u \in [1..n -> Value] /\ k \in 1..n /\ \A j \in 1..n : u[j] = IF j = k THEN x ELSE s[j]
  BY <1>1, <1>2
<1>4. y \in Value /\ w \in [1..n -> Value] /\ \A j \in 1..n : w[j] = To(r, s[j])
  <2>1. w \in Seq(Value) /\ DOMAIN w = 1..n /\ \A j \in 1..n : w[j] = To(r, s[j])
    BY <1>1, <1>2, ToAllIs
  <2> QED
    BY <1>2, <2>1, ToIs
<1>5. u \in Seq(Value)
  BY <1>3
<1>6. PICK a, b : a = ToAll(r, u) /\ b = [w EXCEPT ![k] = y]
  OBVIOUS
<1>7. a \in [1..n -> Value] /\ \A j \in 1..n : a[j] = To(r, u[j])
  <2>1. DOMAIN u = 1..n
    BY <1>3
  <2>2. a \in Seq(Value) /\ DOMAIN a = 1..n /\ \A j \in 1..n : a[j] = To(r, u[j])
    BY <1>5, <1>6, <2>1, ToAllIs
  <2> QED
    BY <2>2
<1>8. b \in [1..n -> Value] /\ \A j \in 1..n : b[j] = IF j = k THEN y ELSE w[j]
  BY <1>4, <1>6
<1>9. \A j \in 1..n : a[j] = b[j]
  BY <1>2, <1>3, <1>4, <1>7, <1>8
<1>10. a = b
  BY <1>7, <1>8, <1>9
<1> QED
  BY <1>2, <1>5, <1>6, <1>10

LEMMA PairStore ==
  \A T, r, m, i, k : Pair(T, r, m, i) /\ m.frames # <<>> => Pair(T, r, Store(m, k), Store(i, k))
<1> SUFFICES ASSUME NEW T, NEW r, NEW m, NEW i, NEW k, Pair(T, r, m, i), m.frames # <<>>
             PROVE  Pair(T, r, Store(m, k), Store(i, k))
  OBVIOUS
<1>1. /\ r \in Slots /\ (i.stack = <<>> <=> m.stack = <<>>) /\ IsMachine(T, m) /\ IsMachine(Nat, i)
      /\ Len(i.frames) = Len(m.frames)
  BY PairIs
<1>2. PICK h, s : h = Here(m) /\ s = h.locals
  OBVIOUS
<1>3. h \in VmFrame /\ Here(i) = ToFrame(r, h) /\ s \in Seq(Value) /\ Here(i).locals = ToAll(r, s)
      /\ DOMAIN ToAll(r, s) = DOMAIN s
  <2>1. h \in VmFrame /\ Here(i) = ToFrame(r, h)
    BY <1>2, PairHere
  <2>2. s \in Seq(Value)
    BY <1>2, <2>1 DEF VmFrame
  <2> QED
    BY <1>1, <1>2, <2>1, <2>2, ToFrameIs, ToAllIs
<1>4. CASE m.stack = <<>>
  BY <1>1, <1>4, PairErr DEF Store
<1>5. CASE m.stack # <<>> /\ k \notin DOMAIN s
  BY <1>1, <1>2, <1>3, <1>5, PairTop, PairErr DEF Store
<1>6. CASE m.stack # <<>> /\ k \in DOMAIN s
  <2>1. PICK x, a, b : x = Under(m, 0) /\ a = Pop(m, 1) /\ b = Pop(i, 1)
    OBVIOUS
  <2>2. x \in Value /\ Under(i, 0) = To(r, x) /\ Pair(T, r, a, b)
    BY <1>6, <2>1, PairTop
  <2>3. a.frames = m.frames /\ b.frames = i.frames
    BY <1>1, <2>1 DEF Pop, IsMachine, MachineFields
  <2>4. PICK u : u = [s EXCEPT ![k] = x]
    OBVIOUS
  <2>5. u \in Seq(Value) /\ ToAll(r, u) = [ToAll(r, s) EXCEPT ![k] = To(r, x)]
    <3>1. \A y \in Value : \A j \in DOMAIN s :
             [s EXCEPT ![j] = y] \in Seq(Value) /\ ToAll(r, [s EXCEPT ![j] = y]) = [ToAll(r, s) EXCEPT ![j] = To(r, y)]
      BY <1>1, <1>3, ToAllExcept
    <3>2. k \in DOMAIN s
      BY <1>6
    <3>3. [s EXCEPT ![k] = x] \in Seq(Value) /\ ToAll(r, [s EXCEPT ![k] = x]) = [ToAll(r, s) EXCEPT ![k] = To(r, x)]
      BY <2>2, <3>1, <3>2
    <3> QED
      BY <2>4, <3>3
  <2>6. PICK f : f = [h EXCEPT !.locals = u]
    OBVIOUS
  <2>7. f \in VmFrame
    BY <1>3, <2>5, <2>6 DEF VmFrame
  <2>8. ToFrame(r, f) = [ToFrame(r, h) EXCEPT !.locals = ToAll(r, u)]
    BY <1>3, <2>6 DEF ToFrame, VmFrame
  <2>9. Pair(T, r, [a EXCEPT !.frames[Len(a.frames)] = f], [b EXCEPT !.frames[Len(b.frames)] = ToFrame(r, f)])
    <3>1. a.frames # <<>>
      BY <2>3
    <3> QED
      BY <2>2, <2>7, <3>1, PairHere
  <2>10. Store(m, k) = [a EXCEPT !.frames[Len(a.frames)] = f]
    <3>1. h = a.frames[Len(a.frames)]
      BY <1>2, <2>3 DEF Here
    <3>2. [a EXCEPT !.frames[Len(a.frames)].locals[k] = x] = [a EXCEPT !.frames[Len(a.frames)] = f]
      BY <1>2, <2>4, <2>6, <3>1
    <3> QED
      BY <1>2, <1>6, <2>1, <2>3, <3>2 DEF Store
  <2>11. Store(i, k) = [b EXCEPT !.frames[Len(b.frames)] = ToFrame(r, f)]
    <3>1. ToFrame(r, h) = b.frames[Len(b.frames)]
      BY <1>3, <2>3 DEF Here
    <3>2. ToFrame(r, h).locals = ToAll(r, s)
      BY <1>1, <1>2, <1>3, ToFrameIs
    <3>3. [b EXCEPT !.frames[Len(b.frames)].locals[k] = To(r, x)]
            = [b EXCEPT !.frames[Len(b.frames)] = ToFrame(r, f)]
      BY <2>5, <2>8, <3>1, <3>2
    <3>4. k \in DOMAIN Here(i).locals /\ i.stack # <<>>
      BY <1>1, <1>3, <1>6
    <3> QED
      BY <2>1, <2>2, <2>3, <3>3, <3>4 DEF Store
  <2> QED
    BY <2>9, <2>10, <2>11
<1> QED
  BY <1>4, <1>5, <1>6

LEMMA PairCall ==
  \A p, T, r, m, i : \A f \in Nat : IsProgram(p) /\ Pair(T, r, m, i) => Pair(T, r, Call(p, m, f), Call(p, i, f))
<1> SUFFICES ASSUME NEW p, NEW T, NEW r, NEW m, NEW i, NEW f \in Nat, IsProgram(p), Pair(T, r, m, i)
             PROVE  Pair(T, r, Call(p, m, f), Call(p, i, f))
  OBVIOUS
<1>1. CASE f + 1 \notin DOMAIN p.functions
  BY <1>1, PairErr DEF Call
<1>2. CASE f + 1 \in DOMAIN p.functions
  <2>1. PICK g : g = p.functions[f + 1]
    OBVIOUS
  <2>2. PICK n, l \in Nat : n = g.arity /\ l = g.locals
    BY <1>2, <2>1 DEF IsProgram, IsFunction
  <2>3. m.stack \in Seq(Value) /\ Len(m.stack) \in Nat /\ m.frames \in Seq(VmFrame) /\ r \in Slots
        /\ Len(i.stack) = Len(m.stack) /\ i.stack = ToAll(r, m.stack) /\ i.frames = ToFrames(r, m.frames)
    BY PairIs, MachineIs
  <2>4. CASE Len(m.stack) < n
    BY <1>2, <2>1, <2>2, <2>3, <2>4, PairEmptied, PairErr DEF Call
  <2>5. CASE ~(Len(m.stack) < n)
    <3>1. PICK a, b : a = Len(m.stack) - n + 1 /\ b = Len(m.stack)
      OBVIOUS
    <3>2. a \in Nat /\ b \in Nat /\ a >= 1 /\ b <= Len(m.stack) /\ n <= Len(m.stack)
      BY <2>2, <2>3, <2>5, <3>1
    <3>3. PICK args : args = SubSeq(m.stack, a, b)
      OBVIOUS
    <3>4. args \in Seq(Value) /\ ToAll(r, args) = SubSeq(i.stack, a, b)
      <4>1. ToAll(r, SubSeq(m.stack, a, b)) = SubSeq(ToAll(r, m.stack), a, b)
        BY <2>3, <3>2, ToAllPart
      <4> QED
        BY <2>3, <3>2, <3>3, <4>1
    <3>5. Arguments(m, n) = args /\ Arguments(i, n) = ToAll(r, args)
      BY <2>3, <3>1, <3>3, <3>4 DEF Arguments
    <3>6. PICK locals : locals = Resized(args, l)
      OBVIOUS
    <3>7. locals \in Seq(Value) /\ ToAll(r, locals) = Resized(ToAll(r, args), l)
      <4>1. Null \in Value /\ To(r, Null) = Null
        BY DEF Value, To, Null, Refs
      <4>2. locals = [k \in 1..l |-> IF k \in DOMAIN args THEN args[k] ELSE Null]
        BY <3>6 DEF Resized
      <4>3. \A k \in 1..l : (IF k \in DOMAIN args THEN args[k] ELSE Null) \in Value
        BY <3>4, <4>1
      <4>4. locals \in Seq(Value) /\ DOMAIN locals = 1..l
        BY <2>2, <4>2, <4>3
      <4>5. DOMAIN ToAll(r, args) = DOMAIN args /\ \A k \in DOMAIN args : ToAll(r, args)[k] = To(r, args[k])
        BY <2>3, <3>4, ToAllIs
      <4>6. Resized(ToAll(r, args), l) = [k \in 1..l |-> IF k \in DOMAIN args THEN To(r, args[k]) ELSE Null]
        BY <4>5 DEF Resized
      <4>7. ToAll(r, locals) = [k \in 1..l |-> To(r, locals[k])]
        BY <4>4 DEF ToAll
      <4>8. \A k \in 1..l : To(r, locals[k]) = IF k \in DOMAIN args THEN To(r, args[k]) ELSE Null
        BY <4>1, <4>2
      <4> QED
        BY <4>4, <4>6, <4>7, <4>8
    <3>8. PICK fr : fr = Frame(f, locals)
      OBVIOUS
    <3>9. fr \in VmFrame /\ ToFrame(r, fr) = Frame(f, ToAll(r, locals))
      BY <3>7, <3>8 DEF Frame, VmFrame, ToFrame
    <3>10. PICK q, u : q = Pop(m, n) /\ u = Pop(i, n)
      OBVIOUS
    <3>11. Pair(T, r, q, u)
      BY <2>2, <3>2, <3>10, PairPop
    <3>12. q.frames = m.frames /\ u.frames = i.frames
      <4>1. IsMachine(T, m) /\ IsMachine(Nat, i)
        BY PairIs
      <4> QED
        BY <3>10, <4>1 DEF Pop, IsMachine, MachineFields
    <3>13. PICK fs : fs = Append(m.frames, fr)
      OBVIOUS
    <3>14. fs \in Seq(VmFrame) /\ ToFrames(r, fs) = Append(i.frames, ToFrame(r, fr))
      <4>1. fs \in Seq(VmFrame)
        BY <2>3, <3>9, <3>13
      <4>2. ToFrames(r, Append(m.frames, fr)) = Append(ToFrames(r, m.frames), ToFrame(r, fr))
        BY <2>3, <3>9, ToFramesAppend
      <4> QED
        BY <2>3, <3>13, <4>1, <4>2
    <3>15. Pair(T, r, WithFrames(q, fs), WithFrames(u, ToFrames(r, fs)))
      BY <3>11, <3>14, PairWith
    <3>16. Call(p, m, f) = [q EXCEPT !.frames = Append(@, Frame(f, locals))]
      BY <1>2, <2>1, <2>2, <2>5, <3>5, <3>6, <3>10 DEF Call
    <3>17. Call(p, i, f) = [u EXCEPT !.frames = Append(@, Frame(f, ToAll(r, locals)))]
      BY <1>2, <2>1, <2>2, <2>3, <2>5, <3>5, <3>7, <3>10 DEF Call
    <3>18. Call(p, m, f) = WithFrames(q, fs)
      BY <3>8, <3>12, <3>13, <3>16 DEF WithFrames
    <3>19. Call(p, i, f) = WithFrames(u, ToFrames(r, fs))
      BY <3>9, <3>12, <3>14, <3>17 DEF WithFrames
    <3> QED
      BY <3>15, <3>18, <3>19
  <2> QED
    BY <2>4, <2>5
<1> QED
  BY <1>1, <1>2

LEMMA PairReturn ==
  \A T, r, m, i : Pair(T, r, m, i) /\ m.frames # <<>> => Pair(T, r, Return(m), Return(i))
<1> SUFFICES ASSUME NEW T, NEW r, NEW m, NEW i, Pair(T, r, m, i), m.frames # <<>>
             PROVE  Pair(T, r, Return(m), Return(i))
  OBVIOUS
<1>1. m.frames \in Seq(VmFrame) /\ Len(m.frames) \in Nat /\ Len(m.frames) # 0 /\ r \in Slots
      /\ Len(i.frames) = Len(m.frames) /\ i.frames = ToFrames(r, m.frames)
  BY PairIs, MachineIs, EmptyList
<1>2. PICK fs, run : fs = SubSeq(m.frames, 1, Len(m.frames) - 1) /\ run = (Len(m.frames) > 1)
  OBVIOUS
<1>3. fs \in Seq(VmFrame) /\ run \in BOOLEAN
  BY <1>1, <1>2
<1>4. ToFrames(r, fs) = SubSeq(i.frames, 1, Len(i.frames) - 1)
  <2>1. PICK f : f \in VmFrame
    BY HereIs, PairIs
  <2> QED
    BY <1>1, <1>2, <2>1, ToFramesLast
<1>5. Pair(T, r, WithRunning(WithFrames(m, fs), run), WithRunning(WithFrames(i, ToFrames(r, fs)), run))
  BY <1>3, PairWith
<1>6. Return(m) = WithRunning(WithFrames(m, fs), run)
  BY <1>2 DEF Return, WithRunning, WithFrames
<1>7. Return(i) = WithRunning(WithFrames(i, ToFrames(r, fs)), run)
  BY <1>1, <1>2, <1>4 DEF Return, WithRunning, WithFrames
<1> QED
  BY <1>5, <1>6, <1>7

\* What is printed, and what is read.
LEMMA PairText ==
  \A T, r, m, i : \A x \in Value : Pair(T, r, m, i) => Text(i, To(r, x)) = Text(m, x)
<1> SUFFICES ASSUME NEW T, NEW r, NEW m, NEW i, NEW x \in Value, Pair(T, r, m, i)
             PROVE  Text(i, To(r, x)) = Text(m, x)
  OBVIOUS
<1>1. r \in Slots /\ SameObjects(r, m.objects, i.objects)
  BY PairIs
<1>2. PICK y : y = To(r, x)
  OBVIOUS
<1>3. y.t = x.t /\ x.t \in {"Int", "Float", "Bool", "Null", "String", "List"}
      /\ (x.t \notin {"String", "List"} => y = x)
  BY <1>1, <1>2, ToIs, RefIs, ValueHolds
<1>4. CASE x.t = "String"
  <2>1. x.v \in Nat /\ y.v = r[x.v]
    BY <1>1, <1>2, <1>4, ToIs, RefIs
  <2>2. x.v \in DOMAIN m.objects <=> y.v \in DOMAIN i.objects
    BY <1>1, <2>1 DEF SameObjects
  <2>3. x.v \in DOMAIN m.objects => i.objects[y.v] = m.objects[x.v]
    BY <1>1, <2>1 DEF SameObjects
  <2>4. Text(m, x) = IF x.v \in DOMAIN m.objects /\ m.objects[x.v].kind = "String"
                     THEN m.objects[x.v].data ELSE <<>>
    BY <1>4 DEF Text
  <2>5. Text(i, y) = IF y.v \in DOMAIN i.objects /\ i.objects[y.v].kind = "String"
                     THEN i.objects[y.v].data ELSE <<>>
    BY <1>3, <1>4 DEF Text
  <2> QED
    BY <1>2, <2>2, <2>3, <2>4, <2>5
<1>5. CASE x.t = "List"
  BY <1>2, <1>3, <1>5 DEF Text
<1>6. CASE x.t \notin {"String", "List"}
  BY <1>2, <1>3, <1>6 DEF Text
<1> QED
  BY <1>4, <1>5, <1>6

LEMMA PairWrite ==
  \A T, r, m, i, kind : Pair(T, r, m, i) => Pair(T, r, Write(m, kind), Write(i, kind))
<1> SUFFICES ASSUME NEW T, NEW r, NEW m, NEW i, NEW kind, Pair(T, r, m, i)
             PROVE  Pair(T, r, Write(m, kind), Write(i, kind))
  OBVIOUS
<1>1. /\ r \in Slots /\ (i.stack = <<>> <=> m.stack = <<>>) /\ IsMachine(T, m) /\ IsMachine(Nat, i)
      /\ i.handles = m.handles
  BY PairIs
<1>2. Streams(i, kind) = Streams(m, kind)
  BY <1>1 DEF Streams
<1>3. CASE m.stack = <<>>
  BY <1>1, <1>3, PairErr DEF Write
<1>4. CASE m.stack # <<>> /\ Streams(m, kind) = {}
  BY <1>1, <1>2, <1>4, PairErr, PairTop DEF Write
<1>5. CASE m.stack # <<>> /\ Streams(m, kind) # {}
  <2>1. PICK h : h = CHOOSE s \in Streams(m, kind) : TRUE
    OBVIOUS
  <2>2. h \in DOMAIN m.handles
    <3>1. h \in Streams(m, kind)
      BY <1>5, <2>1
    <3> QED
      BY <3>1 DEF Streams
  <2>3. PICK q, u, x, bytes : q = Pop(m, 1) /\ u = Pop(i, 1) /\ x = Under(m, 0) /\ bytes = Text(m, x)
    OBVIOUS
  <2>4. Pair(T, r, q, u) /\ x \in Value /\ Under(i, 0) = To(r, x) /\ bytes \in Seq(Int)
    <3>1. Pair(T, r, q, u) /\ x \in Value /\ Under(i, 0) = To(r, x)
      BY <1>5, <2>3, PairTop
    <3>2. Text(m, x) \in Seq(Int)
      BY <1>1, <3>1, TextIs
    <3> QED
      BY <2>3, <3>1, <3>2
  <2>5. Text(i, Under(i, 0)) = bytes
    BY <2>3, <2>4, PairText
  <2>6. q.handles = m.handles /\ u.handles = m.handles
    BY <1>1, <2>3 DEF Pop, IsMachine, MachineFields
  <2>7. PICK t : t = [m.handles EXCEPT ![h].buffer = m.handles[h].buffer \o bytes]
    OBVIOUS
  <2>8. t \in Tables
    BY <1>1, <2>2, <2>4, <2>7, MachineIs, TableWritten
  <2>9. PICK a, b : /\ a = [q EXCEPT !.handles[h].buffer = q.handles[h].buffer \o bytes]
                    /\ b = [u EXCEPT !.handles[h].buffer = u.handles[h].buffer \o bytes]
    OBVIOUS
  <2>10. Write(m, kind) = a
    BY <1>5, <2>1, <2>3, <2>9 DEF Write
  <2>11. Write(i, kind) = b
    BY <1>1, <1>2, <1>5, <2>1, <2>3, <2>5, <2>9 DEF Write
  <2>12. a = WithHandles(q, t) /\ b = WithHandles(u, t)
    BY <2>6, <2>7, <2>9 DEF WithHandles
  <2> QED
    <3>1. Pair(T, r, WithHandles(q, t), WithHandles(u, t))
      BY <2>4, <2>8, PairWith
    <3> QED
      BY <2>10, <2>11, <2>12, <3>1
<1> QED
  BY <1>3, <1>4, <1>5

LEMMA PairObjects ==
  ASSUME NEW T, NEW r, NEW m, NEW i, Pair(T, r, m, i), NEW o \in VmObject
  PROVE  /\ Pair(T, r, WithObjects(m, Append(m.objects, o)), WithObjects(i, Append(i.objects, o)))
         /\ r[Len(m.objects) + 1] = Len(i.objects) + 1
<1>1. PICK l, k \in Nat : l = Len(m.objects) /\ k = Len(i.objects)
  BY PairIs, MachineIs
<1>2. PICK os, ps : os = Append(m.objects, o) /\ ps = Append(i.objects, o)
  OBVIOUS
<1>3. m.objects \in Seq(VmObject) /\ i.objects \in Seq(VmObject) /\ r \in Slots
      /\ SameObjects(r, m.objects, i.objects)
  BY PairIs, MachineIs
<1> HIDE DEF VmObject
<1>4. os \in Seq(VmObject) /\ Len(os) = l + 1 /\ DOMAIN os = 1..l + 1 /\ DOMAIN m.objects = 1..l
      /\ os[l + 1] = o /\ \A a \in 1..l : os[a] = m.objects[a]
  BY <1>1, <1>2, <1>3
<1>5. ps \in Seq(VmObject) /\ Len(ps) = k + 1 /\ DOMAIN ps = 1..k + 1 /\ DOMAIN i.objects = 1..k
      /\ ps[k + 1] = o /\ \A a \in 1..k : ps[a] = i.objects[a]
  BY <1>1, <1>2, <1>3
<1>6. \A a \in Nat : r[a] \in Nat
  BY <1>3, SlotsOrder
<1>7. r[l + 1] = k + 1
  <2>1. l + 1 \in Nat /\ l + 1 > l
    OBVIOUS
  <2>2. r[l + 1] - k = l + 1 - l
    BY <1>1, <1>3, <2>1 DEF SameObjects
  <2>3. PICK z \in Nat : z = r[l + 1]
    BY <1>6, <2>1
  <2> QED
    BY <2>2, <2>3
<1>8. SameObjects(r, os, ps)
  <2>1. \A a \in Nat : a \in 1..l <=> r[a] \in 1..k
    BY <1>3, <1>4, <1>5 DEF SameObjects
  <2>2. \A a \in Nat : a > l => r[a] - k = a - l
    BY <1>1, <1>3 DEF SameObjects
  <2>3. \A a \in 1..l : i.objects[r[a]] = m.objects[a]
    BY <1>3, <1>4 DEF SameObjects
  <2>4. ASSUME NEW a \in Nat PROVE a \in 1..l + 1 <=> r[a] \in 1..k + 1
    <3>1. r[a] = k + 1 <=> a = l + 1
      BY <1>3, <1>7, SlotsOrder, l + 1 \in Nat
    <3>2. a \in 1..l + 1 <=> a \in 1..l \/ a = l + 1
      OBVIOUS
    <3>3. PICK z \in Nat : z = r[a]
      BY <1>6
    <3>4. z \in 1..k + 1 <=> z \in 1..k \/ z = k + 1
      OBVIOUS
    <3> QED
      BY <2>1, <3>1, <3>2, <3>3, <3>4
  <2>5. ASSUME NEW a \in 1..l + 1 PROVE ps[r[a]] = os[a]
    <3>1. CASE a = l + 1
      BY <1>4, <1>5, <1>7, <3>1
    <3>2. CASE a # l + 1
      <4>1. a \in 1..l /\ a \in Nat
        BY <3>2
      <4>2. r[a] \in 1..k
        BY <2>1, <4>1
      <4> QED
        BY <1>4, <1>5, <2>3, <4>1, <4>2
    <3> QED
      BY <3>1, <3>2
  <2>6. ASSUME NEW a \in Nat, a > l + 1 PROVE r[a] - (k + 1) = a - (l + 1)
    <3>1. PICK z \in Nat : z = r[a]
      BY <1>6
    <3>2. z - k = a - l
      <4>1. a > l
        BY <2>6
      <4> QED
        BY <2>2, <3>1, <4>1
    <3>3. z - (k + 1) = a - (l + 1)
      BY <3>2
    <3> QED
      BY <3>1, <3>3
  <2> QED
    BY <1>4, <1>5, <2>4, <2>5, <2>6 DEF SameObjects
<1>9. PICK a, b : a = WithObjects(m, os) /\ b = WithObjects(i, ps)
  OBVIOUS
<1>10. IsMachine(T, m) /\ IsMachine(Nat, i)
  BY PairIs
<1>11. IsMachine(T, a) /\ IsMachine(Nat, b)
  <2>1. DOMAIN m.objects \subseteq DOMAIN os
    BY <1>4
  <2>2. DOMAIN i.objects \subseteq DOMAIN ps
    BY <1>5
  <2> QED
    BY <1>4, <1>5, <1>9, <1>10, <2>1, <2>2, MachineWith
<1>12. /\ a.objects = os /\ a.frames = m.frames /\ a.stack = m.stack /\ a.running = m.running
       /\ a.handles = m.handles /\ a.outcome = m.outcome /\ a.steps = m.steps
       /\ b.objects = ps /\ b.frames = i.frames /\ b.stack = i.stack /\ b.running = i.running
       /\ b.handles = i.handles /\ b.outcome = i.outcome /\ b.steps = i.steps
  BY <1>9, <1>10, FieldsOf
<1>13. Pair(T, r, a, b)
  BY <1>8, <1>11, <1>12 DEF Pair, Moves, Renumbered
<1> QED
  BY <1>1, <1>2, <1>7, <1>9, <1>13

LEMMA PairRead ==
  \A T, r, m, i : Pair(T, r, m, i) => Pair(T, r, Read(m), Read(i))
<1> SUFFICES ASSUME NEW T, NEW r, NEW m, NEW i, Pair(T, r, m, i)
             PROVE  Pair(T, r, Read(m), Read(i))
  OBVIOUS
<1>1. r \in Slots /\ IsMachine(T, m) /\ IsMachine(Nat, i) /\ i.handles = m.handles
  BY PairIs
<1>2. Streams(i, Stdin) = Streams(m, Stdin)
  BY <1>1 DEF Streams
<1>3. CASE Streams(m, Stdin) = {}
  <2>1. Null \in Value /\ To(r, Null) = Null
    BY DEF Value, To, Null, Refs
  <2>2. Read(m) = Push(m, Null) /\ Read(i) = Push(i, Null)
    BY <1>2, <1>3 DEF Read
  <2>3. Pair(T, r, Push(m, Null), Push(i, To(r, Null)))
    BY <2>1, PairPush
  <2> QED
    BY <2>1, <2>2, <2>3
<1>4. CASE Streams(m, Stdin) # {}
  <2>1. PICK h : h = CHOOSE s \in Streams(m, Stdin) : TRUE
    OBVIOUS
  <2>2. h \in DOMAIN m.handles
    <3>1. h \in Streams(m, Stdin)
      BY <1>4, <2>1
    <3> QED
      BY <3>1 DEF Streams
  <2>3. PICK bytes \in Seq(Int) : bytes = m.handles[h].buffer
    BY <1>1, <2>2, MachineIs, TableIs
  <2>4. PICK ints : ints = [k \in DOMAIN bytes |-> IntV(bytes[k])]
    OBVIOUS
  <2>5. ints \in Seq(IntValue)
    <3>1. \A k \in DOMAIN bytes : IntV(bytes[k]) \in IntValue
      BY DEF IntV, IntValue
    <3>2. ints = [k \in DOMAIN bytes |-> ints[k]] /\ \A k \in DOMAIN bytes : ints[k] \in IntValue
      BY <2>4, <3>1
    <3> QED
      BY <3>2, EachFields
  <2>6. PICK o : o = Object("List", ints)
    OBVIOUS
  <2>7. o \in VmObject
    BY <2>5, <2>6 DEF Object, VmObject
  <2>8. PICK a, b : a = WithObjects(m, Append(m.objects, o)) /\ b = WithObjects(i, Append(i.objects, o))
    OBVIOUS
  <2>9. Pair(T, r, a, b) /\ r[Len(m.objects) + 1] = Len(i.objects) + 1
    BY <2>7, <2>8, PairObjects
  <2>10. PICK l, k \in Nat : l = Len(m.objects) + 1 /\ k = Len(i.objects) + 1
    <3>1. Len(m.objects) \in Nat /\ Len(i.objects) \in Nat
      BY <1>1, MachineIs
    <3>2. Len(m.objects) + 1 \in Nat /\ Len(i.objects) + 1 \in Nat
      BY <3>1
    <3> QED
      BY <3>2
  <2>11. ListV(l) \in Value /\ To(r, ListV(l)) = ListV(k)
    <3>1. ListV(l) \in Refs
      BY DEF ListV, Refs
    <3>2. r[l] = k
      BY <2>9, <2>10
    <3> QED
      BY <3>1, <3>2 DEF Value, To, ListV
  <2>12. Read(m) = Push(a, ListV(l))
    BY <1>4, <2>1, <2>3, <2>4, <2>6, <2>8, <2>10 DEF Read, WithObjects
  <2>13. Read(i) = Push(b, ListV(k))
    BY <1>1, <1>2, <1>4, <2>1, <2>3, <2>4, <2>6, <2>8, <2>10 DEF Read, WithObjects
  <2>14. Pair(T, r, Push(a, ListV(l)), Push(b, To(r, ListV(l))))
    BY <2>9, <2>11, PairPush
  <2> QED
    BY <2>11, <2>12, <2>13, <2>14
<1> QED
  BY <1>3, <1>4

-----------------------------------------------------------------------------
(* A capture numbers the slots anew, and so do they stand for others.      *)

LEMMA SameCount ==
  ASSUME NEW r \in Slots, NEW M, IsFiniteSet(M), M \subseteq Nat
  PROVE  /\ IsFiniteSet({r[a] : a \in M}) /\ {r[a] : a \in M} \subseteq Nat
         /\ Cardinality({r[a] : a \in M}) = Cardinality(M)
<1> DEFINE N == {r[a] : a \in M}
           f == [a \in M |-> r[a]]
<1>1. N \subseteq Nat
  BY SlotsOrder
<1>2. f \in Surjection(M, N)
  <2>1. f \in [M -> N]
    OBVIOUS
  <2>2. \A y \in N : \E a \in M : f[a] = y
    OBVIOUS
  <2> HIDE DEF f, N
  <2> QED
    BY <2>1, <2>2 DEF Surjection
<1>3. f \in Injection(M, N)
  <2>1. f \in [M -> N]
    OBVIOUS
  <2>2. ASSUME NEW a \in M, NEW b \in M, f[a] = f[b] PROVE a = b
    <3>1. f[a] = r[a] /\ f[b] = r[b]
      OBVIOUS
    <3> HIDE DEF f
    <3>2. r[a] = r[b] /\ a \in Nat /\ b \in Nat
      BY <2>2, <3>1
    <3> QED
      BY <3>2, SlotsOrder
  <2> HIDE DEF f, N
  <2> QED
    BY <2>1, <2>2 DEF Injection, IsInjective
<1> HIDE DEF f, N
<1>4. IsFiniteSet(N) /\ Cardinality(N) = Cardinality(M)
  BY <1>2, <1>3, FS_Surjection
<1> QED
  BY <1>1, <1>4 DEF N

LEMMA SameRank ==
  ASSUME NEW r \in Slots, NEW M, IsFiniteSet(M), M \subseteq Nat, NEW b \in Nat
  PROVE  Rank({r[a] : a \in M}, r[b]) = Rank(M, b)
<1> DEFINE N == {r[a] : a \in M}
           K == {j \in M : j <= b}
<1>1. IsFiniteSet(K) /\ K \subseteq Nat
  <2>1. K \in SUBSET M
    OBVIOUS
  <2> HIDE DEF K
  <2> QED
    BY <2>1, FS_Subset
<1>2. {j \in N : j <= r[b]} = {r[a] : a \in K}
  <2>1. \A a \in M : r[a] <= r[b] <=> a <= b
    BY SlotsOrder
  <2> QED
    BY <2>1
<1>3. Rank(M, b) = Cardinality(K) /\ Rank(N, r[b]) = Cardinality({j \in N : j <= r[b]})
  BY DEF Rank
<1> HIDE DEF K, N
<1>4. Cardinality({r[a] : a \in K}) = Cardinality(K)
  BY <1>1, SameCount
<1> QED
  BY <1>2, <1>3, <1>4 DEF N

LEMMA RankOnce ==
  ASSUME NEW M, IsFiniteSet(M), M \subseteq Nat, NEW a \in M, NEW b \in M, Rank(M, a) = Rank(M, b)
  PROVE  a = b
<1>1. Cardinality(M) \in Nat /\ \A c \in M : Rank(M, c) \in 1..Cardinality(M)
  BY RankIs
<1>2. PICK k \in Int : k = Rank(M, a) /\ k = Rank(M, b)
  BY <1>1
<1>3. a < b => k < k
  BY <1>2, RankIs
<1>4. b < a => k < k
  BY <1>2, RankIs
<1>5. a < b \/ b < a \/ a = b
  OBVIOUS
<1> QED
  BY <1>3, <1>4, <1>5

\* The slots of a snapshot stand for those for which the captured ones stood.
Renumbers(s, r, M, l) ==
  /\ IsFiniteSet(M) /\ M \subseteq Nat
  /\ s \in Slots /\ s[0] = 0 /\ \A a \in M : s[Rank(M, a)] = r[a]
  /\ \A k \in Nat : k > Cardinality(M) => s[k] - l = k - Cardinality(M)
LEMMA ValuesRenumbered ==
  ASSUME NEW r \in Slots, NEW M, IsFiniteSet(M), M \subseteq Nat, NEW l \in Nat,
         \A a \in M : r[a] \in 1..l
  PROVE  \E s : Renumbers(s, r, M, l)
<1>1. PICK n \in Nat : n = Cardinality(M)
  BY RankIs
<1>2. PICK at : at = [k \in 1..n |-> CHOOSE a \in M : Rank(M, a) = k]
  OBVIOUS
<1>3. \A k \in 1..n : at[k] \in M /\ Rank(M, at[k]) = k
  <2>1. \A k \in 1..n : \E a \in M : Rank(M, a) = k
    BY <1>1, RankIs
  <2> QED
    BY <1>2, <2>1
<1>4. PICK s : s = [k \in Nat |-> IF k = 0 THEN 0 ELSE IF k <= n THEN r[at[k]] ELSE k - n + l]
  OBVIOUS
<1>5. s[0] = 0 /\ (\A k \in 1..n : s[k] = r[at[k]] /\ s[k] \in 1..l)
      /\ (\A k \in Nat : k > n => s[k] = k - n + l)
  <2>1. \A k \in 1..n : k # 0 /\ k <= n /\ k \in Nat
    OBVIOUS
  <2>2. \A k \in Nat : k > n => k # 0 /\ ~(k <= n)
    OBVIOUS
  <2>3. \A k \in 1..n : s[k] = r[at[k]]
    BY <1>4, <2>1
  <2>4. \A k \in 1..n : s[k] \in 1..l
    BY <1>3, <2>3
  <2> QED
    BY <1>4, <2>2, <2>3, <2>4
<1>6. \A k \in Nat : k = 0 \/ k \in 1..n \/ k > n
  OBVIOUS
<1>7. s \in [Nat -> Nat]
  <2>1. ASSUME NEW k \in Nat PROVE s[k] \in Nat
    BY <1>5, <1>6
  <2>2. s = [k \in Nat |-> s[k]]
    BY <1>4
  <2> QED
    BY <2>1, <2>2
<1>8. ASSUME NEW a \in 1..n, NEW b \in 1..n, a < b PROVE s[a] < s[b]
  <2>1. PICK x, y \in M : x = at[a] /\ y = at[b]
    BY <1>3
  <2>2. Rank(M, x) = a /\ Rank(M, y) = b
    BY <1>3, <2>1
  <2>3. x \in Nat /\ y \in Nat
    OBVIOUS
  <2>4. y < x => b < a
    BY <2>2, RankIs
  <2>5. x = y => a = b
    BY <2>2
  <2>6. x < y
    BY <1>8, <2>3, <2>4, <2>5
  <2>7. r[x] < r[y]
    BY <2>3, <2>6 DEF Slots
  <2> QED
    BY <1>5, <2>1, <2>7
<1>9. ASSUME NEW a \in Nat, NEW b \in Nat, a < b PROVE s[a] < s[b]
  <2>1. CASE a = 0 /\ b \in 1..n
    BY <1>5, <2>1
  <2>2. CASE b > n
    <3>1. s[b] = b - n + l
      BY <1>5, <2>2
    <3>2. PICK z \in Nat : z = s[a]
      BY <1>7
    <3>3. z = 0 \/ z \in 1..l \/ (a > n /\ z = a - n + l)
      BY <1>5, <1>6, <3>2
    <3>4. z < b - n + l
      BY <1>9, <2>2, <3>3
    <3> QED
      BY <3>1, <3>2, <3>4
  <2>3. CASE a \in 1..n /\ b \in 1..n
    BY <1>8, <1>9, <2>3
  <2> QED
    BY <1>6, <1>9, <2>1, <2>2, <2>3
<1>10. \A a \in M : s[Rank(M, a)] = r[a]
  <2>1. ASSUME NEW a \in M PROVE s[Rank(M, a)] = r[a]
    <3>1. PICK k \in 1..n : k = Rank(M, a)
      BY <1>1, RankIs
    <3>2. at[k] = a
      BY <1>3, <3>1, RankOnce
    <3> QED
      BY <1>5, <3>1, <3>2
  <2> QED
    BY <2>1
<1>11. ASSUME NEW k \in Nat, k > n PROVE s[k] - l = k - n
  <2>1. s[k] = k - n + l
    BY <1>5, <1>11
  <2> QED
    BY <2>1
<1> QED
  BY <1>1, <1>5, <1>7, <1>9, <1>10, <1>11 DEF Renumbers, Slots

Covers(M, x) == x \in Refs => x.v \in M
CoversAll(M, xs) == \A k \in DOMAIN xs : Covers(M, xs[k])
LEMMA ToMoved ==
  \A r, s, M, l, x : Renumbers(s, r, M, l) /\ Covers(M, x) => To(s, Moved(M, x)) = To(r, x)
<1> SUFFICES ASSUME NEW r, NEW s, NEW M, NEW l, NEW x, Renumbers(s, r, M, l), Covers(M, x)
             PROVE  To(s, Moved(M, x)) = To(r, x)
  OBVIOUS
<1>0. IsFiniteSet(M) /\ M \subseteq Nat
  BY DEF Renumbers
<1>1. CASE x \in Refs
  <2>1. PICK k : k = Rank(M, x.v)
    OBVIOUS
  <2>2. k \in Nat /\ s[k] = r[x.v]
    <3>1. PICK a \in M : a = x.v
      BY <1>1 DEF Covers
    <3>2. Rank(M, a) \in 1..Cardinality(M) /\ Cardinality(M) \in Nat
      BY <1>0, RankIs
    <3>3. Rank(M, a) \in Nat
      BY <3>2
    <3> QED
      BY <2>1, <3>1, <3>3 DEF Renumbers
  <2>3. Moved(M, x) = [t |-> x.t, v |-> k] /\ x.t \in {"String", "List"}
    BY <1>1, <2>1 DEF Moved, Refs, Rank
  <2>4. Moved(M, x) \in Refs
    BY <2>2, <2>3 DEF Refs
  <2> QED
    BY <1>1, <2>2, <2>3, <2>4 DEF To
<1>2. CASE x \notin Refs
  BY <1>2 DEF Moved, To
<1> QED
  BY <1>1, <1>2

LEMMA ToAllMoved ==
  \A r, s, M, l, xs : Renumbers(s, r, M, l) /\ CoversAll(M, xs) => ToAll(s, MovedAll(M, xs)) = ToAll(r, xs)
<1> SUFFICES ASSUME NEW r, NEW s, NEW M, NEW l, NEW xs, Renumbers(s, r, M, l), CoversAll(M, xs)
             PROVE  ToAll(s, MovedAll(M, xs)) = ToAll(r, xs)
  OBVIOUS
<1>1. PICK ys : ys = MovedAll(M, xs)
  OBVIOUS
<1>2. ys = [k \in DOMAIN xs |-> Moved(M, xs[k])]
  BY <1>1 DEF MovedAll
<1>3. ASSUME NEW k \in DOMAIN xs PROVE To(s, ys[k]) = To(r, xs[k])
  <2>1. PICK x : x = xs[k]
    OBVIOUS
  <2>2. Covers(M, x)
    BY <2>1 DEF CoversAll
  <2>3. To(s, Moved(M, x)) = To(r, x)
    BY <2>2, ToMoved
  <2> QED
    BY <1>2, <2>1, <2>3
<1>4. DOMAIN ys = DOMAIN xs
  BY <1>2
<1> QED
  BY <1>1, <1>3, <1>4 DEF ToAll

LEMMA CaptureAlike ==
  ASSUME NEW T, NEW r \in Slots, NEW m, NEW i, NEW p, IsMachine(T, m), IsMachine(Nat, i), Moves(r, m, i),
         CanCapture(p, m)
  PROVE  \E s \in Slots :
           Renumbered(s, Captured(p, m).frames, Captured(p, m).stack, Captured(p, m).objects, i)
<1>0. PICK M : M = m.marked \cup Marks(m)
  OBVIOUS
<1>1. PICK l \in Nat : l = Len(i.objects)
  BY MachineIs
<1>2. M \subseteq DOMAIN m.objects /\ \A x \in ValuesOf(m) \cap Refs : x.v \in M
  BY <1>0, MarksHold, MachineIs
<1>3. IsFiniteSet(M) /\ M \subseteq Nat
  BY <1>2, SlotsFinite
<1>4. m.objects \in Seq(VmObject) /\ i.objects \in Seq(VmObject) /\ m.frames \in Seq(VmFrame)
      /\ m.stack \in Seq(Value) /\ DOMAIN i.objects = 1..l
  BY <1>1, MachineIs
<1>5. SameObjects(r, m.objects, i.objects) /\ i.frames = ToFrames(r, m.frames) /\ i.stack = ToAll(r, m.stack)
  BY DEF Moves, Renumbered
<1>6. \A a \in M : r[a] \in 1..l /\ i.objects[r[a]] = m.objects[a]
  BY <1>2, <1>3, <1>4, <1>5 DEF SameObjects
<1>7. PICK s : Renumbers(s, r, M, l)
  BY <1>3, <1>6, ValuesRenumbered
<1>8. s \in Slots
  BY <1>7 DEF Renumbers
<1>9. PICK c, n : c = Captured(p, m) /\ n = Cardinality(M)
  OBVIOUS
<1>10. c.frames = Frames(m, M) /\ c.stack = MovedAll(M, m.stack) /\ c.objects = Kept(m, M)
  BY <1>0, <1>9 DEF Captured
<1>11. ToAll(s, c.stack) = i.stack
  <2>1. \A k \in DOMAIN m.stack : m.stack[k] \in ValuesOf(m)
    BY DEF ValuesOf
  <2>2. CoversAll(M, m.stack)
    BY <1>2, <2>1 DEF CoversAll, Covers
  <2>3. ToAll(s, MovedAll(M, m.stack)) = ToAll(r, m.stack)
    BY <1>7, <2>2, ToAllMoved
  <2> QED
    BY <1>5, <1>10, <2>3
<1>12. ToFrames(s, c.frames) = i.frames
  <2>1. PICK fs : fs = Frames(m, M)
    OBVIOUS
  <2>2. fs = [j \in DOMAIN m.frames |-> [m.frames[j] EXCEPT !.locals = MovedAll(M, @)]]
    BY <2>1 DEF Frames
  <2>3. ASSUME NEW j \in DOMAIN m.frames PROVE ToFrame(s, fs[j]) = ToFrame(r, m.frames[j])
    <3>1. PICK f : f = m.frames[j]
      OBVIOUS
    <3>2. f \in VmFrame
      BY <1>4, <3>1
    <3>4. CoversAll(M, f.locals)
      <4>1. \A k \in DOMAIN f.locals : f.locals[k] \in ValuesOf(m)
        BY <3>1 DEF ValuesOf
      <4> QED
        BY <1>2, <4>1 DEF CoversAll, Covers
    <3>5. ToAll(s, MovedAll(M, f.locals)) = ToAll(r, f.locals)
      BY <1>7, <3>4, ToAllMoved
    <3>6. PICK g : g = [f EXCEPT !.locals = MovedAll(M, f.locals)]
      OBVIOUS
    <3>7. g.function = f.function /\ g.ip = f.ip /\ g.locals = MovedAll(M, f.locals)
      BY <3>2, <3>6 DEF VmFrame
    <3>8. fs[j] = g
      BY <2>2, <3>1, <3>6
    <3> QED
      BY <3>1, <3>5, <3>7, <3>8 DEF ToFrame
  <2>4. DOMAIN fs = DOMAIN m.frames
    BY <2>2
  <2>5. ToFrames(s, fs) = ToFrames(r, m.frames)
    BY <2>3, <2>4 DEF ToFrames
  <2> QED
    BY <1>5, <1>10, <2>1, <2>5
<1>13. SameObjects(s, c.objects, i.objects)
  <2>1. PICK os : os = Kept(m, M)
    OBVIOUS
  <2>2. n \in Nat /\ Len(os) = n /\ DOMAIN os = 1..n
    BY <1>2, <1>9, <2>1, KeptIs
  <2>3. \A k \in 1..n : (CHOOSE a \in M : Rank(M, a) = k) \in M
                        /\ Rank(M, CHOOSE a \in M : Rank(M, a) = k) = k
    <3>1. \A k \in 1..n : \E a \in M : Rank(M, a) = k
      BY <1>3, <1>9, RankIs
    <3> QED
      BY <3>1
  <2>4. \A k \in 1..n : os[k] = m.objects[CHOOSE a \in M : Rank(M, a) = k]
    BY <1>9, <2>1 DEF Kept, Rank
  <2>5. \A k \in 1..n : \E a \in M : Rank(M, a) = k /\ os[k] = m.objects[a]
    BY <2>3, <2>4
  <2>6. ASSUME NEW k \in 1..n PROVE s[k] \in 1..l /\ i.objects[s[k]] = os[k]
    <3>1. PICK a \in M : Rank(M, a) = k /\ os[k] = m.objects[a]
      BY <2>5
    <3>2. s[k] = r[a]
      BY <1>7, <3>1 DEF Renumbers
    <3> QED
      BY <1>6, <3>1, <3>2
  <2>7. ASSUME NEW k \in Nat, k > n PROVE s[k] - l = k - n
    BY <1>7, <1>9, <2>7 DEF Renumbers
  <2>8. ASSUME NEW k \in Nat PROVE k \in 1..n <=> s[k] \in 1..l
    <3>1. CASE k = 0
      BY <1>7, <3>1 DEF Renumbers
    <3>2. CASE k \in 1..n
      BY <2>6, <3>2
    <3>3. CASE k > n
      <4>1. PICK z \in Nat : z = s[k]
        BY <1>8, SlotsOrder
      <4>2. z - l = k - n
        BY <2>7, <3>3, <4>1
      <4>3. z > l
        BY <2>2, <3>3, <4>2
      <4> QED
        BY <2>2, <3>3, <4>1, <4>3
    <3> QED
      BY <2>2, <3>1, <3>2, <3>3
  <2> QED
    BY <1>1, <1>4, <1>10, <2>1, <2>2, <2>6, <2>7, <2>8 DEF SameObjects
<1> QED
  BY <1>8, <1>9, <1>11, <1>12, <1>13 DEF Renumbered

-----------------------------------------------------------------------------
(* The streams of a snapshot.                                              *)

LEMMA AllListed ==
  ASSUME NEW S, IsFiniteSet(S)
  PROVE  \A h \in S : \E k \in DOMAIN Seqs!SetToSeq(S) : Seqs!SetToSeq(S)[k] = h
<1>1. Cardinality(S) \in Nat /\ ExistsBijection(1..Cardinality(S), S)
  BY FS_CardinalityType
<1>2. \E f \in [1..Cardinality(S) -> S] : Seqs!IsInjective(f)
  BY <1>1 DEF ExistsBijection, Bijection, Injection, IsInjective, Seqs!IsInjective
<1>3. Seqs!Cardinality(S) = Cardinality(S)
  BY DEF Seqs!Cardinality, Cardinality
<1>4. PICK ids : ids = Seqs!SetToSeq(S)
  OBVIOUS
<1>5. ids \in [1..Cardinality(S) -> S] /\ Seqs!IsInjective(ids)
  BY <1>2, <1>3, <1>4 DEF Seqs!SetToSeq
<1>6. PICK n \in Nat : n = Cardinality(S)
  BY <1>1
<1>7. ids \in Injection(1..n, S)
  BY <1>5, <1>6 DEF Injection, IsInjective, Seqs!IsInjective
<1>8. IsFiniteSet(1..n) /\ Cardinality(1..n) = n
  BY FS_Interval, 1 \in Int, n \in Int
<1>9. ids \in Surjection(1..n, S)
  BY <1>6, <1>7, <1>8, FS_Injection
<1> QED
  BY <1>4, <1>9 DEF Surjection

\* What is written of a table can be read.
LEMMA TableBack == \A table \in Tables : Table(Handles(table)) = table
<1> SUFFICES ASSUME NEW table \in Tables PROVE Table(Handles(table)) = table
  OBVIOUS
<1>1. PICK S, ids : S = DOMAIN table /\ ids = Seqs!SetToSeq(S)
  OBVIOUS
<1>2. IsFiniteSet(S) /\ S \subseteq Int /\ table \in [S -> Stream]
  BY <1>1, TableIs
<1>3. ids \in Seq(S) /\ \A h \in S : \E k \in DOMAIN ids : ids[k] = h
  BY <1>1, <1>2, SetIsListed, AllListed
<1>4. PICK ys : ys = Handles(table)
  OBVIOUS
<1>5. ys = [k \in DOMAIN ids |->
              [id |-> ids[k], kind |-> table[ids[k]].kind, strategy |-> 2, params |-> <<>>,
               cached |-> <<table[ids[k]].buffer>>, position |-> <<>>]]
  BY <1>1, <1>4 DEF Handles
<1>6. DOMAIN ys = DOMAIN ids
  BY <1>5
<1>7. ASSUME NEW k \in DOMAIN ids
      PROVE  ids[k] \in S /\ ys[k].id = ids[k] /\ ys[k].kind = table[ids[k]].kind
             /\ ys[k].cached[1] = table[ids[k]].buffer
  <2>1. PICK y, b : b = table[ids[k]].buffer /\ y = ys[k]
    OBVIOUS
  <2>2. y = [id |-> ids[k], kind |-> table[ids[k]].kind, strategy |-> 2, params |-> <<>>,
             cached |-> <<b>>, position |-> <<>>]
    BY <1>5, <2>1
  <2>3. y.id = ids[k] /\ y.kind = table[ids[k]].kind /\ y.cached = <<b>>
    BY <2>2
  <2>4. y.cached[1] = b
    BY <2>3
  <2>5. ids[k] \in S
    BY <1>3
  <2> QED
    BY <2>1, <2>3, <2>4, <2>5
<1>8. {ys[k].id : k \in DOMAIN ys} = S
  <2>1. \A k \in DOMAIN ids : ys[k].id \in S
    BY <1>7
  <2>2. \A h \in S : \E k \in DOMAIN ids : ys[k].id = h
    BY <1>3, <1>7
  <2> QED
    BY <1>6, <2>1, <2>2
<1>9. PICK t : t = Table(ys)
  OBVIOUS
<1>10. t = [h \in S |-> LET k == CHOOSE j \in DOMAIN ys : ys[j].id = h
                        IN  [kind |-> ys[k].kind, buffer |-> ys[k].cached[1]]]
  BY <1>8, <1>9 DEF Table
<1>11. ASSUME NEW h \in S PROVE t[h] = table[h]
  <2>1. PICK k : k = CHOOSE j \in DOMAIN ys : ys[j].id = h
    OBVIOUS
  <2>2. k \in DOMAIN ids /\ ys[k].id = h
    <3>1. \E j \in DOMAIN ys : ys[j].id = h
      BY <1>3, <1>6, <1>7
    <3> QED
      BY <1>6, <2>1, <3>1
  <2>3. ids[k] = h
    BY <1>7, <2>2
  <2>4. t[h] = [kind |-> table[h].kind, buffer |-> table[h].buffer]
    BY <1>7, <1>10, <2>1, <2>2, <2>3
  <2>5. table[h] \in Stream
    BY <1>2
  <2>6. \A x \in Stream : x = [kind |-> x.kind, buffer |-> x.buffer]
    BY DEF Stream
  <2> QED
    BY <2>4, <2>5, <2>6
<1> QED
  BY <1>2, <1>4, <1>9, <1>10, <1>11

LEMMA OverDomain ==
  \A table, other :
    /\ DOMAIN Over(table, other) = DOMAIN table \cup DOMAIN other
    /\ \A h \in DOMAIN Over(table, other) :
         Over(table, other)[h] = IF h \in DOMAIN other THEN other[h] ELSE table[h]
BY DEF Over

\* The root's handles are the program's, in the machine and, since it yielded, in the registry.
Registered(p, m) ==
  /\ DOMAIN m.handles = DOMAIN p.streams
  /\ \/ m.entry.status = "Running" /\ m.entry.handles = <<>>
     \/ m.entry.status = "Yielded" /\ DOMAIN m.entry.handles = DOMAIN p.streams
SavedIds(p, s) ==
  /\ DOMAIN Table(s.handles) \subseteq DOMAIN p.streams
  /\ s.tasks # <<>> => DOMAIN Table(s.tasks[1].handles) = DOMAIN p.streams
\* What a machine has that resumes it.
Gives(p, s, table) ==
  \A own : DOMAIN own = DOMAIN p.streams =>
    Over(IF s.tasks = <<>> THEN own ELSE Table(s.tasks[1].handles), Table(s.handles)) = table
Fresh(m) == \A h \in DOMAIN m.entry.handles : h \in DOMAIN m.handles /\ m.entry.handles[h] = m.handles[h]

LEMMA CaptureGives ==
  \A T, p, m : IsMachine(T, m) /\ Registered(p, m) =>
    /\ SavedIds(p, Captured(p, m)) /\ (Fresh(m) => Gives(p, Captured(p, m), m.handles))
    /\ Captured(p, m).time = m.steps /\ Captured(p, m).hash[1] = p.name
<1> SUFFICES ASSUME NEW T, NEW p, NEW m, IsMachine(T, m), Registered(p, m)
             PROVE  /\ SavedIds(p, Captured(p, m)) /\ (Fresh(m) => Gives(p, Captured(p, m), m.handles))
                    /\ Captured(p, m).time = m.steps /\ Captured(p, m).hash[1] = p.name
  OBVIOUS
<1>1. PICK D, e, w : D = DOMAIN p.streams /\ e = m.entry.handles /\ w = Without(m.handles, DOMAIN e)
  OBVIOUS
<1>2. m.handles \in Tables /\ e \in Tables /\ DOMAIN m.handles = D
  BY <1>1, MachineIs DEF RootEntry, Registered
<1>3. w \in Tables /\ w = [h \in D \ DOMAIN e |-> m.handles[h]]
  BY <1>1, <1>2, WithoutIs DEF Without
<1>4. PICK s : s = Captured(p, m)
  OBVIOUS
<1>5. Table(s.handles) = w
  <2>1. s.handles = Handles(w)
    BY <1>1, <1>4 DEF Captured
  <2> QED
    BY <1>3, <2>1, TableBack
<1>6. s.time = m.steps /\ s.hash[1] = p.name
  BY <1>4 DEF Captured, CodeHash
<1>7. CASE m.entry.status = "Running" /\ e = <<>>
  <2>1. s.tasks = <<>>
    BY <1>4, <1>7 DEF Captured, Saved
  <2>2. w = m.handles
    <3>1. DOMAIN e = {}
      BY <1>7
    <3>2. m.handles \in [D -> Stream]
      BY <1>2, TableIs
    <3> QED
      BY <1>3, <3>1, <3>2
  <2>3. ASSUME NEW own, DOMAIN own = D PROVE Over(own, w) = w
    <3>1. DOMAIN w = D /\ w = [h \in D |-> w[h]]
      BY <1>2, <1>3, <2>2, TableIs
    <3> QED
      BY <2>3, <3>1 DEF Over
  <2> QED
    BY <1>1, <1>2, <1>4, <1>5, <1>6, <2>1, <2>2, <2>3 DEF SavedIds, Gives
<1>8. CASE m.entry.status = "Yielded" /\ DOMAIN e = D
  <2>1. PICK q : q = [id |-> 0, parent |-> <<>>, status |-> 1, pc |-> <<m.entry.pc>>, children |-> <<>>,
                      stack |-> <<>>, frames |-> <<>>, handles |-> Handles(e)]
    OBVIOUS
  <2>2. s.tasks = <<q>>
    BY <1>1, <1>4, <1>8, <2>1 DEF Captured, Saved
  <2>3. s.tasks # <<>> /\ s.tasks[1] = q /\ q.handles = Handles(e)
    BY <2>1, <2>2
  <2>4. Table(s.tasks[1].handles) = e
    BY <1>2, <2>3, TableBack
  <2>5. DOMAIN w = {}
    BY <1>3, <1>8
  <2>6. ASSUME Fresh(m) PROVE Over(e, w) = m.handles
    <3>1. Over(e, w) = [h \in D |-> e[h]]
      BY <1>8, <2>5 DEF Over
    <3>2. \A h \in D : e[h] = m.handles[h]
      BY <1>1, <1>8, <2>6 DEF Fresh
    <3>3. m.handles = [h \in D |-> m.handles[h]]
      BY <1>2, TableIs
    <3> QED
      BY <3>1, <3>2, <3>3
  <2> QED
    BY <1>1, <1>4, <1>5, <1>6, <1>8, <2>3, <2>4, <2>5, <2>6 DEF SavedIds, Gives
<1> QED
  BY <1>1, <1>7, <1>8 DEF Registered

\* A machine that resumes has the program's handles again.
LEMMA RestoredRegistered ==
  \A T, p, m, s : Registered(p, m) /\ SavedIds(p, s) /\ IsMachine(T, m) => Registered(p, Restored(m, s))
<1> SUFFICES ASSUME NEW T, NEW p, NEW m, NEW s, Registered(p, m), SavedIds(p, s), IsMachine(T, m)
             PROVE  Registered(p, Restored(m, s))
  OBVIOUS
<1>1. PICK D, w, e : /\ D = DOMAIN p.streams /\ w = Restored(m, s)
                     /\ e = (IF s.tasks = <<>> THEN m.entry
                             ELSE [status |-> "Yielded", pc |-> s.tasks[1].pc[1],
                                   handles |-> Table(s.tasks[1].handles)])
  OBVIOUS
<1>2. PICK o : o = (IF s.tasks = <<>> THEN m.handles ELSE e.handles)
  OBVIOUS
<1>3. w = [m EXCEPT !.objects = s.objects, !.marked = {}, !.frames = s.frames, !.stack = s.stack,
                    !.running = TRUE, !.entry = e, !.handles = Over(o, Table(s.handles)),
                    !.outcome = "ok", !.steps = s.time]
  BY <1>1, <1>2 DEF Restored
<1>4. w.entry = e /\ w.handles = Over(o, Table(s.handles))
  BY <1>3 DEF IsMachine, MachineFields
<1>5. DOMAIN o = D => DOMAIN w.handles = D
  <2>1. PICK t : t = Table(s.handles)
    OBVIOUS
  <2>2. DOMAIN Over(o, t) = DOMAIN o \cup DOMAIN t
    BY OverDomain
  <2>3. DOMAIN t \subseteq D
    BY <1>1, <2>1 DEF SavedIds
  <2> QED
    BY <1>4, <2>1, <2>2, <2>3
<1>6. CASE s.tasks = <<>>
  <2>1. e = m.entry /\ o = m.handles
    BY <1>1, <1>2, <1>6
  <2>2. DOMAIN w.handles = D
    BY <1>1, <1>5, <2>1 DEF Registered
  <2> QED
    BY <1>1, <1>4, <2>1, <2>2 DEF Registered
<1>7. CASE s.tasks # <<>>
  <2>1. e.status = "Yielded" /\ e.handles = Table(s.tasks[1].handles) /\ o = e.handles
    BY <1>1, <1>2, <1>7
  <2>2. DOMAIN e.handles = D
    BY <1>1, <1>7, <2>1 DEF SavedIds
  <2>3. DOMAIN w.handles = D
    BY <1>5, <2>1, <2>2
  <2> QED
    BY <1>1, <1>4, <2>1, <2>2, <2>3 DEF Registered
<1> QED
  BY <1>6, <1>7

-----------------------------------------------------------------------------
(* What no opcode but Yield changes.                                       *)

Keeps(os, ps) == \A k \in DOMAIN os : k \in DOMAIN ps /\ ps[k] = os[k]
Calm(m, w) ==
  /\ DOMAIN w = DOMAIN m /\ w.snapshot = m.snapshot /\ w.entry = m.entry
  /\ DOMAIN w.handles = DOMAIN m.handles /\ Keeps(m.objects, w.objects)
HasFields(m) ==
  /\ {"frames", "stack", "running", "objects", "marked", "handles", "entry"} \subseteq DOMAIN m
  /\ {"snapshot", "outcome", "steps"} \subseteq DOMAIN m

LEMMA MachineHas == \A T, m : IsMachine(T, m) => HasFields(m)
BY DEF IsMachine, MachineFields, HasFields

LEMMA CalmThen ==
  /\ \A m : Calm(m, m)
  /\ \A m, w, z : Calm(m, w) /\ Calm(w, z) => Calm(m, z)
  /\ \A m, w : HasFields(m) /\ Calm(m, w) => HasFields(w)
BY DEF Calm, Keeps, HasFields

LEMMA CalmWith ==
  \A m : HasFields(m) => \A x :
    /\ Calm(m, WithFrames(m, x)) /\ Calm(m, WithStack(m, x)) /\ Calm(m, WithRunning(m, x))
    /\ Calm(m, WithMarked(m, x)) /\ Calm(m, WithOutcome(m, x)) /\ Calm(m, WithSteps(m, x))
    /\ Keeps(m.objects, x) => Calm(m, WithObjects(m, x))
    /\ DOMAIN x = DOMAIN m.handles => Calm(m, WithHandles(m, x))
<1> SUFFICES ASSUME NEW m, HasFields(m), NEW x
             PROVE  /\ Calm(m, WithFrames(m, x)) /\ Calm(m, WithStack(m, x)) /\ Calm(m, WithRunning(m, x))
                    /\ Calm(m, WithMarked(m, x)) /\ Calm(m, WithOutcome(m, x)) /\ Calm(m, WithSteps(m, x))
                    /\ Keeps(m.objects, x) => Calm(m, WithObjects(m, x))
                    /\ DOMAIN x = DOMAIN m.handles => Calm(m, WithHandles(m, x))
  OBVIOUS
<1>1. Calm(m, WithFrames(m, x)) /\ Calm(m, WithStack(m, x)) /\ Calm(m, WithRunning(m, x))
  BY DEF Calm, Keeps, HasFields, WithFrames, WithStack, WithRunning
<1>2. Calm(m, WithMarked(m, x)) /\ Calm(m, WithOutcome(m, x)) /\ Calm(m, WithSteps(m, x))
  BY DEF Calm, Keeps, HasFields, WithMarked, WithOutcome, WithSteps
<1>3. Keeps(m.objects, x) => Calm(m, WithObjects(m, x))
  BY DEF Calm, HasFields, WithObjects
<1>4. DOMAIN x = DOMAIN m.handles => Calm(m, WithHandles(m, x))
  BY DEF Calm, Keeps, HasFields, WithHandles
<1> QED
  BY <1>1, <1>2, <1>3, <1>4

LEMMA CalmSmall ==
  \A m : HasFields(m) =>
    /\ Calm(m, Err(m)) /\ Calm(m, Dead(m)) /\ Calm(m, AfterCapture(m))
    /\ \A x : Calm(m, Pop(m, x)) /\ Calm(m, Push(m, x)) /\ Calm(m, [m EXCEPT !.stack = x])
              /\ Calm(m, [m EXCEPT !.running = x]) /\ Calm(m, SetIp(m, x)) /\ Calm(m, [m EXCEPT !.frames = x])
<1> SUFFICES ASSUME NEW m, HasFields(m)
             PROVE  /\ Calm(m, Err(m)) /\ Calm(m, Dead(m)) /\ Calm(m, AfterCapture(m))
                    /\ \A x : /\ Calm(m, Pop(m, x)) /\ Calm(m, Push(m, x)) /\ Calm(m, [m EXCEPT !.stack = x])
                              /\ Calm(m, [m EXCEPT !.running = x]) /\ Calm(m, SetIp(m, x))
                              /\ Calm(m, [m EXCEPT !.frames = x])
  OBVIOUS
<1>1. Calm(m, Err(m)) /\ Calm(m, Dead(m))
  BY CalmWith DEF Err, Dead, WithOutcome
<1>2. Calm(m, AfterCapture(m))
  BY CalmWith DEF AfterCapture, WithMarked
<1>3. ASSUME NEW x PROVE Calm(m, Pop(m, x))
  <2>1. PICK y : y = SubSeq(m.stack, 1, Len(m.stack) - x)
    OBVIOUS
  <2>2. Pop(m, x) = WithStack(m, y)
    BY <2>1 DEF Pop, WithStack
  <2> QED
    BY <2>2, CalmWith
<1>4. ASSUME NEW x PROVE Calm(m, Push(m, x))
  <2>1. PICK y : y = Append(m.stack, x)
    OBVIOUS
  <2>2. Push(m, x) = WithStack(m, y)
    BY <2>1 DEF Push, WithStack
  <2> QED
    BY <2>2, CalmWith
<1>5. ASSUME NEW x PROVE Calm(m, SetIp(m, x))
  <2>1. PICK y : y = [m.frames EXCEPT ![Len(m.frames)].ip = x]
    OBVIOUS
  <2>2. SetIp(m, x) = WithFrames(m, y)
    BY <2>1 DEF SetIp, WithFrames
  <2> QED
    BY <2>2, CalmWith
<1>6. ASSUME NEW x PROVE Calm(m, [m EXCEPT !.stack = x]) /\ Calm(m, [m EXCEPT !.running = x])
                         /\ Calm(m, [m EXCEPT !.frames = x])
  BY CalmWith DEF WithStack, WithRunning, WithFrames
<1> QED
  BY <1>1, <1>2, <1>3, <1>4, <1>5, <1>6

LEMMA CalmThenSmall ==
  \A m, w : HasFields(m) /\ Calm(m, w) =>
    /\ Calm(m, Err(w)) /\ Calm(m, Dead(w))
    /\ \A x : Calm(m, Push(w, x)) /\ Calm(m, SetIp(w, x)) /\ Calm(m, Produce(w, x))
<1> SUFFICES ASSUME NEW m, NEW w, HasFields(m), Calm(m, w)
             PROVE  /\ Calm(m, Err(w)) /\ Calm(m, Dead(w))
                    /\ \A x : Calm(m, Push(w, x)) /\ Calm(m, SetIp(w, x)) /\ Calm(m, Produce(w, x))
  OBVIOUS
<1>1. HasFields(w)
  BY CalmThen
<1>2. /\ Calm(m, Err(w)) /\ Calm(m, Dead(w)) /\ \A x : Calm(m, Push(w, x)) /\ Calm(m, SetIp(w, x))
  BY <1>1, CalmSmall, CalmThen
<1>3. \A x : Calm(m, Produce(w, x))
  BY <1>2 DEF Produce
<1> QED
  BY <1>2, <1>3

LEMMA CalmOps ==
  \A m : HasFields(m) =>
    \A p, build, op, k :
      /\ Calm(m, BinaryOp(m, build, op)) /\ Calm(m, UnaryOp(m, build, op))
      /\ \A truth : Calm(m, JumpWhen(m, truth, k))
      /\ Calm(m, Load(m, k)) /\ Calm(m, Store(m, k)) /\ Calm(m, Call(p, m, k)) /\ Calm(m, Return(m))
<1> SUFFICES ASSUME NEW m, HasFields(m), NEW p, NEW build, NEW op, NEW k
             PROVE  /\ Calm(m, BinaryOp(m, build, op)) /\ Calm(m, UnaryOp(m, build, op))
                    /\ \A truth : Calm(m, JumpWhen(m, truth, k))
                    /\ Calm(m, Load(m, k)) /\ Calm(m, Store(m, k)) /\ Calm(m, Call(p, m, k))
                    /\ Calm(m, Return(m))
  OBVIOUS
<1>1. Calm(m, BinaryOp(m, build, op)) /\ Calm(m, UnaryOp(m, build, op))
  BY CalmSmall, CalmThenSmall DEF BinaryOp, UnaryOp
<1>2. \A truth : Calm(m, JumpWhen(m, truth, k))
  BY CalmSmall, CalmThenSmall DEF JumpWhen
<1>3. Calm(m, Load(m, k))
  BY CalmSmall DEF Load
<1>4. Calm(m, Store(m, k))
  <2>1. PICK w : w = Pop(m, 1)
    OBVIOUS
  <2>2. Calm(m, w) /\ HasFields(w)
    BY <2>1, CalmSmall, CalmThen
  <2>3. PICK fs : fs = [w.frames EXCEPT ![Len(m.frames)].locals[k] = Under(m, 0)]
    OBVIOUS
  <2>4. [w EXCEPT !.frames[Len(m.frames)].locals[k] = Under(m, 0)] = WithFrames(w, fs)
    BY <2>3 DEF WithFrames
  <2>5. Calm(m, WithFrames(w, fs))
    BY <2>2, CalmWith, CalmThen
  <2> QED
    BY <2>1, <2>4, <2>5, CalmSmall, CalmThenSmall DEF Store
<1>5. Calm(m, Call(p, m, k))
  <2>1. PICK g : g = p.functions[k + 1]
    OBVIOUS
  <2>2. PICK w : w = Pop(m, g.arity)
    OBVIOUS
  <2>3. Calm(m, w) /\ HasFields(w)
    BY <2>2, CalmSmall, CalmThen
  <2>4. PICK fs : fs = Append(w.frames, Frame(k, Resized(Arguments(m, g.arity), g.locals)))
    OBVIOUS
  <2>5. PICK z : z = [w EXCEPT !.frames = Append(@, Frame(k, Resized(Arguments(m, g.arity), g.locals)))]
    OBVIOUS
  <2>6. z = WithFrames(w, fs)
    BY <2>4, <2>5 DEF WithFrames
  <2>7. Calm(m, z)
    BY <2>3, <2>6, CalmWith, CalmThen
  <2>8. Call(p, m, k) \in {Err(m), Err([m EXCEPT !.stack = <<>>]), z}
    BY <2>1, <2>2, <2>5 DEF Call
  <2> QED
    <3>1. Calm(m, [m EXCEPT !.stack = <<>>]) /\ Calm(m, Err(m))
      BY CalmSmall
    <3>2. Calm(m, Err([m EXCEPT !.stack = <<>>]))
      BY <3>1, CalmThenSmall
    <3> QED
      BY <2>7, <2>8, <3>1, <3>2
<1>6. Calm(m, Return(m))
  <2>1. PICK fs, b : fs = SubSeq(m.frames, 1, Len(m.frames) - 1) /\ b = (Len(m.frames) > 1)
    OBVIOUS
  <2>2. Return(m) = WithRunning(WithFrames(m, fs), b)
    BY <2>1 DEF Return, WithFrames, WithRunning
  <2> QED
    BY <2>2, CalmWith, CalmThen
<1> QED
  BY <1>1, <1>2, <1>3, <1>4, <1>5, <1>6

LEMMA CalmStreams ==
  \A T, m : IsMachine(T, m) => \A kind : Calm(m, Write(m, kind)) /\ Calm(m, Read(m))
<1> SUFFICES ASSUME NEW T, NEW m, IsMachine(T, m), NEW kind PROVE Calm(m, Write(m, kind)) /\ Calm(m, Read(m))
  OBVIOUS
<1>1. HasFields(m)
  BY MachineHas
<1>2. Calm(m, Write(m, kind))
  <2>1. PICK w, h, text : /\ w = Pop(m, 1) /\ h = (CHOOSE s \in Streams(m, kind) : TRUE)
                          /\ text = Text(m, Under(m, 0))
    OBVIOUS
  <2>2. Calm(m, w) /\ HasFields(w)
    BY <1>1, <2>1, CalmSmall, CalmThen
  <2>3. PICK hs : hs = [w.handles EXCEPT ![h].buffer = @ \o text]
    OBVIOUS
  <2>4. DOMAIN hs = DOMAIN w.handles
    BY <2>3
  <2>5. [w EXCEPT !.handles[h].buffer = @ \o text] = WithHandles(w, hs)
    BY <2>3 DEF WithHandles
  <2>6. Calm(m, WithHandles(w, hs))
    BY <2>2, <2>4, CalmWith, CalmThen
  <2> QED
    BY <1>1, <2>1, <2>5, <2>6, CalmSmall, CalmThenSmall DEF Write
<1>3. Calm(m, Read(m))
  <2>1. PICK h : h = (CHOOSE s \in Streams(m, Stdin) : TRUE)
    OBVIOUS
  <2>2. PICK o : o = Object("List", [k \in DOMAIN m.handles[h].buffer |-> IntV(m.handles[h].buffer[k])])
    OBVIOUS
  <2>3. PICK os, x : os = Append(m.objects, o) /\ x = ListV(Len(m.objects) + 1)
    OBVIOUS
  <2>4. Keeps(m.objects, os)
    <3>1. m.objects \in Seq(VmObject)
      BY MachineIs
    <3> HIDE DEF VmObject
    <3> QED
      BY <2>3, <3>1 DEF Keeps
  <2>5. Calm(m, WithObjects(m, os))
    BY <1>1, <2>4, CalmWith
  <2>6. Read(m) \in {Push(m, Null), Push(WithObjects(m, os), x)}
    BY <2>1, <2>2, <2>3 DEF Read, WithObjects
  <2> QED
    <3>1. Calm(m, Push(m, Null)) /\ Calm(m, Push(WithObjects(m, os), x))
      BY <1>1, <2>5, CalmSmall, CalmThenSmall
    <3> QED
      BY <2>6, <3>1
<1> QED
  BY <1>2, <1>3

LEMMA ExecuteCalm ==
  \A T, p, build, m, i :
    IsMachine(T, m) /\ i.op \in Opcodes /\ i.op # "Yield" => Calm(m, Execute(p, build, m, i))
<1> SUFFICES ASSUME NEW T, NEW p, NEW build, NEW m, NEW i, IsMachine(T, m), i.op \in Opcodes, i.op # "Yield"
             PROVE  Calm(m, Execute(p, build, m, i))
  OBVIOUS
<1>1. PICK op, k : op = i.op /\ k = i.arg
  OBVIOUS
<1>2. HasFields(m)
  BY MachineHas
<1>3. CASE op \in {"Push", "Pop", "Dup", "Jump", "Halt", "TimerSleep"}
  <2>1. Execute(p, build, m, i) \in {Push(m, k), Err(m), Pop(m, 1), Push(m, Under(m, 0)), SetIp(m, k),
                                     [m EXCEPT !.running = FALSE], m}
    BY <1>1, <1>3 DEF Execute, Binary, Unary
  <2> QED
    <3>1. /\ Calm(m, Push(m, k)) /\ Calm(m, Err(m)) /\ Calm(m, Pop(m, 1)) /\ Calm(m, Push(m, Under(m, 0)))
          /\ Calm(m, SetIp(m, k)) /\ Calm(m, [m EXCEPT !.running = FALSE]) /\ Calm(m, m)
      BY <1>2, CalmSmall, CalmThen
    <3> QED
      BY <2>1, <3>1
<1>4. CASE op \in Binary
  <2>1. Execute(p, build, m, i) = BinaryOp(m, build, op)
    BY <1>1, <1>4 DEF Execute, Binary, Unary
  <2> QED
    BY <1>2, <2>1, CalmOps
<1>5. CASE op \in Unary
  <2>1. Execute(p, build, m, i) = UnaryOp(m, build, op)
    BY <1>1, <1>5 DEF Execute, Binary, Unary
  <2> QED
    BY <1>2, <2>1, CalmOps
<1>6. CASE op \in {"JumpIfTrue", "JumpIfFalse", "Load", "Store", "Call", "Return"}
  <2>1. Execute(p, build, m, i) \in {JumpWhen(m, TRUE, k), JumpWhen(m, FALSE, k), Load(m, k), Store(m, k),
                                     Call(p, m, k), Return(m)}
    BY <1>1, <1>6 DEF Execute, Binary, Unary
  <2> QED
    BY <1>2, <2>1, CalmOps
<1>7. CASE op \in {"StdinRead", "StdoutWrite", "StderrWrite"}
  <2>1. Execute(p, build, m, i) \in {Read(m), Write(m, Stdout), Write(m, Stderr)}
    BY <1>1, <1>7 DEF Execute, Binary, Unary
  <2> QED
    BY <2>1, CalmStreams
<1> QED
  BY <1>1, <1>3, <1>4, <1>5, <1>6, <1>7 DEF Opcodes

-----------------------------------------------------------------------------
(* Yield.                                                                  *)

Paired(T, r, m, i) == r \in Slots /\ IsMachine(T, m) /\ IsMachine(Nat, i) /\ Moves(r, m, i)

LEMMA ValuesMoved ==
  \A T, r, m, i : Paired(T, r, m, i) =>
    /\ ValuesOf(m) \subseteq Value
    /\ \A x \in ValuesOf(m) : To(r, x) \in ValuesOf(i)
    /\ \A y \in ValuesOf(i) : \E x \in ValuesOf(m) : y = To(r, x)
<1> SUFFICES ASSUME NEW T, NEW r, NEW m, NEW i, Paired(T, r, m, i)
             PROVE  /\ ValuesOf(m) \subseteq Value
                    /\ \A x \in ValuesOf(m) : To(r, x) \in ValuesOf(i)
                    /\ \A y \in ValuesOf(i) : \E x \in ValuesOf(m) : y = To(r, x)
  OBVIOUS
<1>1. r \in Slots /\ m.stack \in Seq(Value) /\ m.frames \in Seq(VmFrame)
      /\ i.stack = ToAll(r, m.stack) /\ i.frames = ToFrames(r, m.frames)
  BY MachineIs DEF Paired, Moves, Renumbered
<1>2. DOMAIN i.stack = DOMAIN m.stack /\ \A k \in DOMAIN m.stack : i.stack[k] = To(r, m.stack[k])
  BY <1>1, ToAllIs
<1>3. DOMAIN i.frames = DOMAIN m.frames
  BY <1>1, ToFramesIs
<1>4. ASSUME NEW j \in DOMAIN m.frames
      PROVE  /\ m.frames[j].locals \in Seq(Value) /\ DOMAIN i.frames[j].locals = DOMAIN m.frames[j].locals
             /\ \A k \in DOMAIN m.frames[j].locals : i.frames[j].locals[k] = To(r, m.frames[j].locals[k])
  <2>1. PICK f, ls : f = m.frames[j] /\ ls = f.locals
    OBVIOUS
  <2>2. f \in VmFrame
    BY <1>1, <2>1
  <2>3. ls \in Seq(Value)
    BY <2>1, <2>2 DEF VmFrame
  <2>4. i.frames[j] = ToFrame(r, f)
    BY <1>1, <2>1, ToFramesIs
  <2>5. i.frames[j].locals = ToAll(r, ls)
    BY <1>1, <2>1, <2>2, <2>4, ToFrameIs
  <2> QED
    BY <1>1, <2>1, <2>3, <2>5, ToAllIs
<1>5. \A x : x \in ValuesOf(m) <=> \/ \E k \in DOMAIN m.stack : x = m.stack[k]
                                   \/ \E j \in DOMAIN m.frames : \E k \in DOMAIN m.frames[j].locals :
                                        x = m.frames[j].locals[k]
  BY DEF ValuesOf
<1>6. \A x : x \in ValuesOf(i) <=> \/ \E k \in DOMAIN i.stack : x = i.stack[k]
                                   \/ \E j \in DOMAIN i.frames : \E k \in DOMAIN i.frames[j].locals :
                                        x = i.frames[j].locals[k]
  BY DEF ValuesOf
<1>7. ValuesOf(m) \subseteq Value
  <2>1. \A k \in DOMAIN m.stack : m.stack[k] \in Value
    BY <1>1
  <2>2. \A j \in DOMAIN m.frames : \A k \in DOMAIN m.frames[j].locals : m.frames[j].locals[k] \in Value
    BY <1>4
  <2> HIDE DEF Value
  <2> QED
    BY <1>5, <2>1, <2>2
<1>8. \A x \in ValuesOf(m) : To(r, x) \in ValuesOf(i)
  BY <1>2, <1>3, <1>4, <1>5, <1>6
<1>9. \A y \in ValuesOf(i) : \E x \in ValuesOf(m) : y = To(r, x)
  BY <1>2, <1>3, <1>4, <1>5, <1>6
<1> QED
  BY <1>7, <1>8, <1>9

\* A pair stays one whatever becomes of the fields it does not compare.
Aside(m, w) ==
  /\ w.frames = m.frames /\ w.stack = m.stack /\ w.objects = m.objects /\ w.handles = m.handles
  /\ w.steps = m.steps /\ w.outcome = m.outcome /\ w.running = m.running
LEMMA PairAside ==
  \A T, r, m, i, w, z :
    Pair(T, r, m, i) /\ IsMachine(T, w) /\ IsMachine(Nat, z) /\ Aside(m, w) /\ Aside(i, z) => Pair(T, r, w, z)
BY DEF Pair, Moves, Renumbered, Aside

LEMMA YieldingIs ==
  \A T, m, p : IsMachine(T, m) /\ m.frames # <<>> =>
    /\ IsMachine(T, Yielding(m)) /\ Aside(m, Yielding(m)) /\ Yielding(m).snapshot = m.snapshot
    /\ Yielding(m).entry.status = "Yielded" /\ Yielding(m).entry.handles = m.handles
<1> SUFFICES ASSUME NEW T, NEW m, NEW p, IsMachine(T, m), m.frames # <<>>
             PROVE  /\ IsMachine(T, Yielding(m)) /\ Aside(m, Yielding(m)) /\ Yielding(m).snapshot = m.snapshot
                    /\ Yielding(m).entry.status = "Yielded" /\ Yielding(m).entry.handles = m.handles
  OBVIOUS
<1>1. PICK entry : entry = [status |-> "Yielded", pc |-> Here(m).ip, handles |-> m.handles]
  OBVIOUS
<1>2. Here(m).ip \in Int
  BY HereIs DEF VmFrame
<1>3. entry \in RootEntry /\ entry.status = "Yielded" /\ entry.handles = m.handles
  BY <1>1, <1>2, MachineIs DEF RootEntry
<1>4. Yielding(m) = WithEntry(m, entry)
  BY <1>1 DEF Yielding, WithEntry
<1>5. IsMachine(T, WithEntry(m, entry))
  BY <1>3, MachineWith
<1> QED
  BY <1>3, <1>4, <1>5, FieldsOf DEF Aside

LEMMA YieldFails == \A m, p : ~CanCapture(p, Yielding(m)) => Yield(p, m) = Dead(Yielding(m))
BY DEF Yield

\* What Yield leaves when it can capture.
LEMMA YieldIs ==
  \A T, m, p, y, no : IsMachine(T, m) /\ m.frames # <<>> /\ y = Yielding(m) /\ CanCapture(p, y) /\ no = FALSE =>
    /\ Yield(p, m).snapshot = Captured(p, y) /\ Yield(p, m).entry = y.entry
    /\ Aside(WithRunning(y, no), Yield(p, m))
<1> SUFFICES ASSUME NEW T, NEW m, NEW p, NEW y, NEW no, IsMachine(T, m), m.frames # <<>>, y = Yielding(m),
                    CanCapture(p, y), no = FALSE
             PROVE  /\ Yield(p, m).snapshot = Captured(p, y) /\ Yield(p, m).entry = y.entry
                    /\ Aside(WithRunning(y, no), Yield(p, m))
  OBVIOUS
<1>1. IsMachine(T, y)
  BY YieldingIs
<1>2. PICK a, s : a = AfterCapture(y) /\ s = Captured(p, y)
  OBVIOUS
<1>3. IsMachine(T, a) /\ IsSaved(T, s)
  BY <1>1, <1>2, AfterCaptureIs, CapturedIs
<1>4. Aside(y, a) /\ a.entry = y.entry
  <2>1. a = WithMarked(y, y.marked \cup Marks(y))
    BY <1>2 DEF AfterCapture, WithMarked
  <2> QED
    BY <1>1, <2>1, FieldsOf DEF Aside
<1>5. no \in BOOLEAN
  OBVIOUS
<1>6. PICK b, w : b = WithSnapshot(a, s) /\ w = WithRunning(b, no)
  OBVIOUS
<1>7. IsMachine(T, b)
  BY <1>3, <1>6, MachineWith
<1>8. w.snapshot = s /\ w.running = no /\ Aside(WithRunning(a, no), w) /\ w.entry = a.entry
  BY <1>3, <1>6, <1>7, FieldsOf DEF Aside
<1>9. Aside(WithRunning(y, no), WithRunning(a, no))
  BY <1>1, <1>3, <1>4, FieldsOf DEF Aside
<1>10. Yield(p, m) = w
  BY <1>2, <1>6 DEF Yield, WithRunning, WithSnapshot
<1> QED
  BY <1>2, <1>4, <1>8, <1>9, <1>10 DEF Aside

\* A snapshot of a program, and what it has to do with the run that nothing interrupts.
OfProgram(p, s) == SavedIds(p, s) /\ s.hash[1] = p.name
SavedAlike(p, s, i) ==
  /\ \E r \in Slots : Renumbered(r, s.frames, s.stack, s.objects, i)
  /\ s.time = i.steps /\ Gives(p, s, i.handles)

LEMMA YieldRegistered ==
  \A T, p, m : IsMachine(T, m) /\ m.frames # <<>> /\ Registered(p, m) =>
    /\ Registered(p, Yield(p, m))
    /\ Yield(p, m).snapshot = m.snapshot \/ OfProgram(p, Yield(p, m).snapshot)
<1> SUFFICES ASSUME NEW T, NEW p, NEW m, IsMachine(T, m), m.frames # <<>>, Registered(p, m)
             PROVE  /\ Registered(p, Yield(p, m))
                    /\ Yield(p, m).snapshot = m.snapshot \/ OfProgram(p, Yield(p, m).snapshot)
  OBVIOUS
<1>1. PICK y : y = Yielding(m)
  OBVIOUS
<1>2. IsMachine(T, y) /\ Aside(m, y) /\ y.snapshot = m.snapshot
      /\ y.entry.status = "Yielded" /\ y.entry.handles = m.handles
  BY <1>1, YieldingIs
<1>3. Registered(p, y)
  BY <1>2 DEF Registered, Aside
<1>4. CASE ~CanCapture(p, y)
  <2>1. Yield(p, m) = Dead(y)
    BY <1>1, <1>4, YieldFails
  <2>2. Dead(y) = WithOutcome(y, "dead")
    BY DEF Dead, WithOutcome
  <2>3. Dead(y).snapshot = y.snapshot /\ Dead(y).entry = y.entry /\ Dead(y).handles = y.handles
    BY <1>2, <2>2, FieldsOf
  <2> QED
    BY <1>2, <1>3, <2>1, <2>3 DEF Registered
<1>5. CASE CanCapture(p, y)
  <2>1. PICK w, no : w = Yield(p, m) /\ no = FALSE
    OBVIOUS
  <2>2. w.snapshot = Captured(p, y) /\ w.entry = y.entry /\ Aside(WithRunning(y, no), w)
    BY <1>1, <1>5, <2>1, YieldIs
  <2>3. w.handles = y.handles
    BY <1>2, <2>2, FieldsOf DEF Aside
  <2>4. Registered(p, w)
    BY <1>3, <2>2, <2>3 DEF Registered
  <2>5. OfProgram(p, Captured(p, y))
    BY <1>2, <1>3, CaptureGives DEF OfProgram
  <2> QED
    BY <2>1, <2>2, <2>4, <2>5
<1> QED
  BY <1>4, <1>5

LEMMA PairYield ==
  \A T, r, m, i, p :
    Pair(T, r, m, i) /\ m.frames # <<>> /\ CodeReadable(p, i) /\ Registered(p, m) /\ m.outcome = "ok" =>
      \/ Yield(p, m).outcome = "dead" /\ Yield(p, m).snapshot = m.snapshot
      \/ /\ Pair(T, r, Yield(p, m), Yield(p, i)) /\ SavedAlike(p, Yield(p, m).snapshot, Yield(p, i))
         /\ Yield(p, m).outcome = "ok" /\ Yield(p, i).objects = i.objects
<1> SUFFICES ASSUME NEW T, NEW r, NEW m, NEW i, NEW p, Pair(T, r, m, i), m.frames # <<>>,
                    CodeReadable(p, i), Registered(p, m), m.outcome = "ok"
             PROVE  \/ Yield(p, m).outcome = "dead" /\ Yield(p, m).snapshot = m.snapshot
                    \/ /\ Pair(T, r, Yield(p, m), Yield(p, i))
                       /\ SavedAlike(p, Yield(p, m).snapshot, Yield(p, i))
                       /\ Yield(p, m).outcome = "ok" /\ Yield(p, i).objects = i.objects
  OBVIOUS
<1>1. PICK y, z : y = Yielding(m) /\ z = Yielding(i)
  OBVIOUS
<1>2. IsMachine(T, m) /\ IsMachine(Nat, i) /\ i.frames # <<>> /\ r \in Slots
  BY PairIs
<1>3. IsMachine(T, y) /\ Aside(m, y) /\ y.snapshot = m.snapshot
      /\ y.entry.status = "Yielded" /\ y.entry.handles = m.handles
  BY <1>1, <1>2, YieldingIs
<1>4. IsMachine(Nat, z) /\ Aside(i, z)
  BY <1>1, <1>2, YieldingIs
<1>5. Pair(T, r, y, z)
  BY <1>3, <1>4, PairAside
<1>6. CASE ~CanCapture(p, y)
  <2>1. Yield(p, m) = Dead(y)
    BY <1>1, <1>6, YieldFails
  <2>2. Dead(y).outcome = "dead" /\ Dead(y).snapshot = y.snapshot
    BY <1>3, SnapshotStays
  <2> QED
    BY <1>3, <2>1, <2>2
<1>7. CASE CanCapture(p, y)
  <2>1. Paired(T, r, y, z)
    BY <1>5 DEF Paired, Pair
  <2>2. CanCapture(p, z)
    <3>1. CodeReadable(p, z)
      BY <1>4 DEF CodeReadable, Aside
    <3>2. ASSUME NEW x \in ValuesOf(z), x \in Refs PROVE x.v \in DOMAIN z.objects
      <4>1. PICK u \in ValuesOf(y) : x = To(r, u)
        BY <2>1, ValuesMoved
      <4>2. u \in Value
        BY <2>1, ValuesMoved
      <4>3. u \in Refs /\ x.v = r[u.v] /\ u.v \in Nat
        BY <1>2, <3>2, <4>1, <4>2, ToIs, RefIs
      <4>4. u.v \in DOMAIN y.objects
        BY <1>7, <4>3 DEF CanCapture
      <4>5. SameObjects(r, y.objects, z.objects)
        BY <1>5, PairIs
      <4> QED
        BY <4>3, <4>4, <4>5 DEF SameObjects
    <3> QED
      BY <3>1, <3>2 DEF CanCapture
  <2>3. PICK a, b, s : a = Yield(p, m) /\ b = Yield(p, i) /\ s = Captured(p, y)
    OBVIOUS
  <2>4. PICK no : no = FALSE
    OBVIOUS
  <2>5. a.snapshot = s /\ Aside(WithRunning(y, no), a)
    <3>1. IsMachine(T, m) /\ m.frames # <<>> /\ y = Yielding(m) /\ CanCapture(p, y) /\ no = FALSE
      BY <1>1, <1>2, <1>7, <2>4
    <3>2. Yield(p, m).snapshot = Captured(p, y) /\ Aside(WithRunning(y, no), Yield(p, m))
      BY <3>1, YieldIs
    <3> QED
      BY <2>3, <3>2
  <2>6. Aside(WithRunning(z, no), b)
    BY <1>1, <1>2, <2>2, <2>3, <2>4, YieldIs
  <2>7. IsMachine(T, a) /\ IsMachine(Nat, b)
    BY <1>2, <2>3, YieldStep
  <2>8. Pair(T, r, WithRunning(y, no), WithRunning(z, no))
    BY <1>5, <2>4, no \in BOOLEAN, PairWith
  <2>9. Pair(T, r, a, b)
    BY <2>5, <2>6, <2>7, <2>8, PairAside
  <2>10. b.frames = z.frames /\ b.stack = z.stack /\ b.objects = z.objects /\ b.handles = z.handles
         /\ b.steps = z.steps /\ a.outcome = y.outcome
    BY <1>3, <1>4, <2>5, <2>6, FieldsOf DEF Aside
  <2>11. \E q \in Slots : Renumbered(q, s.frames, s.stack, s.objects, b)
    <3>1. PICK q \in Slots : Renumbered(q, s.frames, s.stack, s.objects, z)
      BY <1>7, <2>1, <2>3, CaptureAlike DEF Paired
    <3>2. Renumbered(q, s.frames, s.stack, s.objects, b)
      BY <2>10, <3>1 DEF Renumbered
    <3> QED
      BY <3>2
  <2>12. s.time = b.steps /\ Gives(p, s, b.handles)
    <3>1. Registered(p, y) /\ Fresh(y)
      BY <1>3 DEF Registered, Aside, Fresh
    <3>2. s.time = y.steps /\ Gives(p, s, y.handles)
      BY <1>3, <2>3, <3>1, CaptureGives
    <3>3. y.steps = z.steps /\ y.handles = z.handles
      BY <1>5, PairIs
    <3> QED
      BY <2>10, <3>2, <3>3
  <2>13. a.outcome = "ok" /\ b.objects = i.objects
    BY <1>3, <1>4, <2>10 DEF Aside
  <2> QED
    BY <2>3, <2>5, <2>9, <2>11, <2>12, <2>13 DEF SavedAlike
<1> QED
  BY <1>6, <1>7

-----------------------------------------------------------------------------
(* A turn of both.                                                         *)

LEMMA PairDup ==
  \A T, r, m, i : Pair(T, r, m, i) /\ m.stack # <<>> => Pair(T, r, Push(m, Under(m, 0)), Push(i, Under(i, 0)))
<1> SUFFICES ASSUME NEW T, NEW r, NEW m, NEW i, Pair(T, r, m, i), m.stack # <<>>
             PROVE  Pair(T, r, Push(m, Under(m, 0)), Push(i, Under(i, 0)))
  OBVIOUS
<1>1. PICK x : x = Under(m, 0)
  OBVIOUS
<1>2. x \in Value /\ Under(i, 0) = To(r, x) /\ Pair(T, r, Pop(m, 1), Pop(i, 1))
  BY <1>1, PairTop
<1>3. Pair(T, r, Push(m, x), Push(i, To(r, x)))
  BY <1>2, PairPush
<1> QED
  BY <1>1, <1>2, <1>3

\* How a turn ends: a panic, or a pair; a new snapshot is alike to the run without pause.
TurnEnds(p, T, r, m, a, b) ==
  /\ Kin(T, r, a, b)
  /\ \/ a.snapshot = m.snapshot
     \/ a.outcome # "dead" /\ SavedAlike(p, a.snapshot, b)

Ready(p, T, r, m, i) ==
  /\ IsProgram(p) /\ Pair(T, r, m, i) /\ m.frames # <<>> /\ m.outcome = "ok"
  /\ CodeReadable(p, i) /\ Registered(p, m)
Instruction(r, ins) ==
  /\ ins.op \in Opcodes /\ ins.arg \in Operands(ins.op)
  /\ ins.op = "Push" => To(r, ins.arg) = ins.arg
LEMMA PairExecute ==
  \A T, p, r, build, no, m, i, ins : Ready(p, T, r, m, i) /\ Instruction(r, ins) /\ no = FALSE =>
    TurnEnds(p, T, r, m, Execute(p, build, m, ins), Execute(p, no, i, ins))
<1> SUFFICES ASSUME NEW T, NEW p, NEW r, NEW build, NEW no, NEW m, NEW i, NEW ins,
                    Ready(p, T, r, m, i), Instruction(r, ins), no = FALSE
             PROVE  TurnEnds(p, T, r, m, Execute(p, build, m, ins), Execute(p, no, i, ins))
  OBVIOUS
<1> USE DEF Ready, Instruction
<1>0. PICK A, B : A = Execute(p, build, m, ins) /\ B = Execute(p, no, i, ins)
  OBVIOUS
<1>1. PICK op, k : op = ins.op /\ k = ins.arg
  OBVIOUS
<1>2. (op # "Push" => k \in Nat) /\ (op = "Push" => k \in Value)
  BY <1>1 DEF Operands
<1>3. CASE op # "Yield"
  <2>1. A.snapshot = m.snapshot
    <3>1. IsMachine(T, m)
      BY PairIs
    <3>2. Calm(m, A)
      BY <1>0, <1>1, <1>3, <3>1, ExecuteCalm
    <3> QED
      BY <3>2 DEF Calm
  <2> SUFFICES Kin(T, r, A, B)
    BY <1>0, <2>1 DEF TurnEnds
  <2>2. ASSUME Pair(T, r, A, B) PROVE Kin(T, r, A, B)
    BY <2>2 DEF Kin
  <2>3. CASE op = "Push"
    <3>1. A = Push(m, k) /\ B = Push(i, k)
      BY <1>0, <1>1, <2>3 DEF Execute, Binary, Unary
    <3>2. Pair(T, r, Push(m, k), Push(i, To(r, k)))
      BY <1>2, <2>3, PairPush
    <3>3. To(r, k) = k
      BY <1>1, <2>3
    <3> QED
      BY <2>2, <3>1, <3>2, <3>3
  <2>4. CASE op = "Pop"
    <3>1. A = (IF m.stack = <<>> THEN Err(m) ELSE Pop(m, 1)) /\ B = (IF i.stack = <<>> THEN Err(i) ELSE Pop(i, 1))
      BY <1>0, <1>1, <2>4 DEF Execute, Binary, Unary
    <3>2. i.stack = <<>> <=> m.stack = <<>>
      BY PairIs
    <3>3. Pair(T, r, A, B)
      <4>1. CASE m.stack = <<>>
        BY <3>1, <3>2, <4>1, PairErr
      <4>2. CASE m.stack # <<>>
        BY <3>1, <3>2, <4>2, PairTop
      <4> QED
        BY <4>1, <4>2
    <3> QED
      BY <2>2, <3>3
  <2>5. CASE op = "Dup"
    <3>1. /\ A = (IF m.stack = <<>> THEN Err(m) ELSE Push(m, Under(m, 0)))
          /\ B = (IF i.stack = <<>> THEN Err(i) ELSE Push(i, Under(i, 0)))
      BY <1>0, <1>1, <2>5 DEF Execute, Binary, Unary
    <3>2. i.stack = <<>> <=> m.stack = <<>>
      BY PairIs
    <3>3. Pair(T, r, A, B)
      <4>1. CASE m.stack = <<>>
        BY <3>1, <3>2, <4>1, PairErr
      <4>2. CASE m.stack # <<>>
        BY <3>1, <3>2, <4>2, PairDup
      <4> QED
        BY <4>1, <4>2
    <3> QED
      BY <2>2, <3>3
  <2>6. CASE op \in Binary
    <3>1. A = BinaryOp(m, build, op) /\ B = BinaryOp(i, no, op)
      BY <1>0, <1>1, <2>6 DEF Execute, Binary, Unary
    <3>2. Kin(T, r, BinaryOp(m, build, op), BinaryOp(i, no, op))
      BY <2>6, PairBinary
    <3> QED
      BY <3>1, <3>2
  <2>7. CASE op \in Unary
    <3>1. A = UnaryOp(m, build, op) /\ B = UnaryOp(i, no, op)
      BY <1>0, <1>1, <2>7 DEF Execute, Binary, Unary
    <3>2. Kin(T, r, UnaryOp(m, build, op), UnaryOp(i, no, op))
      BY PairUnary
    <3> QED
      BY <3>1, <3>2
  <2>8. CASE op = "Jump"
    <3>1. A = SetIp(m, k) /\ B = SetIp(i, k)
      BY <1>0, <1>1, <2>8 DEF Execute, Binary, Unary
    <3>2. k \in Int
      BY <1>2, <2>8
    <3>3. Pair(T, r, SetIp(m, k), SetIp(i, k))
      BY <3>2, PairIp
    <3> QED
      BY <2>2, <3>1, <3>3
  <2>9. CASE op \in {"JumpIfTrue", "JumpIfFalse"}
    <3>1. PICK truth : truth = (op = "JumpIfTrue")
      OBVIOUS
    <3>2. A = JumpWhen(m, truth, k) /\ B = JumpWhen(i, truth, k)
      BY <1>0, <1>1, <2>9, <3>1 DEF Execute, Binary, Unary
    <3>3. k \in Nat
      BY <1>2, <2>9
    <3>4. Pair(T, r, JumpWhen(m, truth, k), JumpWhen(i, truth, k))
      BY <3>3, PairJump
    <3> QED
      BY <2>2, <3>2, <3>4
  <2>10. CASE op = "Load"
    <3>1. A = Load(m, k) /\ B = Load(i, k)
      BY <1>0, <1>1, <2>10 DEF Execute, Binary, Unary
    <3> QED
      BY <2>2, <3>1, PairLoad
  <2>11. CASE op = "Store"
    <3>1. A = Store(m, k) /\ B = Store(i, k)
      BY <1>0, <1>1, <2>11 DEF Execute, Binary, Unary
    <3> QED
      BY <2>2, <3>1, PairStore
  <2>12. CASE op = "Call"
    <3>1. A = Call(p, m, k) /\ B = Call(p, i, k)
      BY <1>0, <1>1, <2>12 DEF Execute, Binary, Unary
    <3>2. k \in Nat
      BY <1>2, <2>12
    <3>3. Pair(T, r, Call(p, m, k), Call(p, i, k))
      BY <3>2, PairCall
    <3> QED
      BY <2>2, <3>1, <3>3
  <2>13. CASE op = "Return"
    <3>1. A = Return(m) /\ B = Return(i)
      BY <1>0, <1>1, <2>13 DEF Execute, Binary, Unary
    <3> QED
      BY <2>2, <3>1, PairReturn
  <2>14. CASE op = "Halt"
    <3>1. A = WithRunning(m, no) /\ B = WithRunning(i, no)
      BY <1>0, <1>1, <2>14 DEF Execute, Binary, Unary, WithRunning
    <3>2. Pair(T, r, WithRunning(m, no), WithRunning(i, no))
      BY no \in BOOLEAN, PairWith
    <3> QED
      BY <2>2, <3>1, <3>2
  <2>15. CASE op = "StdinRead"
    <3>1. A = Read(m) /\ B = Read(i)
      BY <1>0, <1>1, <2>15 DEF Execute, Binary, Unary
    <3> QED
      BY <2>2, <3>1, PairRead
  <2>16. CASE op = "StdoutWrite"
    <3>1. A = Write(m, Stdout) /\ B = Write(i, Stdout)
      BY <1>0, <1>1, <2>16 DEF Execute, Binary, Unary
    <3> QED
      BY <2>2, <3>1, PairWrite
  <2>17. CASE op = "StderrWrite"
    <3>1. A = Write(m, Stderr) /\ B = Write(i, Stderr)
      BY <1>0, <1>1, <2>17 DEF Execute, Binary, Unary
    <3> QED
      BY <2>2, <3>1, PairWrite
  <2>18. CASE op = "TimerSleep"
    <3>1. A = m /\ B = i
      BY <1>0, <1>1, <2>18 DEF Execute, Binary, Unary
    <3> QED
      BY <2>2, <3>1
  <2> QED
    BY <1>1, <1>3, <2>3, <2>4, <2>5, <2>6, <2>7, <2>8, <2>9, <2>10, <2>11, <2>12, <2>13, <2>14, <2>15,
       <2>16, <2>17, <2>18 DEF Opcodes
<1>4. CASE op = "Yield"
  <2>1. A = Yield(p, m) /\ B = Yield(p, i)
    BY <1>0, <1>1, <1>4 DEF Execute, Binary, Unary
  <2>2. \/ Yield(p, m).outcome = "dead" /\ Yield(p, m).snapshot = m.snapshot
        \/ /\ Pair(T, r, Yield(p, m), Yield(p, i)) /\ SavedAlike(p, Yield(p, m).snapshot, Yield(p, i))
           /\ Yield(p, m).outcome = "ok" /\ Yield(p, i).objects = i.objects
    BY PairYield
  <2> QED
    BY <1>0, <2>1, <2>2 DEF TurnEnds, Kin
<1> QED
  BY <1>3, <1>4

\* The machine that an instruction is executed on.
Started(m) == [SetIp(m, Here(m).ip + 1) EXCEPT !.steps = @ + 1, !.outcome = "ok"]
MovedOn(m) == [m.frames EXCEPT ![Len(m.frames)].ip = Here(m).ip + 1]

LEMMA StartedIs ==
  \A T, m : IsMachine(T, m) =>
    /\ Started(m) = WithOutcome(WithSteps(WithFrames(m, MovedOn(m)), m.steps + 1), "ok")
    /\ Calm(m, Started(m)) /\ Started(m).outcome = "ok" /\ Started(m).steps = m.steps + 1
<1> SUFFICES ASSUME NEW T, NEW m, IsMachine(T, m)
             PROVE
    /\ Started(m) = WithOutcome(WithSteps(WithFrames(m, MovedOn(m)), m.steps + 1), "ok")
    /\ Calm(m, Started(m)) /\ Started(m).outcome = "ok" /\ Started(m).steps = m.steps + 1
  OBVIOUS
<1>1. PICK f, s : f = MovedOn(m) /\ s = m.steps + 1
  OBVIOUS
<1>2. PICK w : w = WithFrames(m, f)
  OBVIOUS
<1>3. SetIp(m, Here(m).ip + 1) = w
  BY <1>1, <1>2 DEF SetIp, MovedOn, WithFrames
<1>4. w.steps = m.steps
  BY <1>2, FieldsOf
<1>5. Started(m) = WithOutcome(WithSteps(w, s), "ok")
  BY <1>1, <1>3, <1>4 DEF Started, WithOutcome, WithSteps
<1>6. HasFields(m)
  BY MachineHas
<1>7. Calm(m, w)
  BY <1>2, <1>6, CalmWith
<1>8. HasFields(w) /\ Calm(w, WithSteps(w, s))
  BY <1>6, <1>7, CalmThen, CalmWith
<1>9. HasFields(WithSteps(w, s)) /\ Calm(WithSteps(w, s), WithOutcome(WithSteps(w, s), "ok"))
  BY <1>8, CalmThen, CalmWith
<1>10. Calm(m, WithOutcome(WithSteps(w, s), "ok"))
  BY <1>7, <1>8, <1>9, CalmThen
<1>11. WithOutcome(WithSteps(w, s), "ok").outcome = "ok" /\ WithOutcome(WithSteps(w, s), "ok").steps = s
  BY <1>8, <1>9 DEF HasFields, WithOutcome, WithSteps
<1> QED
  BY <1>1, <1>2, <1>5, <1>10, <1>11

LEMMA StartedMachine ==
  \A T, m : IsMachine(T, m) /\ m.frames # <<>> /\ m.steps + 1 \in T =>
    /\ IsMachine(T, Started(m)) /\ Started(m).frames # <<>>
<1> SUFFICES ASSUME NEW T, NEW m, IsMachine(T, m), m.frames # <<>>, m.steps + 1 \in T
             PROVE  IsMachine(T, Started(m)) /\ Started(m).frames # <<>>
  OBVIOUS
<1>1. PICK ip : ip = Here(m).ip + 1
  OBVIOUS
<1>2. ip \in Int
  BY <1>1, HereIs DEF VmFrame
<1>3. PICK q : q = SetIp(m, ip)
  OBVIOUS
<1>4. IsMachine(T, q) /\ q.frames # <<>> /\ q.steps = m.steps
  <2>1. q.steps = m.steps
    BY <1>3 DEF SetIp, IsMachine, MachineFields
  <2> QED
    BY <1>2, <1>3, <2>1, IpSet
<1>5. PICK z, w : z = WithSteps(q, m.steps + 1) /\ w = WithOutcome(z, "ok")
  OBVIOUS
<1>6. IsMachine(T, z) /\ IsMachine(T, w)
  BY <1>4, <1>5, MachineWith
<1>7. w.frames = q.frames
  BY <1>4, <1>5, <1>6, FieldsOf
<1>8. Started(m) = w
  BY <1>1, <1>3, <1>4, <1>5 DEF Started, WithOutcome, WithSteps
<1> QED
  BY <1>4, <1>6, <1>7, <1>8

\* What a turn of one machine keeps.
LEMMA StepKeeps ==
  \A T, p, build, m : IsMachine(T, m) /\ IsProgram(p) /\ m.steps + 1 \in T =>
    /\ Keeps(m.objects, Step(p, build, m).objects)
    /\ Registered(p, m) =>
         /\ Registered(p, Step(p, build, m))
         /\ Step(p, build, m).snapshot = m.snapshot \/ OfProgram(p, Step(p, build, m).snapshot)
<1> SUFFICES ASSUME NEW T, NEW p, NEW build, NEW m, IsMachine(T, m), IsProgram(p), m.steps + 1 \in T
             PROVE  /\ Keeps(m.objects, Step(p, build, m).objects)
                    /\ Registered(p, m) =>
                         /\ Registered(p, Step(p, build, m))
                         /\ \/ Step(p, build, m).snapshot = m.snapshot
                            \/ OfProgram(p, Step(p, build, m).snapshot)
  OBVIOUS
<1>1. PICK w : w = Step(p, build, m)
  OBVIOUS
<1>2. HasFields(m)
  BY MachineHas
<1>3. ASSUME Calm(m, w)
      PROVE  /\ Keeps(m.objects, w.objects) /\ w.snapshot = m.snapshot
             /\ Registered(p, m) => Registered(p, w)
  BY <1>3 DEF Calm, Registered
<1>4. CASE ~Fetchable(p, m)
  <2>1. Calm(m, w)
    BY <1>1, <1>2, <1>4, CalmSmall DEF Step
  <2> QED
    BY <1>1, <1>3, <2>1
<1>5. CASE Fetchable(p, m)
  <2>1. PICK q, i : q = Started(m) /\ i = Fetched(p, m)
    OBVIOUS
  <2>2. w = Execute(p, build, q, i)
    BY <1>1, <1>5, <2>1 DEF Step, Started
  <2>3. i.op \in Opcodes
    BY <1>5, <2>1 DEF Fetchable, Fetched, IsProgram, IsFunction
  <2>4. IsMachine(T, q) /\ q.frames # <<>> /\ Calm(m, q)
    BY <1>5, <2>1, StartedMachine, StartedIs DEF Fetchable
  <2>5. CASE i.op # "Yield"
    <3>1. Calm(q, w)
      BY <2>2, <2>3, <2>4, <2>5, ExecuteCalm
    <3>2. Calm(m, w)
      BY <2>4, <3>1, CalmThen
    <3> QED
      BY <1>1, <1>3, <3>2
  <2>6. CASE i.op = "Yield"
    <3>1. w = Yield(p, q)
      BY <2>2, <2>6 DEF Execute, Binary, Unary
    <3>2. Registered(p, m) => Registered(p, q)
      BY <2>4 DEF Calm, Registered
    <3>3. q.snapshot = m.snapshot /\ Keeps(m.objects, q.objects)
      BY <2>4 DEF Calm
    <3>4. w.objects = q.objects
      <4>1. PICK y, no : y = Yielding(q) /\ no = FALSE
        OBVIOUS
      <4>2. IsMachine(T, y) /\ y.objects = q.objects
        BY <2>4, <4>1, YieldingIs DEF Aside
      <4>3. CASE CanCapture(p, y)
        <5>1. Aside(WithRunning(y, no), w)
          BY <2>4, <3>1, <4>1, <4>3, YieldIs
        <5> QED
          BY <4>2, <5>1, FieldsOf DEF Aside
      <4>4. CASE ~CanCapture(p, y)
        <5>1. w = WithOutcome(y, "dead")
          BY <3>1, <4>1, <4>4, YieldFails DEF Dead, WithOutcome
        <5> QED
          BY <4>2, <5>1, FieldsOf
      <4> QED
        BY <4>3, <4>4
    <3>5. Registered(p, q) => Registered(p, w) /\ (w.snapshot = q.snapshot \/ OfProgram(p, w.snapshot))
      BY <2>4, <3>1, YieldRegistered
    <3> QED
      BY <1>1, <3>2, <3>3, <3>4, <3>5
  <2> QED
    BY <2>5, <2>6
<1> QED
  BY <1>4, <1>5

\* A turn of a machine, and of the run without pause that it is alike to.
Truths(no, yes) == no = FALSE /\ yes = TRUE
Turns(p, T, r, m, i) ==
  /\ IsProgram(p) /\ Paired(T, r, m, i) /\ Fetchable(p, m) /\ m.steps + 1 \in T /\ m.steps \in Nat
  /\ CodeReadable(p, i) /\ Registered(p, m)
  /\ Fetched(p, m).op = "Push" => To(r, Fetched(p, m).arg) = Fetched(p, m).arg
LEMMA PairStep ==
  \A T, p, r, build, no, yes, m, i :
    Turns(p, T, r, m, i) /\ Truths(no, yes) /\ m.running = yes =>
      /\ Fetchable(p, i)
      /\ TurnEnds(p, T, r, m, Step(p, build, m), Step(p, no, WithRunning(i, yes)))
<1> SUFFICES ASSUME NEW T, NEW p, NEW r, NEW build, NEW no, NEW yes, NEW m, NEW i,
                    Turns(p, T, r, m, i), Truths(no, yes), m.running = yes
             PROVE  /\ Fetchable(p, i)
                    /\ TurnEnds(p, T, r, m, Step(p, build, m), Step(p, no, WithRunning(i, yes)))
  OBVIOUS
<1> USE DEF Turns
<1>1. no = FALSE /\ no \in BOOLEAN /\ yes \in BOOLEAN
  BY DEF Truths
<1>2. PICK j, a, b : j = WithRunning(i, yes) /\ a = WithOutcome(m, "ok") /\ b = WithOutcome(j, "ok")
  OBVIOUS
<1>3. IsMachine(T, m) /\ IsMachine(Nat, i) /\ r \in Slots /\ Moves(r, m, i)
  BY DEF Paired
<1>4. IsMachine(Nat, j) /\ IsMachine(T, a)
  BY <1>1, <1>2, <1>3, MachineWith
<1>5. IsMachine(Nat, b)
  BY <1>2, <1>4, MachineWith
<1>6. /\ j.frames = i.frames /\ j.stack = i.stack /\ j.objects = i.objects /\ j.handles = i.handles
      /\ j.steps = i.steps /\ j.running = yes
  BY <1>2, <1>3, FieldsOf
<1>7. /\ b.frames = i.frames /\ b.stack = i.stack /\ b.objects = i.objects /\ b.handles = i.handles
      /\ b.steps = i.steps /\ b.running = yes /\ b.outcome = "ok"
  BY <1>2, <1>4, <1>6, FieldsOf
<1>8. /\ a.frames = m.frames /\ a.stack = m.stack /\ a.objects = m.objects /\ a.handles = m.handles
      /\ a.steps = m.steps /\ a.running = yes /\ a.outcome = "ok" /\ a.entry = m.entry
      /\ a.snapshot = m.snapshot
  BY <1>2, <1>3, FieldsOf
<1>9. Pair(T, r, a, b)
  BY <1>3, <1>4, <1>5, <1>7, <1>8 DEF Pair, Moves, Renumbered
<1>10. m.frames # <<>> /\ a.frames # <<>>
  BY <1>8 DEF Fetchable
<1>11. Here(i).function = Here(m).function /\ Here(i).ip = Here(m).ip /\ i.frames # <<>>
  <2>1. Here(a) \in VmFrame /\ Here(b) = ToFrame(r, Here(a))
    BY <1>9, <1>10, PairHere
  <2>2. Here(a) = Here(m) /\ Here(b) = Here(i)
    BY <1>7, <1>8 DEF Here
  <2>3. b.frames # <<>>
    BY <1>9, <1>10, PairIs
  <2>4. PICK f : f = Here(m)
    OBVIOUS
  <2>5. f \in VmFrame /\ Here(i) = ToFrame(r, f)
    BY <2>1, <2>2, <2>4
  <2> QED
    BY <1>3, <1>7, <2>3, <2>4, <2>5, ToFrameIs
<1>12. Fetchable(p, i) /\ Fetched(p, i) = Fetched(p, m)
  BY <1>11 DEF Fetchable, Fetched
<1>13. PICK ins : ins = Fetched(p, m)
  OBVIOUS
<1>14. ins.op \in Opcodes /\ ins.arg \in Operands(ins.op)
  BY <1>13 DEF Fetchable, Fetched, IsProgram, IsFunction
<1>15. Here(j) = Here(i)
  BY <1>6 DEF Here
<1>16. Step(p, build, m) = Execute(p, build, Started(m), ins)
       /\ Step(p, no, j) = Execute(p, no, Started(j), ins)
  <2>1. Fetchable(p, j) /\ Fetched(p, j) = ins
    BY <1>6, <1>12, <1>13, <1>15 DEF Fetchable, Fetched
  <2> QED
    BY <1>13, <2>1 DEF Step, Started
<1>17. PICK ip \in Int : ip = Here(m).ip + 1
  <2>1. Here(m) \in VmFrame
    BY <1>3, <1>10, HereIs
  <2> QED
    BY <2>1 DEF VmFrame
<1>18. PICK c, d : c = SetIp(a, ip) /\ d = SetIp(b, ip)
  OBVIOUS
<1>19. Pair(T, r, c, d)
  BY <1>9, <1>10, <1>17, <1>18, PairIp
<1>20. PICK n \in Nat : n = m.steps + 1
  OBVIOUS
<1>21. Pair(T, r, WithSteps(c, n), WithSteps(d, n))
  BY <1>19, <1>20, PairWith
<1>22. Started(m) = WithSteps(c, n)
  <2>1. PICK f : f = [m.frames EXCEPT ![Len(m.frames)].ip = ip]
    OBVIOUS
  <2>2. c = WithFrames(a, f)
    BY <1>8, <1>18, <2>1 DEF SetIp, WithFrames
  <2>3. MovedOn(m) = f
    BY <1>17, <2>1 DEF MovedOn
  <2>4. Started(m) = WithOutcome(WithSteps(WithFrames(m, f), n), "ok")
    BY <1>3, <1>20, <2>3, StartedIs
  <2>5. WithOutcome(WithSteps(WithFrames(m, f), n), "ok") = WithSteps(WithFrames(WithOutcome(m, "ok"), f), n)
    BY <1>3 DEF WithOutcome, WithSteps, WithFrames, IsMachine, MachineFields
  <2> QED
    BY <1>2, <2>2, <2>4, <2>5
<1>23. Started(j) = WithSteps(d, n)
  <2>1. PICK f : f = [j.frames EXCEPT ![Len(j.frames)].ip = ip]
    OBVIOUS
  <2>2. d = WithFrames(b, f)
    BY <1>6, <1>7, <1>18, <2>1 DEF SetIp, WithFrames
  <2>3. MovedOn(j) = f
    BY <1>11, <1>15, <1>17, <2>1 DEF MovedOn
  <2>4. j.steps + 1 = n
    BY <1>3, <1>6, <1>20 DEF Moves
  <2>5. Started(j) = WithOutcome(WithSteps(WithFrames(j, f), n), "ok")
    BY <1>4, <2>3, <2>4, StartedIs
  <2>6. WithOutcome(WithSteps(WithFrames(j, f), n), "ok") = WithSteps(WithFrames(WithOutcome(j, "ok"), f), n)
    BY <1>4 DEF WithOutcome, WithSteps, WithFrames, IsMachine, MachineFields
  <2> QED
    BY <1>2, <2>2, <2>5, <2>6
<1>24. Pair(T, r, Started(m), Started(j))
  BY <1>21, <1>22, <1>23
<1>25. /\ Started(m).frames # <<>> /\ Started(m).outcome = "ok" /\ Started(m).snapshot = m.snapshot
       /\ Registered(p, Started(m)) /\ CodeReadable(p, Started(j))
  <2>1. Calm(m, Started(m)) /\ Calm(j, Started(j)) /\ Started(m).outcome = "ok"
    BY <1>3, <1>4, StartedIs
  <2>2. Started(m).frames # <<>>
    BY <1>3, <1>10, StartedMachine
  <2>3. CodeReadable(p, Started(j))
    BY <1>6, <2>1 DEF CodeReadable, Calm, Keeps
  <2> QED
    BY <2>1, <2>2, <2>3 DEF Calm, Registered
<1>26. TurnEnds(p, T, r, Started(m), Execute(p, build, Started(m), ins), Execute(p, no, Started(j), ins))
  BY <1>1, <1>13, <1>14, <1>24, <1>25, PairExecute DEF Ready, Instruction
<1>27. TurnEnds(p, T, r, m, Step(p, build, m), Step(p, no, j))
  BY <1>16, <1>25, <1>26 DEF TurnEnds
<1> QED
  BY <1>2, <1>12, <1>27

-----------------------------------------------------------------------------
(* What can be told of two machines that are alike.                        *)

LEMMA MarksAlike == \A T, r, m, i : Paired(T, r, m, i) => Marks(i) = {r[a] : a \in Marks(m)}
<1> SUFFICES ASSUME NEW T, NEW r, NEW m, NEW i, Paired(T, r, m, i) PROVE Marks(i) = {r[a] : a \in Marks(m)}
  OBVIOUS
<1>1. r \in Slots /\ SameObjects(r, m.objects, i.objects)
  BY DEF Paired, Moves, Renumbered
<1>2. \A a \in Nat : a \in DOMAIN m.objects <=> r[a] \in DOMAIN i.objects
  BY <1>1 DEF SameObjects
<1>3. ASSUME NEW a \in Marks(m) PROVE r[a] \in Marks(i)
  <2>1. PICK x \in ValuesOf(m) \cap Refs : x.v = a /\ a \in DOMAIN m.objects
    BY DEF Marks
  <2>2. x \in Value
    BY ValuesMoved
  <2>3. To(r, x) \in ValuesOf(i) /\ To(r, x) \in Refs /\ To(r, x).v = r[a] /\ a \in Nat
    BY <1>1, <2>1, <2>2, ValuesMoved, ToIs, RefIs
  <2> QED
    BY <1>2, <2>1, <2>3 DEF Marks
<1>4. ASSUME NEW b \in Marks(i) PROVE \E a \in Marks(m) : b = r[a]
  <2>1. PICK y \in ValuesOf(i) \cap Refs : y.v = b /\ b \in DOMAIN i.objects
    BY DEF Marks
  <2>2. PICK x \in ValuesOf(m) : y = To(r, x)
    BY ValuesMoved
  <2>3. x \in Value
    BY ValuesMoved
  <2>4. x \in Refs /\ x.v \in Nat /\ b = r[x.v]
    BY <1>1, <2>1, <2>2, <2>3, ToIs, RefIs
  <2>5. x.v \in Marks(m)
    BY <1>2, <2>1, <2>4 DEF Marks
  <2> QED
    BY <2>4, <2>5
<1> QED
  BY <1>3, <1>4

\* Marks of two machines of which those of the second stand for those of the first.
Marked(r, M, N) == r \in Slots /\ IsFiniteSet(M) /\ M \subseteq Nat /\ N = {r[a] : a \in M}
LEMMA MovedSame ==
  \A r, M, N : Marked(r, M, N) =>
    /\ \A x \in Value : Moved(N, To(r, x)) = Moved(M, x)
    /\ \A s \in Seq(Value) : MovedAll(N, ToAll(r, s)) = MovedAll(M, s)
<1> SUFFICES ASSUME NEW r, NEW M, NEW N, Marked(r, M, N)
             PROVE  /\ \A x \in Value : Moved(N, To(r, x)) = Moved(M, x)
                    /\ \A s \in Seq(Value) : MovedAll(N, ToAll(r, s)) = MovedAll(M, s)
  OBVIOUS
<1>1. r \in Slots /\ IsFiniteSet(M) /\ M \subseteq Nat /\ N = {r[a] : a \in M}
  BY DEF Marked
<1>2. ASSUME NEW x \in Value PROVE Moved(N, To(r, x)) = Moved(M, x)
  <2>1. CASE x \in Refs
    <3>1. PICK a \in Nat : a = x.v
      BY <2>1, RefIs
    <3>2. PICK k : k = Rank(M, a)
      OBVIOUS
    <3>3. Rank(N, r[a]) = k
      BY <1>1, <3>2, SameRank
    <3>4. PICK y : y = To(r, x)
      OBVIOUS
    <3>5. y = [t |-> x.t, v |-> r[a]] /\ y \in Refs
      BY <1>1, <2>1, <3>1, <3>4, ToIs
    <3>6. Moved(N, y) = [t |-> x.t, v |-> Rank(N, r[a])]
      BY <3>5 DEF Moved, Rank
    <3>7. Moved(M, x) = [t |-> x.t, v |-> k]
      BY <2>1, <3>1, <3>2 DEF Moved, Rank, Refs
    <3> QED
      BY <3>3, <3>4, <3>6, <3>7
  <2>2. CASE x \notin Refs
    BY <2>2 DEF Moved, To
  <2> QED
    BY <2>1, <2>2
<1>3. ASSUME NEW s \in Seq(Value) PROVE MovedAll(N, ToAll(r, s)) = MovedAll(M, s)
  <2>1. PICK z : z = ToAll(r, s)
    OBVIOUS
  <2>2. DOMAIN z = DOMAIN s /\ \A k \in DOMAIN s : z[k] = To(r, s[k])
    BY <1>1, <2>1, ToAllIs
  <2>3. \A k \in DOMAIN s : Moved(N, z[k]) = Moved(M, s[k])
    <3>1. \A k \in DOMAIN s : s[k] \in Value
      OBVIOUS
    <3> QED
      BY <1>2, <2>2, <3>1
  <2> QED
    BY <2>1, <2>2, <2>3 DEF MovedAll
<1> QED
  BY <1>2, <1>3

LEMMA FramesSame ==
  \A T, r, m, i, M, N : Paired(T, r, m, i) /\ Marked(r, M, N) => Frames(i, N) = Frames(m, M)
<1> SUFFICES ASSUME NEW T, NEW r, NEW m, NEW i, NEW M, NEW N, Paired(T, r, m, i), Marked(r, M, N)
             PROVE  Frames(i, N) = Frames(m, M)
  OBVIOUS
<1>1. r \in Slots /\ m.frames \in Seq(VmFrame) /\ i.frames = ToFrames(r, m.frames)
  BY MachineIs DEF Paired, Moves, Renumbered
<1>2. DOMAIN i.frames = DOMAIN m.frames
  BY <1>1, ToFramesIs
<1>3. ASSUME NEW j \in DOMAIN m.frames
      PROVE  [i.frames[j] EXCEPT !.locals = MovedAll(N, @)] = [m.frames[j] EXCEPT !.locals = MovedAll(M, @)]
  <2>1. PICK f, g : f = m.frames[j] /\ g = i.frames[j]
    OBVIOUS
  <2>2. f \in VmFrame
    BY <1>1, <2>1
  <2>3. g = ToFrame(r, f)
    BY <1>1, <2>1, ToFramesIs
  <2>4. f.locals \in Seq(Value)
    BY <2>2 DEF VmFrame
  <2>5. MovedAll(N, ToAll(r, f.locals)) = MovedAll(M, f.locals)
    BY <2>4, MovedSame
  <2>6. PICK l : l = MovedAll(M, f.locals)
    OBVIOUS
  <2>7. g = [function |-> f.function, ip |-> f.ip, locals |-> ToAll(r, f.locals)]
    BY <2>3 DEF ToFrame
  <2>8. [g EXCEPT !.locals = MovedAll(N, @)] = [function |-> f.function, ip |-> f.ip, locals |-> l]
    BY <2>5, <2>6, <2>7
  <2>9. [f EXCEPT !.locals = MovedAll(M, @)] = [function |-> f.function, ip |-> f.ip, locals |-> l]
    BY <2>2, <2>6 DEF VmFrame
  <2> QED
    BY <2>1, <2>8, <2>9
<1> QED
  BY <1>2, <1>3 DEF Frames

LEMMA KeptSame ==
  \A T, r, m, i, M, N : Paired(T, r, m, i) /\ Marked(r, M, N) /\ M \subseteq DOMAIN m.objects =>
    Kept(i, N) = Kept(m, M)
<1> SUFFICES ASSUME NEW T, NEW r, NEW m, NEW i, NEW M, NEW N, Paired(T, r, m, i), Marked(r, M, N),
                    M \subseteq DOMAIN m.objects
             PROVE  Kept(i, N) = Kept(m, M)
  OBVIOUS
<1>1. r \in Slots /\ IsFiniteSet(M) /\ M \subseteq Nat /\ N = {r[a] : a \in M}
  BY DEF Marked
<1>2. IsFiniteSet(N) /\ N \subseteq Nat /\ Cardinality(N) = Cardinality(M)
  BY <1>1, SameCount
<1>3. PICK n : n = Cardinality(M)
  OBVIOUS
<1>4. \A a \in M : i.objects[r[a]] = m.objects[a]
  BY DEF Paired, Moves, Renumbered, SameObjects
<1>5. ASSUME NEW k \in 1..n
      PROVE  i.objects[CHOOSE b \in N : Rank(N, b) = k] = m.objects[CHOOSE a \in M : Rank(M, a) = k]
  <2>1. PICK x, y : x = (CHOOSE a \in M : Rank(M, a) = k) /\ y = (CHOOSE b \in N : Rank(N, b) = k)
    OBVIOUS
  <2>2. x \in M /\ Rank(M, x) = k
    <3>1. \E c \in M : Rank(M, c) = k
      BY <1>1, <1>3, RankIs
    <3> QED
      BY <2>1, <3>1
  <2>3. r[x] \in N /\ Rank(N, r[x]) = k
    BY <1>1, <2>2, SameRank
  <2>4. y \in N /\ Rank(N, y) = k
    BY <2>1, <2>3
  <2>5. y = r[x]
    BY <1>2, <2>3, <2>4, RankOnce
  <2> QED
    BY <1>4, <2>1, <2>2, <2>5
<1>6. Kept(m, M) = [k \in 1..n |-> m.objects[CHOOSE a \in M : Rank(M, a) = k]]
  BY <1>3 DEF Kept, Rank
<1>7. Kept(i, N) = [k \in 1..n |-> i.objects[CHOOSE b \in N : Rank(N, b) = k]]
  BY <1>2, <1>3 DEF Kept, Rank
<1> QED
  BY <1>5, <1>6, <1>7

LEMMA ObservedAlike == \A T, r, m, i : Paired(T, r, m, i) => Observed(m) = Observed(i)
<1> SUFFICES ASSUME NEW T, NEW r, NEW m, NEW i, Paired(T, r, m, i) PROVE Observed(m) = Observed(i)
  OBVIOUS
<1>1. PICK M, N : M = Marks(m) /\ N = Marks(i)
  OBVIOUS
<1>2. M \subseteq DOMAIN m.objects /\ IsMachine(T, m) /\ r \in Slots
  BY <1>1 DEF Marks, Paired
<1>3. Marked(r, M, N)
  <2>1. IsFiniteSet(M) /\ M \subseteq Nat
    BY <1>2, SlotsFinite
  <2> QED
    BY <1>1, <1>2, <2>1, MarksAlike DEF Marked
<1>4. Frames(i, N) = Frames(m, M) /\ Kept(i, N) = Kept(m, M)
  BY <1>2, <1>3, FramesSame, KeptSame
<1>5. MovedAll(N, i.stack) = MovedAll(M, m.stack)
  <2>1. m.stack \in Seq(Value) /\ i.stack = ToAll(r, m.stack)
    BY <1>2, MachineIs DEF Paired, Moves, Renumbered
  <2> QED
    BY <1>3, <2>1, MovedSame
<1>6. i.handles = m.handles
  BY DEF Paired, Moves
<1> QED
  BY <1>1, <1>4, <1>5, <1>6 DEF Observed

-----------------------------------------------------------------------------
(* A machine is alike to itself, and to what a snapshot was alike to that  *)
(* it resumes.                                                             *)

Itself == [a \in Nat |-> a]
LEMMA ToItself ==
  /\ Itself \in Slots /\ \A a \in Nat : Itself[a] = a
  /\ \A x \in Value : To(Itself, x) = x
<1>1. Itself \in Slots /\ \A a \in Nat : Itself[a] = a
  BY DEF Itself, Slots
<1>2. ASSUME NEW x \in Value PROVE To(Itself, x) = x
  <2>1. CASE x \in Refs
    <3>1. PICK a \in Nat : a = x.v
      BY <2>1, RefIs
    <3>2. To(Itself, x) = [t |-> x.t, v |-> a]
      BY <1>1, <2>1, <3>1, ToIs
    <3>3. x = [t |-> x.t, v |-> x.v]
      BY <2>1 DEF Refs
    <3> QED
      BY <3>1, <3>2, <3>3
  <2>2. CASE x \notin Refs
    BY <2>2 DEF To
  <2> QED
    BY <2>1, <2>2
<1> QED
  BY <1>1, <1>2

LEMMA AlikeItself == \A T, m : IsMachine(T, m) => Moves(Itself, m, m)
<1> SUFFICES ASSUME NEW T, NEW m, IsMachine(T, m) PROVE Moves(Itself, m, m)
  OBVIOUS
<1>1. PICK r : r = Itself
  OBVIOUS
<1>2. r \in Slots /\ (\A a \in Nat : r[a] = a) /\ \A x \in Value : To(r, x) = x
  BY <1>1, ToItself
<1>3. ASSUME NEW s \in Seq(Value) PROVE ToAll(r, s) = s
  <2>1. \A k \in DOMAIN s : s[k] \in Value
    OBVIOUS
  <2>2. \A k \in DOMAIN s : To(r, s[k]) = s[k]
    BY <1>2, <2>1
  <2>3. s = [k \in DOMAIN s |-> s[k]]
    OBVIOUS
  <2> QED
    BY <2>2, <2>3 DEF ToAll
<1>4. ASSUME NEW f \in VmFrame PROVE ToFrame(r, f) = f
  <2>1. f.locals \in Seq(Value) /\ f = [function |-> f.function, ip |-> f.ip, locals |-> f.locals]
    BY DEF VmFrame
  <2>2. ToAll(r, f.locals) = f.locals
    BY <1>3, <2>1
  <2> QED
    BY <2>1, <2>2 DEF ToFrame
<1>5. PICK fs \in Seq(VmFrame) : fs = m.frames
  BY MachineIs
<1>6. ToFrames(r, fs) = fs
  <2>1. \A j \in DOMAIN fs : fs[j] \in VmFrame
    OBVIOUS
  <2>2. \A j \in DOMAIN fs : ToFrame(r, fs[j]) = fs[j]
    BY <1>4, <2>1
  <2>3. fs = [j \in DOMAIN fs |-> fs[j]]
    OBVIOUS
  <2> QED
    BY <2>2, <2>3 DEF ToFrames
<1>7. ToAll(r, m.stack) = m.stack
  BY <1>3, MachineIs
<1>8. SameObjects(r, m.objects, m.objects)
  <2>1. DOMAIN m.objects \subseteq Nat /\ Len(m.objects) \in Nat
    BY MachineIs
  <2> QED
    BY <1>2, <2>1 DEF SameObjects
<1> QED
  BY <1>1, <1>5, <1>6, <1>7, <1>8 DEF Moves, Renumbered

LEMMA RestoredMoves ==
  \A T, p, m, s, i : IsMachine(T, m) /\ Registered(p, m) /\ SavedAlike(p, s, i) =>
    \E r \in Slots : Moves(r, Restored(m, s), i)
<1> SUFFICES ASSUME NEW T, NEW p, NEW m, NEW s, NEW i, IsMachine(T, m), Registered(p, m), SavedAlike(p, s, i)
             PROVE  \E r \in Slots : Moves(r, Restored(m, s), i)
  OBVIOUS
<1>1. PICK r \in Slots : Renumbered(r, s.frames, s.stack, s.objects, i)
  BY DEF SavedAlike
<1>2. PICK e : e = (IF s.tasks = <<>> THEN m.entry
                    ELSE [status |-> "Yielded", pc |-> s.tasks[1].pc[1], handles |-> Table(s.tasks[1].handles)])
  OBVIOUS
<1>3. PICK o : o = (IF s.tasks = <<>> THEN m.handles ELSE e.handles)
  OBVIOUS
<1>4. PICK w : w = Restored(m, s)
  OBVIOUS
<1>5. w = [m EXCEPT !.objects = s.objects, !.marked = {}, !.frames = s.frames, !.stack = s.stack,
                    !.running = TRUE, !.entry = e, !.handles = Over(o, Table(s.handles)),
                    !.outcome = "ok", !.steps = s.time]
  BY <1>2, <1>3, <1>4 DEF Restored
<1>6. /\ w.objects = s.objects /\ w.frames = s.frames /\ w.stack = s.stack
      /\ w.handles = Over(o, Table(s.handles)) /\ w.steps = s.time
  BY <1>5 DEF IsMachine, MachineFields
<1>7. Over(o, Table(s.handles)) = i.handles
  <2>1. o = (IF s.tasks = <<>> THEN m.handles ELSE Table(s.tasks[1].handles))
    BY <1>2, <1>3
  <2>2. DOMAIN m.handles = DOMAIN p.streams
    BY DEF Registered
  <2>3. Over(IF s.tasks = <<>> THEN m.handles ELSE Table(s.tasks[1].handles), Table(s.handles)) = i.handles
    BY <2>2 DEF SavedAlike, Gives
  <2> QED
    BY <2>1, <2>3
<1>8. s.time = i.steps
  BY DEF SavedAlike
<1> QED
  BY <1>1, <1>4, <1>6, <1>7, <1>8 DEF Moves, Renumbered

-----------------------------------------------------------------------------
(* The host's machine keeps to the run that nothing interrupts.            *)

Fits(p, i) == IsMachine(Nat, i) /\ CodeReadable(p, i) /\ i.outcome # "dead"
\* Until it resumes a machine has the same slots as the run without pause.
Beside(p, m, i, again) ==
  /\ Fits(p, i)
  /\ \E r \in Slots : Moves(r, m, i) /\ (~again => r = Itself)
  /\ ~again => m.running = i.running
Linked(p, t) ==
  /\ OfProgram(p, t.of)
  /\ ~t.astray => Fits(p, t.ideal) /\ SavedAlike(p, t.of, t.ideal)
Track ==
  /\ Registered(P, vm)
  /\ vm.outcome # "dead" /\ ~astray => Beside(P, vm, ideal, resumed)
  /\ yielded.of # NoSnapshot => Linked(P, yielded)
  /\ file # <<>> => \E n \in DOMAIN Programs : Linked(Programs[n], written)

LEMMA TrackShows == Inv /\ Track => OnTrack
<1> SUFFICES ASSUME Inv, Track, vm.outcome # "dead", ~astray
             PROVE  vm.steps = ideal.steps /\ Observed(vm) = Observed(ideal)
  BY DEF OnTrack
<1>1. IsMachine(Times0, vm) /\ IsMachine(Nat, ideal)
  BY DEF Inv, Track, Beside, Fits
<1>2. PICK r \in Slots : Moves(r, vm, ideal)
  BY DEF Track, Beside
<1>3. Paired(Times0, r, vm, ideal)
  BY <1>1, <1>2 DEF Paired
<1>4. Observed(vm) = Observed(ideal)
  BY <1>3, ObservedAlike
<1> QED
  BY <1>2, <1>4 DEF Moves

LEMMA LinkedSame == \A p, q, t : SameCode(p, q) /\ p.name = q.name /\ Linked(p, t) => Linked(q, t)
BY DEF SameCode, Linked, OfProgram, SavedIds, SavedAlike, Gives, Fits, CodeReadable

LEMMA BesideAside ==
  \A p, m, w, i, again : Beside(p, m, i, again) /\ Aside(m, w) => Beside(p, w, i, again)
BY DEF Beside, Aside, Moves, Renumbered

\* A machine of which a fetch finds the same as of one that it is alike to.
LEMMA FetchAlike ==
  \A T, p, r, m, i : Paired(T, r, m, i) => (Fetchable(p, i) <=> Fetchable(p, m))
<1> SUFFICES ASSUME NEW T, NEW p, NEW r, NEW m, NEW i, Paired(T, r, m, i)
             PROVE  Fetchable(p, i) <=> Fetchable(p, m)
  OBVIOUS
<1>1. r \in Slots /\ m.frames \in Seq(VmFrame) /\ i.frames = ToFrames(r, m.frames)
  BY MachineIs DEF Paired, Moves, Renumbered
<1>2. Len(i.frames) = Len(m.frames) /\ (i.frames = <<>> <=> m.frames = <<>>)
  BY <1>1, ToFramesIs
<1>3. ASSUME m.frames # <<>>
      PROVE  Here(i).function = Here(m).function /\ Here(i).ip = Here(m).ip
  <2>1. IsMachine(T, m)
    BY DEF Paired
  <2>2. PICK n \in DOMAIN m.frames : n = Len(m.frames)
    BY <1>3, <2>1, HereIs
  <2>3. PICK f : f = m.frames[n]
    OBVIOUS
  <2>4. f \in VmFrame
    BY <1>1, <2>3
  <2>5. i.frames[n] = ToFrame(r, f)
    BY <1>1, <2>3, ToFramesIs
  <2>6. Here(m) = f /\ Here(i) = i.frames[n]
    BY <1>2, <2>2, <2>3 DEF Here
  <2> QED
    BY <1>1, <2>4, <2>5, <2>6, ToFrameIs
<1> QED
  BY <1>2, <1>3 DEF Fetchable

LEMMA LoadedTracks ==
  \A p : IsProgram(p) => Registered(p, Loaded(p)) /\ Beside(p, Loaded(p), Loaded(p), FALSE)
<1> SUFFICES ASSUME NEW p, IsProgram(p) PROVE Registered(p, Loaded(p)) /\ Beside(p, Loaded(p), Loaded(p), FALSE)
  OBVIOUS
<1>1. PICK m : m = Loaded(p)
  OBVIOUS
<1>2. IsMachine(Nat, m)
  BY <1>1, LoadedIs, 0 \in Nat
<1>3. m.handles = p.streams /\ m.entry.status = "Running" /\ m.entry.handles = <<>> /\ m.outcome = "ok"
  BY <1>1 DEF Loaded
<1>4. CodeReadable(p, m)
  <2>1. m.objects = [k \in DOMAIN p.constants |-> Object("String", p.constants[k])]
    BY <1>1 DEF Loaded
  <2> QED
    BY <2>1 DEF CodeReadable, Object
<1>5. Itself \in Slots /\ Moves(Itself, m, m)
  BY <1>2, AlikeItself, ToItself
<1> QED
  BY <1>1, <1>2, <1>3, <1>4, <1>5 DEF Registered, Beside, Fits

\* A snapshot that the host, or Yield, takes of a machine beside the run without pause.
LEMMA CapturedTracks ==
  \A T, p, m, i, again :
    IsMachine(T, m) /\ Registered(p, m) /\ CanCapture(p, m) /\ Beside(p, m, i, again) /\ Fresh(m) =>
      SavedAlike(p, Captured(p, m), i)
<1> SUFFICES ASSUME NEW T, NEW p, NEW m, NEW i, NEW again,
                    IsMachine(T, m), Registered(p, m), CanCapture(p, m), Beside(p, m, i, again), Fresh(m)
             PROVE  SavedAlike(p, Captured(p, m), i)
  OBVIOUS
<1>1. PICK r \in Slots : Moves(r, m, i)
  BY DEF Beside
<1>2. IsMachine(Nat, i)
  BY DEF Beside, Fits
<1>3. PICK s : s = Captured(p, m)
  OBVIOUS
<1>4. \E q \in Slots : Renumbered(q, s.frames, s.stack, s.objects, i)
  BY <1>1, <1>2, <1>3, CaptureAlike
<1>5. Gives(p, s, m.handles) /\ s.time = m.steps
  BY <1>3, CaptureGives
<1>6. m.handles = i.handles /\ m.steps = i.steps
  BY <1>1 DEF Moves
<1>7. SavedAlike(p, s, i)
  BY <1>4, <1>5, <1>6 DEF SavedAlike
<1> QED
  BY <1>3, <1>7

LEMMA WithNoSnapshot ==
  \A T, m : IsMachine(T, m) =>
    LET w == [m EXCEPT !.snapshot = NoSnapshot]
    IN  IsMachine(T, w) /\ Aside(m, w)
<1> SUFFICES ASSUME NEW T, NEW m, IsMachine(T, m), NEW w, w = [m EXCEPT !.snapshot = NoSnapshot]
             PROVE  IsMachine(T, w) /\ Aside(m, w)
  OBVIOUS
<1>1. w = WithSnapshot(m, NoSnapshot)
  BY DEF WithSnapshot
<1>2. Aside(m, w) /\ w.snapshot = NoSnapshot /\ w.marked = m.marked
  BY <1>1, FieldsOf DEF Aside
<1>3. IsMachine(T, w)
  <2>1. w \in MachineFields(T, NoSnapshot)
    BY DEF IsMachine, MachineFields
  <2> QED
    BY <1>2, <2>1 DEF IsMachine, Aside
<1> QED
  BY <1>2, <1>3

\* A turn of run(), of a machine beside the run without pause.
LEMMA TurnTracks ==
  ASSUME NEW T, NEW p, NEW build, NEW m, NEW i, NEW again,
         IsProgram(p), IsMachine(T, m), m.steps \in Nat, m.steps + 1 \in T, m.running = TRUE,
         Registered(p, m), Beside(p, m, i, again),
         again => /\ ~(Fetchable(p, m) /\ Fetched(p, m).op = "Push" /\ Fetched(p, m).arg \in Refs)
                  /\ ~Halted(p, i)
  PROVE  /\ Step(p, build, m).outcome # "dead" => Beside(p, Step(p, build, m), OnAndOn(p, i), again)
         /\ \/ Step(p, build, m).snapshot = m.snapshot
            \/ Fits(p, OnAndOn(p, i)) /\ SavedAlike(p, Step(p, build, m).snapshot, OnAndOn(p, i))
<1>1. PICK w, z : w = Step(p, build, m) /\ z = OnAndOn(p, i)
  OBVIOUS
<1>2. PICK r \in Slots : Moves(r, m, i) /\ (~again => r = Itself)
  BY DEF Beside
<1>3. IsMachine(Nat, i) /\ CodeReadable(p, i) /\ i.outcome # "dead"
  BY DEF Beside, Fits
<1>4. Paired(T, r, m, i)
  BY <1>2, <1>3 DEF Paired
<1>5. CASE ~Fetchable(p, m)
  <2>1. z = i
    BY <1>1, <1>4, <1>5, FetchAlike DEF OnAndOn, Ended
  <2>2. w = WithOutcome(m, "error")
    BY <1>1, <1>5 DEF Step, Err, WithOutcome
  <2>3. /\ w.frames = m.frames /\ w.stack = m.stack /\ w.objects = m.objects /\ w.handles = m.handles
        /\ w.steps = m.steps /\ w.running = m.running /\ w.snapshot = m.snapshot
    BY <2>2, FieldsOf
  <2>4. Beside(p, w, i, again)
    BY <2>3 DEF Beside, Moves, Renumbered
  <2> QED
    BY <1>1, <2>1, <2>3, <2>4
<1>6. CASE Fetchable(p, m)
  <2>1. PICK no, yes : Truths(no, yes)
    <3>1. Truths(FALSE, TRUE)
      BY DEF Truths
    <3> QED
      BY <3>1
  <2>2. m.running = yes
    BY <2>1 DEF Truths
  <2>3. PICK j : j = WithRunning(i, yes)
    OBVIOUS
  <2>4. PICK b : b = Step(p, no, j)
    OBVIOUS
  <2>5. Turns(p, T, r, m, i)
    <3>1. Fetched(p, m).op = "Push" => Fetched(p, m).arg \in Value
      BY <1>6 DEF Fetchable, Fetched, IsProgram, IsFunction, Operands
    <3>2. CASE again
      <4>1. Fetched(p, m).op = "Push" => Fetched(p, m).arg \notin Refs
        BY <1>6, <3>2
      <4> QED
        BY <1>3, <1>4, <1>6, <4>1 DEF Turns, To
    <3>3. CASE ~again
      <4>1. Fetched(p, m).op = "Push" => To(r, Fetched(p, m).arg) = Fetched(p, m).arg
        BY <1>2, <3>1, <3>3, ToItself
      <4> QED
        BY <1>3, <1>4, <1>6, <4>1 DEF Turns
    <3> QED
      BY <3>2, <3>3
  <2>6. Fetchable(p, i) /\ TurnEnds(p, T, r, m, w, b)
    BY <1>1, <2>1, <2>2, <2>3, <2>4, <2>5, PairStep
  <2>7. ~Ended(p, i)
    <3>1. ~again => i.running
      BY DEF Beside
    <3>2. ~Halted(p, i)
      BY <3>1 DEF Halted
    <3> QED
      BY <1>3, <2>6, <3>2 DEF Ended
  <2>8. z = [b EXCEPT !.snapshot = NoSnapshot]
    BY <1>1, <2>1, <2>3, <2>4, <2>7 DEF OnAndOn, WithRunning, Truths
  <2>9. IsMachine(Nat, j) /\ j.objects = i.objects /\ j.steps \in Nat
    <3>1. yes \in BOOLEAN
      BY <2>1 DEF Truths
    <3>2. IsMachine(Nat, j)
      BY <1>3, <2>3, <3>1, MachineWith
    <3> QED
      BY <1>3, <2>3, <3>2, FieldsOf, MachineIs
  <2>10. IsMachine(Nat, b) /\ Keeps(j.objects, b.objects)
    BY <2>4, <2>9, StepIs, StepKeeps
  <2>11. IsMachine(Nat, z) /\ Aside(b, z)
    BY <2>8, <2>10, WithNoSnapshot
  <2>12. CodeReadable(p, z)
    BY <1>3, <2>9, <2>10, <2>11 DEF CodeReadable, Keeps, Aside
  <2>13. ASSUME w.outcome # "dead" PROVE Beside(p, w, z, again) /\ Fits(p, z)
    <3>1. Pair(T, r, w, b)
      BY <2>6, <2>13 DEF TurnEnds, Kin
    <3>2. w.outcome = z.outcome /\ w.running = z.running /\ Moves(r, w, z)
      BY <2>11, <3>1 DEF Pair, Moves, Renumbered, Aside
    <3> QED
      BY <1>2, <2>11, <2>12, <2>13, <3>2 DEF Beside, Fits
  <2>14. w.snapshot = m.snapshot \/ (w.outcome # "dead" /\ SavedAlike(p, w.snapshot, z))
    <3>1. \A s : SavedAlike(p, s, b) => SavedAlike(p, s, z)
      BY <2>11 DEF SavedAlike, Renumbered, Aside
    <3> QED
      BY <2>6, <3>1 DEF TurnEnds
  <2> QED
    BY <1>1, <2>13, <2>14
<1> QED
  BY <1>5, <1>6

LEMMA TrackInit == Init => Track
<1> SUFFICES ASSUME Init PROVE Track
  OBVIOUS
<1>1. IsProgram(P)
  BY HostPrograms DEF Init, P
<1>2. vm = Loaded(P) /\ ideal = Loaded(P) /\ resumed = FALSE /\ file = <<>>
  BY DEF Init
<1>3. Registered(P, Loaded(P)) /\ Beside(P, Loaded(P), Loaded(P), FALSE)
  BY <1>1, LoadedTracks
<1>4. Registered(P, vm)
  BY <1>2, <1>3
<1>5. Beside(P, vm, ideal, resumed)
  BY <1>2, <1>3
<1>6. yielded.of = NoSnapshot
  BY DEF Init, Taken
<1> QED
  BY <1>2, <1>4, <1>5, <1>6 DEF Track

\* What a turn of run() does to the history is that of the lemma above.
LEMMA VmTracks == Inv /\ Track /\ VmStep => Track'
<1> SUFFICES ASSUME Inv, Track, VmStep PROVE Track'
  OBVIOUS
<1>1. IsMachine(Times0, vm) /\ vm.steps \in Nat /\ vm.steps + 1 \in Times0 /\ vm.running = TRUE
  <2>1. IsMachine(Times0, vm)
    BY DEF Inv
  <2>2. vm.running = TRUE
    BY <2>1, MachineIs DEF VmStep
  <2> QED
    BY <2>1, <2>2, Bounds, MachineIs DEF VmStep, Times0
<1>2. IsProgram(P) /\ P' = P
  BY Bounds DEF Inv, P, VmStep
<1>3. vm' = Step(P, checked, vm) /\ ideal' = OnAndOn(P, ideal)
  BY DEF VmStep
<1>4. Registered(P, vm)
  BY DEF Track
<1>5. Registered(P, vm') /\ (vm'.snapshot = vm.snapshot \/ OfProgram(P, vm'.snapshot))
  BY <1>1, <1>2, <1>3, <1>4, StepKeeps
<1>6. ASSUME ~astray'
      PROVE  /\ vm'.outcome # "dead" => Beside(P, vm', ideal', resumed')
             /\ vm'.snapshot = vm.snapshot \/ (Fits(P, ideal') /\ SavedAlike(P, vm'.snapshot, ideal'))
  <2>1. ~astray /\ resumed' = resumed /\ vm.outcome # "dead"
    BY <1>6 DEF VmStep
  <2>2. Beside(P, vm, ideal, resumed)
    BY <2>1 DEF Track
  <2>3. resumed => /\ ~(Fetchable(P, vm) /\ Fetched(P, vm).op = "Push" /\ Fetched(P, vm).arg \in Refs)
                   /\ ~Halted(P, ideal)
    BY <1>6 DEF VmStep, PushesConstant
  <2>4. /\ Step(P, checked, vm).outcome # "dead" =>
             Beside(P, Step(P, checked, vm), OnAndOn(P, ideal), resumed)
        /\ \/ Step(P, checked, vm).snapshot = vm.snapshot
           \/ /\ Fits(P, OnAndOn(P, ideal))
              /\ SavedAlike(P, Step(P, checked, vm).snapshot, OnAndOn(P, ideal))
    BY <1>1, <1>2, <1>4, <2>2, <2>3, TurnTracks
  <2> QED
    BY <1>3, <2>1, <2>4
<1>7. yielded'.of # NoSnapshot => Linked(P, yielded')
  <2>1. CASE vm'.snapshot = vm.snapshot
    <3>1. yielded' = yielded
      BY <2>1 DEF VmStep
    <3> QED
      BY <3>1 DEF Track
  <2>2. CASE vm'.snapshot # vm.snapshot
    <3>1. PICK t : t = yielded'
      OBVIOUS
    <3>2. t = [of |-> vm'.snapshot, astray |-> astray', ideal |-> ideal']
      BY <2>2, <3>1 DEF VmStep, Taken
    <3>3. t.of = vm'.snapshot /\ t.ideal = ideal' /\ (t.astray <=> astray')
      BY <3>2
    <3>4. OfProgram(P, t.of)
      BY <1>5, <2>2, <3>3
    <3>5. ~t.astray => Fits(P, t.ideal) /\ SavedAlike(P, t.of, t.ideal)
      BY <1>6, <2>2, <3>3
    <3>6. Linked(P, t)
      BY <3>4, <3>5 DEF Linked
    <3> QED
      BY <3>1, <3>6
  <2> QED
    BY <2>1, <2>2
<1>8. file' # <<>> => \E n \in DOMAIN Programs : Linked(Programs[n], written')
  <2>1. file' = file /\ written' = written
    BY DEF VmStep
  <2> QED
    BY <2>1 DEF Track
<1> QED
  BY <1>2, <1>5, <1>6, <1>7, <1>8 DEF Track

LEMMA DeadAside ==
  \A T, m, p : IsMachine(T, m) =>
    /\ Aside(m, AfterCapture(m)) /\ AfterCapture(m).entry = m.entry
    /\ Registered(p, m) => Registered(p, Dead(m)) /\ Registered(p, AfterCapture(m))
<1> SUFFICES ASSUME NEW T, NEW m, NEW p, IsMachine(T, m)
             PROVE
    /\ Aside(m, AfterCapture(m)) /\ AfterCapture(m).entry = m.entry
    /\ Registered(p, m) => Registered(p, Dead(m)) /\ Registered(p, AfterCapture(m))
  OBVIOUS
<1>1. PICK w, z : w = AfterCapture(m) /\ z = Dead(m)
  OBVIOUS
<1>2. w = WithMarked(m, m.marked \cup Marks(m)) /\ z = WithOutcome(m, "dead")
  BY <1>1 DEF AfterCapture, Dead, WithMarked, WithOutcome
<1>3. Aside(m, w) /\ w.entry = m.entry /\ w.handles = m.handles /\ z.entry = m.entry /\ z.handles = m.handles
  BY <1>2, FieldsOf DEF Aside
<1> QED
  BY <1>1, <1>3 DEF Registered

LEMMA SaveTracks == ASSUME NEW lost \in BOOLEAN, Inv, Track, HostSave(lost) PROVE Track'
<1>1. P' = P /\ yielded' = yielded /\ written' = yielded /\ yielded.of # NoSnapshot
  BY DEF HostSave, Inv, P
<1>2. vm' = vm \/ vm' = Dead(vm)
  BY DEF HostSave
<1>3. IsMachine(Times0, vm) /\ Dead(vm).outcome = "dead"
  BY SnapshotStays DEF Inv
<1>4. Registered(P, vm')
  BY <1>2, <1>3, DeadAside DEF Track
<1>5. vm'.outcome # "dead" /\ ~astray' => Beside(P, vm', ideal', resumed')
  BY <1>2, <1>3 DEF HostSave, Track
<1>6. Linked(P, yielded)
  BY <1>1 DEF Track
<1>7. program \in DOMAIN Programs
  BY DEF Inv
<1> QED
  BY <1>1, <1>4, <1>5, <1>6, <1>7 DEF Track, P

LEMMA CreateTracks == ASSUME NEW lost \in BOOLEAN, Inv, Track, HostCreateSnapshot(lost) PROVE Track'
<1>1. P' = P /\ yielded' = yielded /\ ideal' = ideal /\ resumed' = resumed /\ astray' = astray
  BY DEF HostCreateSnapshot, P
<1>2. vm' = AfterCapture(vm) \/ vm' = Dead(vm)
  BY DEF HostCreateSnapshot
<1>3. IsMachine(Times0, vm) /\ Dead(vm).outcome = "dead" /\ Registered(P, vm)
      /\ program \in DOMAIN Programs /\ vm.outcome # "dead"
  BY SnapshotStays DEF Inv, Track, HostCreateSnapshot, Idle
<1>4. Registered(P, vm')
  BY <1>2, <1>3, DeadAside
<1>5. vm'.outcome # "dead" /\ ~astray' => Beside(P, vm', ideal', resumed')
  <2>1. SUFFICES ASSUME vm'.outcome # "dead", ~astray' PROVE Beside(P, vm', ideal', resumed')
    OBVIOUS
  <2>2. vm' = AfterCapture(vm)
    BY <1>2, <1>3, <2>1
  <2>3. Aside(vm, vm')
    BY <1>3, <2>2, DeadAside
  <2>4. Beside(P, vm, ideal, resumed)
    BY <1>1, <1>3, <2>1 DEF Track
  <2> QED
    BY <1>1, <2>3, <2>4, BesideAside
<1>6. file' # <<>> => \E n \in DOMAIN Programs : Linked(Programs[n], written')
  <2>1. CASE CanCapture(P, vm)
    <3>1. PICK t, s : t = written' /\ s = Captured(P, vm)
      OBVIOUS
    <3>2. t = [of |-> s, astray |-> (astray \/ StaleHandles), ideal |-> ideal]
      BY <2>1, <3>1 DEF HostCreateSnapshot, Taken
    <3>3. t.of = s /\ t.ideal = ideal /\ (t.astray <=> astray \/ StaleHandles)
      BY <3>2
    <3>4. OfProgram(P, s)
      BY <1>3, <3>1, CaptureGives DEF OfProgram
    <3>5. ASSUME ~astray, ~StaleHandles PROVE Fits(P, ideal) /\ SavedAlike(P, s, ideal)
      <4>1. Beside(P, vm, ideal, resumed)
        BY <1>3, <3>5 DEF Track
      <4>2. Fresh(vm)
        BY <3>5 DEF StaleHandles, Fresh
      <4>3. SavedAlike(P, Captured(P, vm), ideal)
        BY <1>3, <2>1, <4>1, <4>2, CapturedTracks
      <4> QED
        BY <3>1, <4>1, <4>3 DEF Beside
    <3>6. Linked(P, t)
      BY <3>3, <3>4, <3>5 DEF Linked
    <3> QED
      BY <1>3, <3>1, <3>6 DEF P
  <2>2. CASE ~CanCapture(P, vm)
    BY <2>2 DEF HostCreateSnapshot, Track
  <2> QED
    BY <2>1, <2>2
<1> QED
  BY <1>1, <1>4, <1>5, <1>6 DEF Track

LEMMA RestartTracks == Inv /\ Track /\ HostRestart => Track'
<1> SUFFICES ASSUME Inv, Track, HostRestart PROVE Track'
  OBVIOUS
<1>1. PICK n \in {program, Upgrade}, build \in BOOLEAN : Start(n, build)
  BY DEF HostRestart
<1>2. PICK p : p = Programs[n]
  OBVIOUS
<1>3. IsProgram(p)
  BY <1>1, <1>2, Bounds DEF Inv
<1>4. P' = p /\ vm' = Loaded(p) /\ ideal' = Loaded(p) /\ resumed' = FALSE
  BY <1>1, <1>2 DEF Start, P
<1>5. Registered(p, Loaded(p)) /\ Beside(p, Loaded(p), Loaded(p), FALSE)
  BY <1>3, LoadedTracks
<1>6. yielded'.of = NoSnapshot
  BY <1>1 DEF Start, Taken
<1>7. file' = file /\ written' = written
  BY DEF HostRestart
<1>8. Registered(P', vm') /\ Beside(P', vm', ideal', resumed')
  BY <1>4, <1>5
<1> QED
  BY <1>6, <1>7, <1>8 DEF Track

LEMMA ResumeTracks == Inv /\ Track /\ HostResume => Track'
<1> SUFFICES ASSUME Inv, Track, HostResume PROVE Track'
  OBVIOUS
<1>1. PICK s : s = ReadSnapshot(file)
  OBVIOUS
<1>2. P' = P /\ yielded' = yielded /\ file' = file /\ written' = written
  BY DEF HostResume, P
<1>3. IsMachine(Times0, vm) /\ Dead(vm).outcome = "dead" /\ Registered(P, vm) /\ program \in DOMAIN Programs
  BY SnapshotStays DEF Inv, Track
<1>4. CASE vm' = Dead(vm) /\ UNCHANGED <<resumed, astray, ideal>>
  <2>1. Registered(P, vm') /\ vm'.outcome = "dead"
    BY <1>3, <1>4, DeadAside
  <2> QED
    BY <1>2, <2>1 DEF Track
<1>5. CASE /\ s.error = 0 /\ s.hash = CodeHash(P, vm) /\ vm' = Restored(vm, s)
           /\ resumed' = TRUE /\ astray' = written.astray /\ ideal' = written.ideal
  <2>1. file # <<>>
    <3>1. ReadFromBytes(<<>>) = [error |-> Eof]
      BY DEF ReadFromBytes
    <3>2. ReadSnapshot(<<>>).error = Eof /\ Eof # 0
      BY <3>1 DEF ReadSnapshot, ReadSections, Eof
    <3> QED
      BY <1>1, <1>5, <3>2
  <2>2. PICK t, of : t = written /\ of = t.of
    OBVIOUS
  <2>3. IsSaved(Times0, of) /\ Same(s, of)
    <3>1. IsSaved(Times0, written.of)
      BY <2>1 DEF Inv
    <3>2. Same(s, written.of)
      BY <1>1, <1>5, <3>1, AllOrNothing DEF Inv
    <3> QED
      BY <2>2, <3>1, <3>2
  <2>4. /\ s.time = of.time /\ s.objects = of.objects /\ s.frames = of.frames /\ s.stack = of.stack
        /\ s.handles = of.handles /\ s.tasks = of.tasks /\ s.hash = of.hash
    <3>1. DOMAIN of = {"hash", "time", "objects", "frames", "stack", "handles", "tasks"}
      BY <2>3 DEF IsSaved
    <3> QED
      BY <2>3, <3>1 DEF Same
  <2>5. Linked(P, t)
    <3>1. PICK n \in DOMAIN Programs : Linked(Programs[n], t)
      BY <2>1, <2>2 DEF Track
    <3>2. Programs[n].name = of.hash[1]
      BY <2>2, <3>1 DEF Linked, OfProgram
    <3>3. CodeHash(P, vm)[1] = P.name
      BY DEF CodeHash
    <3>4. Programs[n].name = P.name
      BY <1>5, <2>4, <3>2, <3>3
    <3>5. SameCode(Programs[n], P)
      BY <1>3, <3>4, NameIsCode DEF P
    <3> QED
      BY <3>1, <3>4, <3>5, LinkedSame
  <2>6. SavedIds(P, s)
    BY <2>2, <2>4, <2>5 DEF Linked, OfProgram, SavedIds
  <2>7. Registered(P, vm')
    BY <1>3, <1>5, <2>6, RestoredRegistered
  <2>8. ASSUME ~t.astray PROVE Beside(P, vm', t.ideal, TRUE)
    <3>1. Fits(P, t.ideal) /\ SavedAlike(P, of, t.ideal)
      BY <2>2, <2>5, <2>8 DEF Linked
    <3>2. SavedAlike(P, s, t.ideal)
      BY <2>4, <3>1 DEF SavedAlike, Gives
    <3>3. \E r \in Slots : Moves(r, Restored(vm, s), t.ideal)
      BY <1>3, <3>2, RestoredMoves
    <3> QED
      BY <1>5, <3>1, <3>3 DEF Beside
  <2>9. ~astray' => Beside(P, vm', ideal', resumed')
    BY <1>5, <2>2, <2>8
  <2> QED
    BY <1>2, <2>7, <2>9 DEF Track
<1> QED
  BY <1>1, <1>4, <1>5 DEF HostResume, Resumes

LEMMA TrackStep == Inv /\ Track /\ [Next]_vars => Track'
<1> SUFFICES ASSUME Inv, Track, [Next]_vars PROVE Track'
  OBVIOUS
<1>1. CASE UNCHANGED vars
  BY <1>1 DEF vars, Track, P, StaleHandles
<1> QED
  BY <1>1, VmTracks, SaveTracks, CreateTracks, RestartTracks, ResumeTracks DEF Next

\* However often a program is saved, lost in a write or between two, and resumed, in a build
\* with overflow checks or without: as long as nothing has led it astray, what can be told of
\* its machine - frames, instruction pointers, stack, the objects it refers to, with who shares
\* them, streams and clock - is what it would be if the program had never been interrupted.
THEOREM StaysOnTrack == Spec => []OnTrack
<1>1. Inv /\ Track /\ [Next]_vars => (Inv /\ Track)'
  BY InvStep, TrackStep
<1>2. Init => Inv /\ Track
  BY InvInit, TrackInit
<1> QED
  BY <1>1, <1>2, TrackShows, PTL DEF Spec
=============================================================================
