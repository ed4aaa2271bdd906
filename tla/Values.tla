------------------------------- MODULE Values -------------------------------
(***************************************************************************)
(* The values of the machine and their operators (src/value.rs).  An Int   *)
(* is an i64 of 2 * HalfRange values, so that the ends of the type are in  *)
(* reach of a small instance.  A Float keeps what the operators tell apart *)
(* of an f64: whole numbers below Infinity, the two infinities and NaN;    *)
(* results are rounded to those, and -0.0 is 0.0.                          *)
(***************************************************************************)
EXTENDS Integers

CONSTANTS HalfRange,   \* 2^63 in the source
          Infinity     \* the magnitude that stands for f64::INFINITY

ASSUME ValueConstants == HalfRange \in Nat \ {0} /\ Infinity \in Nat \ {0}

MaxInt == HalfRange - 1                                   \* i64::MAX
MinInt == -HalfRange                                      \* i64::MIN
NaN == Infinity + 1
Ints == MinInt..MaxInt
Floats == -Infinity..NaN

IntV(n) == [t |-> "Int", v |-> n]
FloatV(x) == [t |-> "Float", v |-> x]
BoolV(b) == [t |-> "Bool", v |-> IF b THEN 1 ELSE 0]
Null == [t |-> "Null", v |-> 0]
StringV(slot) == [t |-> "String", v |-> slot]
ListV(slot) == [t |-> "List", v |-> slot]
Refs == [t : {"String", "List"}, v : Nat]
Value == [t : {"Int"}, v : Ints] \cup [t : {"Float"}, v : Floats]
           \cup [t : {"Bool"}, v : {0, 1}] \cup {Null} \cup Refs

\* What an operator returns instead of a value: Err(TypeError), or a panic.
TypeError == [t |-> "TypeError", v |-> 0]
Panics == [t |-> "Panics", v |-> 0]
Result == Value \cup {TypeError, Panics}

Both(t, l, r) == l.t = t /\ r.t = t
-----------------------------------------------------------------------------
(* Integers.                                                               *)

Abs(n) == IF n < 0 THEN -n ELSE n
TruncDiv(a, b) == IF (a < 0) = (b < 0) THEN Abs(a) \div Abs(b) ELSE -(Abs(a) \div Abs(b))
TruncMod(a, b) == a - b * TruncDiv(a, b)                  \* % has the sign of a

\* Mutant of Wrap: only results above the range are brought back into it.
WrapAbove(n) == IF n > MaxInt THEN n - 2 * HalfRange ELSE n
Wrap(n) == ((n + HalfRange) % (2 * HalfRange)) - HalfRange

\* +, -, * and unary - of i64: a build with overflow checks (debug) panics where a build
\* without (release) wraps.
IntResult(checked, n) ==
  IF n \in Ints THEN IntV(n) ELSE IF checked THEN Panics ELSE IntV(Wrap(n))
\* / and % panic in every build, on a zero divisor and on MIN / -1.
DivResult(a, b, n) == IF b = 0 \/ (a = MinInt /\ b = -1) THEN Panics ELSE IntV(n)
-----------------------------------------------------------------------------
(* Floats.                                                                 *)

Round(x) == IF x > Infinity THEN Infinity ELSE IF x < -Infinity THEN -Infinity ELSE x
Infinite(x) == Abs(x) = Infinity
FNeg(x) == IF x = NaN THEN NaN ELSE -x
FAdd(x, y) ==
  IF NaN \in {x, y} \/ (Infinite(x) /\ y = -x) THEN NaN
  ELSE IF Infinite(x) THEN x ELSE IF Infinite(y) THEN y ELSE Round(x + y)
FMul(x, y) ==
  IF NaN \in {x, y} \/ (Infinite(x) /\ y = 0) \/ (x = 0 /\ Infinite(y)) THEN NaN
  ELSE Round(x * y)
FDiv(x, y) ==
  IF NaN \in {x, y} \/ (x = 0 /\ y = 0) \/ (Infinite(x) /\ Infinite(y)) THEN NaN
  ELSE IF y = 0 THEN (IF x > 0 THEN Infinity ELSE -Infinity)
  ELSE IF Infinite(x) THEN (IF (x < 0) = (y < 0) THEN Infinity ELSE -Infinity)
  ELSE IF Infinite(y) THEN 0 ELSE TruncDiv(x, y)
FMod(x, y) ==
  IF NaN \in {x, y} \/ Infinite(x) \/ y = 0 THEN NaN ELSE IF Infinite(y) THEN x ELSE TruncMod(x, y)
-----------------------------------------------------------------------------
(* The methods of Value.                                                   *)

Add(checked, l, r) ==
  IF Both("Int", l, r) THEN IntResult(checked, l.v + r.v)
  ELSE IF Both("Float", l, r) THEN FloatV(FAdd(l.v, r.v)) ELSE TypeError
Sub(checked, l, r) ==
  IF Both("Int", l, r) THEN IntResult(checked, l.v - r.v)
  ELSE IF Both("Float", l, r) THEN FloatV(FAdd(l.v, FNeg(r.v))) ELSE TypeError
Mul(checked, l, r) ==
  IF Both("Int", l, r) THEN IntResult(checked, l.v * r.v)
  ELSE IF Both("Float", l, r) THEN FloatV(FMul(l.v, r.v)) ELSE TypeError
Div(l, r) ==
  IF Both("Int", l, r) THEN DivResult(l.v, r.v, TruncDiv(l.v, r.v))
  ELSE IF Both("Float", l, r) THEN FloatV(FDiv(l.v, r.v)) ELSE TypeError
Modulo(l, r) ==
  IF Both("Int", l, r) THEN DivResult(l.v, r.v, TruncMod(l.v, r.v))
  ELSE IF Both("Float", l, r) THEN FloatV(FMod(l.v, r.v)) ELSE TypeError
Neg(checked, x) ==
  IF x.t = "Int" THEN IntResult(checked, -x.v)
  ELSE IF x.t = "Float" THEN FloatV(FNeg(x.v)) ELSE TypeError

\* Strings and lists are equal when they are the same object; NaN equals nothing.
Eq(l, r) ==
  IF l.t # r.t THEN TypeError ELSE BoolV(l.v = r.v /\ (l.t = "Float" => l.v # NaN))
Neq(l, r) == IF Eq(l, r) = TypeError THEN TypeError ELSE BoolV(Eq(l, r) = BoolV(FALSE))

Number(l, r) == Both("Int", l, r) \/ Both("Float", l, r)
Ordered(l, r) == l.t = "Float" => NaN \notin {l.v, r.v}
Lt(l, r) == IF Number(l, r) THEN BoolV(Ordered(l, r) /\ l.v < r.v) ELSE TypeError
Lte(l, r) == IF Number(l, r) THEN BoolV(Ordered(l, r) /\ l.v <= r.v) ELSE TypeError
Gt(l, r) == Lt(r, l)
Gte(l, r) == Lte(r, l)

And(l, r) == IF Both("Bool", l, r) THEN BoolV(l.v = 1 /\ r.v = 1) ELSE TypeError
Or(l, r) == IF Both("Bool", l, r) THEN BoolV(l.v = 1 \/ r.v = 1) ELSE TypeError
Not(x) == IF x.t = "Bool" THEN BoolV(x.v = 0) ELSE TypeError

\* Zero, false and null are not; NaN and every handle are.
IsTruthy(x) == x.t \in {"String", "List"} \/ x.v # 0
=============================================================================
