----------------------------- MODULE MCProgram -----------------------------
(***************************************************************************)
(* Programs for Program: loops, calls, strings, lists, streams, errors,    *)
(* overflow and NaN, each with Yields at which to save and resume.         *)
(***************************************************************************)
EXTENDS Program

I(op) == [op |-> op, arg |-> 0]
A(op, arg) == [op |-> op, arg |-> arg]
Fun(arity, locals, code) == [arity |-> arity, locals |-> locals, code |-> code]
Std == [h \in 0..2 |-> IF h = 0 THEN [kind |-> Stdin, buffer |-> <<1, 2>>]
                       ELSE [kind |-> Stdout + h - 1, buffer |-> <<>>]]
Prog(name, functions, constants, streams) ==
  [name |-> name, functions |-> functions, constants |-> constants, streams |-> streams]

\* Counts down through the end of the type, with a call and a Yield in every round.
Countdown ==
  LET main == <<A("Push", IntV(-2)), A("Store", 1),
                A("Load", 1), A("Push", IntV(1)), A("Call", 1), I("Dup"), A("Store", 1),
                I("StdoutWrite"), I("Yield"),
                A("Load", 1), A("Push", IntV(2)), I("Lt"), A("JumpIfTrue", 2), I("Halt")>>
      minus == <<A("Load", 1), A("Load", 2), I("Sub"), I("Return")>>
  IN  Prog("Countdown", <<Fun(0, 1, main), Fun(2, 3, minus)>>, <<>>, Std)

\* Prints strings of its own around Yields.
Printer ==
  Prog("Printer",
       <<Fun(0, 1, <<A("Push", StringV(1)), I("StdoutWrite"), A("Push", StringV(2)), A("Store", 1),
                     I("Yield"), A("Load", 1), I("StderrWrite"), I("Yield"),
                     A("Push", StringV(1)), I("StdoutWrite"), I("Yield"), I("Halt")>>)>>,
       <<<<201>>, <<202, 203>>>>, Std)

\* Lists: identity of objects across a snapshot, garbage below live ones, a Yield two
\* frames deep, code behind the Halt.
Lists ==
  LET main == <<I("StdinRead"), I("Pop"), I("StdinRead"), A("Store", 1), A("Load", 1),
                A("Call", 1), I("Eq"), I("Not"), A("JumpIfTrue", 9), I("Neg"), I("Halt"), I("StdinRead"), I("Yield")>>
      inner == <<I("StdinRead"), A("Load", 1), I("Neq"), I("Yield"), A("JumpIfFalse", 7),
                 A("Load", 1), A("Load", 1), I("Return")>>
  IN  Prog("Lists", <<Fun(0, 1, main), Fun(1, 1, inner)>>, <<>>, Std)

\* NaN, comparisons and rounding.
Floating ==
  Prog("Floating",
       <<Fun(0, 1, <<A("Push", FloatV(0)), I("Dup"), I("Div"), I("Dup"), A("Store", 1), I("Yield"),
                     A("Load", 1), I("Dup"), I("Neq"), I("StdoutWrite"),
                     A("Load", 1), A("JumpIfFalse", 16), A("Load", 1), A("Push", FloatV(1)),
                     I("Gte"), I("StdoutWrite"), I("Yield"), A("Jump", 19), I("Halt")>>)>>,
       <<>>, Std)

\* Errors, after each of which the host may run on, save, or resume.
Failing ==
  LET main == <<A("Push", IntV(1)), A("Push", BoolV(TRUE)), I("Add"), I("Yield"), I("Pop"),
                A("Push", IntV(3)), A("Load", 2), A("Call", 5), A("Call", 1), A("Store", 9),
                I("StdoutWrite"), I("StdinRead"), I("TimerSleep"), I("Return")>>
  IN  Prog("Failing", <<Fun(0, 1, main), Fun(2, 2, <<I("Return")>>)>>, <<>>, <<>>)

\* Every operator, and the outcome of two that differ between builds.
Arithmetics ==
  LET main == <<A("Push", IntV(-3)), A("Push", IntV(2)), I("Mod"), A("Push", IntV(2)), I("Mul"),
                A("Push", IntV(-4)), I("Neg"), I("Yield"), I("Lte"), A("Push", BoolV(FALSE)), I("And"),
                A("Push", BoolV(TRUE)), I("Or"), A("Push", IntV(3)), A("Push", IntV(3)), I("Gt"), I("Eq"),
                I("StdoutWrite"), I("Yield"), A("Push", IntV(1)), A("Push", IntV(0)), I("Div"), I("Halt")>>
  IN  Prog("Arithmetics", <<Fun(0, 0, main)>>, <<>>, Std)

MCPrograms ==
  [Countdown |-> Countdown, Printer |-> Printer, Lists |-> Lists, Floating |-> Floating,
   Failing |-> Failing, Arithmetics |-> Arithmetics]
\* Bound: a process that has not resumed yet runs FewSteps instructions before it does.
FewSteps == 3
MCNext == Next /\ (restarts' > 0 /\ ~resumed' => vm'.steps <= FewSteps)
MCSpec == Init /\ [][MCNext]_vars
=============================================================================
