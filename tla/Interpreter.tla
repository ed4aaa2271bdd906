----------------------------- MODULE Interpreter -----------------------------
(***************************************************************************)
(* VM::step on values (src/vm.rs), as a function from one machine to the   *)
(* next: what a program without child tasks computes, prints and keeps in  *)
(* its snapshots.  Which task runs, and who holds heap handles, is in      *)
(* modules Tasks and VmGc; here are the opcodes between them.              *)
(*                                                                         *)
(* A machine is a record of the fields of VM that such a program uses:     *)
(*   frames, stack, running, snapshot    as in VM;                         *)
(*   objects, marked   the arena: no opcode collects, so no slot is free;  *)
(*   handles           standard streams [kind, buffer] by id;              *)
(*   entry             task_registry[root]: [status, pc, handles];         *)
(*   outcome           what the last step returned: "ok", "error", "dead"; *)
(*   steps             history: instructions executed, also the clock.     *)
(* A program has a name, functions [arity, locals, code], constants, the   *)
(* strings its code refers to, in the slots where loading puts them, and   *)
(* the streams its host registers.  Locals are counted from 1.             *)
(***************************************************************************)
EXTENDS Values, SnapshotFile, FiniteSets

NoSnapshot == [error |-> Eof]
Stdin == 4
Stdout == 5
Stderr == 6

Object(kind, data) == [kind |-> kind, data |-> data]
Frame(f, locals) == [function |-> f, ip |-> 0, locals |-> locals]
Nulls(n) == [k \in 1..n |-> Null]

\* VM::new, the constants and functions of the program, streams, and prepare(0).
Loaded(p) ==
  [frames |-> <<Frame(0, Nulls(p.functions[1].locals))>>, stack |-> <<>>, running |-> TRUE,
   objects |-> [k \in DOMAIN p.constants |-> Object("String", p.constants[k])], marked |-> {},
   handles |-> p.streams, entry |-> [status |-> "Running", pc |-> 0, handles |-> <<>>],
   snapshot |-> NoSnapshot, outcome |-> "ok", steps |-> 0]

Err(m) == [m EXCEPT !.outcome = "error"]
Dead(m) == [m EXCEPT !.outcome = "dead"]
Pop(m, n) == [m EXCEPT !.stack = SubSeq(@, 1, Len(@) - n)]
Push(m, v) == [m EXCEPT !.stack = Append(@, v)]
Under(m, n) == m.stack[Len(m.stack) - n]                   \* n values above it
Here(m) == m.frames[Len(m.frames)]
SetIp(m, ip) == [m EXCEPT !.frames[Len(m.frames)].ip = ip]
-----------------------------------------------------------------------------
(* Capture and restore.                                                    *)

\* code_hash: the code with the contents of its constants, found through the handles
\* that the code holds into whatever heap the machine has now.
CodeReadable(p, m) ==
  \A k \in DOMAIN p.constants : k \in DOMAIN m.objects /\ m.objects[k].kind = "String"
CodeHash(p, m) == <<p.name, [k \in DOMAIN p.constants |-> m.objects[k].data]>>

ValuesOf(m) ==
  {m.stack[k] : k \in DOMAIN m.stack}
    \cup UNION {{m.frames[j].locals[k] : k \in DOMAIN m.frames[j].locals} : j \in DOMAIN m.frames}
\* mark_all_task_roots.  The lists here hold integers, so a walk ends at its first object;
\* a slot beyond the arena is passed over.
Marks(m) == {v.v : v \in ValuesOf(m) \cap Refs} \cap DOMAIN m.objects

\* Mutant of Moved: the slot is written instead of the position.
MovedNot(marks, v) == v
Moved(marks, v) ==
  IF v \in Refs THEN [v EXCEPT !.v = Cardinality({i \in marks : i <= @})] ELSE v
MovedAll(marks, s) == [k \in DOMAIN s |-> Moved(marks, s[k])]
Kept(m, marks) == [k \in 1..Cardinality(marks) |->
                     m.objects[CHOOSE i \in marks : Cardinality({j \in marks : j <= i}) = k]]
Frames(m, marks) ==
  [k \in DOMAIN m.frames |-> [m.frames[k] EXCEPT !.locals = MovedAll(marks, @)]]

Handles(table) ==
  LET ids == Seqs!SetToSeq(DOMAIN table)
  IN  [k \in DOMAIN ids |->
         [id |-> ids[k], kind |-> table[ids[k]].kind, strategy |-> 2, params |-> <<>>,
          cached |-> <<table[ids[k]].buffer>>, position |-> <<>>]]

Without(table, ids) == [h \in DOMAIN table \ ids |-> table[h]]
\* The task section: the root, unless it is Running.  Its saved stack and frames are
\* empty, as nothing parks it.
Saved(m, marks) ==
  IF m.entry.status = "Running" THEN <<>>
  ELSE <<[id |-> 0, parent |-> <<>>, status |-> 1, pc |-> <<m.entry.pc>>, children |-> <<>>,
          stack |-> <<>>, frames |-> <<>>, handles |-> Handles(m.entry.handles)]>>

\* Snapshot::capture; marks left by an earlier one are not reset.
Captured(p, m) ==
  LET marks == m.marked \cup Marks(m) IN
  [hash |-> CodeHash(p, m), time |-> m.steps, objects |-> Kept(m, marks),
   frames |-> Frames(m, marks), stack |-> MovedAll(marks, m.stack),
   handles |-> Handles(Without(m.handles, DOMAIN m.entry.handles)), tasks |-> Saved(m, marks)]
\* Otherwise code_hash or write_value_ref panics.
CanCapture(p, m) ==
  CodeReadable(p, m) /\ \A v \in ValuesOf(m) \cap Refs : v.v \in DOMAIN m.objects
AfterCapture(m) == [m EXCEPT !.marked = @ \cup Marks(m)]

\* reconnect_handle of the standard streams: the buffer that was written.
Table(handles) ==
  [h \in {handles[k].id : k \in DOMAIN handles} |->
     LET k == CHOOSE j \in DOMAIN handles : handles[j].id = h
     IN  [kind |-> handles[k].kind, buffer |-> handles[k].cached[1]]]
Over(table, other) ==
  [h \in DOMAIN table \cup DOMAIN other |-> IF h \in DOMAIN other THEN other[h] ELSE table[h]]

\* Mutant of Restored: the instruction pointers stay at 0, as CallFrame::new leaves them.
RestoredAtStart(m, s) ==
  [m EXCEPT !.objects = s.objects, !.marked = {}, !.stack = s.stack, !.running = TRUE,
            !.frames = [k \in DOMAIN s.frames |-> [s.frames[k] EXCEPT !.ip = 0]],
            !.handles = Over(m.handles, Table(s.handles)), !.outcome = "ok", !.steps = s.time]

\* restore_into, restore_task_tree and restore_io_handles with what a file contains.
Restored(m, s) ==
  LET entry == IF s.tasks = <<>> THEN m.entry
               ELSE [status |-> "Yielded", pc |-> s.tasks[1].pc[1],
                     handles |-> Table(s.tasks[1].handles)]
      own   == IF s.tasks = <<>> THEN m.handles ELSE entry.handles
  IN  [m EXCEPT !.objects = s.objects, !.marked = {}, !.frames = s.frames, !.stack = s.stack,
                !.running = TRUE, !.entry = entry, !.handles = Over(own, Table(s.handles)),
                !.outcome = "ok", !.steps = s.time]
-----------------------------------------------------------------------------
(* Opcodes.                                                                *)

Arithmetic(op, checked, l, r) ==
  CASE op = "Add" -> Add(checked, l, r) [] op = "Sub" -> Sub(checked, l, r)
    [] op = "Mul" -> Mul(checked, l, r) [] op = "Div" -> Div(l, r) [] op = "Mod" -> Modulo(l, r)
    [] op = "Eq" -> Eq(l, r) [] op = "Neq" -> Neq(l, r) [] op = "Lt" -> Lt(l, r)
    [] op = "Gt" -> Gt(l, r) [] op = "Lte" -> Lte(l, r) [] op = "Gte" -> Gte(l, r)
    [] op = "And" -> And(l, r) [] op = "Or" -> Or(l, r)
Binary == {"Add", "Sub", "Mul", "Div", "Mod", "Eq", "Neq", "Lt", "Gt", "Lte", "Gte", "And", "Or"}
Unary == {"Neg", "Not"}

\* A result takes the place of the operands; an error leaves them popped.
Produce(m, r) ==
  IF r = TypeError THEN Err(m) ELSE IF r = Panics THEN Dead(m) ELSE Push(m, r)
BinaryOp(m, checked, op) ==
  IF Len(m.stack) < 2 THEN Err([m EXCEPT !.stack = <<>>])
  ELSE Produce(Pop(m, 2), Arithmetic(op, checked, Under(m, 1), Under(m, 0)))
UnaryOp(m, checked, op) ==
  IF m.stack = <<>> THEN Err(m)
  ELSE Produce(Pop(m, 1), IF op = "Neg" THEN Neg(checked, Under(m, 0)) ELSE Not(Under(m, 0)))

JumpWhen(m, truth, ip) ==
  IF m.stack = <<>> THEN Err(m)
  ELSE IF IsTruthy(Under(m, 0)) = truth THEN SetIp(Pop(m, 1), ip) ELSE Pop(m, 1)

Load(m, k) == IF k \in DOMAIN Here(m).locals THEN Push(m, Here(m).locals[k]) ELSE Err(m)
Store(m, k) ==
  IF m.stack = <<>> THEN Err(m)
  ELSE IF k \notin DOMAIN Here(m).locals THEN Err(Pop(m, 1))
  ELSE [Pop(m, 1) EXCEPT !.frames[Len(m.frames)].locals[k] = Under(m, 0)]

Resized(locals, n) == [k \in 1..n |-> IF k \in DOMAIN locals THEN locals[k] ELSE Null]
Arguments(m, n) == SubSeq(m.stack, Len(m.stack) - n + 1, Len(m.stack))
\* An argument that is missing is an error once the others are popped.
Call(p, m, f) ==
  IF f + 1 \notin DOMAIN p.functions THEN Err(m)
  ELSE LET g == p.functions[f + 1]
       IN  IF Len(m.stack) < g.arity THEN Err([m EXCEPT !.stack = <<>>])
           ELSE [Pop(m, g.arity) EXCEPT
                   !.frames = Append(@, Frame(f, Resized(Arguments(m, g.arity), g.locals)))]

Return(m) ==
  [m EXCEPT !.frames = SubSeq(@, 1, Len(@) - 1), !.running = Len(m.frames) > 1]

\* The registry's copy of the handles is made first, so that the capture writes them once.
Yielding(m) == [m EXCEPT !.entry = [status |-> "Yielded", pc |-> Here(m).ip, handles |-> m.handles]]
Yield(p, m) ==
  LET y == Yielding(m) IN
  IF ~CanCapture(p, y) THEN Dead(y)
  ELSE [AfterCapture(y) EXCEPT !.snapshot = Captured(p, y), !.running = FALSE]

\* value_to_bytes.  The text of a number is one character, the same for 1 and 1.0; a list,
\* or a handle that does not resolve, has none.
Text(m, v) ==
  CASE v.t \in {"Int", "Float"} -> <<v.v>>
    [] v.t = "Bool" -> <<100 + v.v>>
    [] v.t = "Null" -> <<102>>
    [] v.t = "List" -> <<>>
    [] v.t = "String" -> IF v.v \in DOMAIN m.objects /\ m.objects[v.v].kind = "String"
                         THEN m.objects[v.v].data ELSE <<>>

Streams(m, kind) == {h \in DOMAIN m.handles : m.handles[h].kind = kind}
\* StdoutWrite and StderrWrite.
Write(m, kind) ==
  IF m.stack = <<>> THEN Err(m)
  ELSE IF Streams(m, kind) = {} THEN Err(Pop(m, 1))
  ELSE LET h == CHOOSE s \in Streams(m, kind) : TRUE
       IN  [Pop(m, 1) EXCEPT !.handles[h].buffer = @ \o Text(m, Under(m, 0))]
\* StdinRead: a new list of the whole buffer, which stays.
Read(m) ==
  IF Streams(m, Stdin) = {} THEN Push(m, Null)
  ELSE LET h == CHOOSE s \in Streams(m, Stdin) : TRUE
           ints == [k \in DOMAIN m.handles[h].buffer |-> IntV(m.handles[h].buffer[k])]
       IN  Push([m EXCEPT !.objects = Append(@, Object("List", ints))], ListV(Len(m.objects) + 1))

Execute(p, checked, m, i) ==
  CASE i.op = "Push" -> Push(m, i.arg)
    [] i.op = "Pop" -> IF m.stack = <<>> THEN Err(m) ELSE Pop(m, 1)
    [] i.op = "Dup" -> IF m.stack = <<>> THEN Err(m) ELSE Push(m, Under(m, 0))
    [] i.op \in Binary -> BinaryOp(m, checked, i.op)
    [] i.op \in Unary -> UnaryOp(m, checked, i.op)
    [] i.op = "Jump" -> SetIp(m, i.arg)
    [] i.op = "JumpIfTrue" -> JumpWhen(m, TRUE, i.arg)
    [] i.op = "JumpIfFalse" -> JumpWhen(m, FALSE, i.arg)
    [] i.op = "Load" -> Load(m, i.arg)
    [] i.op = "Store" -> Store(m, i.arg)
    [] i.op = "Call" -> Call(p, m, i.arg)
    [] i.op = "Return" -> Return(m)
    [] i.op = "Yield" -> Yield(p, m)
    [] i.op = "Halt" -> [m EXCEPT !.running = FALSE]
    [] i.op = "StdinRead" -> Read(m)
    [] i.op = "StdoutWrite" -> Write(m, Stdout)
    [] i.op = "StderrWrite" -> Write(m, Stderr)
    [] i.op = "TimerSleep" -> m

\* What step() fetches; EmptyFrameStack, InvalidFunction or InvalidIp when it cannot.
Fetchable(p, m) ==
  /\ m.frames # <<>> /\ Here(m).function + 1 \in DOMAIN p.functions
  /\ Here(m).ip + 1 \in DOMAIN p.functions[Here(m).function + 1].code
Fetched(p, m) == p.functions[Here(m).function + 1].code[Here(m).ip + 1]
Step(p, checked, m) ==
  IF ~Fetchable(p, m) THEN Err(m)
  ELSE Execute(p, checked,
               [SetIp(m, Here(m).ip + 1) EXCEPT !.steps = @ + 1, !.outcome = "ok"], Fetched(p, m))
=============================================================================
