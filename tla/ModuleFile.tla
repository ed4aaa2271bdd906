----------------------------- MODULE ModuleFile -----------------------------
(***************************************************************************)
(* The two formats that write values inline, with the objects they refer   *)
(* to: module files (src/chunk.rs) and the value serializer                *)
(* (src/serialize.rs).  Fields, positions and errors are as in             *)
(* SnapshotFile; v of a String or a List is the slot of its object in      *)
(* objs, a sequence of [kind, data].  Where the source recurses into the   *)
(* elements of a list, a function has what the recursion does n lists deep.*)
(***************************************************************************)
EXTENDS SnapshotFile

PAUB == "PAUB"
ModuleVersion == 1
BadOpcode == -7                     \* UnknownOpcode

\* An opcode is [op, args].  The tags are those of `mod tag`.
Tags == <<"Halt", "Push", "Pop", "Dup", "Add", "Sub", "Mul", "Div", "Mod", "Neg", "Eq", "Neq", "Lt",
          "Gt", "Lte", "Gte", "And", "Or", "Not", "Jump", "JumpIfTrue", "JumpIfFalse", "Load", "Store",
          "Call", "Return", "Yield", "FileOpen", "FileRead", "FileWrite", "FileSeek", "FileClose",
          "TcpConnect", "TcpRead", "TcpWrite", "TcpClose", "HttpGet", "HttpPost", "StdinRead",
          "StdoutWrite", "StderrWrite", "TimerSleep", "Spawn", "WaitChildren">>
TagOfOp(op) == CHOOSE k \in DOMAIN Tags : Tags[k] = op
Operands(op) ==
  CASE op \in {"Push", "TcpConnect", "HttpGet", "TimerSleep"} -> <<"value">>
    [] op \in {"FileOpen", "HttpPost"} -> <<"value", "value">>
    [] op = "FileSeek" -> <<"u32", "value">>
    [] op \in {"Jump", "JumpIfTrue", "JumpIfFalse", "Load", "Store", "Call", "Spawn", "FileRead",
               "FileWrite", "FileClose", "TcpRead", "TcpWrite", "TcpClose"} -> <<"u32">>
    [] OTHER -> <<>>

Handle == {"String", "List"}
Stored == [t : {"Int", "Float", "Bool"} \cup Handle, v : Int] \cup {NullValue}        \* a Value
Object == [kind : {"String"}, data : Seq(Int)] \cup [kind : {"List"}, data : Seq(Stored)]

\* What the walk over a value needs: handles that resolve, and an end.
Refers(objs, v, slots) == v.t \in Handle => v.v \in slots /\ objs[v.v].kind = v.t
Ending(objs, slots) ==
  {i \in DOMAIN objs : objs[i].kind = "List" =>
     \A k \in DOMAIN objs[i].data : Refers(objs, objs[i].data[k], slots)}
EndsWithin(objs) ==                  \* [n]: the slots of objects nested at most n deep
  LET ends[n \in 0..Len(objs)] == IF n = 0 THEN {} ELSE Ending(objs, ends[n - 1]) IN ends
Writable(objs, v) == Refers(objs, v, EndsWithin(objs)[Len(objs)])
-----------------------------------------------------------------------------
(* chunk.rs.                                                               *)

WriteList(write, data) == <<TagOf.List>> \o Counted(LAMBDA e : write[e], data)
WriteNested(objs, write, v) ==       \* write is for the elements of a list
  CASE v.t = "Null" -> <<TagOf.Null>>
    [] v.t \in {"Int", "Float", "Bool"} -> <<TagOf[v.t], v.v>>
    [] v.t = "String" -> <<TagOf.String>> \o Run(objs[v.v].data)
    [] v.t = "List" -> WriteList(write, objs[v.v].data)
Writer(objs) ==
  LET write[n \in 0..Len(objs)] ==
        [x \in Stored |-> WriteNested(objs, IF n = 0 THEN <<>> ELSE write[n - 1], x)]
  IN  write
WriteValue(objs, v) == Writer(objs)[Len(objs)][v]

WriteOperand(objs, kind, x) == IF kind = "u32" THEN <<x>> ELSE WriteValue(objs, x)
WriteOpcode(objs, i) ==
  <<TagOfOp(i.op) - 1>>
    \o Each(LAMBDA k : WriteOperand(objs, Operands(i.op)[k], i.args[k]), [k \in DOMAIN i.args |-> k])
SerializeFunction(objs, f) ==
  <<Len(f.name)>> \o f.name \o <<f.arity, f.num_locals>>
    \o Counted(LAMBDA i : WriteOpcode(objs, i), f.code)
Instructions(functions) ==
  LET upTo[k \in 0..Len(functions)] ==
        IF k = 0 THEN 0 ELSE upTo[k - 1] + Len(functions[k].code)
  IN  upTo[Len(functions)]
SerializeModule(objs, functions) ==
  <<PAUB, ModuleVersion, Len(functions), Instructions(functions)>>
    \o Each(LAMBDA f : SerializeFunction(objs, f), functions)

\* A reader also returns the heap, in which it allocates what it reads.
Got(r, val, objs) == [at |-> r.at, val |-> val, objs |-> objs]
With(objs, r) == Got(r, r.val, objs)
\* n readings, after those in r.  read[k] is the k-th, a function of where it begins and
\* of the heap that it finds.
Places == Int \X Seq(Object)
Pushed(done, x) == Got(x, Append(done, x.val), x.objs)
Further(r, read, k) == IF r.at < 0 THEN r ELSE Pushed(r.val, read[k][<<r.at, r.objs>>])
Repeat(n, r, read) ==
  LET after[k \in 0..n] == IF k = 0 THEN r ELSE Further(after[k - 1], read, k) IN after[n]
Allocated(kind, r) ==
  IF r.at < 0 THEN r
  ELSE Got(r, [t |-> kind, v |-> Len(r.objs) + 1], Append(r.objs, [kind |-> kind, data |-> r.val]))
Payload(tag, r) == IF r.at < 0 THEN r ELSE [r EXCEPT !.val = [t |-> TypeOf(tag), v |-> @]]

ReadElements(data, p, objs, read) ==
  IF Field(data, p) < 0 THEN With(objs, Failed(Field(data, p)))
  ELSE Repeat(data[p], With(objs, Done(p + 1, <<>>)), [k \in Nat |-> read])
ReadNested(data, p, objs, read) ==   \* read is for the elements of a list
  IF Field(data, p) < 0 THEN With(objs, Failed(Field(data, p)))
  ELSE IF ~IsTag(data[p]) THEN With(objs, Failed(BadTag))
  ELSE CASE data[p] = TagOf.Null -> With(objs, Done(p + 1, NullValue))
         [] data[p] = TagOf.String -> Allocated("String", With(objs, ReadRun(data, p + 1)))
         [] data[p] = TagOf.List -> Allocated("List", ReadElements(data, p + 1, objs, read))
         [] OTHER -> Payload(data[p], With(objs, ReadField(data, p + 1)))
\* Each list takes a field: there are no more than n in the last n fields.
Reader(data) ==
  LET read[n \in 0..Len(data)] ==
        [x \in Places |-> ReadNested(data, x[1], x[2], IF n = 0 THEN <<>> ELSE read[n - 1])]
  IN  read
ReadValue(data, p, objs) == Reader(data)[Len(data)][<<p, objs>>]

\* Mutant of ReadOperand: a number that is missing counts as 0, as read_u32_or has it.
ReadOperandOr(data, p, objs, kind) ==
  IF kind = "u32" /\ p \notin DOMAIN data THEN With(objs, Done(p, 0))
  ELSE IF kind = "u32" THEN With(objs, ReadField(data, p)) ELSE ReadValue(data, p, objs)
ReadOperand(data, p, objs, kind) ==
  IF kind = "u32" THEN With(objs, ReadField(data, p)) ELSE ReadValue(data, p, objs)
Opcode(op, r) == IF r.at < 0 THEN r ELSE [r EXCEPT !.val = [op |-> op, args |-> @]]
ReadOpcode(data, p, objs) ==
  IF Field(data, p) < 0 THEN With(objs, Failed(Field(data, p)))
  ELSE IF data[p] + 1 \notin DOMAIN Tags THEN With(objs, Failed(BadOpcode))
  ELSE LET op == Tags[data[p] + 1] IN
       Opcode(op, Repeat(Len(Operands(op)), With(objs, Done(p + 1, <<>>)),
                         [k \in Nat |-> [x \in Places |-> ReadOperand(data, x[1], x[2], Operands(op)[k])]]))

\* Parts of a function: name, arity, num_locals, code.
ReadCode(data, p, objs) ==
  IF Field(data, p) < 0 THEN With(objs, Failed(Field(data, p)))
  ELSE Repeat(data[p], With(objs, Done(p + 1, <<>>)),
              [k \in Nat |-> [x \in Places |-> ReadOpcode(data, x[1], x[2])]])
ReadFunctionPart(data, p, objs, k) ==
  CASE k = 1 -> With(objs, ReadRun(data, p))
    [] k \in {2, 3} -> With(objs, ReadField(data, p))
    [] k = 4 -> ReadCode(data, p, objs)
BuildFunction(x) == [name |-> x[1], arity |-> x[2], num_locals |-> x[3], code |-> x[4]]
Function(r) == IF r.at < 0 THEN r ELSE [r EXCEPT !.val = BuildFunction(@)]
\* Mutant of DeserializeFunction: every function has a heap of its own.
DeserializeAlone(data, p, objs) ==
  Function(Repeat(4, With(<<>>, Done(p, <<>>)),
                  [k \in Nat |-> [x \in Places |-> ReadFunctionPart(data, x[1], x[2], k)]]))
DeserializeFunction(data, p, objs) ==
  Function(Repeat(4, With(objs, Done(p, <<>>)),
                  [k \in Nat |-> [x \in Places |-> ReadFunctionPart(data, x[1], x[2], k)]]))

\* The total of instructions is not looked at.
DeserializeModule(data) ==
  IF data = <<>> THEN With(<<>>, Failed(Eof))
  ELSE IF data[1] # PAUB THEN With(<<>>, Failed(BadMagic))
  ELSE IF Len(data) < 2 THEN With(<<>>, Failed(Eof))
  ELSE IF data[2] # ModuleVersion THEN With(<<>>, Failed(BadVersion))
  ELSE IF Len(data) < 4 THEN With(<<>>, Failed(Eof))
  ELSE Repeat(data[3], With(<<>>, Done(5, <<>>)),
              [k \in Nat |-> [x \in Places |-> DeserializeFunction(data, x[1], x[2])]])
-----------------------------------------------------------------------------
(* serialize.rs.  The bytes of a value are those of chunk.rs; SerCtx       *)
(* numbers the objects as it meets them, DeCtx as it allocates them.  A    *)
(* map is the sequence of the objects that have the numbers 0, 1, ...      *)

RecordObject(map, slot) ==
  IF \E k \in DOMAIN map : map[k] = slot THEN map ELSE Append(map, slot)
\* After the elements of s; record is for each of them.
SerMapOf(map, s, record) ==
  LET after[k \in 0..Len(s)] == IF k = 0 THEN map ELSE record[<<after[k - 1], s[k]>>]
  IN  after[Len(s)]
SerMapNested(objs, map, v, record) ==
  CASE v.t = "String" -> RecordObject(map, v.v)
    [] v.t = "List" -> SerMapOf(RecordObject(map, v.v), objs[v.v].data, record)
    [] OTHER -> map
Recorder(objs) ==
  LET record[n \in 0..Len(objs)] ==
        [x \in Seq(Int) \X Stored |-> SerMapNested(objs, x[1], x[2], IF n = 0 THEN <<>> ELSE record[n - 1])]
  IN  record
\* object_map of SerCtx after v.
SerMap(objs, v) == Recorder(objs)[Len(objs)][<<<<>>, v>>]

\* object_map of DeCtx: its length at the time of each allocation in the empty heap.
DeMap(objs) == [k \in DOMAIN objs |-> k]
=============================================================================
