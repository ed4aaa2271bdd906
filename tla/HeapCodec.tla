----------------------------- MODULE HeapCodec ------------------------------
(***************************************************************************)
(* The values of the arenas of HeapVec in module files and serialized.     *)
(***************************************************************************)
EXTENDS HeapVec, ModuleFile

\* Any value that is no handle is written as an Int; a handle has the kind of its
\* object; a string says in which slot it was.
Val(v) ==
  IF v = Prim THEN [t |-> "Int", v |-> 7]
  ELSE [t |-> IF v.index \in DOMAIN objects THEN objects[v.index].kind ELSE v.kind, v |-> v.index]
Contents(i) ==
  IF objects[i].kind = "String" THEN <<i, i>>
  ELSE [k \in DOMAIN objects[i].elems |-> Val(objects[i].elems[k])]
Objs == [i \in DOMAIN objects |-> [kind |-> objects[i].kind, data |-> Contents(i)]]

\* The writers read neither marks nor the free list: one state with each arena.
Built == free_slots = <<>> /\ \A i \in DOMAIN marked : ~marked[i]
WritableValues(objs) ==
  {v \in {[t |-> objs[i].kind, v |-> i] : i \in DOMAIN objs} : Writable(objs, v)}

\* v in objs and w in copies have the same shape and contents; like has the pairs of elements
\* that have.
SameContents(objs, i, copies, j, like) ==
  LET s == objs[i].data  c == copies[j].data IN
  IF objs[i].kind = "String" THEN s = c
  ELSE Len(s) = Len(c) /\ \A k \in DOMAIN s : <<s[k], c[k]>> \in like
SameValue(objs, v, copies, w, like) ==
  IF v.t \notin Handle THEN v = w
  ELSE v.t = w.t /\ Refers(copies, w, DOMAIN copies) /\ SameContents(objs, v.v, copies, w.v, like)
Likes(objs, copies) ==
  LET like[n \in 0..Len(objs)] ==
        {x \in Stored \X Stored : SameValue(objs, x[1], copies, x[2], IF n = 0 THEN {} ELSE like[n - 1])}
  IN  like
Copied(objs, v, copies, w) == <<v, w>> \in Likes(objs, copies)[Len(objs)]

Operation(op, args) == [op |-> op, args |-> args]
\* Two functions with a value in every place where an opcode holds one.
Functions(v) ==
  <<[name |-> <<>>, arity |-> 0, num_locals |-> 2,
     code |-> <<Operation("Push", <<v>>), Operation("FileSeek", <<3, v>>), Operation("Jump", <<1>>)>>],
    [name |-> <<8>>, arity |-> 1, num_locals |-> 1,
     code |-> <<Operation("HttpPost", <<v, [t |-> "Null", v |-> 0]>>), Operation("Dup", <<>>), Operation("Call", <<1>>)>>]>>

SameOpcode(objs, i, copies, j) ==
  /\ i.op = j.op /\ Len(i.args) = Len(j.args)
  /\ \A k \in DOMAIN i.args :
       IF Operands(i.op)[k] = "u32" THEN i.args[k] = j.args[k]
       ELSE Copied(objs, i.args[k], copies, j.args[k])
SameFunction(objs, f, copies, g) ==
  /\ f.name = g.name /\ f.arity = g.arity /\ f.num_locals = g.num_locals
  /\ Len(f.code) = Len(g.code)
  /\ \A k \in DOMAIN f.code : SameOpcode(objs, f.code[k], copies, g.code[k])
-----------------------------------------------------------------------------
\* chunk.rs, deserialize_module: a module comes back with the same functions and values,
\* in an arena of its own, however its values shared objects.
ModuleReadsBack ==
  Built =>
    \A objs \in {Objs} : \A v \in WritableValues(objs) :
      \A r \in {DeserializeModule(SerializeModule(objs, Functions(v)))} :
        r.at > 0 /\ \A k \in 1..2 : SameFunction(objs, Functions(v)[k], r.objs, r.val[k])

\* deserialize_module, "Returns `SerError` if the data is malformed": a module file that
\* was cut, at whichever field, is refused, and not taken for a shorter program.
CutModuleRefused ==
  Built =>
    \A objs \in {Objs} : \A v \in WritableValues(objs) :
      \A data \in {SerializeModule(objs, Functions(v))} :
        \A n \in 0..Len(data) - 1 : DeserializeModule(SubSeq(data, 1, n)).at = Eof

-----------------------------------------------------------------------------
(* What the comments of serialize.rs say of the two maps, checked against  *)
(* the code by a run of its own.                                           *)

\* The numbers of the objects in map are those of their copies in h.
NumbersAgree(objs, map, h) ==
  \A k \in DOMAIN map :
    LET w == DeMap(h)[k] IN
    Copied(objs, [t |-> objs[map[k]].kind, v |-> map[k]], h, [t |-> h[w].kind, v |-> w])

\* serialize.rs: the object_map of DeCtx is "the deserialization counterpart of SerCtx" and
\* "translates sequence numbers back to new Gc handles".  After a value was written and
\* read, each number that SerCtx gave an object is the number of that object's copy.
MapsCorrespond ==
  Built =>
    \A objs \in {Objs} : \A v \in WritableValues(objs) :
      \A r \in {ReadValue(WriteValue(objs, v), 1, <<>>)}, map \in {SerMap(objs, v)} :
        NumbersAgree(objs, map, r.objs)
=============================================================================
