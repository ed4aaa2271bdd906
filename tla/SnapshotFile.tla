---------------------------- MODULE SnapshotFile ----------------------------
(***************************************************************************)
(* The bytes of a snapshot: what Snapshot::capture puts into its sections, *)
(* how write_to_file lays them out, and what read_from_file, restore_into, *)
(* restore_task_tree and restore_io_handles make of them (src/snapshot.rs).*)
(*                                                                         *)
(* A file is a sequence of fields, one per u8, u32, u64, i64 or f64 and    *)
(* one per byte of a string or of a handle's parameters.  A file cut in    *)
(* the middle of a field reads as one cut before it.  A position in a file *)
(* is the number of a field; a reader that fails returns one of the errors *)
(* below, which are not positions.                                         *)
(***************************************************************************)
EXTENDS Integers, Sequences

Seqs == INSTANCE SequencesExt

MAGIC == "PAUS"
VERSION == 3
AllOnes == -1                       \* u32::MAX and u64::MAX: None of an Option

Eof == -1                           \* UnexpectedEof
BadTag == -2                        \* UnknownObjectTag
BadPosition == -3                   \* InvalidHeapPosition
BadMagic == -4
BadVersion == -5                    \* UnsupportedVersion
Panic == -6                         \* data[start..pos] with pos beyond the end

\* TAG_INT, TAG_FLOAT ...  A value is [t, v]; v of a String or a List is the position
\* of the object in the heap section, counted from 1.
TagOf == [Int |-> 0, Float |-> 1, Bool |-> 2, Null |-> 3, String |-> 4, List |-> 5]
TypeOf(tag) == CHOOSE t \in DOMAIN TagOf : TagOf[t] = tag
IsTag(tag) == \E t \in DOMAIN TagOf : TagOf[t] = tag
NullValue == [t |-> "Null", v |-> 0]

\* A snapshot: hash and time of the header, objects [kind, data] of the heap section
\* (bytes of a String, values of a List), frames [function, ip, locals], the stack,
\* handles, and tasks [id, parent, status, pc, children, stack, frames, handles].
\* An Option is a sequence of at most one element.
-----------------------------------------------------------------------------
(* Writing.                                                                *)

Each(Write(_), s) == Seqs!FlattenSeq([k \in DOMAIN s |-> Write(s[k])])
Counted(Write(_), s) == <<Len(s)>> \o Each(Write, s)
Run(w) == <<Len(w)>> \o w
Option(o) == IF o = <<>> THEN <<AllOnes>> ELSE Run(o[1])

WriteValueRef(v) == IF v.t = "Null" THEN <<TagOf.Null>> ELSE <<TagOf[v.t], v.v>>

SerializeHeapObject(obj) ==
  <<TagOf[obj.kind]>>
    \o IF obj.kind = "String" THEN Run(obj.data) ELSE Counted(WriteValueRef, obj.data)

SerializeFrame(f) == <<f.function, f.ip>> \o Counted(WriteValueRef, f.locals)

SerializeIoHandleSnapshot(h) ==
  <<h.id, h.kind, h.strategy>> \o Run(h.params) \o Option(h.cached)
    \o (IF h.position = <<>> THEN <<AllOnes>> ELSE h.position)

SerializeTaskSnapshot(t) ==
  <<t.id>> \o Run(t.parent) \o (<<t.status>> \o t.pc) \o Run(t.children)
    \o Counted(WriteValueRef, t.stack) \o Counted(SerializeFrame, t.frames)
    \o Counted(SerializeIoHandleSnapshot, t.handles)

\* Mutant of Header: the number of tasks is not counted.
HeaderNoTasks(s) == <<MAGIC, VERSION, s.hash, s.time, Len(s.objects), Len(s.frames), Len(s.stack),
                      Len(s.handles), 0>>
Header(s) == <<MAGIC, VERSION, s.hash, s.time, Len(s.objects), Len(s.frames), Len(s.stack),
               Len(s.handles), Len(s.tasks)>>

WriteToFile(s) ==
  Header(s) \o Each(SerializeHeapObject, s.objects) \o Counted(SerializeFrame, s.frames)
    \o Counted(WriteValueRef, s.stack) \o Counted(SerializeIoHandleSnapshot, s.handles)
    \o Counted(SerializeTaskSnapshot, s.tasks)
-----------------------------------------------------------------------------
(* Finding the ends of the sections: read_from_bytes and skip_*.  A skip   *)
(* moves the position without looking whether the data goes that far.      *)

At(p, q) == IF p < 0 THEN p ELSE q                        \* the ? of Rust
Present(data, p) == At(p, IF p \in DOMAIN data THEN p ELSE Eof)
Field(data, p) == At(Present(data, p), p + 1)             \* read_u8, read_u32, read_u64
\* The loops of the source: skip is applied n times.
Then(p, skip) == IF p < 0 THEN p ELSE skip[p]
Times(n, p, skip) ==
  LET after[k \in 0..n] == IF k = 0 THEN p ELSE Then(after[k - 1], skip)
  IN  after[n]
\* A number, then as many units, or entries, as it says.
SkipRun(data, p) == At(Field(data, p), p + 1 + data[p])
SkipCounted(data, p, Skip(_, _)) ==
  At(Field(data, p), Times(data[p], p + 1, [q \in Int |-> Skip(data, q)]))

SkipValue(data, p) ==
  At(Field(data, p),
     IF ~IsTag(data[p]) THEN BadTag ELSE IF data[p] = TagOf.Null THEN p + 1 ELSE p + 2)
SkipValues(data, p) == SkipCounted(data, p, SkipValue)

SkipHeapObject(data, p) ==
  At(Field(data, p),
     IF data[p] = TagOf.String THEN SkipRun(data, p + 1)
     ELSE IF data[p] = TagOf.List THEN SkipValues(data, p + 1) ELSE BadTag)

SkipFrameEntry(data, p) == SkipValues(data, At(p, p + 2))

SkipCached(data, p) ==                                      \* and the position after it
  At(Field(data, p), p + 2 + IF data[p] = AllOnes THEN 0 ELSE data[p])
SkipIoEntry(data, p) == SkipCached(data, SkipRun(data, p + 3))

\* Fields that follow a status: the pc of a Yielded task.
Pc(status) == IF status = 1 THEN 1 ELSE 0
\* Mutant of SkipStatus: the pc of a Yielded task is not skipped.
SkipKind(data, p) == Field(data, p)
SkipStatus(data, p) == At(Field(data, p), p + 1 + Pc(data[p]))
SkipTaskEntry(data, p) ==
  SkipCounted(data,
    SkipCounted(data,
      SkipValues(data, SkipRun(data, SkipStatus(data, SkipRun(data, p + 1)))),
      SkipFrameEntry),
    SkipIoEntry)

\* The slice data[start..pos] of a section of n entries.
Slice(data, p) == IF p > Len(data) + 1 THEN Panic ELSE p
Section(data, p, n, Skip(_, _)) == Slice(data, Times(n, p, [q \in Int |-> Skip(data, q)]))
CountedSection(data, p, n, Skip(_, _)) == Section(data, Field(data, p), n, Skip)

\* Fields of the header that a version does not have count as 0.
HeaderSize(version) == IF version <= 1 THEN 7 ELSE IF version = 2 THEN 8 ELSE 9
Count(data, k) == IF k <= HeaderSize(data[2]) THEN data[k] ELSE 0

\* Where the five sections end.
EndHeap(data) == Section(data, HeaderSize(data[2]) + 1, data[5], SkipHeapObject)
EndFrames(data, p) == CountedSection(data, p, data[6], SkipFrameEntry)
EndStack(data, p) == CountedSection(data, p, data[7], SkipValue)
EndIo(data, p) == IF data[2] < 2 THEN p ELSE CountedSection(data, p, Count(data, 8), SkipIoEntry)
EndTasks(data, p) ==
  IF Count(data, 9) = 0 THEN p ELSE CountedSection(data, p, Count(data, 9), SkipTaskEntry)

Cut(data, ends) ==
  IF ends[5] < 0 THEN [error |-> ends[5]]
  ELSE [error |-> 0, hash |-> data[3], time |-> data[4], heapCount |-> data[5],
        ioCount |-> Count(data, 8), taskCount |-> Count(data, 9),
        heapData    |-> SubSeq(data, HeaderSize(data[2]) + 1, ends[1] - 1),
        framesData  |-> SubSeq(data, ends[1], ends[2] - 1),
        stackData   |-> SubSeq(data, ends[2], ends[3] - 1),
        ioSection   |-> SubSeq(data, ends[3], ends[4] - 1),
        taskSection |-> SubSeq(data, ends[4], ends[5] - 1)]
\* An error stays the end of all that follows.
EndOf(data, k, p) ==
  CASE k = 1 -> EndHeap(data) [] k = 2 -> EndFrames(data, p) [] k = 3 -> EndStack(data, p)
    [] k = 4 -> EndIo(data, p) [] k = 5 -> EndTasks(data, p)
Ends(data) ==
  LET end[k \in 1..5] == EndOf(data, k, IF k = 1 THEN 0 ELSE end[k - 1])
  IN  end

\* read_from_bytes: the counts of the header and the bytes of the sections, or an error.
ReadFromBytes(data) ==
  IF data = <<>> THEN [error |-> Eof]
  ELSE IF data[1] # MAGIC THEN [error |-> BadMagic]
  ELSE IF Len(data) < 2 THEN [error |-> Eof]
  ELSE IF data[2] > VERSION THEN [error |-> BadVersion]
  ELSE IF Len(data) < HeaderSize(data[2]) THEN [error |-> Eof]
  ELSE Cut(data, Ends(data))
-----------------------------------------------------------------------------
(* Parsing the sections: restore_into, restore_task_tree and               *)
(* restore_io_handles.  A reader returns where it stopped and what it read;*)
(* where it stopped is an error when it failed.                            *)

Failed(error) == [at |-> error, val |-> <<>>]
Done(p, val) == [at |-> p, val |-> val]
\* n readings; read[k][q] is the k-th, when it begins at q.
Joined(done, x) == Done(x.at, Append(done, x.val))
More(r, read, k) == IF r.at < 0 THEN r ELSE Joined(r.val, read[k][r.at])
ReadMany(n, p, read) ==
  LET after[k \in 0..n] == IF k = 0 THEN Done(p, <<>>) ELSE More(after[k - 1], read, k)
  IN  after[n]

ReadField(data, p) ==
  IF Field(data, p) < 0 THEN Failed(Field(data, p)) ELSE Done(p + 1, data[p])
ReadUnits(data, p, n) ==
  IF p + n > Len(data) + 1 THEN Failed(Eof) ELSE Done(p + n, SubSeq(data, p, p + n - 1))
ReadRun(data, p) ==
  IF Field(data, p) < 0 THEN Failed(Field(data, p)) ELSE ReadUnits(data, p + 1, data[p])
ReadCounted(data, p, Read(_)) ==
  IF Field(data, p) < 0 THEN Failed(Field(data, p))
  ELSE ReadMany(data[p], p + 1, [k \in Nat |-> [q \in Int |-> Read(q)]])

\* known are the positions in pos_to_gc.  Objects are allocated one after the other in
\* an empty arena, so a position is also the slot.
ReadValueRef(data, p, known) ==
  IF Field(data, p) < 0 THEN Failed(Field(data, p))
  ELSE IF ~IsTag(data[p]) THEN Failed(BadTag)
  ELSE IF data[p] = TagOf.Null THEN Done(p + 1, NullValue)
  ELSE IF Field(data, p + 1) < 0 THEN Failed(Eof)
  ELSE IF data[p] \in {TagOf.String, TagOf.List} /\ data[p + 1] \notin known THEN Failed(BadPosition)
  ELSE Done(p + 2, [t |-> TypeOf(data[p]), v |-> data[p + 1]])
ReadValues(data, p, known) == ReadCounted(data, p, LAMBDA q : ReadValueRef(data, q, known))

\* One turn of the loop of restore_into: the objects before this one are known.
Tagged(tag, body) ==
  IF body.at < 0 THEN body ELSE Done(body.at, [kind |-> TypeOf(tag), data |-> body.val])
ReadHeapObject(data, p, known) ==
  IF Field(data, p) < 0 THEN Failed(Field(data, p))
  ELSE IF data[p] = TagOf.String THEN Tagged(data[p], ReadRun(data, p + 1))
  ELSE IF data[p] = TagOf.List THEN Tagged(data[p], ReadValues(data, p + 1, known))
  ELSE Failed(BadTag)
\* Mutant of RestoredObjects: all positions are known beforehand.
RestoredAllKnown(data, count) ==
  ReadMany(count, 1, [k \in Nat |-> [p \in Int |-> ReadHeapObject(data, p, 1..count)]])
RestoredObjects(data, count) ==
  ReadMany(count, 1, [k \in Nat |-> [p \in Int |-> ReadHeapObject(data, p, 1..k - 1)]])

\* An entry is read part by part.
Entry(r, Build(_)) == IF r.at < 0 THEN r ELSE Done(r.at, Build(r.val))

ReadFramePart(data, p, known, k) ==
  IF k < 3 THEN ReadField(data, p) ELSE ReadValues(data, p, known)
BuildFrame(x) == [function |-> x[1], ip |-> x[2], locals |-> x[3]]
ReadFrame(data, p, known) ==
  Entry(ReadMany(3, p, [k \in Nat |-> [q \in Int |-> ReadFramePart(data, q, known, k)]]), BuildFrame)
ReadFrames(data, p, known) == ReadCounted(data, p, LAMBDA q : ReadFrame(data, q, known))

ReadCached(data, p) ==
  IF p \in DOMAIN data /\ data[p] = AllOnes THEN Done(p + 1, <<>>)
  ELSE Entry(ReadRun(data, p), LAMBDA bytes : <<bytes>>)
ReadHandlePart(data, p, k) ==
  CASE k \in {1, 2, 3, 6} -> ReadField(data, p)
    [] k = 4 -> ReadRun(data, p)
    [] k = 5 -> ReadCached(data, p)
BuildHandle(x) == [id |-> x[1], kind |-> x[2], strategy |-> x[3], params |-> x[4],
                   cached |-> x[5],
                   position |-> IF x[6] = AllOnes THEN <<>> ELSE <<x[6]>>]
DeserializeIoHandleSnapshot(data, p) ==
  Entry(ReadMany(6, p, [k \in Nat |-> [q \in Int |-> ReadHandlePart(data, q, k)]]), BuildHandle)
ReadHandles(data, p) ==
  ReadCounted(data, p, LAMBDA q : DeserializeIoHandleSnapshot(data, q))

\* One turn of the loop of restore_task_tree.
ReadStatus(data, p) ==
  IF Field(data, p) < 0 THEN Failed(Field(data, p))
  ELSE Entry(ReadUnits(data, p + 1, Pc(data[p])), LAMBDA pc : <<data[p], pc>>)
ReadTaskPart(data, p, known, k) ==
  CASE k = 1 -> ReadField(data, p)
    [] k \in {2, 4} -> ReadRun(data, p)
    [] k = 3 -> ReadStatus(data, p)
    [] k = 5 -> ReadValues(data, p, known)
    [] k = 6 -> ReadFrames(data, p, known)
    [] k = 7 -> ReadHandles(data, p)
BuildTask(x) == [id |-> x[1], parent |-> x[2], status |-> x[3][1], pc |-> x[3][2],
                 children |-> x[4], stack |-> x[5], frames |-> x[6], handles |-> x[7]]
ReadTask(data, p, known) ==
  Entry(ReadMany(7, p, [k \in Nat |-> [q \in Int |-> ReadTaskPart(data, q, known, k)]]), BuildTask)
ReadTasks(f) ==
  IF f.taskCount = 0 THEN Done(1, <<>>)
  ELSE ReadCounted(f.taskSection, 1, LAMBDA q : ReadTask(f.taskSection, q, 1..f.heapCount))

\* The reader of the handles passes over an entry that it cannot read.
Parsed(f, heap, frames, stack, tasks, handles) ==
  LET ends   == <<heap.at, frames.at, stack.at, tasks.at>>
      failed == {k \in DOMAIN ends : ends[k] < 0}
  IN  IF failed # {} THEN [error |-> ends[Seqs!Min(failed)]]
      ELSE [error |-> 0, hash |-> f.hash, time |-> f.time, objects |-> heap.val,
            frames |-> frames.val, stack |-> stack.val, handles |-> handles.val,
            tasks |-> tasks.val]
\* What resume makes of the sections.
ReadSections(f) ==
  IF f.error # 0 THEN [error |-> f.error]
  ELSE Parsed(f, RestoredObjects(f.heapData, f.heapCount),
              ReadFrames(f.framesData, 1, 1..f.heapCount),
              ReadValues(f.stackData, 1, 1..f.heapCount), ReadTasks(f),
              IF f.ioCount = 0 THEN Done(1, <<>>) ELSE ReadHandles(f.ioSection, 1))
ReadSnapshot(data) == ReadSections(ReadFromBytes(data))

Same(read, s) == read.error = 0 /\ \A f \in DOMAIN s : read[f] = s[f]
\* Bound variables, of which TLC makes values once, where a LET would do.
FileReadsBack(snapshots) ==
  \A s \in snapshots : \A data \in {WriteToFile(s)} : Same(ReadSnapshot(data), s)
=============================================================================
