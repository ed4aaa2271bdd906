--------------------------- MODULE HandlesProofs ---------------------------
(***************************************************************************)
(* Proofs about FileHandles, for a file, positions and handles of any size, *)
(* and about Connections, for every set of answers and payloads and however *)
(* often the peer is reached.                                               *)
(***************************************************************************)
EXTENDS FileHandles, Connections, TLAPS

\* A copy of the handle: the VM's, the one in the root's entry, and the two places
\* of a snapshot.
Copy == Handle \cup {None}

\* What every copy keeps: its position is not ahead of the uninterrupted reader's,
\* and the cache of a Cached handle is the latest data.
Good(h) ==
  h # None => /\ h.position <= h.due
              /\ h.strategy = "Cached" => h.cached = h.seen

\* A snapshot that a Yield took has the handle with the task, and nowhere else.
TakenByYield(s) == s.atYield => s.hasTask /\ s.global = None /\ s.of = s.task

\* No snapshot has a File in it.
Bare(h) == h # None => h.cursor = None

\* The invariant is about every copy, as each may become the VM's handle again.
IInv ==
  /\ FileTypeOK
  /\ Good(handle) /\ Good(entry)
  /\ saved # None => /\ Good(saved.task) /\ Good(saved.global)
                     /\ Bare(saved.task) /\ Bare(saved.global) /\ TakenByYield(saved)

-----------------------------------------------------------------------------
(* The contents of a file.                                                 *)

LEMMA ContentsAreSequences ==
  ASSUME NEW c \in Contents
  PROVE  c \in Seq(Bytes) /\ Len(c) \in 0..MaxLen
BY FileConstants DEF Contents, BoundedSeq, SeqOf

LEMMA SequencesAreContents ==
  ASSUME NEW c \in Seq(Bytes), Len(c) <= MaxLen
  PROVE  c \in Contents
<1>1. c \in [1..Len(c) -> Bytes] /\ Len(c) \in 0..MaxLen
  BY FileConstants
<1> QED
  BY <1>1 DEF Contents, BoundedSeq, SeqOf

LEMMA EmptyFile == <<>> \in Contents
<1>1. <<>> \in Seq(Bytes) /\ Len(<<>>) <= MaxLen
  BY FileConstants
<1> QED
  BY <1>1, SequencesAreContents

\* A read to the end of the file gives what lies behind the position, if anything.
LEMMA ReadToEnd ==
  ASSUME content \in Contents, NEW p \in Nat
  PROVE  /\ From(p) \in Contents
         /\ Len(From(p)) = IF p < Len(content) THEN Len(content) - p ELSE 0
<1>1. content \in Seq(Bytes) /\ Len(content) \in 0..MaxLen
  BY ContentsAreSequences
<1>2. /\ From(p) \in Seq(Bytes)
      /\ Len(From(p)) = IF p < Len(content) THEN Len(content) - p ELSE 0
  BY <1>1, FileConstants DEF From
<1> QED
  BY <1>1, <1>2, SequencesAreContents, FileConstants

\* So a read ends at the end of the file or where it began, and the later of two
\* readers stays the later.
LEMMA ReadsKeepOrder ==
  ASSUME content \in Contents, NEW p \in Position, NEW q \in Position, p <= q
  PROVE  /\ p + Len(From(p)) \in Position /\ p <= p + Len(From(p))
         /\ p + Len(From(p)) <= q + Len(From(q))
<1>1. Len(content) \in 0..MaxLen
  BY ContentsAreSequences
<1>2. p \in Nat /\ q \in Nat /\ p < Width /\ q < Width /\ MaxLen < Width
  BY FileConstants DEF Position
<1> QED
  BY <1>1, <1>2, ReadToEnd, FileConstants DEF Position

-----------------------------------------------------------------------------
(* The operators on a handle keep a copy good.                             *)

LEMMA CloneKeeps ==
  ASSUME NEW h \in Copy, Good(h)
  PROVE  Clone(h) \in Copy /\ Good(Clone(h)) /\ Bare(Clone(h))
BY DEF Copy, Handle, Good, Bare, Clone

LEMMA UpdateKeeps ==
  ASSUME NEW h \in Handle,
         NEW pos \in Position, NEW cur \in Position \cup {None}, NEW due \in Position,
         NEW cache \in Contents \cup {None}, NEW seen \in Contents \cup {None},
         pos <= due, h.strategy = "Cached" => cache = seen
  PROVE  LET u == [h EXCEPT !.position = pos, !.cursor = cur, !.cached = cache,
                            !.due = due, !.seen = seen]
         IN  u \in Handle /\ Good(u)
BY DEF Handle, Good

LEMMA FieldTypes ==
  ASSUME NEW h \in Handle, h # None, Good(h)
  PROVE  /\ h.position \in Position /\ h.due \in Position /\ h.position <= h.due
         /\ h.position \in Nat /\ h.due \in Nat
         /\ h.cursor \in Position \cup {None}
         /\ h.cached \in Contents \cup {None} /\ h.seen \in Contents \cup {None}
         /\ h.strategy = "Cached" => h.cached = h.seen
BY FileConstants DEF Handle, Good, Position

LEMMA ReconnectKeeps ==
  ASSUME exists \in BOOLEAN, NEW s \in Handle, Good(s), s # None
  PROVE  Reconnect(s) \in Handle /\ Good(Reconnect(s))
<1> DEFINE p == ReadBack(s.position)
           pos == IF exists /\ ~Seekable(p) THEN 0 ELSE p
           cur == IF exists /\ Seekable(p) THEN p ELSE None
<1>1. 0 \in Position /\ 0 <= s.due
  BY FieldTypes, FileConstants DEF Position
<1>2. p \in Position /\ p <= s.due
  BY <1>1, FieldTypes DEF ReadBack
<1>3. pos \in Position /\ pos <= s.due /\ cur \in Position \cup {None}
  BY <1>1, <1>2
<1>4. Reconnect(s) = [s EXCEPT !.position = pos, !.cursor = cur, !.cached = s.cached,
                               !.due = s.due, !.seen = s.seen]
  BY DEF Reconnect, Handle
<1> HIDE DEF p, pos, cur
<1>5. /\ s.due \in Position /\ s.cached \in Contents \cup {None} /\ s.seen \in Contents \cup {None}
      /\ s.strategy = "Cached" => s.cached = s.seen
  BY FieldTypes
<1> DEFINE u == [s EXCEPT !.position = pos, !.cursor = cur, !.cached = s.cached,
                          !.due = s.due, !.seen = s.seen]
<1>6. u \in Handle /\ Good(u)
  BY <1>3, <1>5, UpdateKeeps
<1> QED
  BY <1>4, <1>6

\* What a read returns is data of the file or of the cache, and the position after it
\* is at most where the uninterrupted reader's is after the same read.
LEMMA ReadKeeps ==
  ASSUME content \in Contents, NEW h \in Handle, h # None, Good(h), Reading(h).data # None
  PROVE  LET r == Reading(h)
             h2 == [r.after EXCEPT
                      !.seen = r.data,
                      !.due  = IF h.strategy = "Seek" THEN @ + Len(From(@)) ELSE @]
         IN  h2 \in Handle /\ Good(h2)
<1> DEFINE r == Reading(h)
           due == IF h.strategy = "Seek" THEN h.due + Len(From(h.due)) ELSE h.due
           h2 == [r.after EXCEPT
                    !.seen = r.data,
                    !.due  = IF h.strategy = "Seek" THEN @ + Len(From(@)) ELSE @]
           Updated(pos, cur, data) ==
             [h EXCEPT !.position = pos, !.cursor = cur, !.cached = data,
                       !.due = due, !.seen = data]
<1>1. /\ h.position \in Position /\ h.due \in Position /\ h.position <= h.due
      /\ h.position \in Nat /\ h.due \in Nat
      /\ h.cursor \in Position \cup {None} /\ h.cached \in Contents \cup {None}
  BY FieldTypes
<1>2. due \in Position /\ h.due <= due /\ due \in Nat
  <2>1. h.due + Len(From(h.due)) \in Position /\ h.due <= h.due + Len(From(h.due))
    BY <1>1, ReadsKeepOrder
  <2> QED
    BY <2>1, <1>1, FileConstants DEF Position
<1>3. h.position <= due
  BY <1>1, <1>2
<1>4. PICK pos \in Position, cur \in Position \cup {None}, data \in Contents \cup {None} :
        h2 = Updated(pos, cur, data) /\ pos <= due
  <2>1. CASE h.strategy = "Cached" /\ h.cached # None
    <3>1. h2 = Updated(h.position, h.cursor, h.cached)
      BY <2>1 DEF Reading, Handle
    <3> QED
      BY <3>1, <1>1, <1>3
  <2>2. CASE h.strategy = "Seek" /\ h.cursor # None
    <3> DEFINE at == IF Seekable(h.position) THEN h.position ELSE h.cursor
               end == at + Len(From(at))
    <3>1. at \in Position /\ at \in Nat
      BY <1>1, <2>2, FileConstants DEF Position
    <3>2. end \in Position /\ From(at) \in Contents
      BY <3>1, ReadsKeepOrder, ReadToEnd
    <3>3. h2 = Updated(h.position, end, From(at))
      BY <2>2 DEF Reading, Handle
    <3> QED
      BY <3>2, <3>3, <1>1, <1>3
  <2>3. CASE h.strategy = "Seek" /\ h.cursor = None
    <3> DEFINE end == Advanced(h.position)
    <3>1. end \in Position /\ end <= due /\ From(h.position) \in Contents
      BY <1>1, <2>3, ReadsKeepOrder, ReadToEnd DEF Advanced
    <3> DEFINE moved == [h EXCEPT !.position = end, !.cached = From(h.position)]
    <3>2. r.data = From(h.position) /\ r.after = moved
      BY <2>3 DEF Reading
    <3>3. moved.due = h.due
      BY DEF Handle
    <3> HIDE DEF end
    <3>4. h2 = [moved EXCEPT !.seen = From(h.position), !.due = due]
      BY <2>3, <3>2, <3>3
    <3>5. @ = Updated(end, h.cursor, From(h.position))
      BY DEF Handle
    <3>6. h2 = Updated(end, h.cursor, From(h.position))
      BY <3>4, <3>5
    <3> HIDE DEF moved, due, h2, Updated
    <3> QED
      BY <3>1, <3>6, <1>1
  <2>4. CASE h.strategy # "Seek" /\ ~(h.strategy = "Cached" /\ h.cached # None)
    <3>1. r.data = content /\ r.after = [h EXCEPT !.cached = content]
      BY <2>4 DEF Reading
    <3> DEFINE cached == [h EXCEPT !.cached = content]
    <3>2. cached.due = h.due
      BY DEF Handle
    <3>3. h2 = [cached EXCEPT !.seen = content, !.due = due]
      BY <2>4, <3>1, <3>2
    <3>4. @ = Updated(h.position, h.cursor, content)
      BY DEF Handle
    <3> QED
      BY <3>3, <3>4, <1>1, <1>3
  <2> QED
    BY <2>1, <2>2, <2>3, <2>4
<1> HIDE DEF h2, due
<1>5. Updated(pos, cur, data) \in Handle /\ Good(Updated(pos, cur, data))
  <2>1. data \in Contents \cup {None}
    OBVIOUS
  <2> QED
    BY <1>2, <1>4, <2>1, UpdateKeeps
<1> QED
  BY <1>4, <1>5 DEF h2

LEMMA RecacheKeeps ==
  ASSUME NEW h \in Handle, Good(h), h # None, NEW bytes \in Contents
  PROVE  Recached(h, bytes) \in Handle /\ Good(Recached(h, bytes))
<1> DEFINE cache == IF h.strategy = "Cached" THEN bytes ELSE h.cached
           u == [h EXCEPT !.position = h.position, !.cursor = h.cursor, !.cached = cache,
                          !.due = h.due, !.seen = bytes]
<1>1. Recached(h, bytes) = u
  BY DEF Recached, Handle
<1>2. u \in Handle /\ Good(u)
  BY FieldTypes, UpdateKeeps
<1> QED
  BY <1>1, <1>2

-----------------------------------------------------------------------------
(* The invariant.                                                          *)

LEMMA InitKeeps == Init => IInv
BY DEF Init, IInv, FileTypeOK, Good

\* The opcodes change the VM's copy and the file.
LEMMA OpcodesKeep ==
  ASSUME IInv,
         \/ \E kind \in Kinds : Open(kind[1], kind[2])
         \/ FileRead
         \/ \E bytes \in Contents : FileWrite(bytes) \/ FileWriteFails(bytes)
         \/ FileWriteNothing
         \/ \E offset \in Offsets : FileSeek(offset)
         \/ FileClose
  PROVE  IInv'
<1>1. /\ content \in Contents /\ exists \in BOOLEAN /\ handle \in Handle \cup {None} /\ Good(handle)
      /\ opened \in BOOLEAN
  BY DEF IInv, FileTypeOK
<1>2. /\ entry' = entry /\ yielded' = yielded /\ saved' = saved
      /\ opened' \in BOOLEAN
  BY <1>1 DEF Open, FileRead, FileWrite, FileWriteFails, FileWriteNothing, FileSeek, FileClose, machine
<1>3. /\ content' \in Contents /\ exists' \in BOOLEAN
  BY <1>1 DEF Open, FileRead, FileWrite, FileWriteFails, FileWriteNothing, FileSeek, FileClose, file
<1>4. handle' \in Handle \cup {None} /\ Good(handle)'
  <2>1. CASE \E kind \in Kinds : Open(kind[1], kind[2])
    <3>1. PICK kind \in Modes \X Strategies : handle' = New(kind[1], kind[2])
      BY <2>1, FileConstants DEF Open
    <3>2. New(kind[1], kind[2]) \in Handle /\ Good(New(kind[1], kind[2]))
      <4>1. 0 \in Position
        BY FileConstants DEF Position
      <4> QED
        BY <4>1 DEF New, Handle, Good
    <3> QED
      BY <3>1, <3>2 DEF Good
  <2>2. CASE FileRead
    <3> DEFINE r == Reading(handle)
               h2 == [r.after EXCEPT
                        !.seen = r.data,
                        !.due  = IF handle.strategy = "Seek" THEN @ + Len(From(@)) ELSE @]
    <3>1. handle # None /\ Reading(handle).data # None /\ handle' = h2
      BY <2>2 DEF FileRead
    <3>2. h2 \in Handle /\ Good(h2)
      BY <1>1, <3>1, ReadKeeps
    <3> HIDE DEF h2
    <3> QED
      BY <3>1, <3>2 DEF Good
  <2>3. CASE \E bytes \in Contents : FileWrite(bytes) \/ FileWriteFails(bytes)
    <3>1. PICK bytes \in Contents : FileWrite(bytes) \/ FileWriteFails(bytes)
      BY <2>3
    <3>2. handle # None /\ (handle' = Recached(handle, bytes) \/ handle' = handle)
      BY <3>1 DEF FileWrite, FileWriteFails, Writable
    <3>3. Recached(handle, bytes) \in Handle /\ Good(Recached(handle, bytes))
      BY <1>1, <3>2, RecacheKeeps
    <3> QED
      BY <1>1, <3>2, <3>3 DEF Good
  <2>4. CASE FileWriteNothing
    <3>1. <<>> \in Contents
      BY EmptyFile
    <3>2. handle # None /\ handle' = Recached(handle, <<>>)
      BY <2>4 DEF FileWriteNothing
    <3>3. Recached(handle, <<>>) \in Handle /\ Good(Recached(handle, <<>>))
      BY <1>1, <3>1, <3>2, RecacheKeeps
    <3> QED
      BY <3>2, <3>3 DEF Good
  <2>5. CASE \E offset \in Offsets : FileSeek(offset)
    <3>1. PICK offset \in Offsets : FileSeek(offset)
      BY <2>5
    <3> DEFINE to == AsU64(offset)
               cur == IF handle.cursor # None /\ Seekable(to) THEN to ELSE handle.cursor
               u == [handle EXCEPT !.position = to, !.cursor = cur, !.cached = handle.cached,
                                   !.due = to, !.seen = handle.seen]
    <3>2. to \in Position /\ to <= to
      BY FileConstants DEF AsU64, Offsets, Position
    <3>3. handle # None /\ handle \in Handle /\ handle' = u
      BY <3>1, <1>1 DEF FileSeek, Handle
    <3>4. u \in Handle /\ Good(u)
      <4> HIDE DEF to
      <4>1. cur \in Position \cup {None}
        BY <3>2, <3>3, <1>1, FieldTypes
      <4> HIDE DEF cur
      <4> QED
        BY <3>2, <3>3, <4>1, <1>1, FieldTypes, UpdateKeeps
    <3> HIDE DEF u
    <3> QED
      BY <3>3, <3>4 DEF Good
  <2>6. CASE FileClose
    BY <2>6 DEF FileClose, Good
  <2> QED
    BY <2>1, <2>2, <2>3, <2>4, <2>5, <2>6
<1> QED
  BY <1>2, <1>3, <1>4 DEF IInv, FileTypeOK, Good, Bare, TakenByYield

\* Snapshots and resumes copy handles; a new process and others change the rest.
LEMMA HostsKeep ==
  ASSUME IInv, Yield \/ HostCreateSnapshot \/ HostRestart \/ HostResume \/ Change \/ Unlink
  PROVE  IInv'
<1>1. /\ content \in Contents /\ exists \in BOOLEAN /\ yielded \in BOOLEAN /\ opened \in BOOLEAN
      /\ handle \in Copy /\ Good(handle) /\ entry \in Copy /\ Good(entry)
  BY DEF IInv, FileTypeOK, Copy
<1>2. ASSUME saved # None
      PROVE  /\ saved \in Snapshot /\ TakenByYield(saved)
             /\ saved.task \in Copy /\ Good(saved.task) /\ Bare(saved.task)
             /\ saved.global \in Copy /\ Good(saved.global) /\ Bare(saved.global)
             /\ saved.hasTask \in BOOLEAN
  BY <1>2 DEF IInv, FileTypeOK, Snapshot, Copy
<1>3. /\ None \in Copy /\ Good(None) /\ Bare(None)
      /\ Clone(handle) \in Copy /\ Good(Clone(handle)) /\ Bare(Clone(handle))
      /\ Clone(entry) \in Copy /\ Good(Clone(entry)) /\ Bare(Clone(entry))
  BY <1>1, CloneKeeps DEF Copy, Good, Bare
<1>4. CASE Yield
  <2> DEFINE c == Clone(handle)
             snap == [hasTask |-> TRUE, task |-> Clone(c), global |-> IF c = None THEN c ELSE None,
                      atYield |-> TRUE, of |-> c]
  <2>1. /\ entry' = c /\ yielded' = TRUE /\ saved' = snap
        /\ handle' = handle /\ content' = content /\ exists' = exists /\ opened' = opened
    BY <1>4 DEF Yield, Saving, Captured, file, Clone
  <2>2. Clone(c) = c
    BY <1>1 DEF Clone, Copy, Handle
  <2>3. /\ snap \in Snapshot /\ snap.task = c /\ snap.global = None /\ TakenByYield(snap)
    BY <1>3, <2>2 DEF Snapshot, Copy, TakenByYield
  <2> HIDE DEF c, snap
  <2>4. c \in Copy /\ Good(c) /\ Bare(c)
    BY <1>3 DEF c
  <2> QED
    BY <1>1, <1>3, <2>1, <2>3, <2>4 DEF IInv, FileTypeOK, Copy, Good, Bare, TakenByYield
<1>5. CASE HostCreateSnapshot
  <2> DEFINE task == IF yielded THEN Clone(entry) ELSE None
             global == IF entry = None THEN Clone(handle) ELSE None
             snap == [hasTask |-> yielded, task |-> task, global |-> global,
                      atYield |-> FALSE, of |-> None]
  <2>1. /\ saved' = snap /\ UNCHANGED <<content, exists, handle, entry, yielded, opened>>
    BY <1>5 DEF HostCreateSnapshot, Saving, Captured, file
  <2>2. /\ task \in Copy /\ Good(task) /\ Bare(task)
        /\ global \in Copy /\ Good(global) /\ Bare(global)
    BY <1>1, <1>3
  <2> HIDE DEF task, global
  <2>3. /\ snap \in Snapshot /\ snap.task = task /\ snap.global = global /\ TakenByYield(snap)
    BY <1>1, <1>3, <2>2 DEF Snapshot, Copy, TakenByYield
  <2> HIDE DEF snap
  <2> QED
    BY <1>1, <2>1, <2>2, <2>3 DEF IInv, FileTypeOK, Copy, Good, Bare, TakenByYield
<1>6. CASE HostRestart
  BY <1>1, <1>3, <1>6 DEF HostRestart, file, IInv, FileTypeOK, Good, Bare, TakenByYield
<1>7. CASE HostResume
  <2>1. saved # None /\ UNCHANGED <<content, exists, saved>>
    BY <1>7 DEF HostResume, file
  <2>2. ASSUME NEW s \in {saved.task, saved.global}
        PROVE  Reconnected(s) \in Copy /\ Good(Reconnected(s))
    <3>1. s \in Copy /\ Good(s)
      BY <1>2, <2>1
    <3>2. CASE s = None
      BY <3>2, <1>3 DEF Reconnected
    <3>3. CASE s # None
      <4>1. s \in Handle
        BY <3>1, <3>3 DEF Copy
      <4>2. Reconnect(s) \in Handle /\ Good(Reconnect(s))
        BY <4>1, <3>1, <3>3, <1>1, ReconnectKeeps
      <4> QED
        BY <3>3, <4>2 DEF Reconnected, Copy
    <3> QED
      BY <3>2, <3>3
  <2>3. entry' \in Copy /\ Good(entry')
    BY <1>1, <1>7, <2>2 DEF HostResume
  <2>4. handle' \in Copy /\ Good(handle')
    <3>1. Clone(Reconnected(saved.task)) \in Copy /\ Good(Clone(Reconnected(saved.task)))
      BY <2>2, CloneKeeps
    <3> QED
      BY <1>1, <1>7, <2>2, <3>1 DEF HostResume
  <2>5. yielded' \in BOOLEAN /\ opened' \in BOOLEAN
    BY <1>1, <1>2, <1>7, <2>1 DEF HostResume
  <2> QED
    BY <1>1, <1>2, <2>1, <2>3, <2>4, <2>5 DEF IInv, FileTypeOK, Copy, Good, Bare, TakenByYield
<1>8. CASE Change
  BY <1>8, <1>1 DEF Change, machine, IInv, FileTypeOK, Good, Bare, TakenByYield
<1>9. CASE Unlink
  BY <1>9, <1>1 DEF Unlink, machine, IInv, FileTypeOK, Good, Bare, TakenByYield
<1> QED
  BY <1>4, <1>5, <1>6, <1>7, <1>8, <1>9

\* Every step keeps the invariant.
LEMMA StepKeeps == IInv /\ [Next]_vars => IInv'
<1> SUFFICES ASSUME IInv, [Next]_vars PROVE IInv'
  OBVIOUS
<1>1. CASE UNCHANGED vars
  BY <1>1 DEF vars, IInv, FileTypeOK, Good, Bare, TakenByYield
<1> QED
  BY <1>1, OpcodesKeep, HostsKeep DEF Next

LEMMA Invariant == Spec => []IInv
BY InitKeeps, StepKeeps, PTL DEF Spec

\* read_file_handle, write_file_handle, seek_file_handle and reconnect_handle keep the
\* types of a file handle, whatever the length of the file and the width of a position.
THEOREM FileTypes == Spec => []FileTypeOK
<1>1. IInv => FileTypeOK
  BY DEF IInv
<1> QED
  BY <1>1, Invariant, PTL

\* No read through a Seek handle leaves out bytes (NothingSkipped), for every file
\* and every mix of yields, snapshots of the host, resumes and changes of the file.
THEOREM NoByteLeftOut == Spec => []NothingSkipped
<1>1. IInv => NothingSkipped
  BY DEF IInv, Good, NothingSkipped
<1> QED
  BY <1>1, Invariant, PTL

\* A Cached handle has the latest data (CacheCurrent), in every process.
THEOREM CachesFollow == Spec => []CacheCurrent
<1>1. IInv => CacheCurrent
  BY DEF IInv, Good, CacheCurrent
<1> QED
  BY <1>1, Invariant, PTL

\* A resume of a snapshot that a Yield took gives the handle back as the Yield found
\* it (YieldRestoresFile): the snapshot has it in one section only, and what
\* reconnect_handle makes of it loses its File again when it is cloned.
THEOREM YieldsRestore == Spec => YieldRestoresFile
<1>1. ASSUME IInv, HostResume, saved.atYield, saved.of # None => Seekable(saved.of.position)
      PROVE  handle' = saved.of
  <2>1. /\ saved # None /\ saved \in Snapshot /\ TakenByYield(saved) /\ Bare(saved.task)
    BY <1>1 DEF HostResume, IInv, FileTypeOK
  <2>2. saved.hasTask /\ saved.global = None /\ saved.of = saved.task
    BY <2>1, <1>1 DEF TakenByYield
  <2>3. handle' = Clone(Reconnected(saved.task))
    BY <1>1, <2>2 DEF HostResume
  <2>4. CASE saved.task = None
    BY <2>2, <2>3, <2>4 DEF Reconnected, Clone
  <2>5. CASE saved.task # None
    <3> DEFINE s == saved.task
    <3>1. s \in Handle /\ s.cursor = None /\ Seekable(s.position)
      BY <2>1, <2>2, <2>5, <1>1 DEF Snapshot, Bare
    <3>2. s.position \in Position /\ ReadBack(s.position) = s.position
      BY <3>1, FileConstants DEF Handle, Position, ReadBack, Seekable
    <3> DEFINE cur == IF exists THEN s.position ELSE None
    <3>3. Reconnect(s) = [s EXCEPT !.position = s.position, !.cursor = cur]
      BY <3>1, <3>2 DEF Reconnect
    <3>4. Reconnect(s) # None
      <4>1. s.position \in Position /\ cur \in Position \cup {None}
        BY <3>2
      <4>2. Reconnect(s) \in Handle
        BY <3>1, <3>3, <4>1 DEF Handle
      <4> QED
        BY <4>2, FileConstants
    <3>5. Clone(Reconnect(s)) = s
      BY <3>1, <3>3, <3>4 DEF Clone, Handle
    <3> QED
      BY <2>2, <2>3, <2>5, <3>5 DEF Reconnected
  <2> QED
    BY <2>4, <2>5
<1>2. IInv /\ [Next]_vars =>
        [HostResume /\ saved.atYield /\ (saved.of # None => Seekable(saved.of.position)) =>
           handle' = saved.of]_vars
  BY <1>1
<1> QED
  BY <1>2, Invariant, PTL DEF Spec, YieldRestoresFile

\* A resume whose report has no failure leaves a handle that can be read
\* (ResumedIsReadable): its position is one that can be sought, or the start.
THEOREM ResumesAreReadable == Spec => ResumedIsReadable
<1> DEFINE Resumed == /\ HostResume /\ ~ResumeFails /\ handle' # None
                      /\ saved.hasTask \/ saved.global # None
<1>1. ASSUME IInv, Resumed PROVE Reading(handle').data # None
  <2>1. saved # None /\ saved \in Snapshot /\ content \in Contents
    BY <1>1 DEF HostResume, IInv, FileTypeOK
  <2>2. PICK s \in {saved.task, saved.global} :
          s # None /\ (handle' = Reconnect(s) \/ handle' = Clone(Reconnect(s)))
    BY <1>1 DEF HostResume, Reconnected, Clone
  <2>3. s \in Handle /\ exists
    BY <1>1, <2>1, <2>2 DEF Snapshot, ResumeFails
  <2> DEFINE pos == IF Seekable(ReadBack(s.position)) THEN ReadBack(s.position) ELSE 0
             h == handle'
  <2>4. pos \in Position /\ pos \in Nat /\ Seekable(pos)
    BY <2>3, FileConstants DEF Handle, Position, ReadBack, Seekable
  <2>5. h.position = pos /\ h.cached = s.cached /\ h.strategy = s.strategy
    BY <2>2, <2>3 DEF Reconnect, Clone, Handle
  <2>6. From(pos) \in Contents
    BY <2>1, <2>4, ReadToEnd
  <2>7. None \notin Contents
    BY ContentsAreSequences, FileConstants
  <2>8. h.strategy = "Seek" /\ h.cursor # None => Reading(h).data = From(pos)
    BY <2>4, <2>5 DEF Reading
  <2>9. h.strategy = "Seek" /\ h.cursor = None => Reading(h).data = From(pos)
    BY <2>3, <2>4, <2>5 DEF Reading
  <2>10. h.strategy = "Cached" /\ h.cached # None => Reading(h).data # None
    BY DEF Reading
  <2>11. h.strategy # "Seek" /\ ~(h.strategy = "Cached" /\ h.cached # None) =>
           Reading(h).data = content
    BY <2>3 DEF Reading
  <2> QED
    BY <2>1, <2>6, <2>7, <2>8, <2>9, <2>10, <2>11
<1>2. IInv /\ [Next]_vars => [Resumed => Reading(handle').data # None]_vars
  BY <1>1
<1> QED
  BY <1>2, Invariant, PTL DEF Spec, ResumedIsReadable
-----------------------------------------------------------------------------
(* Connections.                                                            *)


Connection == [kind : {"Tcp", "Http"}, stream : BOOLEAN, sent : Payloads \cup {Nothing},
               got : Answers \cup {Nothing, ""}]
Slot == Connection \cup {Nothing}
Section == [hasTask : BOOLEAN, task : Slot, global : Slot, atYield : BOOLEAN]

ConnectionTypes ==
  /\ answer \in Answers /\ received \in Int
  /\ conn \in Slot /\ connEntry \in Slot /\ connYielded \in BOOLEAN
  /\ connSaved # Nothing => connSaved \in Section

\* A snapshot has the handle with the task or in the global section; that of a Yield has
\* it with the task.
OneSection ==
  connSaved # Nothing =>
    /\ connSaved.task = Nothing \/ connSaved.global = Nothing
    /\ connSaved.atYield => connSaved.hasTask /\ connSaved.global = Nothing

CInv == ConnectionTypes /\ OneSection
-----------------------------------------------------------------------------
\* Clones and reconnected handles are handles.
LEMMA Copies ==
  ASSUME answer \in Answers, NEW s \in Slot
  PROVE  /\ ConnClone(s) \in Slot
         /\ \A works \in BOOLEAN : ConnReconnected(s, works) \in Slot
         /\ ForTheVm(s) \in Slot
<1>1. ConnClone(s) \in Slot
  BY DEF ConnClone, Slot, Connection
<1>2. ASSUME NEW works \in BOOLEAN PROVE ConnReconnected(s, works) \in Slot
  BY <1>2 DEF ConnReconnected, ConnReconnect, Tcp, Slot, Connection
<1> QED
  BY <1>1, <1>2 DEF ForTheVm

LEMMA ConnectionInit == ASSUME ConnInit PROVE CInv
<1>1. received \in Int
  BY DEF ConnInit
<1>2. connYielded \in BOOLEAN
  BY DEF ConnInit
<1> QED
  BY <1>1, <1>2, Zenon DEF ConnInit, CInv, ConnectionTypes, OneSection, Slot

\* A capture puts a handle that the entry has with the task, any other with the rest.
LEMMA CaptureOnce ==
  ASSUME CInv, NEW y \in BOOLEAN, NEW e \in Slot, NEW atYield \in BOOLEAN,
         atYield => y /\ e = ConnClone(conn),
         ConnSaving(ConnCaptured(y, e), atYield)
  PROVE  connSaved' \in Section /\ OneSection'
<1>1. ConnClone(e) \in Slot /\ ConnClone(conn) \in Slot /\ Nothing \in Slot
  BY Copies DEF CInv, ConnectionTypes, Slot
<1>2. connSaved' = [hasTask |-> y, task |-> IF y THEN ConnClone(e) ELSE Nothing,
                global |-> IF e = Nothing THEN ConnClone(conn) ELSE Nothing, atYield |-> atYield]
  BY DEF ConnSaving, ConnCaptured
<1>3. connSaved' \in Section
  BY <1>1, <1>2 DEF Section
<1>4. e = Nothing => ConnClone(e) = Nothing
  BY DEF ConnClone
<1> QED
  BY <1>2, <1>3, <1>4 DEF OneSection

LEMMA ConnectionStep == ASSUME CInv, [ConnNext]_connVars PROVE CInv'
<1> USE DEF CInv, peer, connMachine
<1>1. ASSUME UNCHANGED <<conn, connMachine>>, answer' \in Answers, received' \in Int
      PROVE  CInv'
  BY <1>1 DEF ConnectionTypes, OneSection
<1>2. CASE PeerChanges
  BY <1>1, <1>2 DEF PeerChanges, ConnectionTypes
<1>3. CASE CallFails
  BY <1>1, <1>3 DEF CallFails, Reached, ConnectionTypes
<1>4. ASSUME answer' = answer, received' \in Int, conn' \in Slot,
             UNCHANGED <<connEntry, connYielded, connSaved>>
      PROVE  CInv'
  BY <1>4 DEF ConnectionTypes, OneSection
<1>5. CASE TcpConnect
  <2>1. conn' \in Slot
    <3>1. conn' = Tcp(TRUE, Nothing, Nothing)
      BY <1>5 DEF TcpConnect
    <3> QED
      BY <3>1 DEF Tcp, Slot, Connection
  <2>2. received' \in Int
    BY <1>5 DEF TcpConnect, Reached, ConnectionTypes
  <2>3. answer' = answer /\ UNCHANGED <<connEntry, connYielded, connSaved>>
    BY <1>5 DEF TcpConnect
  <2> QED
    BY <1>4, <2>1, <2>2, <2>3
<1>6. ASSUME NEW sent \in Payloads \cup {Nothing}, HttpCall(sent) PROVE CInv'
  <2>1. conn' \in Slot
    <3>1. conn' = Http(sent, answer) /\ answer \in Answers
      BY <1>6 DEF HttpCall, ConnectionTypes
    <3> QED
      BY <3>1 DEF Http, Slot, Connection
  <2>2. received' \in Int
    BY <1>6 DEF HttpCall, Reached, ConnectionTypes
  <2>3. answer' = answer /\ UNCHANGED <<connEntry, connYielded, connSaved>>
    BY <1>6 DEF HttpCall
  <2> QED
    BY <1>4, <2>1, <2>2, <2>3
<1>7. CASE TcpRead
  BY <1>4, <1>7 DEF TcpRead, Streaming, ConnectionTypes, Slot, Connection
<1>8. ASSUME NEW data \in Payloads, TcpWrite(data) PROVE CInv'
  BY <1>4, <1>8 DEF TcpWrite, Streaming, ConnectionTypes, Slot, Connection
<1>9. CASE TcpClose
  BY <1>4, <1>9 DEF TcpClose, ConnectionTypes, Slot
<1>10. CASE ConnYield
  <2>1. ConnClone(conn) \in Slot
    BY Copies DEF ConnectionTypes
  <2>2. connSaved' \in Section /\ OneSection'
    BY <2>1, <1>10, CaptureOnce DEF ConnYield
  <2> QED
    BY <2>1, <2>2, <1>10 DEF ConnYield, ConnectionTypes
<1>11. CASE ConnCreateSnapshot
  <2>1. connSaved' \in Section /\ OneSection'
    BY <1>11, CaptureOnce DEF ConnCreateSnapshot, ConnectionTypes
  <2> QED
    BY <2>1, <1>11 DEF ConnCreateSnapshot, ConnectionTypes
<1>12. CASE ConnRestart
  BY <1>12 DEF ConnRestart, ConnectionTypes, OneSection, Slot
<1>13. ASSUME NEW works \in BOOLEAN, ConnResume(works) PROVE CInv'
  <2>1. /\ connSaved # Nothing /\ connSaved \in Section /\ connSaved.hasTask \in BOOLEAN
        /\ connSaved.task \in Slot /\ connSaved.global \in Slot
    BY <1>13 DEF ConnResume, ConnectionTypes, Section
  <2>2. /\ ConnReconnected(connSaved.task, works) \in Slot
        /\ ConnReconnected(connSaved.global, works) \in Slot
    BY <2>1, Copies DEF ConnectionTypes
  <2>3. ForTheVm(ConnReconnected(connSaved.task, works)) \in Slot
    BY <2>2, Copies DEF ConnectionTypes
  <2>4. conn' \in Slot /\ connEntry' \in Slot
    BY <1>13, <2>2, <2>3 DEF ConnResume, ConnectionTypes
  <2>5. received' \in Int /\ connYielded' \in BOOLEAN /\ UNCHANGED <<answer, connSaved>>
    BY <1>13, <2>1 DEF ConnResume, Reached, ConnectionTypes
  <2> QED
    BY <2>4, <2>5 DEF ConnectionTypes, OneSection
<1>14. CASE UNCHANGED connVars
  BY <1>14, <1>1 DEF connVars, ConnectionTypes
<1> QED
  BY <1>2, <1>3, <1>5, <1>6, <1>7, <1>8, <1>9, <1>10, <1>11, <1>12, <1>13, <1>14 DEF ConnNext

LEMMA ConnectionInvariant == ConnSpec => []CInv
<1>1. ConnInit => CInv
  BY ConnectionInit
<1>2. CInv /\ [ConnNext]_connVars => CInv'
  BY ConnectionStep
<1> QED
  BY <1>1, <1>2, PTL DEF ConnSpec
-----------------------------------------------------------------------------
\* Reconnecting sends a request once: a handle with the task is not in the global section,
\* whatever yields, snapshots and resumes came before.
THEOREM RequestsReplayedOnce == ConnSpec => OneReplayPerResume
<1>1. ASSUME CInv, NEW works \in BOOLEAN, ConnResume(works)
      PROVE  received' <= received + 1
  <2>1. connSaved.task = Nothing \/ connSaved.global = Nothing
    BY <1>1 DEF CInv, OneSection, ConnResume
  <2>2. received \in Int
    BY <1>1 DEF CInv, ConnectionTypes
  <2> QED
    BY <1>1, <2>1, <2>2 DEF ConnResume, Reached
<1>2. CInv /\ [ConnNext]_connVars =>
        [(\E works \in BOOLEAN : ConnResume(works)) => received' <= received + 1]_connVars
  BY <1>1
<1> QED
  BY <1>2, ConnectionInvariant, PTL DEF ConnSpec, OneReplayPerResume

\* How far a connection is from what the documents say of it (StreamsRestored): from a
\* Yield's snapshot the VM gets a clone of the handle that was reconnected, with the request
\* that it had and, whatever the peer does, without a stream.
OnlyRequestsOutliveYield ==
  [][(\E works \in BOOLEAN : ConnResume(works)) /\ connSaved.atYield =>
       /\ ~Streaming(conn')
       /\ connSaved.task # Nothing /\ connSaved.task.kind = "Http" =>
            conn'.sent = connSaved.task.sent]_connVars
THEOREM StreamsEndAtYield == ConnSpec => OnlyRequestsOutliveYield
<1>1. ASSUME CInv, NEW works \in BOOLEAN, ConnResume(works), connSaved.atYield
      PROVE  /\ ~Streaming(conn')
             /\ connSaved.task # Nothing /\ connSaved.task.kind = "Http" =>
                  conn'.sent = connSaved.task.sent
  <2> DEFINE again == ConnReconnected(connSaved.task, works)
  <2>1. /\ connSaved.hasTask /\ connSaved.global = Nothing /\ connSaved.task \in Slot
        /\ answer \in Answers
    BY <1>1 DEF CInv, ConnectionTypes, OneSection, ConnResume, Section
  <2>2. conn' = ConnClone(again)
    BY <1>1, <2>1 DEF ConnResume, ForTheVm
  <2>3. again \in Slot
    BY <2>1, Copies
  <2>4. connSaved.task # Nothing /\ connSaved.task.kind = "Http" => again.sent = connSaved.task.sent
    BY <2>1 DEF ConnReconnected, ConnReconnect, Slot, Connection
  <2> HIDE DEF again
  <2>5. ~Streaming(ConnClone(again))
    BY <2>3 DEF Streaming, ConnClone, Slot, Connection
  <2>6. ConnClone(again).sent = again.sent
    <3>1. CASE again = Nothing
      BY <3>1 DEF ConnClone
    <3>2. CASE again \in Connection
      BY <3>2 DEF ConnClone, Connection
    <3> QED
      BY <2>3, <3>1, <3>2 DEF Slot
  <2> QED
    BY <2>2, <2>4, <2>5, <2>6
<1>2. CInv /\ [ConnNext]_connVars =>
        [(\E works \in BOOLEAN : ConnResume(works)) /\ connSaved.atYield =>
           /\ ~Streaming(conn')
           /\ connSaved.task # Nothing /\ connSaved.task.kind = "Http" =>
                conn'.sent = connSaved.task.sent]_connVars
  BY <1>1
<1> QED
  BY <1>2, ConnectionInvariant, PTL DEF ConnSpec, OnlyRequestsOutliveYield
=============================================================================
