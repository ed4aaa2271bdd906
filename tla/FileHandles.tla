---------------------------- MODULE FileHandles ----------------------------
(***************************************************************************)
(* One I/O handle of kind File in the table of the root task, the file it  *)
(* names, and what yields, snapshots, resumes and new processes do to it:  *)
(* read_file_handle, write_file_handle and seek_file_handle of src/vm.rs,  *)
(* serialize_io_handle_snapshot and reconnect_handle of src/snapshot.rs.   *)
(* The file belongs to the environment, which may change it at any time.   *)
(***************************************************************************)
EXTENDS Integers, SequencesExt

CONSTANTS Bytes,   \* the bytes of a file, as opaque values
          MaxLen,  \* bound: length of the file
          Width,   \* 2^64 made small: positions are 0..Width-1
          None,    \* no handle, no file open, nothing cached, an error
          Kinds    \* bound: the modes and strategies that handles are opened with

Modes == {"Read", "Write", "Append"}
Strategies == {"Replay", "Seek", "Cached"}

Position == 0..Width-1
Contents == BoundedSeq(Bytes, MaxLen)
Offsets == -2..MaxLen

VARIABLES content,  \* of the file
          exists,   \* whether its path still names it
          handle,   \* vm.handles[h], or None
          entry,    \* task_registry[root].io_handles[h], or None
          yielded,  \* whether the status of the root is Yielded
          opened,   \* whether next_handle_id has passed h
          saved     \* the snapshot in a file, or None

vars == <<content, exists, handle, entry, yielded, opened, saved>>
file == <<content, exists>>
machine == <<entry, yielded, opened, saved>>

\* `cursor` is the offset of the open File, or None.  Two fields are history: `due`,
\* where a reader that was never interrupted would go on, and `seen`, the data last
\* read or written through the handle.
Handle == [mode : Modes, strategy : Strategies, position : Position,
           cursor : Position \cup {None}, cached : Contents \cup {None},
           due : Position, seen : Contents \cup {None}]
Snapshot == [hasTask : BOOLEAN, task : Handle \cup {None}, global : Handle \cup {None},
             atYield : BOOLEAN, of : Handle \cup {None}]

ASSUME FileConstants ==
  /\ MaxLen \in Nat /\ Width \in Nat /\ MaxLen + 2 < Width \div 2
  /\ Kinds \subseteq Modes \X Strategies
  /\ None \notin Nat /\ None \notin Seq(Bytes) /\ None \notin Handle

FileTypeOK ==
  /\ content \in Contents /\ exists \in BOOLEAN
  /\ handle \in Handle \cup {None} /\ entry \in Handle \cup {None}
  /\ yielded \in BOOLEAN /\ opened \in BOOLEAN
  /\ saved \in Snapshot \cup {None}

Init ==
  /\ content \in Contents /\ exists \in BOOLEAN
  /\ handle = None /\ entry = None /\ yielded = FALSE /\ opened = FALSE /\ saved = None

-----------------------------------------------------------------------------
(* The operating system.  A file that is removed while it is open can still *)
(* be read; the path is not used again before it is closed here.            *)

Seekable(p) == p < Width \div 2    \* lseek takes an i64
From(p) == SubSeq(content, p + 1, Len(content))
NotOpen == handle # None => handle.cursor = None

Change ==
  /\ content' \in Contents /\ (~exists => NotOpen) /\ exists' = TRUE
  /\ UNCHANGED <<handle, machine>>
Unlink == exists' = FALSE /\ UNCHANGED <<content, handle, machine>>

-----------------------------------------------------------------------------
(* The opcodes.  A handle that resume has not reopened has no File: each     *)
(* read and write opens one.                                                 *)

New(mode, strategy) ==
  [mode |-> mode, strategy |-> strategy, position |-> 0, cursor |-> None,
   cached |-> None, due |-> 0, seen |-> None]

\* FileOpen, which touches no file, and the host's create_handle with its choice of
\* strategy.  In a new process the id may be one a restored handle has.
Open(mode, strategy) ==
  /\ ~opened /\ opened' = TRUE
  /\ handle' = New(mode, strategy)
  /\ UNCHANGED <<file, entry, yielded, saved>>

\* Mutant of Advanced: the end of the file, wherever the read began.
AdvancedTwice(p) == p + Len(content)
\* The position after a read to the end of the file.
Advanced(p) == p + Len(From(p))

\* read_file_handle: the data, None for an IoError, and the handle after.
Reading(h) ==
  CASE h.strategy = "Cached" /\ h.cached # None ->
         [data |-> h.cached, after |-> h]
    [] h.strategy = "Seek" /\ h.cursor # None ->      \* the position stays where it is
         LET at == IF Seekable(h.position) THEN h.position ELSE h.cursor IN
         [data |-> From(at), after |-> [h EXCEPT !.cursor = at + Len(From(at)), !.cached = From(at)]]
    [] h.strategy = "Seek" /\ h.cursor = None /\ exists /\ Seekable(h.position) ->
         [data |-> From(h.position),
          after |-> [h EXCEPT !.position = Advanced(h.position), !.cached = From(h.position)]]
    [] h.strategy # "Seek" /\ ~(h.strategy = "Cached" /\ h.cached # None) /\ exists ->
         [data |-> content, after |-> [h EXCEPT !.cached = content]]
    [] OTHER -> [data |-> None, after |-> h]

FileRead ==
  /\ handle # None /\ Reading(handle).data # None
  /\ LET r == Reading(handle) IN
     handle' = [r.after EXCEPT
                  !.seen = r.data,
                  !.due  = IF handle.strategy = "Seek" THEN @ + Len(From(@)) ELSE @]
  /\ UNCHANGED <<file, machine>>

\* Mutant of Recached: the cache keeps what was read before the write.
CacheKept(h, bytes) == [h EXCEPT !.seen = bytes]
\* The handle after a write: only a Cached handle keeps the data.
Recached(h, bytes) ==
  [h EXCEPT !.seen = bytes, !.cached = IF h.strategy = "Cached" THEN bytes ELSE @]

\* write_file_handle.  The File of a reopened handle is open for reading: it writes
\* nothing, and says so unless there is nothing to write.  Otherwise a file is opened,
\* created or truncated as the mode says, and the write may fail half way.
Writable == handle # None /\ handle.mode # "Read" /\ ~(handle.strategy = "Seek" /\ handle.cursor # None)
Base == IF handle.mode = "Append" /\ exists THEN content ELSE <<>>
FileWrite(bytes) ==
  /\ Writable /\ content' = Base \o bytes /\ content' \in Contents /\ exists' = TRUE
  /\ (~exists => NotOpen)
  /\ handle' = Recached(handle, bytes)
  /\ UNCHANGED machine
FileWriteFails(part) ==
  /\ Writable /\ content' = Base \o part /\ content' \in Contents /\ exists' = TRUE
  /\ (~exists => NotOpen)
  /\ UNCHANGED <<handle, machine>>
FileWriteNothing ==
  /\ handle # None /\ handle.mode # "Read" /\ ~Writable
  /\ handle' = Recached(handle, <<>>)
  /\ UNCHANGED <<file, machine>>

\* Mutant of AsU64: the offset without the cast.
Uncast(n) == n
AsU64(n) == n % Width

FileSeek(offset) ==
  /\ handle # None
  /\ LET to == AsU64(offset) IN
     handle' = [handle EXCEPT !.position = to, !.due = to,
                              !.cursor = IF @ # None /\ Seekable(to) THEN to ELSE @]
  /\ UNCHANGED <<file, machine>>

FileClose == handle # None /\ handle' = None /\ UNCHANGED <<file, machine>>

-----------------------------------------------------------------------------
(* Snapshots.                                                              *)

\* Clone for IoHandle, and what a snapshot holds of one: no File.
Clone(h) == IF h = None THEN None ELSE [h EXCEPT !.cursor = None]

\* Mutant of Captured: the handle of the task once more in the global section.
CapturedTwice(y, e) == [hasTask |-> y, task |-> IF y THEN Clone(e) ELSE None, global |-> Clone(handle)]

\* Snapshot::capture: the entry of a Yielded root, and of the VM's table what the
\* entry does not have.
Captured(y, e) ==
  [hasTask |-> y, task |-> IF y THEN Clone(e) ELSE None,
   global |-> IF e = None THEN Clone(handle) ELSE None]

Saving(sections, atYield) ==
  saved' = [hasTask |-> sections.hasTask, task |-> sections.task, global |-> sections.global,
            atYield |-> atYield, of |-> IF atYield THEN Clone(handle) ELSE None]

\* A Yield of the root clones its handles into its entry before the capture.
Yield ==
  /\ entry' = Clone(handle) /\ yielded' = TRUE
  /\ Saving(Captured(TRUE, Clone(handle)), TRUE)
  /\ UNCHANGED <<file, handle, opened>>

HostCreateSnapshot ==
  /\ Saving(Captured(yielded, entry), FALSE)
  /\ UNCHANGED <<file, handle, entry, yielded, opened>>

HostRestart ==
  /\ handle' = None /\ entry' = None /\ yielded' = FALSE /\ opened' = FALSE
  /\ UNCHANGED <<file, saved>>

\* The position u64::MAX stands for none in a snapshot, and is read as 0.
ReadBack(p) == IF p = Width - 1 THEN 0 ELSE p

\* Mutant of Reconnect: after a seek that failed the position is kept.
ReconnectInPlace(s) ==
  LET p == ReadBack(s.position) IN
  [s EXCEPT !.position = p, !.cursor = IF exists /\ Seekable(p) THEN p ELSE None]

\* reconnect_handle, whatever the strategy: Ok, Degraded (back to the start, without
\* a File) when the seek fails, Failed when the path cannot be opened.
Reconnect(s) ==
  LET p == ReadBack(s.position) IN
  [s EXCEPT !.position = IF exists /\ ~Seekable(p) THEN 0 ELSE p,
            !.cursor   = IF exists /\ Seekable(p) THEN p ELSE None]
Reconnected(s) == IF s = None THEN None ELSE Reconnect(s)

ResumeFails == ~exists /\ (saved.task # None \/ saved.global # None)

\* VM::resume up to run(), which is not called after a failure.  The VM's table takes
\* a clone of the task's handles, then the global section is added to it.
HostResume ==
  /\ saved # None
  /\ entry' = IF saved.hasTask THEN Reconnected(saved.task) ELSE entry
  /\ handle' = IF saved.global # None THEN Reconnected(saved.global)
               ELSE IF saved.hasTask THEN Clone(Reconnected(saved.task)) ELSE handle
  /\ yielded' = (yielded \/ saved.hasTask)
  /\ opened' = (opened \/ saved.global # None)
  /\ UNCHANGED <<file, saved>>

-----------------------------------------------------------------------------
Next ==
  \/ \E kind \in Kinds : Open(kind[1], kind[2])
  \/ FileRead
  \/ \E bytes \in Contents : FileWrite(bytes) \/ FileWriteFails(bytes)
  \/ FileWriteNothing
  \/ \E offset \in Offsets : FileSeek(offset)
  \/ FileClose
  \/ Yield \/ HostCreateSnapshot \/ HostRestart \/ HostResume
  \/ Change \/ Unlink

Spec == Init /\ [][Next]_vars

-----------------------------------------------------------------------------
\* docs/PHASE3.md 3.6.1: a file is reopened at the recorded position.  A resume of
\* a snapshot that a Yield took leaves the handle as the Yield found it, but for its
\* File: in this process or another, over whatever was read, closed or opened
\* since, and whether or not the file is still there.  Positions lseek refuses are
\* the exception.
YieldRestoresFile ==
  [][HostResume /\ saved.atYield /\ (saved.of # None => Seekable(saved.of.position)) =>
       handle' = saved.of]_vars

\* No read through a Seek handle leaves out bytes: it begins at or before the place
\* where a reader that was never interrupted would go on, although a reopened handle
\* keeps its position through a read, a snapshot may hold an older position, and
\* the file grows and shrinks.
NothingSkipped == handle # None => handle.position <= handle.due

\* io.rs, IoStrategy::Cached: a Cached handle answers from what was last read or
\* written through it, across writes that failed, resumes and the loss of the file.
CacheCurrent ==
  handle # None /\ handle.strategy = "Cached" => handle.cached = handle.seen

\* When a resume goes on to run(), every handle of the snapshot can be read: there is
\* no state in which the report is good and the first read fails.
ResumedIsReadable ==
  [][HostResume /\ ~ResumeFails /\ handle' # None /\ (saved.hasTask \/ saved.global # None) =>
       Reading(handle').data # None]_vars
=============================================================================
