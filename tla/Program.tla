------------------------------- MODULE Program -------------------------------
(***************************************************************************)
(* A program that survives its process: the host runs it, writes snapshots *)
(* to one file, may lose the process at any point, also in the middle of a *)
(* write, and resumes from the file in a process of the same or another    *)
(* build, of the same or another program.  Every process is compared with  *)
(* the run of the program that nothing interrupts.                         *)
(***************************************************************************)
EXTENDS Interpreter

CONSTANTS Programs,     \* the programs of the host, by name
          Upgrade,      \* name of the program that a restart may have put in place
          MaxSteps,     \* bound: instructions of a run
          MaxRestarts   \* bound: processes after the first

ASSUME ProgramConstants == {MaxSteps, MaxRestarts} \subseteq Nat

\* What a host loads: a function to begin with, code of the opcodes of Interpreter, whose
\* operands are values, addresses and indices (that of TimerSleep is not modelled), strings,
\* and streams by their ids.
Opcodes ==
  Binary \cup Unary \cup {"Push", "Pop", "Dup", "Jump", "JumpIfTrue", "JumpIfFalse", "Load", "Store",
    "Call", "Return", "Yield", "Halt", "StdinRead", "StdoutWrite", "StderrWrite", "TimerSleep"}
Operands(op) == CASE op = "Push" -> Value [] OTHER -> Nat
IsFunction(f) ==
  /\ {f.arity, f.locals} \subseteq Nat
  /\ \A k \in DOMAIN f.code : f.code[k].op \in Opcodes /\ f.code[k].arg \in Operands(f.code[k].op)
IsProgram(p) ==
  /\ 1 \in DOMAIN p.functions /\ \A k \in DOMAIN p.functions : IsFunction(p.functions[k])
  /\ p.constants \in Seq(Seq(Int))
  /\ IsFiniteSet(DOMAIN p.streams) /\ DOMAIN p.streams \subseteq Nat
  /\ p.streams \in [DOMAIN p.streams -> [kind : Int, buffer : Seq(Int)]]
ASSUME HostPrograms == Upgrade \in DOMAIN Programs /\ \A n \in DOMAIN Programs : IsProgram(Programs[n])
\* A name stands for code, whose hash has no collisions, and for one piece of code the host
\* registers streams of the same ids.
SameCode(p, q) ==
  p.functions = q.functions /\ p.constants = q.constants /\ DOMAIN p.streams = DOMAIN q.streams
ASSUME NameIsCode ==
  \A a, b \in DOMAIN Programs : Programs[a].name = Programs[b].name => SameCode(Programs[a], Programs[b])

VARIABLES program,    \* name of the program of this process
          checked,    \* whether this process is a build with overflow checks
          vm,
          file,       \* the fields of the snapshot file; none when there is no file
          restarts,
          resumed,    \* history: this process has resumed a snapshot
          astray,     \* history: what this process resumed, or did since, is not what it was
          ideal,      \* history: the run that nothing interrupts, as far as vm has come
          yielded,    \* history: the snapshot of the last Yield, with astray and ideal
          written     \* history: the snapshot last written, with those it was taken with

vars == <<program, checked, vm, file, restarts, resumed, astray, ideal, yielded, written>>
P == Programs[program]

ProgramTypeOK ==
  /\ program \in DOMAIN Programs /\ {checked, resumed, astray} \subseteq BOOLEAN
  /\ vm.outcome \in {"ok", "error", "dead"} /\ vm.steps \in 0..MaxSteps
  /\ \A v \in ValuesOf(vm) : v \in Value
  /\ restarts \in 0..MaxRestarts
-----------------------------------------------------------------------------
(* The run that nothing interrupts: Yield pauses it and it goes on.        *)

\* What can be told of a machine: the objects it refers to in the order of their slots.
Observed(m) ==
  LET marks == Marks(m) IN
  [frames |-> Frames(m, marks), stack |-> MovedAll(marks, m.stack), objects |-> Kept(m, marks),
   handles |-> m.handles]

LastOpcode(p, m) == p.functions[Here(m).function + 1].code[Here(m).ip].op
Halted(p, m) == Fetchable(p, m) /\ ~m.running /\ LastOpcode(p, m) = "Halt"
Ended(p, m) == m.outcome = "dead" \/ ~Fetchable(p, m) \/ Halted(p, m)
OnAndOn(p, m) ==
  IF Ended(p, m) THEN m
  ELSE [Step(p, FALSE, [m EXCEPT !.running = TRUE]) EXCEPT !.snapshot = NoSnapshot]
-----------------------------------------------------------------------------
Taken(s, a, i) == [of |-> s, astray |-> a, ideal |-> i]
Start(n, build) ==
  /\ program' = n /\ checked' = build
  /\ vm' = Loaded(Programs[n]) /\ ideal' = Loaded(Programs[n])
  /\ resumed' = FALSE /\ astray' = FALSE
  /\ yielded' = Taken(NoSnapshot, FALSE, Loaded(Programs[n]))

Init ==
  /\ program \in DOMAIN Programs /\ checked \in BOOLEAN /\ vm = Loaded(P)
  /\ file = <<>> /\ restarts = 0
  /\ resumed = FALSE /\ astray = FALSE /\ ideal = Loaded(P)
  /\ yielded = Taken(NoSnapshot, FALSE, Loaded(P))
  /\ written = Taken(NoSnapshot, FALSE, Loaded(P))

\* The host has control: run() has not been called, or has returned.
Idle == vm.outcome # "dead" /\ (~vm.running \/ vm.outcome = "error" \/ vm.steps = 0)

PushesConstant == Fetchable(P, vm) /\ Fetched(P, vm).op = "Push" /\ Fetched(P, vm).arg \in Refs

\* A turn of run().
VmStep ==
  /\ vm.outcome # "dead" /\ vm.running /\ vm.steps < MaxSteps
  /\ vm' = Step(P, checked, vm)
  /\ ideal' = OnAndOn(P, ideal)
  /\ astray' = (astray \/ (resumed /\ (PushesConstant \/ Halted(P, ideal))))
  /\ yielded' = IF vm'.snapshot = vm.snapshot THEN yielded
                ELSE Taken(vm'.snapshot, astray', ideal')
  /\ UNCHANGED <<program, checked, file, restarts, resumed, written>>

\* std::fs::write truncates the file and writes it; when the process is lost meanwhile,
\* the file has some of it.
Writes(s, lost) ==
  IF ~lost THEN file' = WriteToFile(s)
  ELSE \E n \in 0..Len(WriteToFile(s)) - 1 : file' = SubSeq(WriteToFile(s), 1, n)

HostSave(lost) ==
  /\ Idle /\ vm.snapshot # NoSnapshot
  /\ Writes(vm.snapshot, lost)
  /\ vm' = IF lost THEN Dead(vm) ELSE vm
  /\ written' = yielded
  /\ UNCHANGED <<program, checked, restarts, resumed, astray, ideal, yielded>>

\* create_snapshot leaves the handles that the registry lists to the registry's copies,
\* which are those of the last Yield.
StaleHandles ==
  \E h \in DOMAIN vm.entry.handles :
    h \in DOMAIN vm.handles => vm.entry.handles[h] # vm.handles[h]
HostCreateSnapshot(lost) ==
  /\ Idle
  /\ IF CanCapture(P, vm)
     THEN /\ Writes(Captured(P, vm), lost)
          /\ vm' = IF lost THEN Dead(vm) ELSE AfterCapture(vm)
          /\ written' = Taken(Captured(P, vm), astray \/ StaleHandles, ideal)
     ELSE vm' = Dead(vm) /\ UNCHANGED <<file, written>>
  /\ UNCHANGED <<program, checked, restarts, resumed, astray, ideal, yielded>>

\* The process is lost, at any point, and the host starts another.
HostRestart ==
  /\ restarts < MaxRestarts /\ restarts' = restarts + 1
  /\ \E n \in {program, Upgrade}, build \in BOOLEAN : Start(n, build)
  /\ UNCHANGED <<file, written>>

\* read_from_file, then VM::resume up to run(): nothing changes when the file or its code
\* hash is refused.
Resumes(s) ==
  \/ /\ s.error = Panic \/ (s.error = 0 /\ ~CodeReadable(P, vm))
     /\ vm' = Dead(vm) /\ UNCHANGED <<resumed, astray, ideal>>
  \/ /\ s.error = 0 /\ CodeReadable(P, vm) /\ s.hash = CodeHash(P, vm)
     /\ vm' = Restored(vm, s)
     /\ resumed' = TRUE /\ astray' = written.astray /\ ideal' = written.ideal
HostResume ==
  /\ Idle /\ Resumes(ReadSnapshot(file))
  /\ UNCHANGED <<program, checked, file, restarts, yielded, written>>

Next ==
  \/ VmStep
  \/ \E lost \in BOOLEAN : HostSave(lost) \/ HostCreateSnapshot(lost)
  \/ HostRestart \/ HostResume

Spec == Init /\ [][Next]_vars
-----------------------------------------------------------------------------
\* snapshot.rs, Snapshot: "everything needed to reconstruct the VM and resume execution
\* from a yield point".
OnTrack ==
  vm.outcome # "dead" /\ ~astray =>
    vm.steps = ideal.steps /\ Observed(vm) = Observed(ideal)

\* write_to_file and read_from_file: a snapshot that was written can be read, with all that
\* was captured.
SavedReadsBack ==
  [][HostSave(FALSE) \/ (HostCreateSnapshot(FALSE) /\ vm'.outcome # "dead")
       => Same(ReadSnapshot(file'), written'.of)]_vars

\* Whatever a crash leaves of a file, what is resumed is all of the snapshot whose writing
\* it was, or nothing.
WholeSnapshotOnly ==
  [][HostResume /\ vm'.outcome # "dead" =>
       Same(ReadSnapshot(file), written.of)]_vars
=============================================================================
