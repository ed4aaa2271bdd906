------------------------------ MODULE ForkJoin ------------------------------
(***************************************************************************)
(* What the task opcodes of src/vm.rs promise, without stacks, frames or   *)
(* loops: structured concurrency.  Tasks form a tree that only grows, one  *)
(* task is active, control goes down to a child that is not done and back  *)
(* up to its parent, and a task that is done is never active again.        *)
(***************************************************************************)
EXTENDS Naturals

CONSTANTS TaskIds, NoTask

VARIABLES parent,   \* the parent of every task there is
          done,     \* tasks that have completed
          active    \* the task whose opcodes run

fjvars == <<parent, done, active>>

FJInit == parent = [t \in {0} |-> NoTask] /\ done = {} /\ active = 0

\* Spawn: a child of the active task, which stays active.
Fork(t) ==
  /\ t \in TaskIds \ DOMAIN parent
  /\ parent' = [u \in DOMAIN parent \cup {t} |-> IF u = t THEN active ELSE parent[u]]
  /\ UNCHANGED <<done, active>>

\* WaitChildren runs a child of the active task.
Descend(t) ==
  /\ t \in DOMAIN parent \ done /\ parent[t] = active
  /\ active' = t
  /\ UNCHANGED <<parent, done>>

\* The active task ends, or fails: control goes back to its parent.
Join ==
  /\ active # 0 /\ active' = parent[active] /\ done' = done \cup {active}
  /\ UNCHANGED parent

Abort == active # 0 /\ active' = parent[active] /\ UNCHANGED <<parent, done>>

FJNext == (\E t \in TaskIds : Fork(t)) \/ (\E t \in DOMAIN parent : Descend(t)) \/ Join \/ Abort

FJSpec == FJInit /\ [][FJNext]_fjvars
=============================================================================
