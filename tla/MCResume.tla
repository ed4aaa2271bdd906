------------------------------ MODULE MCResume ------------------------------
(***************************************************************************)
(* Resume on a family of programs, as an open function table with a file   *)
(* and a second process is too large: main opens and spawns in any order,  *)
(* waits, yields, changes what the snapshot holds, yields again or halts,  *)
(* and waits again; a child opens or spawns, may wait, and ends in every   *)
(* way.                                                                    *)
(***************************************************************************)
EXTENDS ResumeFile

InProgram ==
  LET ip == Last(frames) IN
  IF current = Root
  THEN \/ ip \in {0, 1} /\ (OpOpen \/ OpSpawn)
       \/ ip = 2 /\ OpWait
       \/ ip = 3 /\ OpYield
       \/ ip = 4 /\ (OpOpen \/ OpSpawn \/ \E h \in handles : OpClose(h))
       \/ ip = 5 /\ (OpYield \/ OpHalt)
       \/ ip = 6 /\ OpWait
  ELSE \/ ip = 0 /\ (OpOpen \/ OpSpawn)
       \/ ip = 1 /\ (OpWait \/ OpYield \/ OpHalt \/ OpFails)
       \/ ip > 0 /\ OpReturn

MCNext ==
  \/ VmStep /\ (Fetch => InProgram)
  \/ HostSave \/ HostCreateSnapshot \/ HostRestart \/ HostResume

MCSpec == ResumeInit /\ [][MCNext]_rvars
=============================================================================
