---------------------------- MODULE MCTaskQueue ----------------------------
(***************************************************************************)
(* TaskQueue for TLC.  Task identifiers are interchangeable.               *)
(***************************************************************************)
EXTENDS TaskQueue, TLC

IdSymmetry == Permutations(TaskId)
=============================================================================
