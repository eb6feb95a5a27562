------------------------------ MODULE MCEngine ------------------------------
(***************************************************************************)
(* Engine for TLC.  Workers and task identifiers are interchangeable in    *)
(* the runs that check safety only.                                        *)
(***************************************************************************)
EXTENDS Engine, TLC

SafetySymmetry == Permutations(TaskId) \cup Permutations(Worker)
                    \cup Permutations(Handler)
=============================================================================
