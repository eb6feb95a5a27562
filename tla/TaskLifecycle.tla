--------------------------- MODULE TaskLifecycle ---------------------------
(***************************************************************************)
(* What the task queue promises, without heap, prefixes or workers.        *)
(*                                                                         *)
(* A task is accepted, started at most once and in priority order, and     *)
(* then finishes.  A task may be removed at any time; removal is only      *)
(* final for a task that nobody is working on: a worker's next write       *)
(* brings a removed task back.  A failing database may strand a scheduled  *)
(* task until the daemon restarts.                                         *)
(***************************************************************************)
EXTENDS Integers

CONSTANTS
    TaskId,
    Rank,            \* what tasks are ordered by
    NoRank,          \* the rank of a task that is not waiting
    Before(_, _)     \* the order in which waiting tasks are started

VARIABLES
    phase,      \* where each task is in its life
    rank,       \* the rank of each waiting task
    started     \* the tasks that were started

vars == <<phase, rank, started>>

Phase == {"none", "scheduled", "stranded", "processing", "archived", "removed"}

Waiting == {t \in TaskId : phase[t] \in {"scheduled", "stranded"}}

\* The types of the abstract state of task/queue.go's promise.
TypeOK ==
    /\ phase \in [TaskId -> Phase]
    /\ rank \in [TaskId -> Rank \cup {NoRank}]
    /\ started \subseteq TaskId

Init ==
    /\ phase = [t \in TaskId |-> "none"]
    /\ rank = [t \in TaskId |-> NoRank]
    /\ started = {}

Accept(t, r) ==
    /\ phase[t] = "none"
    /\ phase' = [phase EXCEPT ![t] = "scheduled"]
    /\ rank' = [rank EXCEPT ![t] = r]
    /\ UNCHANGED started

\* The next task to start is one that no other scheduled task goes before.
Start(t) ==
    /\ phase[t] = "scheduled"
    /\ t \notin started
    /\ \A u \in TaskId : phase[u] = "scheduled" => ~Before(rank[u], rank[t])
    /\ phase' = [phase EXCEPT ![t] = "processing"]
    /\ rank' = [rank EXCEPT ![t] = NoRank]
    /\ started' = started \cup {t}

Finish(t) ==
    /\ phase[t] = "processing"
    /\ phase' = [phase EXCEPT ![t] = "archived"]
    /\ UNCHANGED <<rank, started>>

Remove(t) ==
    /\ phase[t] \in Phase \ {"none", "removed"}
    /\ phase' = [phase EXCEPT ![t] = "removed"]
    /\ rank' = [rank EXCEPT ![t] = NoRank]
    /\ UNCHANGED started

\* The worker of a removed task writes it again.
Resurrect(t) ==
    /\ phase[t] = "removed"
    /\ t \in started
    /\ phase' = [phase EXCEPT ![t] = "processing"]
    /\ UNCHANGED <<rank, started>>

Strand(t) ==
    /\ phase[t] = "scheduled"
    /\ phase' = [phase EXCEPT ![t] = "stranded"]
    /\ UNCHANGED <<rank, started>>

\* A restart schedules every stranded task again.
Recover ==
    /\ phase' = [t \in TaskId |->
                   IF phase[t] = "stranded" THEN "scheduled" ELSE phase[t]]
    /\ UNCHANGED <<rank, started>>

Next ==
    \/ \E t \in TaskId, r \in Rank : Accept(t, r)
    \/ \E t \in TaskId : Start(t)
    \/ \E t \in TaskId : Finish(t)
    \/ \E t \in TaskId : Remove(t)
    \/ \E t \in TaskId : Resurrect(t)
    \/ \E t \in TaskId : Strand(t)
    \/ Recover

Spec == Init /\ [][Next]_vars
=============================================================================
