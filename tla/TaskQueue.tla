----------------------------- MODULE TaskQueue -----------------------------
(***************************************************************************)
(* The daemon's task queue and its database (pkg/task).                    *)
(*                                                                         *)
(* A task lives in LevelDB under exactly one of three key prefixes, which  *)
(* stand for the phase of its life, and, while it waits, also in an        *)
(* in-memory heap.  Push and Pop run under the queue's mutex and touch the *)
(* heap nowhere else, so each is one action; everything else a caller does *)
(* to the database (PersistProcessing, ArchiveTask, the key deletions of   *)
(* Storage.Delete) is a single LevelDB write and interleaves freely.       *)
(*                                                                         *)
(* The callers are abstract here: `taken` is the set of tasks that Pop     *)
(* handed out and whose taker may still write.  Module Engine supplies the *)
(* real callers and is shown to implement this specification.              *)
(***************************************************************************)
EXTENDS Integers, FiniteSets

CONSTANTS
    TaskId,      \* xid identifiers; a fresh one per request
    Priority,    \* Task.Priority
    Time,        \* readings of the clock, Task.Created()
    Type,        \* "run", "build"
    Err,         \* classes of Task.Error; NoErr is the empty string
    Result,      \* classes of Task.Result; NoResult is nil
    NoErr, NoResult,
    NoTask,      \* an absent database entry
    Max,         \* daemon.scheduler.queue_size
    IOFaults     \* whether LevelDB may fail

ASSUME PriorityAssumption == Priority \subseteq Int
ASSUME TimeAssumption == Time \subseteq Int
ASSUME MaxAssumption == Max \in Nat
ASSUME IOFaultsAssumption == IOFaults \in BOOLEAN
ASSUME NoValueAssumption == NoErr \in Err /\ NoResult \in Result

\* The key prefixes, and the states a task's last DatedState can be in.
Prefix == {"queue", "current", "archive"}
State == {"scheduled", "processing", "complete", "canceled"}

\* States is kept as its first timestamp and its last state: Created() and
\* State() read nothing else.
Task == [id : TaskId, prio : Priority, created : Time, type : Type,
         state : State, err : Err, result : Result]

ASSUME NoTaskAssumption == NoTask \notin Task

VARIABLES
    db,       \* LevelDB: prefix, id |-> task or NoTask
    heap,     \* the tasks in Queue.tq
    used,     \* identifiers handed out so far
    taken,    \* tasks popped whose taker has not returned yet
    starts    \* how often Pop handed each task out (history)

vars == <<db, heap, used, taken, starts>>

Has(p, t) == db[p][t] # NoTask

InHeap(t) == \E x \in heap : x.id = t

\* The tasks NewQueue reads back from the database.
Stored(p) == {db[p][t] : t \in {u \in TaskId : Has(p, u)}}

-----------------------------------------------------------------------------
\* Mutant: among equal priorities the newest task goes first.
LessNewestFirst(x, y) ==
    IF x.prio # y.prio THEN x.prio > y.prio ELSE x.created > y.created

\* taskQueue.Less: higher priority first, then the earlier creation time.
Less(x, y) ==
    IF x.prio # y.prio THEN x.prio > y.prio ELSE x.created < y.created

\* container/heap: Pop removes some element with nothing before it.
HeapTop(x) == x \in heap /\ \A y \in heap : ~Less(y, x)

\* The task QueueBuild and QueueRun create.
NewTask(id, prio, created, type) ==
    [id |-> id, prio |-> prio, created |-> created, type |-> type,
     state |-> "scheduled", err |-> NoErr, result |-> NoResult]

-----------------------------------------------------------------------------
\* LevelDB writes.  changePrefix is a transaction on what the database holds,
\* not on the caller's copy.
Put(p, tsk) == db' = [db EXCEPT ![p][tsk.id] = tsk]

\* Mutant: the old key is not deleted.
ChangePrefixCopies(dst, src, id) ==
    /\ Has(src, id)
    /\ db' = [db EXCEPT ![dst][id] = db[src][id]]

ChangePrefix(dst, src, id) ==
    /\ Has(src, id)
    /\ db' = [db EXCEPT ![dst][id] = db[src][id], ![src][id] = NoTask]

DeleteKey(p, id) == db' = [db EXCEPT ![p][id] = NoTask]

-----------------------------------------------------------------------------
Init ==
    /\ db = [p \in Prefix |-> [t \in TaskId |-> NoTask]]
    /\ heap = {}
    /\ used = {}
    /\ taken = {}
    /\ starts = [t \in TaskId |-> 0]

\* Mutant: one task too many is let in.
PushOffByOne(tsk) ==
    /\ tsk.id \notin used
    /\ Cardinality(heap) <= Max
    /\ Put("queue", tsk)
    /\ heap' = heap \cup {tsk}
    /\ used' = used \cup {tsk.id}
    /\ UNCHANGED <<taken, starts>>

\* Queue.Push.
Push(tsk) ==
    /\ tsk.id \notin used
    /\ Cardinality(heap) < Max
    /\ Put("queue", tsk)
    /\ heap' = heap \cup {tsk}
    /\ used' = used \cup {tsk.id}
    /\ UNCHANGED <<taken, starts>>

\* Queue.Push returning ErrQueueFull, or the error of PersistScheduled.
PushRejected ==
    /\ Cardinality(heap) >= Max \/ IOFaults
    /\ UNCHANGED vars

\* Queue.Pop on an empty heap: ErrQueueEmpty.
PopEmpty ==
    /\ heap = {}
    /\ UNCHANGED vars

\* Mutant: ProcessTask is not called.
PopWithoutProcess(tsk) ==
    /\ HeapTop(tsk)
    /\ Has("queue", tsk.id)
    /\ heap' = heap \ {tsk}
    /\ taken' = taken \cup {tsk.id}
    /\ starts' = [starts EXCEPT ![tsk.id] = @ + 1]
    /\ UNCHANGED <<db, used>>

\* Queue.Pop handing out tsk.
PopOK(tsk) ==
    /\ HeapTop(tsk)
    /\ heap' = heap \ {tsk}
    /\ ChangePrefix("current", "queue", tsk.id)
    /\ taken' = taken \cup {tsk.id}
    /\ starts' = [starts EXCEPT ![tsk.id] = @ + 1]
    /\ UNCHANGED used

\* Queue.Pop failing in ProcessTask: the key is not under "queue" (the task was
\* deleted, or NewQueue read it from "current"), or LevelDB failed.  Either way
\* tsk has already left the heap.
PopError(tsk) ==
    /\ HeapTop(tsk)
    /\ ~Has("queue", tsk.id) \/ IOFaults
    /\ heap' = heap \ {tsk}
    /\ UNCHANGED <<db, used, taken, starts>>

\* Storage.PersistProcessing of a taker's copy of the task, to which the taker
\* has appended a state.  What else the copy holds is the taker's business.
PersistProcessing(tsk) ==
    /\ tsk.id \in taken
    /\ tsk.state # "scheduled"
    /\ Put("current", tsk)
    /\ UNCHANGED <<heap, used, taken, starts>>

\* Mutant: the taker goes on writing after ArchiveTask.
ArchiveKeepsTask(id) ==
    /\ id \in taken
    /\ ChangePrefix("archive", "current", id)
    /\ UNCHANGED <<heap, used, taken, starts>>

\* Storage.ArchiveTask; the taker is done with the task.
ArchiveTask(id) ==
    /\ id \in taken
    /\ ChangePrefix("archive", "current", id)
    /\ taken' = taken \ {id}
    /\ UNCHANGED <<heap, used, starts>>

\* The taker returns without archiving: one of its writes failed.
GiveUp(id) ==
    /\ id \in taken
    /\ taken' = taken \ {id}
    /\ UNCHANGED <<db, heap, used, starts>>

\* One key deletion of Storage.Delete.
Delete(p, id) ==
    /\ id \in used
    /\ DeleteKey(p, id)
    /\ UNCHANGED <<heap, used, taken, starts>>

\* Mutant: only the tasks that were being processed are read back.
NewQueueCurrentOnly ==
    /\ heap' = Stored("current")
    /\ taken' = {}
    /\ UNCHANGED <<db, used, starts>>

\* The daemon dies and comes back on the same disk repository: NewQueue reads
\* the heap from the "queue" and "current" prefixes.
NewQueue ==
    /\ heap' = Stored("queue") \cup Stored("current")
    /\ taken' = {}
    /\ UNCHANGED <<db, used, starts>>

NewTasks ==
    {NewTask(i, p, c, y) : i \in TaskId, p \in Priority, c \in Time, y \in Type}

Next ==
    \/ \E tsk \in NewTasks : Push(tsk)
    \/ PushRejected
    \/ PopEmpty
    \/ \E tsk \in heap : PopOK(tsk)
    \/ \E tsk \in heap : PopError(tsk)
    \/ \E tsk \in Task : PersistProcessing(tsk)
    \/ \E id \in TaskId : ArchiveTask(id)
    \/ \E id \in TaskId : GiveUp(id)
    \/ \E p \in Prefix, id \in TaskId : Delete(p, id)
    \/ NewQueue

Spec == Init /\ [][Next]_vars

-----------------------------------------------------------------------------
(***************************************************************************)
(* Properties.                                                             *)
(***************************************************************************)

\* Every variable holds what the Go types of Queue, Storage and Task allow.
TypeOK ==
    /\ db \in [Prefix -> [TaskId -> Task \cup {NoTask}]]
    /\ heap \subseteq Task
    /\ used \subseteq TaskId
    /\ taken \subseteq TaskId
    /\ starts \in [TaskId -> Nat]

\* A task is under at most one prefix, whatever writes, deletions, failures and
\* restarts interleave: Get and Delete stop at the first prefix that has it.
OnePrefix ==
    \A t \in TaskId : \A p, q \in Prefix : Has(p, t) /\ Has(q, t) => p = q

\* Pop hands a task out at most once, over any number of daemon restarts: a run
\* or a build is never started twice.
AtMostOnce == \A t \in TaskId : starts[t] <= 1

\* With a healthy LevelDB, whatever is stored as scheduled is also in the heap
\* and so will be popped; Push, Pop and NewQueue keep the two in step.
ScheduledInHeap ==
    ~IOFaults => \A t \in TaskId : Has("queue", t) => db["queue"][t] \in heap

\* With a healthy LevelDB no more than Max tasks are ever stored as scheduled,
\* although a restart may leave more than Max tasks in the heap itself.
ScheduledBounded ==
    ~IOFaults => Cardinality({t \in TaskId : Has("queue", t)}) <= Max

\* An archived task is never rewritten nor moved, only deleted: a worker is
\* done writing when ArchiveTask succeeds.
ArchiveFinal ==
    [][\A t \in TaskId :
          Has("archive", t) =>
            /\ db'["archive"][t] \in {db["archive"][t], NoTask}
            /\ \A p \in {"queue", "current"} : db'[p][t] = NoTask]_vars

-----------------------------------------------------------------------------
(***************************************************************************)
(* The promise of TaskLifecycle, read off the database and the heap.       *)
(***************************************************************************)
PhaseOf(t) ==
    CASE Has("archive", t) -> "archived"
      [] Has("current", t) -> "processing"
      [] Has("queue", t) /\ InHeap(t) -> "scheduled"
      [] Has("queue", t) /\ ~InHeap(t) -> "stranded"
      [] t \in used /\ \A p \in Prefix : ~Has(p, t) -> "removed"
      [] OTHER -> "none"

Rank == [prio : Priority, created : Time]

\* "Tasks are sorted by priority and then timestamp."
RankBefore(r, s) == r.prio > s.prio \/ (r.prio = s.prio /\ r.created < s.created)

RankOf(t) ==
    IF Has("queue", t)
    THEN [prio |-> db["queue"][t].prio, created |-> db["queue"][t].created]
    ELSE NoTask

Lifecycle == INSTANCE TaskLifecycle WITH
    NoRank <- NoTask,
    Before <- RankBefore,
    phase <- [t \in TaskId |-> PhaseOf(t)],
    rank <- [t \in TaskId |-> RankOf(t)],
    started <- {t \in TaskId : starts[t] > 0}

\* The queue and its database implement TaskLifecycle: tasks start at most once,
\* by priority and then creation time among all that are scheduled, and move
\* through the phases in order, with deletions, LevelDB failures and restarts
\* in between.
ImplementsLifecycle == Lifecycle!Spec

-----------------------------------------------------------------------------
(***************************************************************************)
(* The inductive invariant behind OnePrefix, AtMostOnce and ArchiveFinal.  *)
(***************************************************************************)

\* An entry is stored under its own identifier, which has been handed out.
KeysOK ==
    \A p \in Prefix, t \in TaskId :
        Has(p, t) => db[p][t].id = t /\ t \in used

\* The heap holds one copy of a task, only of tasks that were pushed, and the
\* copy that is stored as scheduled, if any is.
HeapOK ==
    /\ \A x \in heap : x.id \in used
    /\ \A x \in heap : Has("queue", x.id) => x = db["queue"][x.id]
    /\ \A x, y \in heap : x.id = y.id => x = y

\* A task somebody took was started, is neither scheduled nor archived, and is
\* not in the heap.
TakenOK ==
    \A t \in taken :
        /\ t \in used
        /\ starts[t] = 1
        /\ ~Has("archive", t)
        /\ ~InHeap(t)

\* Only tasks that were never started are under "queue", only started ones
\* anywhere else.
StartsOK ==
    \A t \in TaskId :
        /\ starts[t] \in {0, 1}
        /\ starts[t] = 1 => t \in used
        /\ Has("queue", t) => starts[t] = 0
        /\ Has("current", t) \/ Has("archive", t) => starts[t] = 1

IInv == TypeOK /\ OnePrefix /\ KeysOK /\ HeapOK /\ TakenOK /\ StartsOK
=============================================================================
