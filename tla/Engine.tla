------------------------------- MODULE Engine -------------------------------
(***************************************************************************)
(* The engine: supervisor workers, the cancellation signals, and the       *)
(* requests of daemon clients (pkg/engine, pkg/daemon).                    *)
(*                                                                         *)
(* Workers pop tasks and drive them to the archive.  Each running task has *)
(* a channel in `signals`; Kill closes it, which wakes a watcher goroutine *)
(* that cancels the task's context.  `signals` is guarded by an RWMutex    *)
(* that the database is not: prefix moves interleave with every handler.   *)
(*                                                                         *)
(* Between two steps of a process lies every point where another process   *)
(* can observe or change what it uses: a lock acquisition, a database      *)
(* call, a file system call, a channel operation.                          *)
(***************************************************************************)
EXTENDS Integers, Sequences, FiniteSets

CONSTANTS
    TaskId, Priority, Time, Type, Err, Result, NoErr, NoResult, NoTask,
    Max, IOFaults,     \* as in TaskQueue; IOFaults covers the file system too
    Worker,            \* daemon.scheduler.workers goroutines
    Handler,           \* concurrent HTTP requests, one each
    Ops,               \* the requests clients make
    MaxKills,          \* bound on the requests that kill one and the same task
    MaxCrashes         \* bound on daemon restarts

ASSUME QueueAssumption ==
    /\ Priority \subseteq Int /\ Time \subseteq Int
    /\ Max \in Nat /\ IOFaults \in BOOLEAN
    /\ NoErr \in Err /\ NoResult \in Result
ASSUME OpsAssumption == Ops \subseteq {"kill", "delete", "status", "list"}
ASSUME MaxKillsAssumption == MaxKills \in Nat
ASSUME MaxCrashesAssumption == MaxCrashes \in Nat

VARIABLES
    db, heap, used, starts,   \* as in TaskQueue
    wpc,        \* where each worker is
    tsk,        \* the worker's copy of its task
    ctx,        \* the context of each task
    watch,      \* the watcher goroutine of each task
    signals,    \* Engine.signals: the tasks with a registered channel
    closed,     \* the tasks whose channel is closed
    rlocked,    \* the requests holding signalsLk for reading over several steps
    leaked,     \* a read lock of signalsLk was never released
    wwait,      \* a writer waits for signalsLk, which holds off new readers
    logfile,    \* the tasks whose .out file exists
    req,        \* the request each handler serves
    killed,     \* the tasks whose channel was ever closed (history)
    crashes     \* number of restarts so far (history)

queueVars == <<db, heap, used, starts>>
workerVars == <<wpc, tsk, ctx, logfile>>
signalVars == <<watch, signals, closed, rlocked, leaked, wwait, killed>>
vars == <<queueVars, workerVars, signalVars, req, crashes>>

\* Worker program counters, named after the call the worker makes next.  In
\* the first group the worker may still write its task.
Holding == {"addSignal", "persistStart", "openLog", "run", "persistEnd", "archive"}
WorkerPC == {"pop", "deleteSignal"} \cup Holding

Held == {tsk[w].id : w \in {v \in Worker : wpc[v] \in Holding}}

Q == INSTANCE TaskQueue WITH taken <- Held

Task == Q!Task
Prefix == Q!Prefix

ASSUME NoTaskAssumption == NoTask \notin Task

NoRequest == [op |-> "none", id |-> NoTask, pc |-> "idle", at |-> "archive",
              reply |-> "none", missing |-> {}]

-----------------------------------------------------------------------------
Init ==
    /\ db = [p \in Prefix |-> [t \in TaskId |-> NoTask]]
    /\ heap = {}
    /\ used = {}
    /\ starts = [t \in TaskId |-> 0]
    /\ wpc = [w \in Worker |-> "pop"]
    /\ tsk = [w \in Worker |-> NoTask]
    /\ ctx = [t \in TaskId |-> "none"]
    /\ watch = [t \in TaskId |-> "none"]
    /\ signals = {}
    /\ closed = {}
    /\ rlocked = {}
    /\ leaked = FALSE
    /\ wwait = FALSE
    /\ logfile = {}
    /\ req = [h \in Handler |-> NoRequest]
    /\ killed = {}
    /\ crashes = 0

-----------------------------------------------------------------------------
(***************************************************************************)
(* signalsLk, a sync.RWMutex.                                              *)
(***************************************************************************)
CanRLock == ~wwait
CanLock == rlocked = {} /\ ~leaked

\* addSignal and deleteSignal, once the write lock is granted.
AddSignal(t) ==
    /\ CanLock
    /\ signals' = signals \cup {t}
    /\ wwait' = FALSE
    /\ UNCHANGED <<closed, rlocked, leaked, killed>>

\* Mutant: the lock is not released.
DeleteSignalKeepsLock(t) ==
    /\ CanLock
    /\ signals' = signals \ {t}
    /\ leaked' = TRUE
    /\ wwait' = FALSE
    /\ UNCHANGED <<closed, rlocked, killed>>

DeleteSignal(t) ==
    /\ CanLock
    /\ signals' = signals \ {t}
    /\ wwait' = FALSE
    /\ UNCHANGED <<closed, rlocked, leaked, killed>>

\* A writer arrives while the lock is held for reading.
WriterWaits ==
    /\ \/ \E w \in Worker : wpc[w] \in {"addSignal", "deleteSignal"}
       \/ \E t \in TaskId : watch[t] = "deleteSignal"
    /\ ~CanLock
    /\ ~wwait
    /\ wwait' = TRUE
    /\ UNCHANGED <<queueVars, workerVars, req, crashes,
                   watch, signals, closed, rlocked, leaked, killed>>

\* close(ch) under the read lock, in Kill and in Logs.  Closing it again
\* panics, and the panic leaves without releasing the lock.
CloseSignal(t) ==
    /\ CanRLock
    /\ closed' = IF t \in signals THEN closed \cup {t} ELSE closed
    /\ killed' = killed \cup (closed' \ closed)
    /\ leaked' = (leaked \/ t \in signals \cap closed)
    /\ UNCHANGED <<watch, signals, rlocked, wwait>>

ClosePanics(t) == t \in signals \cap closed

-----------------------------------------------------------------------------
(***************************************************************************)
(* Clients submitting tasks: QueueRun and QueueBuild.                      *)
(***************************************************************************)
Submit(id, prio, created, type) ==
    LET new == Q!NewTask(id, prio, created, type) IN
    /\ id \notin used
    /\ Cardinality(heap) < Max
    /\ Q!Put("queue", new)
    /\ heap' = heap \cup {new}
    /\ used' = used \cup {id}
    /\ UNCHANGED <<starts, workerVars, signalVars, req, crashes>>

-----------------------------------------------------------------------------
(***************************************************************************)
(* worker: one action per step.                                            *)
(***************************************************************************)
Cancel(t) == [ctx EXCEPT ![t] = IF @ = "live" THEN "canceled" ELSE @]

\* The worker's function returns; its deferred cancel() runs.
Return(w) ==
    /\ wpc' = [wpc EXCEPT ![w] = "pop"]
    /\ tsk' = [tsk EXCEPT ![w] = NoTask]
    /\ ctx' = Cancel(tsk[w].id)

Goto(w, pc) == wpc' = [wpc EXCEPT ![w] = pc]

\* queue.Pop finds nothing; sleep and retry.
PopEmpty(w) ==
    /\ wpc[w] = "pop"
    /\ heap = {}
    /\ UNCHANGED vars

\* Mutant: the task stays under "queue".
PopWithoutProcess(w) ==
    /\ wpc[w] = "pop"
    /\ \E x \in heap :
         /\ Q!HeapTop(x)
         /\ Q!Has("queue", x.id)
         /\ heap' = heap \ {x}
         /\ starts' = [starts EXCEPT ![x.id] = @ + 1]
         /\ tsk' = [tsk EXCEPT ![w] = x]
         /\ ctx' = [ctx EXCEPT ![x.id] = "live"]
    /\ Goto(w, "addSignal")
    /\ UNCHANGED <<db, used, logfile, signalVars, req, crashes>>

\* queue.Pop hands out a task; its context starts.
Pop(w) ==
    /\ wpc[w] = "pop"
    /\ \E x \in heap :
         /\ Q!HeapTop(x)
         /\ heap' = heap \ {x}
         /\ Q!ChangePrefix("current", "queue", x.id)
         /\ starts' = [starts EXCEPT ![x.id] = @ + 1]
         /\ tsk' = [tsk EXCEPT ![w] = x]
         /\ ctx' = [ctx EXCEPT ![x.id] = "live"]
    /\ Goto(w, "addSignal")
    /\ UNCHANGED <<used, logfile, signalVars, req, crashes>>

\* queue.Pop fails after taking the task off the heap; the error is logged.
PopError(w) ==
    /\ wpc[w] = "pop"
    /\ \E x \in heap :
         /\ Q!HeapTop(x)
         /\ ~Q!Has("queue", x.id) \/ IOFaults
         /\ heap' = heap \ {x}
    /\ UNCHANGED <<db, used, starts, workerVars, signalVars, req, crashes>>

\* Register the channel and start the watcher.
RegisterSignal(w) ==
    /\ wpc[w] = "addSignal"
    /\ AddSignal(tsk[w].id)
    /\ watch' = [watch EXCEPT ![tsk[w].id] = "select"]
    /\ Goto(w, "persistStart")
    /\ UNCHANGED <<queueVars, tsk, ctx, logfile, req, crashes>>

\* Append StateProcessing and persist; an error is only logged.
PersistStart(w) ==
    /\ wpc[w] = "persistStart"
    /\ tsk' = [tsk EXCEPT ![w].state = "processing"]
    /\ \/ Q!Put("current", tsk'[w])
       \/ IOFaults /\ UNCHANGED db
    /\ Goto(w, "openLog")
    /\ UNCHANGED <<heap, used, starts, ctx, logfile, signalVars, req, crashes>>

\* Create the task's .out file; on an error the worker gives the task up.
OpenLog(w) ==
    /\ wpc[w] = "openLog"
    /\ \/ /\ logfile' = logfile \cup {tsk[w].id}
          /\ Goto(w, "run")
          /\ UNCHANGED <<tsk, ctx>>
       \/ /\ IOFaults
          /\ Return(w)
          /\ UNCHANGED logfile
    /\ UNCHANGED <<queueVars, signalVars, req, crashes>>

\* Mutant: every context error counts as a cancellation.
OutcomesAnyContextError(type, c) ==
    {o \in Err \X Result :
        /\ o[1] = "canceled" => c # "live"
        /\ type = "run" => o[2] # "artifacts"
        /\ type = "build" => o[2] = IF o[1] = NoErr THEN "artifacts" ELSE NoResult}

\* What doRun and doBuild may return: context errors only from the task's own
\* context, artifacts only from a build that succeeded.  A runner may ignore
\* its context, and may return a result along with an error.
Outcomes(type, c) ==
    {o \in Err \X Result :
        /\ o[1] = "canceled" => c = "canceled"
        /\ o[1] = "deadline" => c = "deadline"
        /\ type = "run" => o[2] # "artifacts"
        /\ type = "build" => o[2] = IF o[1] = NoErr THEN "artifacts" ELSE NoResult}

\* Mutant: the channel is unregistered as soon as the runner returns.
RunReturnUnsignals(w) ==
    /\ wpc[w] = "run"
    /\ DeleteSignal(tsk[w].id)
    /\ \E o \in Outcomes(tsk[w].type, ctx[tsk[w].id]) :
         tsk' = [tsk EXCEPT ![w].err = o[1], ![w].result = o[2],
                            ![w].state = IF o[1] = "canceled" THEN "canceled"
                                                             ELSE "complete"]
    /\ Goto(w, "persistEnd")
    /\ UNCHANGED <<queueVars, ctx, logfile, watch, req, crashes>>

\* The runner or builder returns, and the worker appends the final state.
RunReturn(w) ==
    /\ wpc[w] = "run"
    /\ \E o \in Outcomes(tsk[w].type, ctx[tsk[w].id]) :
         tsk' = [tsk EXCEPT ![w].err = o[1], ![w].result = o[2],
                            ![w].state = IF o[1] = "canceled" THEN "canceled"
                                                             ELSE "complete"]
    /\ Goto(w, "persistEnd")
    /\ UNCHANGED <<queueVars, ctx, logfile, signalVars, req, crashes>>

\* Persist the finished task; on an error the worker gives it up.
PersistEnd(w) ==
    /\ wpc[w] = "persistEnd"
    /\ \/ /\ Q!Put("current", tsk[w])
          /\ Goto(w, "archive")
          /\ UNCHANGED <<tsk, ctx>>
       \/ /\ IOFaults
          /\ Return(w)
          /\ UNCHANGED db
    /\ UNCHANGED <<heap, used, starts, logfile, signalVars, req, crashes>>

\* Mutant: the task is persisted again after it is archived.
ArchiveThenPersist(w) ==
    /\ wpc[w] = "archive"
    /\ \/ /\ Q!ChangePrefix("archive", "current", tsk[w].id)
          /\ Goto(w, "persistEnd")
          /\ UNCHANGED <<tsk, ctx>>
       \/ /\ ~Q!Has("current", tsk[w].id) \/ IOFaults
          /\ Return(w)
          /\ UNCHANGED db
    /\ UNCHANGED <<heap, used, starts, logfile, signalVars, req, crashes>>

\* Archive the task; it may have been deleted meanwhile.
Archive(w) ==
    /\ wpc[w] = "archive"
    /\ \/ /\ Q!ChangePrefix("archive", "current", tsk[w].id)
          /\ Goto(w, "deleteSignal")
          /\ UNCHANGED <<tsk, ctx>>
       \/ /\ ~Q!Has("current", tsk[w].id) \/ IOFaults
          /\ Return(w)
          /\ UNCHANGED db
    /\ UNCHANGED <<heap, used, starts, logfile, signalVars, req, crashes>>

\* Mutant: the channel stays registered.
FinishKeepsSignal(w) ==
    /\ wpc[w] = "deleteSignal"
    /\ Return(w)
    /\ UNCHANGED <<queueVars, logfile, signalVars, req, crashes>>

\* Unregister the channel and return.
Finish(w) ==
    /\ wpc[w] = "deleteSignal"
    /\ DeleteSignal(tsk[w].id)
    /\ Return(w)
    /\ UNCHANGED <<queueVars, logfile, watch, req, crashes>>

-----------------------------------------------------------------------------
(***************************************************************************)
(* The watcher goroutine of a task, and its context's deadline.            *)
(***************************************************************************)
WatchClosed(t) ==
    /\ watch[t] = "select"
    /\ t \in closed
    /\ watch' = [watch EXCEPT ![t] = "deleteSignal"]
    /\ UNCHANGED <<queueVars, workerVars, req, crashes,
                   signals, closed, rlocked, leaked, wwait, killed>>

\* Mutant: the watcher unregisters the channel in both cases.
WatchDoneUnsignals(t) ==
    /\ watch[t] = "select"
    /\ ctx[t] # "live"
    /\ DeleteSignal(t)
    /\ watch' = [watch EXCEPT ![t] = "done"]
    /\ UNCHANGED <<queueVars, workerVars, req, crashes>>

WatchDone(t) ==
    /\ watch[t] = "select"
    /\ ctx[t] # "live"
    /\ watch' = [watch EXCEPT ![t] = "done"]
    /\ UNCHANGED <<queueVars, workerVars, req, crashes,
                   signals, closed, rlocked, leaked, wwait, killed>>

\* Mutant: cancel() is not called.
WatchDeleteReturns(t) ==
    /\ watch[t] = "deleteSignal"
    /\ DeleteSignal(t)
    /\ watch' = [watch EXCEPT ![t] = "done"]
    /\ UNCHANGED <<queueVars, workerVars, req, crashes>>

WatchDelete(t) ==
    /\ watch[t] = "deleteSignal"
    /\ DeleteSignal(t)
    /\ watch' = [watch EXCEPT ![t] = "cancel"]
    /\ UNCHANGED <<queueVars, workerVars, req, crashes>>

WatchCancel(t) ==
    /\ watch[t] = "cancel"
    /\ ctx' = Cancel(t)
    /\ watch' = [watch EXCEPT ![t] = "done"]
    /\ UNCHANGED <<queueVars, wpc, tsk, logfile, req, crashes,
                   signals, closed, rlocked, leaked, wwait, killed>>

\* The task timeout of the scheduler configuration expires.
Timeout(t) ==
    /\ ctx[t] = "live"
    /\ ctx' = [ctx EXCEPT ![t] = "deadline"]
    /\ UNCHANGED <<queueVars, wpc, tsk, logfile, signalVars, req, crashes>>

-----------------------------------------------------------------------------
(***************************************************************************)
(* Requests.  Storage.Get and Storage.Delete look under "archive",         *)
(* "current" and "queue" with one database read each; Tasks, as its two    *)
(* callers ask for it, scans the prefixes in the opposite order and holds  *)
(* signalsLk for reading meanwhile.                                        *)
(***************************************************************************)
GetOrder == <<"archive", "current", "queue">>

\* Mutant: the running tasks are listed first.
ScanRunningFirst == <<"current", "queue", "archive">>

ScanOrder == <<"queue", "current", "archive">>

Last(order) == order[Len(order)]
After(order, p) == order[1 + CHOOSE i \in 1..Len(order) : order[i] = p]

Kills(h, id) == req[h].op \in {"kill", "delete"} /\ req[h].id = id

\* A client asks for something about a task it knows of.
Request(h, op, id) ==
    /\ req[h].pc = "idle"
    /\ op \in Ops
    /\ id \in used
    /\ op \in {"kill", "delete"} =>
         Cardinality({g \in Handler : Kills(g, id)}) < MaxKills
    /\ req' = [req EXCEPT ![h] =
                 [NoRequest EXCEPT !.op = op, !.id = id,
                    !.pc = IF op \in {"kill", "delete"} THEN "kill"
                           ELSE IF op = "list" THEN "lock" ELSE "get"]]
    /\ UNCHANGED <<queueVars, workerVars, signalVars, crashes>>

Reply(h, r) == req' = [req EXCEPT ![h].pc = "done", ![h].reply = r]

\* Engine.Kill, called by killTaskHandler and first by deleteHandler; net/http
\* recovers a panic and drops the connection.
Kill(h) ==
    /\ req[h].pc = "kill"
    /\ CloseSignal(req[h].id)
    /\ \/ ClosePanics(req[h].id) /\ Reply(h, "panic")
       \/ ~ClosePanics(req[h].id) /\ req[h].op = "kill" /\ Reply(h, "ok")
       \/ /\ ~ClosePanics(req[h].id)
          /\ req[h].op = "delete"
          /\ req' = [req EXCEPT ![h].pc = "get"]
    /\ UNCHANGED <<queueVars, workerVars, crashes>>

\* One read of Storage.Get or Storage.Delete.
Get(h) ==
    LET p == req[h].at
        found == Q!Has(p, req[h].id) IN
    /\ req[h].pc = "get"
    /\ \/ found /\ req[h].op = "status" /\ Reply(h, "ok")
       \/ /\ found /\ req[h].op = "delete"
          /\ req' = [req EXCEPT ![h].pc = "remove"]
       \/ /\ ~found /\ p # Last(GetOrder)
          /\ req' = [req EXCEPT ![h].at = After(GetOrder, p)]
       \/ ~found /\ p = Last(GetOrder) /\ Reply(h, "notFound")
       \/ IOFaults /\ Reply(h, "error")
    /\ UNCHANGED <<queueVars, workerVars, signalVars, crashes>>

\* The delete that ends Storage.Delete; deleting an absent key succeeds.
Remove(h) ==
    /\ req[h].pc = "remove"
    /\ Q!DeleteKey(req[h].at, req[h].id)
    /\ Reply(h, "ok")
    /\ UNCHANGED <<heap, used, starts, workerVars, signalVars, crashes>>

\* The tasks a listing asks for: rangeIter's keys start at the filter's Before (a
\* week ago on the dashboard, no start for the tasks command) and end before the
\* second in which Tasks read the clock, so that a task of that very second is out
\* of range.  Time is not modelled: any of the tasks accepted so far may be in.
TimeRanges == SUBSET used

\* Tasks takes the read lock and starts on its range.
ListLock(h) ==
    /\ req[h].pc = "lock"
    /\ CanRLock
    /\ rlocked' = rlocked \cup {h}
    /\ \E range \in TimeRanges :
         req' = [req EXCEPT ![h].pc = "scan", ![h].at = ScanOrder[1],
                           ![h].missing = range]
    /\ UNCHANGED <<queueVars, workerVars, crashes,
                   watch, signals, closed, leaked, wwait, killed>>

\* Tasks filters one prefix (an iterator is a snapshot) and after the last one
\* releases the lock.  An error of Filter returns with the lock held.
ListScan(h) ==
    LET p == req[h].at
        rest == {t \in req[h].missing : ~Q!Has(p, t)} IN
    /\ req[h].pc = "scan"
    /\ \/ /\ p # Last(ScanOrder)
          /\ req' = [req EXCEPT ![h].at = After(ScanOrder, p), ![h].missing = rest]
          /\ UNCHANGED <<rlocked, leaked>>
       \/ /\ p = Last(ScanOrder)
          /\ req' = [req EXCEPT ![h].pc = "done", ![h].reply = "ok",
                                ![h].missing = rest]
          /\ rlocked' = rlocked \ {h}
          /\ UNCHANGED leaked
       \/ /\ IOFaults
          /\ Reply(h, "error")
          /\ rlocked' = rlocked \ {h}
          /\ leaked' = TRUE
    /\ UNCHANGED <<queueVars, workerVars, crashes, watch, signals, closed, wwait, killed>>

-----------------------------------------------------------------------------
\* The daemon dies and starts again on the same disk repository.
Crash ==
    /\ crashes < MaxCrashes
    /\ crashes' = crashes + 1
    /\ heap' = Q!Stored("queue") \cup Q!Stored("current")
    /\ wpc' = [w \in Worker |-> "pop"]
    /\ tsk' = [w \in Worker |-> NoTask]
    /\ ctx' = [t \in TaskId |-> "none"]
    /\ watch' = [t \in TaskId |-> "none"]
    /\ signals' = {}
    /\ closed' = {}
    /\ rlocked' = {}
    /\ leaked' = FALSE
    /\ wwait' = FALSE
    /\ req' = [h \in Handler |->
                 IF req[h].pc \in {"idle", "done"} THEN req[h]
                 ELSE [req[h] EXCEPT !.pc = "done", !.reply = "lost"]]
    /\ UNCHANGED <<db, used, starts, logfile, killed>>

-----------------------------------------------------------------------------
WorkerStep(w) ==
    \/ PopEmpty(w) \/ Pop(w) \/ PopError(w) \/ RegisterSignal(w)
    \/ PersistStart(w) \/ OpenLog(w) \/ PersistEnd(w) \/ Archive(w) \/ Finish(w)

WatchStep(t) ==
    WatchClosed(t) \/ WatchDone(t) \/ WatchDelete(t) \/ WatchCancel(t)

HandlerStep(h) ==
    Kill(h) \/ Get(h) \/ Remove(h) \/ ListLock(h) \/ ListScan(h)

Next ==
    \/ \E i \in TaskId, p \in Priority, c \in Time, y \in Type : Submit(i, p, c, y)
    \/ \E w \in Worker : WorkerStep(w) \/ RunReturn(w)
    \/ \E t \in TaskId : WatchStep(t) \/ Timeout(t)
    \/ \E h \in Handler, op \in Ops, id \in TaskId : Request(h, op, id)
    \/ \E h \in Handler : HandlerStep(h)
    \/ WriterWaits
    \/ Crash

Spec == Init /\ [][Next]_vars

(***************************************************************************)
(* Fairness.  Goroutines that can run do run.  Clients need not call, and  *)
(* nothing has to fail.  Runners may run forever; where a property needs   *)
(* them to end it assumes RunnerFairness: a runner returns once its        *)
(* context is done, and the task timeout sees to that.                     *)
(***************************************************************************)
GoroutineFairness ==
    /\ \A w \in Worker : WF_vars(WorkerStep(w))
    /\ \A t \in TaskId : WF_vars(WatchStep(t))
    /\ \A h \in Handler : WF_vars(HandlerStep(h))
    /\ WF_vars(WriterWaits)

RunnerFairness ==
    /\ \A t \in TaskId : WF_vars(Timeout(t))
    /\ \A w \in Worker : WF_vars(RunReturn(w) /\ ctx[tsk[w].id] # "live")

FairSpec == Spec /\ GoroutineFairness

-----------------------------------------------------------------------------
(***************************************************************************)
(* Properties.                                                             *)
(***************************************************************************)
RequestType ==
    [op : {"none", "kill", "delete", "status", "list"},
     id : TaskId \cup {NoTask},
     pc : {"idle", "kill", "get", "remove", "lock", "scan", "done"},
     at : Prefix,
     reply : {"none", "ok", "notFound", "panic", "error", "lost"},
     missing : SUBSET TaskId]

\* Every variable holds what the code's types allow, and a worker has a task
\* exactly while it is past Pop.
TypeOK ==
    /\ Q!TypeOK
    /\ wpc \in [Worker -> WorkerPC]
    /\ tsk \in [Worker -> Task \cup {NoTask}]
    /\ \A w \in Worker : wpc[w] = "pop" <=> tsk[w] = NoTask
    /\ ctx \in [TaskId -> {"none", "live", "canceled", "deadline"}]
    /\ watch \in [TaskId -> {"none", "select", "deleteSignal", "cancel", "done"}]
    /\ signals \subseteq TaskId
    /\ closed \subseteq killed /\ killed \subseteq TaskId
    /\ rlocked \subseteq Handler
    /\ leaked \in BOOLEAN /\ wwait \in BOOLEAN
    /\ logfile \subseteq TaskId
    /\ req \in [Handler -> RequestType]
    /\ crashes \in 0..MaxCrashes

\* The workers' use of the queue and the database is what TaskQueue describes;
\* what holds there (OnePrefix, AtMostOnce, ArchiveFinal, the lifecycle) holds
\* of the daemon.
ImplementsQueue == Q!Spec

\* A task is recorded as canceled only if its channel was closed on a client's
\* behalf: neither the task timeout nor the worker's own deferred cancel()
\* makes errors.Is(err, context.Canceled) true.
CanceledOnlyIfKilled ==
    \A p \in Prefix, t \in TaskId :
        Q!Has(p, t) /\ db[p][t].state = "canceled" => t \in killed

\* Until it is archived, a task that has started can be killed: its channel is
\* registered, unless somebody closed it already.
RunningHasSignal ==
    \A w \in Worker :
        wpc[w] \in Holding \ {"addSignal"} =>
            tsk[w].id \in signals \/ tsk[w].id \in closed

\* A finished task that was deleted is gone for good.
ArchivedDeleteSticks ==
    \A h \in Handler :
        req[h].op = "delete" /\ req[h].reply = "ok" /\ req[h].at = "archive" =>
            \A p \in Prefix : ~Q!Has(p, req[h].id)

\* A client's delete request removed t from the database.
DeletedByClient(t) ==
    \E h \in Handler : req[h].op = "delete" /\ req[h].reply = "ok" /\ req[h].id = t

\* Tasks scans the prefixes in the order in which tasks move through them, so
\* it lists every task of its time range (accepted in an earlier second, and not
\* before the range starts) that no client deleted, although the database moves
\* on between two scans.
ListComplete ==
    \A h \in Handler :
        req[h].op = "list" /\ req[h].reply = "ok" =>
            \A t \in req[h].missing : DeletedByClient(t)

\* Every accepted task is worked off and archived, whatever kills and listings
\* do in between, if runners return.
EveryTaskArchived ==
    RunnerFairness => \A t \in TaskId : Q!Has("queue", t) ~> Q!Has("archive", t)

\* Once Kill has closed a task's channel, the task's context is canceled,
\* however long the runner takes.
KillIsHonoured ==
    \A t \in TaskId : t \in closed ~> ctx[t] # "live"

-----------------------------------------------------------------------------
(***************************************************************************)
(* What comments say and the code does not do.                             *)
(***************************************************************************)

\* queue.go, NewQueue: "read the active tasks into the queue" - a task that was
\* active when the daemon died is worked on again.
ActiveTasksResume ==
    RunnerFairness =>
        \A t \in TaskId : Q!Has("current", t) ~> ~Q!Has("current", t)
=============================================================================
