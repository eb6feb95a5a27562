---------------------------- MODULE EngineProofs ----------------------------
(***************************************************************************)
(* Proofs about Engine and EngineLogs, for any number of tasks, workers,   *)
(* requests, followers and restarts, with or without database and file     *)
(* system failures: the engine implements TaskQueue, its safety properties *)
(* hold, and a client that follows a task learns how it ended.             *)
(***************************************************************************)
EXTENDS EngineLogs, TLAPS

\* What is proved about the queue, with the workers as its takers.
P == INSTANCE TaskQueueProofs WITH taken <- Held

-----------------------------------------------------------------------------
(***************************************************************************)
(* The inductive invariant.                                                *)
(***************************************************************************)
Busy(w) == wpc[w] # "pop"

\* A worker's task was started and is its own; a finished one has a new state.
WorkersOK ==
    /\ \A w \in Worker : Busy(w) => starts[tsk[w].id] = 1
    /\ \A v, w \in Worker :
          Busy(v) /\ Busy(w) /\ tsk[v].id = tsk[w].id => v = w
    /\ \A w \in Worker :
          wpc[w] \in {"persistEnd", "archive"} => tsk[w].state # "scheduled"

\* Cancellation has its origin in a closed channel: on the way from there to
\* the watcher, the context of a running task, and the worker's copy.
CancelOK ==
    /\ \A t \in TaskId : watch[t] \in {"deleteSignal", "cancel"} => t \in killed
    /\ \A w \in Worker : wpc[w] \in Holding /\ ctx[tsk[w].id] = "canceled"
                            => tsk[w].id \in killed
    /\ \A w \in Worker : Busy(w) /\ tsk[w].state = "canceled" => tsk[w].id \in killed

\* Only the watcher of a closed channel and the worker itself unregister it.
SignalOK ==
    \A t \in TaskId : watch[t] = "deleteSignal" => t \in closed

\* t is archived, or was, and nobody will write it again.
Settled(t) ==
    starts[t] = 1 /\ t \notin Held /\ ~Q!Has("queue", t) /\ ~Q!Has("current", t)

\* A request is about a task that was accepted, and a delete request that found
\* the task in the archive has the last word on it.
RequestsOK ==
    \A h \in Handler :
        /\ req[h].pc = "idle" => req[h].op = "none"
        /\ req[h].pc \in {"lock", "scan"} => req[h].op = "list"
        /\ req[h].pc = "remove" => req[h].op = "delete"
        /\ req[h].pc # "idle" => req[h].id \in used /\ req[h].id \in TaskId
        /\ req[h].pc # "done" => req[h].reply = "none"
        /\ req[h].op = "delete" /\ req[h].at = "archive" =>
              /\ req[h].pc = "remove" => Settled(req[h].id)
              /\ req[h].reply = "ok" =>
                    Settled(req[h].id) /\ ~Q!Has("archive", req[h].id)

\* Every accepted task is in the database until a client deletes it.
StoredOK ==
    \A t \in used : DeletedByClient(t) \/ \E p \in Prefix : Q!Has(p, t)

\* What a listing has not seen yet is still before it, or was deleted.
ListOK ==
    \A h \in Handler :
        req[h].op = "list" =>
        /\ req[h].missing \subseteq used
        /\ req[h].pc \in {"lock", "scan", "done"}
        /\ req[h].pc = "scan" =>
             \A t \in req[h].missing :
                /\ req[h].at = "current" => ~Q!Has("queue", t)
                /\ req[h].at = "archive" => Q!Has("archive", t) \/ DeletedByClient(t)

WorkerInv == WorkersOK /\ CancelOK /\ SignalOK /\ RunningHasSignal
RequestInv == RequestsOK /\ StoredOK /\ ListOK /\ ListComplete

EInv == Q!IInv /\ TypeOK /\ WorkerInv /\ RequestInv /\ CanceledOnlyIfKilled

-----------------------------------------------------------------------------
(***************************************************************************)
(* From the queue's theorems to the engine's queue.                        *)
(***************************************************************************)
LEMMA SameCardinality ==
    \A S : Q!Cardinality(S) = Cardinality(S) /\ P!Cardinality(S) = Cardinality(S)
BY DEF Q!Cardinality, P!Cardinality, Cardinality

LEMMA SameInvariant == (P!IInv <=> Q!IInv) /\ (P!IInv' <=> Q!IInv')
<1> USE DEF P!IInv, P!TypeOK, P!OnePrefix, P!KeysOK, P!HeapOK, P!TakenOK, P!StartsOK,
            P!Has, P!InHeap, P!Prefix, P!Task, P!State,
            Q!IInv, Q!TypeOK, Q!OnePrefix, Q!KeysOK, Q!HeapOK, Q!TakenOK, Q!StartsOK,
            Q!Has, Q!InHeap, Q!Prefix, Q!Task, Q!State
<1>1. P!IInv <=> Q!IInv OBVIOUS
<1>2. P!IInv' <=> Q!IInv' OBVIOUS
<1> QED BY <1>1, <1>2

LEMMA SameNext == [Q!Next]_(Q!vars) => [P!Next]_(P!vars)
<1> USE DEF P!Put, P!ChangePrefix, P!DeleteKey, P!HeapTop, P!Less, P!Stored, P!Has,
            P!Prefix, P!Task, P!State, P!vars,
            Q!Put, Q!ChangePrefix, Q!DeleteKey, Q!HeapTop, Q!Less, Q!Stored, Q!Has,
            Q!Prefix, Q!Task, Q!State, Q!vars
<1>1. ASSUME NEW x \in Q!NewTasks, Q!Push(x) PROVE P!Next
  <2>1. x \in P!NewTasks
    BY DEF Q!NewTasks, P!NewTasks, Q!NewTask, P!NewTask
  <2>2. P!Push(x)
    BY <1>1, SameCardinality DEF P!Push, Q!Push
  <2> QED BY <2>1, <2>2 DEF P!Next
<1>2. ASSUME Q!PushRejected \/ Q!PopEmpty PROVE P!Next
  BY <1>2, SameCardinality DEF P!Next, Q!PushRejected, Q!PopEmpty, P!PushRejected, P!PopEmpty
<1>3. ASSUME NEW x \in heap, Q!PopOK(x) PROVE P!Next
  <2>1. P!PopOK(x) BY <1>3 DEF P!PopOK, Q!PopOK
  <2> QED BY <2>1 DEF P!Next
<1>4. ASSUME NEW x \in heap, Q!PopError(x) PROVE P!Next
  <2>1. P!PopError(x) BY <1>4 DEF P!PopError, Q!PopError
  <2> QED BY <2>1 DEF P!Next
<1>5. ASSUME NEW x \in Q!Task, Q!PersistProcessing(x) PROVE P!Next
  <2>1. P!PersistProcessing(x) BY <1>5 DEF P!PersistProcessing, Q!PersistProcessing
  <2> QED BY <2>1 DEF P!Next
<1>6. ASSUME NEW id \in TaskId, Q!ArchiveTask(id) PROVE P!Next
  <2>1. P!ArchiveTask(id) BY <1>6 DEF P!ArchiveTask, Q!ArchiveTask
  <2> QED BY <2>1 DEF P!Next
<1>7. ASSUME NEW id \in TaskId, Q!GiveUp(id) PROVE P!Next
  <2>1. P!GiveUp(id) BY <1>7 DEF P!GiveUp, Q!GiveUp
  <2> QED BY <2>1 DEF P!Next
<1>8. ASSUME NEW p \in Q!Prefix, NEW id \in TaskId, Q!Delete(p, id) PROVE P!Next
  <2>1. P!Delete(p, id) BY <1>8 DEF P!Delete, Q!Delete
  <2> QED BY <2>1 DEF P!Next
<1>9. ASSUME Q!NewQueue PROVE P!Next
  BY <1>9 DEF Q!NewQueue, P!NewQueue, P!Next
<1> QED
  BY <1>1, <1>2, <1>3, <1>4, <1>5, <1>6, <1>7, <1>8, <1>9 DEF Q!Next

\* A step the queue allows preserves the queue's invariant.
LEMMA QueueStep ==
    ASSUME Q!IInv, [Q!Next]_(Q!vars)
    PROVE  Q!IInv'
<1>1. P!IInv /\ [P!Next]_(P!vars)
  BY SameInvariant, SameNext
<1>2. P!IInv'
  BY <1>1, P!NextIInv, QueueAssumption, NoTaskAssumption
     DEF Task, Q!Task, P!Task, Q!State, P!State
<1> QED
  BY <1>2, SameInvariant

-----------------------------------------------------------------------------
(***************************************************************************)
(* Every step is a step of the queue.                                      *)
(***************************************************************************)
LEMMA HeldMember == \A t : t \in Held <=> \E w \in Worker : wpc[w] \in Holding /\ tsk[w].id = t
BY DEF Held

\* A step that leaves the workers where they are, as far as the queue can see.
LEMMA HeldFrame ==
    ASSUME \A w \in Worker : /\ wpc'[w] \in Holding <=> wpc[w] \in Holding
                             /\ wpc[w] \in Holding => tsk'[w].id = tsk[w].id
    PROVE  Held' = Held
BY DEF Held

\* A worker that is done with its task no longer holds it, and nobody else does.
LEMMA HeldDrop ==
    ASSUME TypeOK, WorkersOK, NEW w \in Worker, wpc[w] \in Holding,
           NEW pc, pc \notin Holding, wpc' = [wpc EXCEPT ![w] = pc],
           \A v \in Worker \ {w} : tsk'[v] = tsk[v]
    PROVE  Held' = Held \ {tsk[w].id} /\ tsk[w].id \in Held
<1>1. \A v \in Worker : v # w => wpc'[v] = wpc[v]
  BY DEF TypeOK
<1>2. wpc'[w] = pc
  BY DEF TypeOK
<1>3. \A v \in Worker : wpc[v] \in Holding /\ tsk[v].id = tsk[w].id => v = w
  BY DEF WorkersOK, Busy, Holding
<1> QED
  BY <1>1, <1>2, <1>3 DEF Held

LEMMA HeldAdd ==
    ASSUME TypeOK, NEW w \in Worker, wpc[w] = "pop", NEW x,
           wpc' = [wpc EXCEPT ![w] = "addSignal"], tsk' = [tsk EXCEPT ![w] = x]
    PROVE  Held' = Held \cup {x.id}
<1>1. \A v \in Worker : v # w => wpc'[v] = wpc[v] /\ tsk'[v] = tsk[v]
  BY DEF TypeOK
<1>2. wpc'[w] = "addSignal" /\ tsk'[w] = x
  BY DEF TypeOK
<1> QED
  BY <1>1, <1>2 DEF Held, Holding

LEMMA WorkerTask ==
    ASSUME TypeOK, NEW w \in Worker, wpc[w] # "pop"
    PROVE  tsk[w] \in Task /\ tsk[w].id \in TaskId
BY DEF TypeOK, Task, Q!Task

LEMMA SubmitQueue ==
    ASSUME EInv, NEW i \in TaskId, NEW p \in Priority, NEW c \in Time, NEW y \in Type,
           Submit(i, p, c, y)
    PROVE  Q!Next
<1>1. Held' = Held
  BY DEF Submit, workerVars, Held
<1>2. Q!NewTask(i, p, c, y) \in Q!NewTasks /\ Q!NewTask(i, p, c, y).id = i
  BY DEF Q!NewTasks, Q!NewTask
<1>3. Q!Push(Q!NewTask(i, p, c, y))
  BY <1>1, <1>2, SameCardinality DEF Submit, Q!Push
<1> QED
  BY <1>2, <1>3 DEF Q!Next

LEMMA PopQueue ==
    ASSUME EInv, NEW w \in Worker, Pop(w)
    PROVE  Q!Next
<1>1. PICK x \in heap : /\ Q!HeapTop(x) /\ heap' = heap \ {x}
                        /\ Q!ChangePrefix("current", "queue", x.id)
                        /\ starts' = [starts EXCEPT ![x.id] = @ + 1]
                        /\ tsk' = [tsk EXCEPT ![w] = x]
  BY DEF Pop
<1>2. Held' = Held \cup {x.id}
  BY <1>1, HeldAdd DEF EInv, Pop, Goto
<1>3. Q!PopOK(x)
  BY <1>1, <1>2 DEF Pop, Q!PopOK
<1> QED
  BY <1>3 DEF Q!Next

LEMMA PopErrorQueue ==
    ASSUME EInv, NEW w \in Worker, PopError(w)
    PROVE  Q!Next
<1>1. Held' = Held
  BY DEF PopError, workerVars, Held
<1> QED
  BY <1>1 DEF PopError, Q!PopError, Q!Next

\* The worker writes its copy of its task under "current".
LEMMA PersistQueue ==
    ASSUME EInv, NEW w \in Worker, wpc[w] \in Holding,
           NEW x \in Task, x.id = tsk[w].id, x.state # "scheduled",
           Q!Put("current", x), Held' = Held, UNCHANGED <<heap, used, starts>>
    PROVE  Q!Next
<1>1. x.id \in Held
  BY HeldMember
<1>2. Q!PersistProcessing(x)
  BY <1>1 DEF Q!PersistProcessing
<1> QED
  BY <1>2 DEF Q!Next, Task

LEMMA PersistStartQueue ==
    ASSUME EInv, NEW w \in Worker, PersistStart(w)
    PROVE  [Q!Next]_(Q!vars)
<1>1. wpc[w] = "persistStart" /\ wpc' = [wpc EXCEPT ![w] = "openLog"]
      /\ tsk' = [tsk EXCEPT ![w].state = "processing"]
  BY DEF PersistStart, Goto
<1>2. tsk[w] \in Task
  BY <1>1, WorkerTask DEF EInv
<1>3. /\ tsk'[w] \in Task /\ tsk'[w].id = tsk[w].id /\ tsk'[w].state = "processing"
      /\ \A v \in Worker : v # w => tsk'[v] = tsk[v] /\ wpc'[v] = wpc[v]
      /\ wpc'[w] = "openLog"
  BY <1>1, <1>2 DEF EInv, TypeOK, Task, Q!Task, Q!State
<1>4. Held' = Held
  BY <1>1, <1>3, HeldFrame DEF Holding
<1>5. CASE Q!Put("current", tsk'[w])
  BY <1>1, <1>3, <1>4, <1>5, PersistQueue DEF PersistStart, Holding
<1>6. CASE UNCHANGED db
  BY <1>4, <1>6 DEF PersistStart, Q!vars
<1> QED
  BY <1>5, <1>6 DEF PersistStart

\* The worker gives its task up.
LEMMA GiveUpQueue ==
    ASSUME EInv, NEW w \in Worker, wpc[w] \in Holding, Return(w),
           UNCHANGED queueVars
    PROVE  Q!Next
<1>1. tsk[w].id \in TaskId
  BY WorkerTask DEF EInv, Holding
<1>2. \A v \in Worker \ {w} : tsk'[v] = tsk[v]
  BY DEF EInv, TypeOK, Return
<1>3. Held' = Held \ {tsk[w].id} /\ tsk[w].id \in Held
  BY <1>2, HeldDrop DEF EInv, WorkerInv, Return, Holding
<1>4. Q!GiveUp(tsk[w].id)
  BY <1>3 DEF Q!GiveUp, queueVars
<1> QED
  BY <1>1, <1>4 DEF Q!Next

LEMMA PersistEndQueue ==
    ASSUME EInv, NEW w \in Worker, PersistEnd(w)
    PROVE  Q!Next
<1>1. wpc[w] = "persistEnd"
  BY DEF PersistEnd
<1>2. tsk[w] \in Task /\ tsk[w].state # "scheduled"
  BY <1>1, WorkerTask DEF EInv, WorkerInv, WorkersOK
<1>3. CASE Q!Put("current", tsk[w]) /\ Goto(w, "archive") /\ UNCHANGED <<tsk, ctx>>
  <2>1. Held' = Held
    BY <1>1, <1>3, HeldFrame DEF EInv, TypeOK, Goto, Holding
  <2> QED
    BY <1>1, <1>2, <1>3, <2>1, PersistQueue DEF PersistEnd, Holding
<1>4. CASE Return(w) /\ UNCHANGED db
  BY <1>1, <1>4, GiveUpQueue DEF PersistEnd, queueVars, Holding
<1> QED
  BY <1>3, <1>4 DEF PersistEnd

LEMMA ArchiveQueue ==
    ASSUME EInv, NEW w \in Worker, Archive(w)
    PROVE  Q!Next
<1>1. wpc[w] = "archive" /\ tsk[w].id \in TaskId
  BY WorkerTask DEF Archive, EInv
<1>2. CASE /\ Q!ChangePrefix("archive", "current", tsk[w].id)
           /\ Goto(w, "deleteSignal") /\ UNCHANGED <<tsk, ctx>>
  <2>1. Held' = Held \ {tsk[w].id} /\ tsk[w].id \in Held
    BY <1>1, <1>2, HeldDrop DEF EInv, WorkerInv, Goto, Holding
  <2>2. Q!ArchiveTask(tsk[w].id)
    BY <1>2, <2>1 DEF Archive, Q!ArchiveTask
  <2> QED
    BY <1>1, <2>2 DEF Q!Next
<1>3. CASE Return(w) /\ UNCHANGED db
  BY <1>1, <1>3, GiveUpQueue DEF Archive, queueVars, Holding
<1> QED
  BY <1>2, <1>3 DEF Archive

LEMMA OpenLogQueue ==
    ASSUME EInv, NEW w \in Worker, OpenLog(w)
    PROVE  [Q!Next]_(Q!vars)
<1>1. wpc[w] = "openLog" /\ UNCHANGED queueVars
  BY DEF OpenLog
<1>2. CASE Goto(w, "run") /\ UNCHANGED <<tsk, ctx>>
  <2>1. Held' = Held
    BY <1>1, <1>2, HeldFrame DEF EInv, TypeOK, Goto, Holding
  <2> QED
    BY <1>1, <2>1 DEF queueVars, Q!vars
<1>3. CASE Return(w)
  BY <1>1, <1>3, GiveUpQueue DEF Holding
<1> QED
  BY <1>2, <1>3 DEF OpenLog

\* The other steps of a worker are none of the queue's business.
LEMMA WorkerQuiet ==
    ASSUME EInv, NEW w \in Worker, RegisterSignal(w) \/ RunReturn(w) \/ Finish(w)
    PROVE  UNCHANGED Q!vars
<1>1. UNCHANGED queueVars
  BY DEF RegisterSignal, RunReturn, Finish
<1>2. \A v \in Worker : v # w => tsk'[v] = tsk[v] /\ wpc'[v] = wpc[v]
  BY DEF EInv, TypeOK, RegisterSignal, RunReturn, Finish, Return, Goto
<1>3. /\ wpc'[w] \in Holding <=> wpc[w] \in Holding
      /\ wpc[w] \in Holding => tsk'[w].id = tsk[w].id
  <2>1. CASE RegisterSignal(w)
    BY <2>1 DEF EInv, TypeOK, RegisterSignal, Goto, Holding
  <2>2. CASE RunReturn(w)
    <3>1. tsk[w] \in Task /\ wpc'[w] = "persistEnd"
      BY <2>2, WorkerTask DEF EInv, TypeOK, RunReturn, Goto
    <3>2. tsk'[w].id = tsk[w].id
      BY <2>2, <3>1 DEF EInv, TypeOK, RunReturn, Task, Q!Task
    <3> QED BY <2>2, <3>1, <3>2 DEF RunReturn, Holding
  <2>3. CASE Finish(w)
    BY <2>3 DEF EInv, TypeOK, Finish, Return, Holding
  <2> QED BY <2>1, <2>2, <2>3
<1>4. Held' = Held
  BY <1>2, <1>3, HeldFrame
<1> QED
  BY <1>1, <1>4 DEF queueVars, Q!vars

LEMMA RemoveQueue ==
    ASSUME EInv, NEW h \in Handler, Remove(h)
    PROVE  Q!Next
<1>1. req[h].at \in Q!Prefix /\ req[h].id \in TaskId /\ req[h].id \in used
  BY DEF EInv, TypeOK, RequestType, Prefix, RequestInv, RequestsOK, Remove
<1>2. Held' = Held
  BY DEF Remove, workerVars, Held
<1>3. Q!Delete(req[h].at, req[h].id)
  BY <1>1, <1>2 DEF Remove, Q!Delete
<1> QED
  BY <1>1, <1>3 DEF Q!Next

LEMMA CrashQueue ==
    ASSUME Crash
    PROVE  Q!Next
<1>1. Held' = {}
  BY DEF Crash, Held, Holding
<1> QED
  BY <1>1 DEF Crash, Q!NewQueue, Q!Next

\* Watchers, timeouts, requests and locks leave queue and workers alone.
LEMMA QuietSteps ==
    ASSUME UNCHANGED queueVars, UNCHANGED <<wpc, tsk>>
    PROVE  UNCHANGED Q!vars
BY DEF queueVars, Q!vars, Held

LEMMA StepImplementsQueue ==
    ASSUME EInv, [Next]_vars
    PROVE  [Q!Next]_(Q!vars)
<1>1. ASSUME NEW i \in TaskId, NEW p \in Priority, NEW c \in Time, NEW y \in Type,
             Submit(i, p, c, y)
      PROVE  Q!Next
  BY <1>1, SubmitQueue
<1>2. ASSUME NEW w \in Worker, WorkerStep(w) \/ RunReturn(w)
      PROVE  [Q!Next]_(Q!vars)
  <2>1. CASE PopEmpty(w)
    BY <2>1, QuietSteps DEF PopEmpty, vars, workerVars
  <2>2. CASE Pop(w) BY <2>2, PopQueue
  <2>3. CASE PopError(w) BY <2>3, PopErrorQueue
  <2>4. CASE PersistStart(w) BY <2>4, PersistStartQueue
  <2>5. CASE OpenLog(w) BY <2>5, OpenLogQueue
  <2>6. CASE PersistEnd(w) BY <2>6, PersistEndQueue
  <2>7. CASE Archive(w) BY <2>7, ArchiveQueue
  <2>8. CASE RegisterSignal(w) \/ RunReturn(w) \/ Finish(w)
    BY <2>8, WorkerQuiet
  <2> QED
    BY <1>2, <2>1, <2>2, <2>3, <2>4, <2>5, <2>6, <2>7, <2>8 DEF WorkerStep
<1>3. ASSUME NEW t \in TaskId, WatchStep(t) \/ Timeout(t)
      PROVE  UNCHANGED Q!vars
  BY <1>3, QuietSteps DEF WatchStep, Timeout, WatchClosed, WatchDone, WatchDelete,
     WatchCancel, workerVars
<1>4. ASSUME NEW h \in Handler, NEW op \in Ops, NEW id \in TaskId, Request(h, op, id)
      PROVE  UNCHANGED Q!vars
  BY <1>4, QuietSteps DEF Request, workerVars
<1>5. ASSUME NEW h \in Handler, HandlerStep(h)
      PROVE  [Q!Next]_(Q!vars)
  <2>1. CASE Remove(h) BY <2>1, RemoveQueue
  <2>2. CASE Kill(h) \/ Get(h) \/ ListLock(h) \/ ListScan(h)
    BY <2>2, QuietSteps DEF Kill, Get, ListLock, ListScan, workerVars
  <2> QED
    BY <1>5, <2>1, <2>2 DEF HandlerStep
<1>6. CASE WriterWaits
  BY <1>6, QuietSteps DEF WriterWaits, workerVars
<1>7. CASE Crash
  BY <1>7, CrashQueue
<1>8. CASE UNCHANGED vars
  BY <1>8, QuietSteps DEF vars, workerVars
<1> QED
  BY <1>1, <1>2, <1>3, <1>4, <1>5, <1>6, <1>7, <1>8 DEF Next

-----------------------------------------------------------------------------
(***************************************************************************)
(* Types.                                                                  *)
(***************************************************************************)
LEMMA GetOrderFacts ==
    /\ Last(GetOrder) = "queue"
    /\ After(GetOrder, "archive") = "current" /\ After(GetOrder, "current") = "queue"
<1>1. Len(GetOrder) = 3 /\ GetOrder[1] = "archive" /\ GetOrder[2] = "current"
      /\ GetOrder[3] = "queue"
  BY DEF GetOrder
<1>2. (CHOOSE i \in 1..Len(GetOrder) : GetOrder[i] = "archive") = 1
  BY <1>1
<1>3. (CHOOSE i \in 1..Len(GetOrder) : GetOrder[i] = "current") = 2
  BY <1>1
<1> QED
  BY <1>1, <1>2, <1>3 DEF Last, After

LEMMA ScanOrderFacts ==
    /\ ScanOrder[1] = "queue" /\ Last(ScanOrder) = "archive"
    /\ After(ScanOrder, "queue") = "current" /\ After(ScanOrder, "current") = "archive"
<1>1. Len(ScanOrder) = 3 /\ ScanOrder[1] = "queue" /\ ScanOrder[2] = "current"
      /\ ScanOrder[3] = "archive"
  BY DEF ScanOrder
<1>2. (CHOOSE i \in 1..Len(ScanOrder) : ScanOrder[i] = "queue") = 1
  BY <1>1
<1>3. (CHOOSE i \in 1..Len(ScanOrder) : ScanOrder[i] = "current") = 2
  BY <1>1
<1> QED
  BY <1>1, <1>2, <1>3 DEF Last, After

\* What the queue's invariant says of the types.
LEMMA QueueTypes == ASSUME Q!IInv PROVE Q!TypeOK
BY DEF Q!IInv

\* The pieces of a request that handlers change one at a time.
LEMMA RequestUpdate ==
    ASSUME req \in [Handler -> RequestType], NEW h \in Handler
    PROVE  /\ \A r \in {"none", "ok", "notFound", "panic", "error", "lost"} :
                Reply(h, r) => req' \in [Handler -> RequestType]
           /\ \A pc \in {"idle", "kill", "get", "remove", "lock", "scan", "done"} :
                req' = [req EXCEPT ![h].pc = pc] => req' \in [Handler -> RequestType]
           /\ \A p \in Prefix :
                req' = [req EXCEPT ![h].at = p] => req' \in [Handler -> RequestType]
<1>1. \A r : r \in RequestType /\ req' = [req EXCEPT ![h] = r]
                => req' \in [Handler -> RequestType]
  OBVIOUS
<1>2. req[h] \in RequestType
  OBVIOUS
<1>3. ASSUME NEW r \in {"none", "ok", "notFound", "panic", "error", "lost"}, Reply(h, r)
      PROVE  req' \in [Handler -> RequestType]
  <2>1. [req[h] EXCEPT !.pc = "done", !.reply = r] \in RequestType
    BY <1>2 DEF RequestType
  <2> QED BY <1>3, <2>1 DEF Reply
<1>4. ASSUME NEW pc \in {"idle", "kill", "get", "remove", "lock", "scan", "done"},
             req' = [req EXCEPT ![h].pc = pc]
      PROVE  req' \in [Handler -> RequestType]
  <2>1. [req[h] EXCEPT !.pc = pc] \in RequestType
    BY <1>2 DEF RequestType
  <2> QED BY <1>4, <2>1
<1>5. ASSUME NEW p \in Prefix, req' = [req EXCEPT ![h].at = p]
      PROVE  req' \in [Handler -> RequestType]
  <2>1. [req[h] EXCEPT !.at = p] \in RequestType
    BY <1>2 DEF RequestType
  <2> QED BY <1>5, <2>1
<1> QED BY <1>3, <1>4, <1>5

LEMMA TypeStep ==
    ASSUME EInv, [Next]_vars, Q!TypeOK'
    PROVE  TypeOK'
<1> TypeOK
  BY DEF EInv
<1> USE DEF TypeOK
<1>1. ASSUME NEW i \in TaskId, NEW p \in Priority, NEW c \in Time, NEW y \in Type,
             Submit(i, p, c, y)
      PROVE  TypeOK'
  BY <1>1 DEF Submit, workerVars, signalVars
<1>2. ASSUME NEW w \in Worker, WorkerStep(w) \/ RunReturn(w)
      PROVE  TypeOK'
  <2>1. CASE PopEmpty(w)
    BY <2>1 DEF PopEmpty, vars, workerVars, signalVars
  <2>2. CASE Pop(w)
    <3>1. PICK x \in heap : /\ tsk' = [tsk EXCEPT ![w] = x]
                            /\ ctx' = [ctx EXCEPT ![x.id] = "live"]
      BY <2>2 DEF Pop
    <3>2. x \in Task /\ x # NoTask
      BY NoTaskAssumption DEF Q!TypeOK, Task
    <3> QED
      BY <2>2, <3>1, <3>2 DEF Pop, Goto, WorkerPC, Holding, signalVars
  <2>3. CASE PopError(w)
    BY <2>3 DEF PopError, workerVars, signalVars
  <2>4. CASE RegisterSignal(w)
    <3>1. tsk[w].id \in TaskId
      BY <2>4, WorkerTask DEF RegisterSignal
    <3> QED
      BY <2>4, <3>1 DEF RegisterSignal, AddSignal, Goto, WorkerPC, Holding
  <2>5. CASE PersistStart(w)
    <3>1. tsk[w] \in Task
      BY <2>5, WorkerTask DEF PersistStart
    <3>2. [tsk[w] EXCEPT !.state = "processing"] \in Task
      BY <3>1 DEF Task, Q!Task, Q!State
    <3> QED
      BY <2>5, <3>1, <3>2, NoTaskAssumption
         DEF PersistStart, Goto, WorkerPC, Holding, signalVars
  <2>6. CASE OpenLog(w)
    <3>1. tsk[w].id \in TaskId
      BY <2>6, WorkerTask DEF OpenLog
    <3> QED
      BY <2>6, <3>1 DEF OpenLog, Goto, Return, Cancel, WorkerPC, Holding, signalVars
  <2>7. CASE RunReturn(w)
    <3>1. tsk[w] \in Task
      BY <2>7, WorkerTask DEF RunReturn
    <3>2. PICK o \in Outcomes(tsk[w].type, ctx[tsk[w].id]) :
            tsk' = [tsk EXCEPT ![w].err = o[1], ![w].result = o[2],
                               ![w].state = IF o[1] = "canceled" THEN "canceled"
                                                                ELSE "complete"]
      BY <2>7 DEF RunReturn
    <3>3. o[1] \in Err /\ o[2] \in Result
      BY DEF Outcomes
    <3>4. tsk'[w] \in Task
      BY <3>1, <3>2, <3>3 DEF Task, Q!Task, Q!State
    <3>5. \A v \in Worker : v # w => tsk'[v] = tsk[v]
      BY <3>2
    <3>6. tsk' \in [Worker -> Task \cup {NoTask}]
      BY <3>2, <3>4, <3>5
    <3> QED
      BY <2>7, <3>4, <3>5, <3>6, NoTaskAssumption
         DEF RunReturn, Goto, WorkerPC, Holding, signalVars
  <2>8. CASE PersistEnd(w)
    BY <2>8 DEF PersistEnd, Goto, Return, Cancel, WorkerPC, Holding, signalVars
  <2>9. CASE Archive(w)
    BY <2>9 DEF Archive, Goto, Return, Cancel, WorkerPC, Holding, signalVars
  <2>10. CASE Finish(w)
    BY <2>10 DEF Finish, DeleteSignal, Return, Cancel, WorkerPC, Holding
  <2> QED
    BY <1>2, <2>1, <2>2, <2>3, <2>4, <2>5, <2>6, <2>7, <2>8, <2>9, <2>10 DEF WorkerStep
<1>3. ASSUME NEW t \in TaskId, WatchStep(t) \/ Timeout(t)
      PROVE  TypeOK'
  BY <1>3 DEF WatchStep, Timeout, WatchClosed, WatchDone, WatchDelete, WatchCancel,
     DeleteSignal, Cancel, workerVars, signalVars
<1>4. ASSUME NEW h \in Handler, NEW op \in Ops, NEW id \in TaskId, Request(h, op, id)
      PROVE  TypeOK'
  BY <1>4, OpsAssumption DEF Request, NoRequest, RequestType, Prefix, Q!Prefix,
     workerVars, signalVars
<1>5. ASSUME NEW h \in Handler, HandlerStep(h)
      PROVE  TypeOK'
  <2>1. CASE Kill(h)
    <3>1. req[h].id \in TaskId
      BY <2>1 DEF EInv, RequestInv, RequestsOK, Kill
    <3>2. req' \in [Handler -> RequestType]
      BY <2>1, RequestUpdate DEF Kill
    <3> QED
      BY <2>1, <3>1, <3>2 DEF Kill, CloseSignal, workerVars
  <2>2. CASE Get(h)
    <3>1. req[h].at \in Prefix /\ (req[h].at # "queue" => After(GetOrder, req[h].at) \in Prefix)
      BY GetOrderFacts DEF RequestType, Prefix, Q!Prefix
    <3>2. req' \in [Handler -> RequestType]
      BY <2>2, <3>1, RequestUpdate, GetOrderFacts DEF Get
    <3> QED
      BY <2>2, <3>2 DEF Get, workerVars, signalVars
  <2>3. CASE Remove(h)
    <3>1. req' \in [Handler -> RequestType]
      BY <2>3, RequestUpdate DEF Remove
    <3> QED
      BY <2>3, <3>1 DEF Remove, workerVars, signalVars
  <2>4. CASE ListLock(h)
    <3>0. PICK range \in SUBSET used :
             req' = [req EXCEPT ![h].pc = "scan", ![h].at = ScanOrder[1], ![h].missing = range]
      BY <2>4 DEF ListLock, TimeRanges
    <3>1. [req[h] EXCEPT !.pc = "scan", !.at = ScanOrder[1], !.missing = range] \in RequestType
      <4>1. req[h] \in RequestType /\ range \in SUBSET TaskId /\ ScanOrder[1] \in Prefix
        BY ScanOrderFacts DEF Q!TypeOK, Prefix, Q!Prefix
      <4> QED BY <4>1 DEF RequestType
    <3>2. req' \in [Handler -> RequestType]
      BY <3>0, <3>1
    <3> QED
      BY <2>4, <3>2 DEF ListLock, workerVars
  <2>5. CASE ListScan(h)
    <3> DEFINE rest == {t \in req[h].missing : ~Q!Has(req[h].at, t)}
    <3>1. req[h] \in RequestType /\ rest \in SUBSET TaskId
      BY DEF RequestType
    <3>2. req[h].at # "archive" => After(ScanOrder, req[h].at) \in Prefix
      BY <3>1, ScanOrderFacts DEF RequestType, Prefix, Q!Prefix
    <3>3. CASE req' = [req EXCEPT ![h].at = After(ScanOrder, req[h].at), ![h].missing = rest]
               /\ req[h].at # "archive" /\ UNCHANGED <<rlocked, leaked>>
      <4> HIDE DEF rest
      <4>1. [req[h] EXCEPT !.at = After(ScanOrder, req[h].at), !.missing = rest]
               \in RequestType
        BY <3>1, <3>2, <3>3 DEF RequestType
      <4>2. req' \in [Handler -> RequestType]
        BY <3>3, <4>1
      <4> QED BY <2>5, <3>3, <4>2 DEF ListScan, workerVars
    <3>4. CASE req' = [req EXCEPT ![h].pc = "done", ![h].reply = "ok", ![h].missing = rest]
               /\ rlocked' = rlocked \ {h} /\ UNCHANGED leaked
      <4> HIDE DEF rest
      <4>1. [req[h] EXCEPT !.pc = "done", !.reply = "ok", !.missing = rest] \in RequestType
        BY <3>1 DEF RequestType
      <4>2. req' \in [Handler -> RequestType]
        BY <3>4, <4>1
      <4> QED BY <2>5, <3>4, <4>2 DEF ListScan, workerVars
    <3>5. CASE Reply(h, "error") /\ rlocked' = rlocked \ {h} /\ leaked' = TRUE
      <4>1. req' \in [Handler -> RequestType]
        BY <3>5, RequestUpdate
      <4> QED BY <2>5, <3>5, <4>1 DEF ListScan, workerVars
    <3> QED
      BY <2>5, <3>3, <3>4, <3>5, ScanOrderFacts DEF ListScan
  <2> QED
    BY <1>5, <2>1, <2>2, <2>3, <2>4, <2>5 DEF HandlerStep
<1>6. CASE WriterWaits
  BY <1>6 DEF WriterWaits, workerVars
<1>7. CASE Crash
  <2>1. \A h \in Handler : [req[h] EXCEPT !.pc = "done", !.reply = "lost"] \in RequestType
    <3> TAKE h \in Handler
    <3>1. req[h] \in RequestType OBVIOUS
    <3> QED BY <3>1 DEF RequestType
  <2>2. req' \in [Handler -> RequestType]
    BY <1>7, <2>1 DEF Crash
  <2>3. crashes' \in 0..MaxCrashes
    <3>1. crashes < MaxCrashes /\ crashes' = crashes + 1
      BY <1>7 DEF Crash
    <3>2. crashes \in 0..MaxCrashes
      OBVIOUS
    <3> QED BY <3>1, <3>2, MaxCrashesAssumption
  <2>4. wpc' \in [Worker -> WorkerPC] /\ tsk' \in [Worker -> Task \cup {NoTask}]
        /\ \A w \in Worker : wpc'[w] = "pop" /\ tsk'[w] = NoTask
    BY <1>7 DEF Crash, WorkerPC
  <2>5. /\ ctx' \in [TaskId -> {"none", "live", "canceled", "deadline"}]
        /\ watch' \in [TaskId -> {"none", "select", "deleteSignal", "cancel", "done"}]
        /\ signals' = {} /\ closed' = {} /\ killed' = killed /\ rlocked' = {}
        /\ leaked' = FALSE /\ wwait' = FALSE /\ logfile' = logfile
    BY <1>7 DEF Crash
  <2> QED
    BY <2>2, <2>3, <2>4, <2>5
<1>8. CASE UNCHANGED vars
  BY <1>8 DEF vars, workerVars, signalVars
<1> QED
  BY <1>1, <1>2, <1>3, <1>4, <1>5, <1>6, <1>7, <1>8 DEF Next

-----------------------------------------------------------------------------
(***************************************************************************)
(* Workers, watchers and signals.                                          *)
(***************************************************************************)
LEMMA WorkerFrame ==
    ASSUME WorkerInv, UNCHANGED <<wpc, tsk, starts, ctx, watch, signals, closed, killed>>
    PROVE  WorkerInv'
BY DEF WorkerInv, WorkersOK, Busy, CancelOK, SignalOK, RunningHasSignal

\* A worker w that goes on to pc with its own task, or returns.
LEMMA WorkersMove ==
    ASSUME TypeOK, WorkersOK, NEW w \in Worker, Busy(w), NEW pc,
           wpc' = [wpc EXCEPT ![w] = pc], UNCHANGED starts,
           \A v \in Worker : v # w => tsk'[v] = tsk[v],
           pc # "pop" => tsk'[w].id = tsk[w].id,
           pc \in {"persistEnd", "archive"} => tsk'[w].state # "scheduled"
    PROVE  WorkersOK'
<1>1. wpc'[w] = pc /\ \A v \in Worker : v # w => wpc'[v] = wpc[v]
  BY DEF TypeOK
<1> QED
  BY <1>1 DEF WorkersOK, Busy

LEMMA PopWorkers ==
    ASSUME EInv, NEW w \in Worker, Pop(w)
    PROVE  WorkerInv'
<1>1. PICK x \in heap : /\ Q!ChangePrefix("current", "queue", x.id)
                        /\ starts' = [starts EXCEPT ![x.id] = @ + 1]
                        /\ tsk' = [tsk EXCEPT ![w] = x]
                        /\ ctx' = [ctx EXCEPT ![x.id] = "live"]
  BY DEF Pop
<1>2. x \in Task /\ x.id \in TaskId
  BY DEF EInv, Q!IInv, Q!TypeOK, Task, Q!Task
<1>3. Q!Has("queue", x.id) /\ x = db["queue"][x.id]
  BY <1>1 DEF Q!ChangePrefix, EInv, Q!IInv, Q!HeapOK
<1>4. starts[x.id] = 0 /\ starts'[x.id] = 1
      /\ \A t \in TaskId : t # x.id => starts'[t] = starts[t]
  BY <1>1, <1>2, <1>3 DEF EInv, Q!IInv, Q!StartsOK, Q!TypeOK
<1>5. /\ wpc'[w] = "addSignal" /\ tsk'[w] = x /\ ctx'[x.id] = "live"
      /\ \A v \in Worker : v # w => wpc'[v] = wpc[v] /\ tsk'[v] = tsk[v]
      /\ \A t \in TaskId : t # x.id => ctx'[t] = ctx[t]
  BY <1>1, <1>2 DEF Pop, Goto, EInv, TypeOK
<1>6. \A v \in Worker : Busy(v) => tsk[v].id \in TaskId /\ tsk[v].id # x.id
  BY <1>4, WorkerTask DEF EInv, WorkerInv, WorkersOK, Busy
<1>7. WorkersOK'
  BY <1>4, <1>5, <1>6 DEF EInv, WorkerInv, WorkersOK, Busy
<1>8. x.state = "canceled" => x.id \in killed
  BY <1>2, <1>3 DEF EInv, CanceledOnlyIfKilled, Prefix, Q!Prefix
<1>9. UNCHANGED signalVars
  BY DEF Pop
<1>10. CancelOK'
  BY <1>5, <1>6, <1>8, <1>9 DEF EInv, WorkerInv, CancelOK, Busy, Holding, signalVars
<1>11. SignalOK' /\ RunningHasSignal'
  BY <1>5, <1>9 DEF EInv, WorkerInv, SignalOK, RunningHasSignal, Holding, signalVars
<1> QED
  BY <1>7, <1>10, <1>11 DEF WorkerInv

\* The deferred cancel() of a worker that returns is nobody else's.
LEMMA ReturnWorkers ==
    ASSUME EInv, NEW w \in Worker, Busy(w), Return(w), UNCHANGED starts,
           UNCHANGED <<watch, closed, killed>>,
           signals \ {tsk[w].id} \subseteq signals'
    PROVE  WorkerInv'
<1>1. TypeOK /\ WorkersOK
  BY DEF EInv, WorkerInv
<1>2. /\ wpc'[w] = "pop" /\ tsk'[w] = NoTask
      /\ \A v \in Worker : v # w => wpc'[v] = wpc[v] /\ tsk'[v] = tsk[v]
      /\ \A t \in TaskId : t # tsk[w].id => ctx'[t] = ctx[t]
  BY <1>1 DEF Return, Cancel, TypeOK
<1>3. \A v \in Worker : v # w /\ Busy(v) => tsk[v].id # tsk[w].id /\ tsk[v].id \in TaskId
  BY <1>1, WorkerTask DEF WorkersOK, Busy
<1>4. WorkersOK'
  BY <1>1, <1>2, WorkersMove DEF Return
<1>5. CancelOK'
  BY <1>2, <1>3 DEF EInv, WorkerInv, CancelOK, Busy, Holding
<1>6. SignalOK'
  BY DEF EInv, WorkerInv, SignalOK
<1>7. RunningHasSignal'
  BY <1>2, <1>3 DEF EInv, WorkerInv, RunningHasSignal, Busy, Holding
<1> QED
  BY <1>4, <1>5, <1>6, <1>7 DEF WorkerInv

\* A worker that goes on, with its channel registered before or now.
LEMMA GotoWorkers ==
    ASSUME EInv, NEW w \in Worker, Busy(w), NEW pc, pc # "pop", pc # "addSignal", Goto(w, pc),
           UNCHANGED <<starts, ctx, closed, killed>>,
           signals \subseteq signals',
           \A t \in TaskId : watch'[t] \in {watch[t], "select"},
           \A v \in Worker : v # w => tsk'[v] = tsk[v],
           tsk'[w].id = tsk[w].id,
           tsk'[w].state = "canceled" => tsk[w].state = "canceled" \/ tsk[w].id \in killed,
           pc \in {"persistEnd", "archive"} => tsk'[w].state # "scheduled",
           pc \in Holding => tsk[w].id \in signals' \cup closed /\ wpc[w] \in Holding
    PROVE  WorkerInv'
<1>1. TypeOK /\ WorkersOK
  BY DEF EInv, WorkerInv
<1>2. wpc'[w] = pc /\ \A v \in Worker : v # w => wpc'[v] = wpc[v]
  BY <1>1 DEF Goto, TypeOK
<1>3. WorkersOK'
  BY <1>1, WorkersMove DEF Goto
<1>4. CancelOK'
  BY <1>2 DEF EInv, WorkerInv, CancelOK, Busy, Holding
<1>5. SignalOK'
  BY DEF EInv, WorkerInv, SignalOK
<1>6. RunningHasSignal'
  BY <1>2 DEF EInv, WorkerInv, RunningHasSignal, Holding
<1> QED
  BY <1>3, <1>4, <1>5, <1>6 DEF WorkerInv

LEMMA RegisterWorkers ==
    ASSUME EInv, NEW w \in Worker, RegisterSignal(w)
    PROVE  WorkerInv'
<1>1. wpc[w] = "addSignal" /\ tsk[w].id \in TaskId
  BY WorkerTask DEF RegisterSignal, EInv
<1>2. signals' = signals \cup {tsk[w].id}
      /\ UNCHANGED <<starts, ctx, closed, killed, tsk>> /\ Goto(w, "persistStart")
  BY DEF RegisterSignal, AddSignal, queueVars
<1>3. \A t \in TaskId : watch'[t] \in {watch[t], "select"}
  BY <1>1 DEF RegisterSignal, EInv, TypeOK
<1> QED
  BY <1>1, <1>2, <1>3, GotoWorkers DEF Busy, Holding, CancelOK

\* The steps in which a worker goes on and leaves signals and contexts alone.
LEMMA OnwardWorkers ==
    ASSUME EInv, NEW w \in Worker,
           NEW pc \in {"openLog", "run", "persistEnd", "archive", "deleteSignal"},
           wpc[w] \in Holding \ {"addSignal"}, Goto(w, pc), UNCHANGED <<starts, ctx, signalVars>>,
           \A v \in Worker : v # w => tsk'[v] = tsk[v],
           tsk'[w].id = tsk[w].id,
           tsk'[w].state = "canceled" => tsk[w].state = "canceled" \/ tsk[w].id \in killed,
           pc \in {"persistEnd", "archive"} => tsk'[w].state # "scheduled"
    PROVE  WorkerInv'
<1>1. tsk[w].id \in signals \cup closed
  BY DEF EInv, WorkerInv, RunningHasSignal
<1>2. UNCHANGED <<watch, signals, closed, killed>>
  BY DEF signalVars
<1>3. Busy(w) /\ pc # "pop" /\ pc # "addSignal"
  BY DEF Busy, Holding
<1> QED
  BY <1>1, <1>2, <1>3, GotoWorkers

LEMMA WorkerStepWorkers ==
    ASSUME EInv, NEW w \in Worker, WorkerStep(w) \/ RunReturn(w)
    PROVE  WorkerInv'
<1> TypeOK /\ WorkerInv
  BY DEF EInv
<1>1. CASE PopEmpty(w) \/ PopError(w)
  <2>1. UNCHANGED <<wpc, tsk, starts, ctx, watch, signals, closed, killed>>
    BY <1>1 DEF PopEmpty, PopError, vars, workerVars, signalVars, queueVars
  <2> QED BY <2>1, WorkerFrame
<1>2. CASE Pop(w)
  BY <1>2, PopWorkers
<1>3. CASE RegisterSignal(w)
  BY <1>3, RegisterWorkers
<1>4. CASE PersistStart(w)
  <2>1. tsk[w] \in Task
    BY <1>4, WorkerTask DEF PersistStart
  <2>2. tsk'[w].id = tsk[w].id /\ tsk'[w].state = "processing"
        /\ \A v \in Worker : v # w => tsk'[v] = tsk[v]
    BY <1>4, <2>1 DEF PersistStart, TypeOK, Task, Q!Task
  <2> QED
    BY <1>4, <2>2, OnwardWorkers DEF PersistStart, Holding
<1>5. CASE OpenLog(w)
  <2>1. wpc[w] = "openLog" /\ UNCHANGED <<starts, signalVars>>
    BY <1>5 DEF OpenLog, queueVars
  <2>2. CASE Goto(w, "run") /\ UNCHANGED <<tsk, ctx>>
    BY <2>1, <2>2, OnwardWorkers DEF Holding
  <2>3. CASE Return(w)
    BY <2>1, <2>3, ReturnWorkers DEF Busy, signalVars
  <2> QED
    BY <1>5, <2>2, <2>3 DEF OpenLog
<1>6. CASE RunReturn(w)
  <2>1. wpc[w] = "run" /\ Goto(w, "persistEnd") /\ UNCHANGED <<starts, ctx, signalVars>>
    BY <1>6 DEF RunReturn, queueVars
  <2>2. tsk[w] \in Task
    BY <2>1, WorkerTask
  <2>3. PICK o \in Outcomes(tsk[w].type, ctx[tsk[w].id]) :
          tsk' = [tsk EXCEPT ![w].err = o[1], ![w].result = o[2],
                             ![w].state = IF o[1] = "canceled" THEN "canceled"
                                                              ELSE "complete"]
    BY <1>6 DEF RunReturn
  <2>4. tsk'[w].id = tsk[w].id /\ \A v \in Worker : v # w => tsk'[v] = tsk[v]
    BY <2>2, <2>3 DEF TypeOK, Task, Q!Task
  <2>5. tsk'[w].state # "scheduled" /\ (tsk'[w].state = "canceled" => o[1] = "canceled")
    BY <2>2, <2>3 DEF TypeOK, Task, Q!Task
  <2>6. o[1] = "canceled" => tsk[w].id \in killed
    BY <2>1, <2>3 DEF Outcomes, WorkerInv, CancelOK, Holding
  <2> QED
    BY <2>1, <2>4, <2>5, <2>6, OnwardWorkers DEF Holding
<1>7. CASE PersistEnd(w)
  <2>1. wpc[w] = "persistEnd" /\ UNCHANGED <<starts, signalVars>>
        /\ tsk[w].state # "scheduled"
    BY <1>7 DEF PersistEnd, WorkerInv, WorkersOK
  <2>2. CASE Goto(w, "archive") /\ UNCHANGED <<tsk, ctx>>
    BY <2>1, <2>2, OnwardWorkers DEF Holding
  <2>3. CASE Return(w)
    BY <2>1, <2>3, ReturnWorkers DEF Busy, signalVars
  <2> QED
    BY <1>7, <2>2, <2>3 DEF PersistEnd
<1>8. CASE Archive(w)
  <2>1. wpc[w] = "archive" /\ UNCHANGED <<starts, signalVars>>
    BY <1>8 DEF Archive
  <2>2. CASE Goto(w, "deleteSignal") /\ UNCHANGED <<tsk, ctx>>
    BY <2>1, <2>2, OnwardWorkers DEF Holding
  <2>3. CASE Return(w)
    BY <2>1, <2>3, ReturnWorkers DEF Busy, signalVars
  <2> QED
    BY <1>8, <2>2, <2>3 DEF Archive
<1>9. CASE Finish(w)
  BY <1>9, ReturnWorkers DEF Finish, DeleteSignal, Busy, queueVars
<1> QED
  BY <1>1, <1>2, <1>3, <1>4, <1>5, <1>6, <1>7, <1>8, <1>9 DEF WorkerStep

LEMMA WatchWorkers ==
    ASSUME EInv, NEW t \in TaskId, WatchStep(t) \/ Timeout(t)
    PROVE  WorkerInv'
<1> TypeOK /\ WorkerInv
  BY DEF EInv
<1>1. UNCHANGED <<wpc, tsk, starts, closed, killed>>
  BY DEF WatchStep, WatchClosed, WatchDone, WatchDelete, WatchCancel, DeleteSignal,
     Timeout, queueVars, workerVars, signalVars
<1>2. WorkersOK'
  BY <1>1 DEF WorkerInv, WorkersOK, Busy
<1>3. \A u \in TaskId :
        /\ watch'[u] \in {"deleteSignal", "cancel"} => u \in killed
        /\ watch'[u] = "deleteSignal" => u \in closed
  BY DEF TypeOK, WorkerInv, CancelOK, SignalOK, WatchStep, WatchClosed, WatchDone,
     WatchDelete, WatchCancel, Timeout, signalVars
<1>4. \A u \in TaskId : ctx'[u] = "canceled" => ctx[u] = "canceled" \/ u \in killed
  BY DEF TypeOK, WorkerInv, CancelOK, WatchStep, WatchClosed, WatchDone, WatchDelete,
     WatchCancel, Timeout, Cancel, workerVars
<1>5. \A v \in Worker : Busy(v) => tsk[v].id \in TaskId
  BY WorkerTask DEF Busy
<1>6. CancelOK' /\ SignalOK'
  BY <1>1, <1>3, <1>4, <1>5 DEF WorkerInv, CancelOK, SignalOK, Busy, Holding
<1>7. signals \subseteq signals' \cup closed
  BY DEF WorkerInv, SignalOK, WatchStep, WatchClosed, WatchDone, WatchDelete,
     WatchCancel, DeleteSignal, Timeout, signalVars
<1>8. RunningHasSignal'
  BY <1>1, <1>7 DEF WorkerInv, RunningHasSignal
<1> QED
  BY <1>2, <1>6, <1>8 DEF WorkerInv

LEMMA HandlerWorkers ==
    ASSUME EInv, NEW h \in Handler, HandlerStep(h)
    PROVE  WorkerInv'
<1>1. WorkerInv
  BY DEF EInv
<1>2. CASE Kill(h)
  <2>1. UNCHANGED <<wpc, tsk, starts, ctx, watch, signals>>
    BY <1>2 DEF Kill, CloseSignal, queueVars, workerVars
  <2>2. closed \subseteq closed' /\ killed \subseteq killed'
    BY <1>2 DEF Kill, CloseSignal
  <2> QED
    BY <1>1, <2>1, <2>2 DEF WorkerInv, WorkersOK, Busy, CancelOK, SignalOK,
       RunningHasSignal
<1>3. CASE Get(h) \/ Remove(h) \/ ListLock(h) \/ ListScan(h)
  <2>1. UNCHANGED <<wpc, tsk, starts, ctx, watch, signals, closed, killed>>
    BY <1>3 DEF Get, Remove, ListLock, ListScan, queueVars, workerVars, signalVars
  <2> QED
    BY <1>1, <2>1, WorkerFrame
<1> QED
  BY <1>2, <1>3 DEF HandlerStep

LEMMA WorkerInvStep ==
    ASSUME EInv, [Next]_vars
    PROVE  WorkerInv'
<1>1. WorkerInv
  BY DEF EInv
<1>2. ASSUME NEW i \in TaskId, NEW p \in Priority, NEW c \in Time, NEW y \in Type,
             Submit(i, p, c, y)
      PROVE  WorkerInv'
  BY <1>1, <1>2, WorkerFrame DEF Submit, workerVars, signalVars
<1>3. ASSUME NEW h \in Handler, NEW op \in Ops, NEW id \in TaskId, Request(h, op, id)
      PROVE  WorkerInv'
  BY <1>1, <1>3, WorkerFrame DEF Request, queueVars, workerVars, signalVars
<1>4. CASE WriterWaits
  BY <1>1, <1>4, WorkerFrame DEF WriterWaits, queueVars, workerVars
<1>5. CASE Crash
  BY <1>5 DEF Crash, WorkerInv, WorkersOK, Busy, CancelOK, SignalOK, RunningHasSignal,
     Holding
<1>6. CASE UNCHANGED vars
  BY <1>1, <1>6, WorkerFrame DEF vars, queueVars, workerVars, signalVars
<1> QED
  BY <1>2, <1>3, <1>4, <1>5, <1>6, WorkerStepWorkers, WatchWorkers, HandlerWorkers
     DEF Next

-----------------------------------------------------------------------------
(***************************************************************************)
(* The canceled state in the database.                                     *)
(***************************************************************************)
LEMMA CanceledStep ==
    ASSUME EInv, [Next]_vars
    PROVE  CanceledOnlyIfKilled'
<1> DEFINE Cause(x, t) == x.state = "canceled" => t \in killed
<1>1. TypeOK /\ CanceledOnlyIfKilled /\ killed \subseteq killed'
      /\ db \in [Q!Prefix -> [TaskId -> Q!Task \cup {NoTask}]]
  <2>1. killed \subseteq killed'
    BY DEF Next, vars, Submit, WorkerStep, PopEmpty, Pop, PopError, RegisterSignal,
       AddSignal, PersistStart, OpenLog, RunReturn, PersistEnd, Archive, Finish,
       DeleteSignal, WatchStep, WatchClosed, WatchDone, WatchDelete, WatchCancel,
       Timeout, Request, HandlerStep, Kill, CloseSignal, Get, Remove, ListLock,
       ListScan, WriterWaits, Crash, signalVars
  <2> QED BY <2>1 DEF EInv, Q!IInv, Q!TypeOK
<1>2. ASSUME UNCHANGED db
      PROVE  CanceledOnlyIfKilled'
  BY <1>1, <1>2 DEF CanceledOnlyIfKilled, Q!Has
<1>3. ASSUME NEW p \in Prefix, NEW x \in Task, Q!Put(p, x), Cause(x, x.id)
      PROVE  CanceledOnlyIfKilled'
  <2>1. \A q \in Prefix, t \in TaskId : db'[q][t] = db[q][t] \/ (db'[q][t] = x /\ t = x.id)
    BY <1>1, <1>3 DEF Q!Put, Prefix, Task, Q!Task
  <2> QED
    BY <1>1, <1>3, <2>1 DEF CanceledOnlyIfKilled, Q!Has
<1>4. ASSUME NEW dst \in Prefix, NEW src \in Prefix, NEW id \in TaskId,
             Q!ChangePrefix(dst, src, id)
      PROVE  CanceledOnlyIfKilled'
  <2>1. \A q \in Prefix, t \in TaskId :
          db'[q][t] \in {db[q][t], NoTask} \/ (db'[q][t] = db[src][id] /\ t = id)
    BY <1>1, <1>4 DEF Q!ChangePrefix, Prefix
  <2>2. Q!Has(src, id)
    BY <1>4 DEF Q!ChangePrefix
  <2> QED
    BY <1>1, <1>4, <2>1, <2>2 DEF CanceledOnlyIfKilled, Q!Has
<1>5. ASSUME NEW h \in Handler, Remove(h)
      PROVE  CanceledOnlyIfKilled'
  <2>1. req[h].at \in Prefix /\ req[h].id \in TaskId
    BY <1>5 DEF EInv, TypeOK, RequestType, RequestInv, RequestsOK, Remove
  <2>2. \A q \in Prefix, t \in TaskId : db'[q][t] \in {db[q][t], NoTask}
    BY <1>1, <1>5, <2>1 DEF Remove, Q!DeleteKey, Prefix
  <2> QED
    BY <1>1, <2>2 DEF CanceledOnlyIfKilled, Q!Has
<1>6. "queue" \in Prefix /\ "current" \in Prefix /\ "archive" \in Prefix
  BY DEF Prefix, Q!Prefix
<1>7. ASSUME NEW i \in TaskId, NEW p \in Priority, NEW c \in Time, NEW y \in Type,
             Submit(i, p, c, y)
      PROVE  CanceledOnlyIfKilled'
  <2>1. Q!NewTask(i, p, c, y) \in Task /\ Q!NewTask(i, p, c, y).state = "scheduled"
    BY QueueAssumption DEF Q!NewTask, Task, Q!Task, Q!State
  <2> QED
    BY <1>3, <1>6, <1>7, <2>1 DEF Submit
<1>8. ASSUME NEW w \in Worker, Pop(w)
      PROVE  CanceledOnlyIfKilled'
  <2>1. PICK x \in heap : Q!ChangePrefix("current", "queue", x.id)
    BY <1>8 DEF Pop
  <2>2. x.id \in TaskId
    BY DEF EInv, Q!IInv, Q!TypeOK, Q!Task
  <2> QED
    BY <1>4, <1>6, <2>1, <2>2
<1>9. ASSUME NEW w \in Worker, PersistStart(w)
      PROVE  CanceledOnlyIfKilled'
  <2>1. tsk[w] \in Task
    BY <1>1, <1>9, WorkerTask DEF PersistStart
  <2>2. tsk'[w] \in Task /\ tsk'[w].state = "processing"
    BY <1>1, <1>9, <2>1 DEF PersistStart, TypeOK, Task, Q!Task, Q!State
  <2> QED
    BY <1>2, <1>3, <1>6, <1>9, <2>2 DEF PersistStart
<1>10. ASSUME NEW w \in Worker, PersistEnd(w)
       PROVE  CanceledOnlyIfKilled'
  <2>1. tsk[w] \in Task
    BY <1>1, <1>10, WorkerTask DEF PersistEnd
  <2>2. Cause(tsk[w], tsk[w].id)
    BY <1>10 DEF PersistEnd, EInv, WorkerInv, CancelOK, Busy
  <2> QED
    BY <1>2, <1>3, <1>6, <1>10, <2>1, <2>2 DEF PersistEnd
<1>11. ASSUME NEW w \in Worker, Archive(w)
       PROVE  CanceledOnlyIfKilled'
  <2>1. tsk[w].id \in TaskId
    BY <1>1, <1>11, WorkerTask DEF Archive
  <2> QED
    BY <1>2, <1>4, <1>6, <1>11, <2>1 DEF Archive
<1>12. ASSUME NEW w \in Worker,
              PopEmpty(w) \/ PopError(w) \/ RegisterSignal(w) \/ OpenLog(w)
                \/ RunReturn(w) \/ Finish(w)
       PROVE  UNCHANGED db
  BY <1>12 DEF PopEmpty, PopError, RegisterSignal, OpenLog, RunReturn, Finish, vars,
     queueVars
<1>13. ASSUME NEW t \in TaskId, WatchStep(t) \/ Timeout(t)
       PROVE  UNCHANGED db
  BY <1>13 DEF WatchStep, WatchClosed, WatchDone, WatchDelete, WatchCancel, Timeout,
     queueVars
<1>14. ASSUME NEW h \in Handler, Kill(h) \/ Get(h) \/ ListLock(h) \/ ListScan(h)
       PROVE  UNCHANGED db
  BY <1>14 DEF Kill, Get, ListLock, ListScan, queueVars
<1>15. ASSUME NEW h \in Handler, NEW op \in Ops, NEW id \in TaskId, Request(h, op, id)
       PROVE  UNCHANGED db
  BY <1>15 DEF Request, queueVars
<1>16. CASE WriterWaits \/ Crash \/ UNCHANGED vars
  BY <1>2, <1>16 DEF WriterWaits, Crash, vars, queueVars
<1> QED
  BY <1>2, <1>5, <1>7, <1>8, <1>9, <1>10, <1>11, <1>12, <1>13, <1>14, <1>15, <1>16
     DEF Next, WorkerStep, HandlerStep

-----------------------------------------------------------------------------
(***************************************************************************)
(* Requests.                                                               *)
(***************************************************************************)

\* What a step that is no request's own may do to an accepted task.
Forward(t) ==
    /\ Q!Has("queue", t)' => Q!Has("queue", t)
    /\ Q!Has("archive", t) => Q!Has("archive", t)'
    /\ (\E p \in Prefix : Q!Has(p, t)) => (\E p \in Prefix : Q!Has(p, t)')
    /\ Settled(t) => Settled(t)' /\ (~Q!Has("archive", t) => ~Q!Has("archive", t)')

LEMMA RequestFrame ==
    ASSUME RequestInv, UNCHANGED req, used \subseteq used',
           \A t \in used' \ used : \E p \in Prefix : Q!Has(p, t)',
           \A t \in used : Forward(t)
    PROVE  RequestInv'
<1>1. \A t : DeletedByClient(t)' <=> DeletedByClient(t)
  BY DEF DeletedByClient
<1>2. RequestsOK'
  BY DEF RequestInv, RequestsOK, Forward
<1>3. StoredOK'
  BY <1>1 DEF RequestInv, StoredOK, Forward
<1>4. ListOK'
  BY <1>1 DEF RequestInv, ListOK, Forward
<1>5. ListComplete'
  BY <1>1 DEF RequestInv, ListComplete
<1> QED
  BY <1>2, <1>3, <1>4, <1>5 DEF RequestInv

\* A step the queue does not see, of somebody else.
LEMMA QuietRequests ==
    ASSUME RequestInv, UNCHANGED req, UNCHANGED Q!vars
    PROVE  RequestInv'
<1>1. used' = used /\ db' = db /\ starts' = starts /\ Held' = Held
  BY DEF Q!vars
<1>2. \A t \in used : Forward(t)
  BY <1>1 DEF Forward, Settled, Q!Has
<1> QED
  BY <1>1, <1>2, RequestFrame

LEMMA SubmitRequests ==
    ASSUME EInv, NEW i \in TaskId, NEW p \in Priority, NEW c \in Time, NEW y \in Type,
           Submit(i, p, c, y)
    PROVE  RequestInv'
<1>1. used' = used \cup {i} /\ i \notin used /\ UNCHANGED <<req, starts, wpc, tsk>>
      /\ used \subseteq TaskId
  BY DEF Submit, workerVars, EInv, Q!IInv, Q!TypeOK
<1>2. Q!NewTask(i, p, c, y) \in Task /\ Q!NewTask(i, p, c, y).id = i
  BY QueueAssumption DEF Q!NewTask, Task, Q!Task, Q!State
<1>3. /\ db'["queue"][i] = Q!NewTask(i, p, c, y)
      /\ \A q \in Prefix, t \in TaskId : t # i => db'[q][t] = db[q][t]
  BY <1>2 DEF Submit, Q!Put, EInv, Q!IInv, Q!TypeOK, Prefix, Q!Prefix
<1>4. Held' = Held
  BY <1>1 DEF Held
<1>5. \A t \in used : Forward(t)
  BY <1>1, <1>3, <1>4 DEF Forward, Settled, Q!Has, Prefix, Q!Prefix
<1>6. Q!Has("queue", i)'
  BY <1>2, <1>3, NoTaskAssumption DEF Q!Has
<1> QED
  BY <1>1, <1>5, <1>6, RequestFrame DEF EInv, Prefix, Q!Prefix

LEMMA PopRequests ==
    ASSUME EInv, NEW w \in Worker, Pop(w)
    PROVE  RequestInv'
<1>1. PICK x \in heap : /\ Q!ChangePrefix("current", "queue", x.id)
                        /\ starts' = [starts EXCEPT ![x.id] = @ + 1]
                        /\ tsk' = [tsk EXCEPT ![w] = x]
  BY DEF Pop
<1>2. x.id \in TaskId /\ Q!Has("queue", x.id) /\ starts[x.id] = 0
  BY <1>1 DEF Q!ChangePrefix, EInv, Q!IInv, Q!TypeOK, Q!StartsOK, Q!Task
<1>3. /\ db'["current"][x.id] = db["queue"][x.id] /\ db'["queue"][x.id] = NoTask
      /\ db'["archive"][x.id] = db["archive"][x.id]
      /\ \A q \in Prefix, t \in TaskId : t # x.id => db'[q][t] = db[q][t]
  BY <1>1, <1>2 DEF Q!ChangePrefix, EInv, Q!IInv, Q!TypeOK, Prefix, Q!Prefix
<1>4. \A t \in TaskId : t # x.id => starts'[t] = starts[t]
  BY <1>1, <1>2 DEF EInv, Q!IInv, Q!TypeOK
<1>5. Held' = Held \cup {x.id}
  BY <1>1, HeldAdd DEF EInv, Pop, Goto
<1>6. used \subseteq TaskId /\ used' = used /\ req' = req
  BY DEF Pop, EInv, Q!IInv, Q!TypeOK
<1>7. \A t \in used : Forward(t)
  BY <1>2, <1>3, <1>4, <1>5, <1>6 DEF Forward, Settled, Q!Has, Prefix, Q!Prefix
<1> QED
  BY <1>6, <1>7, RequestFrame DEF EInv

\* A worker writes its task under "current".
LEMMA PersistRequests ==
    ASSUME EInv, NEW w \in Worker, wpc[w] \in Holding, NEW x \in Task, x.id = tsk[w].id,
           Q!Put("current", x), Held' = Held, UNCHANGED <<used, starts, req>>
    PROVE  RequestInv'
<1>1. x.id \in TaskId /\ x.id \in Held /\ x # NoTask
  BY HeldMember, NoTaskAssumption DEF Task, Q!Task
<1>2. /\ db'["current"][x.id] = x
      /\ \A q \in Prefix, t \in TaskId :
           q # "current" \/ t # x.id => db'[q][t] = db[q][t]
  BY <1>1 DEF Q!Put, EInv, Q!IInv, Q!TypeOK, Prefix, Q!Prefix
<1>3. used \subseteq TaskId
  BY DEF EInv, Q!IInv, Q!TypeOK
<1>4. \A t \in used : Forward(t)
  BY <1>1, <1>2, <1>3 DEF Forward, Settled, Q!Has, Prefix, Q!Prefix
<1> QED
  BY <1>4, RequestFrame DEF EInv

LEMMA GiveUpRequests ==
    ASSUME EInv, NEW w \in Worker, wpc[w] \in Holding, Return(w),
           UNCHANGED <<queueVars, req>>
    PROVE  RequestInv'
<1>1. \A v \in Worker \ {w} : tsk'[v] = tsk[v]
  BY DEF EInv, TypeOK, Return
<1>2. Held' = Held \ {tsk[w].id}
  BY <1>1, HeldDrop DEF EInv, WorkerInv, Return, Holding
<1>3. \A t \in used : Forward(t)
  BY <1>2 DEF Forward, Settled, Q!Has, queueVars
<1> QED
  BY <1>3, RequestFrame DEF EInv, queueVars

LEMMA ArchiveRequests ==
    ASSUME EInv, NEW w \in Worker, wpc[w] = "archive",
           Q!ChangePrefix("archive", "current", tsk[w].id),
           Goto(w, "deleteSignal"), UNCHANGED <<tsk, used, starts, req>>
    PROVE  RequestInv'
<1>1. tsk[w].id \in TaskId
  BY WorkerTask DEF EInv
<1>2. Held' = Held \ {tsk[w].id} /\ tsk[w].id \in Held
  BY HeldDrop DEF EInv, WorkerInv, Goto, Holding
<1>3. /\ db["current"][tsk[w].id] # NoTask
      /\ db'["archive"][tsk[w].id] = db["current"][tsk[w].id]
      /\ db'["current"][tsk[w].id] = NoTask
      /\ db'["queue"][tsk[w].id] = db["queue"][tsk[w].id]
      /\ \A q \in Prefix, t \in TaskId : t # tsk[w].id => db'[q][t] = db[q][t]
  BY <1>1 DEF Q!ChangePrefix, Q!Has, EInv, Q!IInv, Q!TypeOK, Prefix, Q!Prefix
<1>4. used \subseteq TaskId
  BY DEF EInv, Q!IInv, Q!TypeOK
<1>5. \A t \in used : Forward(t)
  BY <1>1, <1>2, <1>3, <1>4 DEF Forward, Settled, Q!Has, Prefix, Q!Prefix
<1> QED
  BY <1>5, RequestFrame DEF EInv

LEMMA WorkerRequests ==
    ASSUME EInv, NEW w \in Worker, WorkerStep(w) \/ RunReturn(w)
    PROVE  RequestInv'
<1> TypeOK /\ RequestInv
  BY DEF EInv
<1>1. CASE PopEmpty(w)
  BY <1>1, QuietSteps, QuietRequests DEF PopEmpty, vars, workerVars
<1>2. CASE Pop(w)
  BY <1>2, PopRequests
<1>3. CASE PopError(w)
  <2>1. used' = used /\ db' = db /\ starts' = starts /\ req' = req /\ Held' = Held
    BY <1>3 DEF PopError, workerVars, Held
  <2>2. \A t \in used : Forward(t)
    BY <2>1 DEF Forward, Settled, Q!Has
  <2> QED BY <2>1, <2>2, RequestFrame
<1>4. CASE PersistStart(w)
  <2>1. wpc[w] = "persistStart" /\ wpc' = [wpc EXCEPT ![w] = "openLog"]
        /\ tsk' = [tsk EXCEPT ![w].state = "processing"]
        /\ UNCHANGED <<heap, used, starts, req>>
    BY <1>4 DEF PersistStart, Goto
  <2>2. tsk[w] \in Task
    BY <2>1, WorkerTask
  <2>3. /\ tsk'[w] \in Task /\ tsk'[w].id = tsk[w].id
        /\ \A v \in Worker : v # w => tsk'[v] = tsk[v] /\ wpc'[v] = wpc[v]
        /\ wpc'[w] = "openLog"
    BY <2>1, <2>2 DEF TypeOK, Task, Q!Task, Q!State
  <2>4. Held' = Held
    BY <2>1, <2>3, HeldFrame DEF Holding
  <2>5. CASE Q!Put("current", tsk'[w])
    BY <2>1, <2>3, <2>4, <2>5, PersistRequests DEF Holding
  <2>6. CASE UNCHANGED db
    BY <2>1, <2>4, <2>6, QuietRequests DEF Q!vars
  <2> QED
    BY <1>4, <2>5, <2>6 DEF PersistStart
<1>5. CASE OpenLog(w)
  <2>1. wpc[w] = "openLog" /\ UNCHANGED <<queueVars, req>>
    BY <1>5 DEF OpenLog
  <2>2. CASE Goto(w, "run") /\ UNCHANGED <<tsk, ctx>>
    <3>1. Held' = Held
      BY <2>1, <2>2, HeldFrame DEF TypeOK, Goto, Holding
    <3> QED
      BY <2>1, <3>1, QuietRequests DEF queueVars, Q!vars
  <2>3. CASE Return(w)
    BY <2>1, <2>3, GiveUpRequests DEF Holding
  <2> QED
    BY <1>5, <2>2, <2>3 DEF OpenLog
<1>6. CASE RegisterSignal(w) \/ RunReturn(w) \/ Finish(w)
  <2>1. UNCHANGED req
    BY <1>6 DEF RegisterSignal, RunReturn, Finish
  <2> QED
    BY <1>6, <2>1, WorkerQuiet, QuietRequests
<1>7. CASE PersistEnd(w)
  <2>1. wpc[w] = "persistEnd" /\ tsk[w] \in Task /\ UNCHANGED <<heap, used, starts, req>>
    BY <1>7, WorkerTask DEF PersistEnd
  <2>2. CASE Q!Put("current", tsk[w]) /\ Goto(w, "archive") /\ UNCHANGED <<tsk, ctx>>
    <3>1. Held' = Held
      BY <2>1, <2>2, HeldFrame DEF TypeOK, Goto, Holding
    <3> QED
      BY <2>1, <2>2, <3>1, PersistRequests DEF Holding
  <2>3. CASE Return(w) /\ UNCHANGED db
    BY <2>1, <2>3, GiveUpRequests DEF queueVars, Holding
  <2> QED
    BY <1>7, <2>2, <2>3 DEF PersistEnd
<1>8. CASE Archive(w)
  <2>1. wpc[w] = "archive" /\ UNCHANGED <<heap, used, starts, req>>
    BY <1>8 DEF Archive
  <2>2. CASE Return(w) /\ UNCHANGED db
    BY <2>1, <2>2, GiveUpRequests DEF queueVars, Holding
  <2> QED
    BY <1>8, <2>1, <2>2, ArchiveRequests DEF Archive
<1> QED
  BY <1>1, <1>2, <1>3, <1>4, <1>5, <1>6, <1>7, <1>8 DEF WorkerStep

\* A handler h takes a step and leaves the database alone; what is left to show
\* is about its own request q.
LEMMA OwnRequest ==
    ASSUME EInv, NEW h \in Handler, req[h].pc # "done", NEW q,
           req' = [req EXCEPT ![h] = q], UNCHANGED Q!vars,
           /\ q.pc = "idle" => q.op = "none"
           /\ q.pc \in {"lock", "scan"} => q.op = "list"
           /\ q.pc = "remove" => q.op = "delete"
           /\ q.pc # "idle" => q.id \in used /\ q.id \in TaskId
           /\ q.pc # "done" => q.reply = "none",
           q.op = "delete" => q.reply # "ok" /\ (q.at = "archive" /\ q.pc = "remove" => Settled(q.id)),
           q.op = "list" =>
             /\ q.missing \subseteq used
             /\ q.pc \in {"lock", "scan", "done"}
             /\ q.pc = "scan" =>
                  \A t \in q.missing :
                     /\ q.at = "current" => ~Q!Has("queue", t)
                     /\ q.at = "archive" => Q!Has("archive", t) \/ DeletedByClient(t)
             /\ q.reply = "ok" => \A t \in q.missing : DeletedByClient(t)
    PROVE  RequestInv'
<1>1. used' = used /\ db' = db /\ starts' = starts /\ Held' = Held
  BY DEF Q!vars
<1>2. req'[h] = q /\ \A g \in Handler : g # h => req'[g] = req[g]
  BY DEF EInv, TypeOK
<1>3. req[h].reply = "none"
  BY DEF EInv, RequestInv, RequestsOK
<1>4. \A t : DeletedByClient(t) => DeletedByClient(t)'
  BY <1>2, <1>3 DEF DeletedByClient
<1>5. \A t : Settled(t)' <=> Settled(t)
  BY <1>1 DEF Settled, Q!Has
<1>6. RequestsOK'
  BY <1>1, <1>2, <1>5 DEF EInv, RequestInv, RequestsOK, Q!Has
<1>7. StoredOK'
  BY <1>1, <1>4 DEF EInv, RequestInv, StoredOK, Q!Has
<1>8. ListOK'
  BY <1>1, <1>2, <1>4 DEF EInv, RequestInv, ListOK, Q!Has
<1>9. ListComplete'
  BY <1>2, <1>4 DEF EInv, RequestInv, ListComplete
<1> QED
  BY <1>6, <1>7, <1>8, <1>9 DEF RequestInv

LEMMA RequestRequests ==
    ASSUME EInv, NEW h \in Handler, NEW op \in Ops, NEW id \in TaskId, Request(h, op, id)
    PROVE  RequestInv'
<1> DEFINE q == [NoRequest EXCEPT !.op = op, !.id = id,
                    !.pc = IF op \in {"kill", "delete"} THEN "kill"
                           ELSE IF op = "list" THEN "lock" ELSE "get"]
<1>1. req[h].pc = "idle" /\ id \in used /\ req' = [req EXCEPT ![h] = q]
  BY DEF Request
<1>2. UNCHANGED Q!vars
  BY QuietSteps DEF Request, workerVars
<1>3. /\ q.op = op /\ q.id = id /\ q.at = "archive" /\ q.reply = "none" /\ q.missing = {}
      /\ q.pc = IF op \in {"kill", "delete"} THEN "kill"
                ELSE IF op = "list" THEN "lock" ELSE "get"
  BY DEF NoRequest
<1> HIDE DEF q
<1> QED
  BY <1>1, <1>2, <1>3, OwnRequest

\* A request that ends without having changed anything.
LEMMA ReplyRequests ==
    ASSUME EInv, NEW h \in Handler, req[h].pc \notin {"idle", "done"}, NEW r, Reply(h, r),
           r = "ok" => req[h].op \notin {"delete", "list"}, UNCHANGED Q!vars
    PROVE  RequestInv'
<1> DEFINE q == [req[h] EXCEPT !.pc = "done", !.reply = r]
<1>1. req[h] \in RequestType
  BY DEF EInv, TypeOK
<1>2. /\ q.op = req[h].op /\ q.id = req[h].id /\ q.at = req[h].at /\ q.reply = r
      /\ q.missing = req[h].missing /\ q.pc = "done"
  BY <1>1 DEF RequestType
<1>3. req' = [req EXCEPT ![h] = q]
  BY DEF Reply
<1>4. req[h].id \in used /\ req[h].id \in TaskId
      /\ (req[h].op = "list" => req[h].missing \subseteq used)
  BY DEF EInv, RequestInv, RequestsOK, ListOK
<1> HIDE DEF q
<1> QED
  BY <1>2, <1>3, <1>4, OwnRequest

LEMMA KillRequests ==
    ASSUME EInv, NEW h \in Handler, Kill(h)
    PROVE  RequestInv'
<1>1. UNCHANGED Q!vars
  BY QuietSteps DEF Kill, workerVars
<1>2. req[h].pc = "kill"
  BY DEF Kill
<1>3. CASE Reply(h, "panic") \/ (req[h].op = "kill" /\ Reply(h, "ok"))
  BY <1>1, <1>2, <1>3, ReplyRequests
<1>4. CASE req[h].op = "delete" /\ req' = [req EXCEPT ![h].pc = "get"]
  <2> DEFINE q == [req[h] EXCEPT !.pc = "get"]
  <2>1. req[h] \in RequestType
    BY DEF EInv, TypeOK
  <2>2. /\ q.op = req[h].op /\ q.id = req[h].id /\ q.at = req[h].at
        /\ q.reply = req[h].reply /\ q.missing = req[h].missing /\ q.pc = "get"
    BY <2>1 DEF RequestType
  <2>3. req' = [req EXCEPT ![h] = q]
    BY <1>4
  <2>4. req[h].id \in used /\ req[h].id \in TaskId /\ req[h].reply = "none"
    BY <1>2 DEF EInv, RequestInv, RequestsOK
  <2> HIDE DEF q
  <2> QED
    BY <1>1, <1>2, <1>4, <2>2, <2>3, <2>4, OwnRequest
<1> QED
  BY <1>3, <1>4 DEF Kill

LEMMA GetRequests ==
    ASSUME EInv, NEW h \in Handler, Get(h)
    PROVE  RequestInv'
<1>1. UNCHANGED Q!vars
  BY QuietSteps DEF Get, workerVars
<1>2. req[h].pc = "get" /\ req[h].id \in used /\ req[h].id \in TaskId
      /\ req[h].reply = "none" /\ req[h].op # "list"
  BY DEF Get, EInv, RequestInv, RequestsOK, ListOK
<1>3. req[h] \in RequestType
  BY DEF EInv, TypeOK
<1>4. CASE \/ req[h].op = "status" /\ Reply(h, "ok")
           \/ Reply(h, "notFound") \/ Reply(h, "error")
  BY <1>1, <1>2, <1>4, ReplyRequests
<1>5. CASE /\ Q!Has(req[h].at, req[h].id) /\ req[h].op = "delete"
           /\ req' = [req EXCEPT ![h].pc = "remove"]
  <2> DEFINE q == [req[h] EXCEPT !.pc = "remove"]
  <2>1. /\ q.op = req[h].op /\ q.id = req[h].id /\ q.at = req[h].at
        /\ q.reply = req[h].reply /\ q.missing = req[h].missing /\ q.pc = "remove"
    BY <1>3 DEF RequestType
  <2>2. req' = [req EXCEPT ![h] = q]
    BY <1>5
  <2>3. req[h].at = "archive" => Settled(req[h].id)
    BY <1>2, <1>5 DEF Settled, EInv, Q!IInv, Q!OnePrefix, Q!StartsOK, Q!TakenOK, Q!Prefix
  <2>4. q.op = "delete" /\ q.pc = "remove" /\ q.reply = "none" /\ q.id = req[h].id
        /\ q.at = req[h].at
    BY <1>2, <1>5, <2>1
  <2> HIDE DEF q
  <2>5. req[h].pc # "done"
    BY <1>2
  <2> QED
    BY <1>1, <1>2, <2>2, <2>3, <2>4, <2>5, OwnRequest
<1>6. CASE req' = [req EXCEPT ![h].at = After(GetOrder, req[h].at)]
  <2> DEFINE q == [req[h] EXCEPT !.at = After(GetOrder, req[h].at)]
  <2>1. /\ q.op = req[h].op /\ q.id = req[h].id /\ q.pc = "get"
        /\ q.reply = req[h].reply /\ q.missing = req[h].missing
    BY <1>2, <1>3 DEF RequestType
  <2>2. req' = [req EXCEPT ![h] = q]
    BY <1>6
  <2> HIDE DEF q
  <2> QED
    BY <1>1, <1>2, <2>1, <2>2, OwnRequest
<1> QED
  BY <1>4, <1>5, <1>6 DEF Get

LEMMA ListLockRequests ==
    ASSUME EInv, NEW h \in Handler, ListLock(h)
    PROVE  RequestInv'
<1>0. PICK range \in SUBSET used :
         req' = [req EXCEPT ![h].pc = "scan", ![h].at = ScanOrder[1], ![h].missing = range]
  BY DEF ListLock, TimeRanges
<1> DEFINE q == [req[h] EXCEPT !.pc = "scan", !.at = ScanOrder[1], !.missing = range]
<1>1. UNCHANGED Q!vars
  BY QuietSteps DEF ListLock, workerVars
<1>2. req[h].pc = "lock" /\ req[h].id \in used /\ req[h].id \in TaskId
      /\ req[h].reply = "none" /\ req[h].op = "list"
  BY DEF ListLock, EInv, RequestInv, RequestsOK
<1>3. req[h] \in RequestType
  BY DEF EInv, TypeOK
<1>4. /\ q.op = req[h].op /\ q.id = req[h].id /\ q.at = "queue"
      /\ q.reply = req[h].reply /\ q.missing = range /\ q.pc = "scan"
  BY <1>3, ScanOrderFacts DEF RequestType
<1>5. req' = [req EXCEPT ![h] = q]
  BY <1>0
<1> HIDE DEF q
<1> QED
  BY <1>1, <1>2, <1>4, <1>5, OwnRequest

LEMMA ListScanRequests ==
    ASSUME EInv, NEW h \in Handler, ListScan(h)
    PROVE  RequestInv'
<1> DEFINE rest == {t \in req[h].missing : ~Q!Has(req[h].at, t)}
<1>1. UNCHANGED Q!vars
  BY QuietSteps DEF ListScan, workerVars
<1>2. req[h].pc = "scan" /\ req[h].id \in used /\ req[h].id \in TaskId
      /\ req[h].reply = "none" /\ req[h].op = "list" /\ req[h].missing \subseteq used
  BY DEF ListScan, EInv, RequestInv, RequestsOK, ListOK
<1>3. req[h] \in RequestType
  BY DEF EInv, TypeOK
<1>4. rest \subseteq used /\ rest \subseteq req[h].missing /\ \A t \in rest : ~Q!Has(req[h].at, t)
  BY <1>2
<1>5. /\ req[h].at = "current" => \A t \in req[h].missing : ~Q!Has("queue", t)
      /\ req[h].at = "archive" =>
           \A t \in req[h].missing : Q!Has("archive", t) \/ DeletedByClient(t)
  BY <1>2 DEF EInv, RequestInv, ListOK
<1>6. req[h].at \in {"queue", "current", "archive"}
  BY <1>3 DEF RequestType, Prefix, Q!Prefix
<1> HIDE DEF rest
<1>7. CASE /\ req[h].at # "archive"
           /\ req' = [req EXCEPT ![h].at = After(ScanOrder, req[h].at), ![h].missing = rest]
  <2> DEFINE q == [req[h] EXCEPT !.at = After(ScanOrder, req[h].at), !.missing = rest]
  <2>1. /\ q.op = req[h].op /\ q.id = req[h].id /\ q.reply = req[h].reply /\ q.pc = "scan"
        /\ q.missing = rest /\ q.at = After(ScanOrder, req[h].at)
    BY <1>2, <1>3 DEF RequestType
  <2>2. req' = [req EXCEPT ![h] = q]
    BY <1>7
  <2>3. CASE req[h].at = "queue"
    <3>1. q.at = "current" /\ \A t \in rest : ~Q!Has("queue", t)
      BY <1>4, <2>1, <2>3, ScanOrderFacts
    <3> HIDE DEF q
    <3> QED
      BY <1>1, <1>2, <1>4, <2>1, <2>2, <3>1, OwnRequest
  <2>4. CASE req[h].at = "current"
    <3>1. q.at = "archive"
      BY <2>1, <2>4, ScanOrderFacts
    <3>2. \A t \in rest : Q!Has("archive", t) \/ DeletedByClient(t)
      BY <1>4, <1>5, <2>4 DEF EInv, RequestInv, StoredOK, Prefix, Q!Prefix
    <3> HIDE DEF q
    <3> QED
      BY <1>1, <1>2, <1>4, <2>1, <2>2, <3>1, <3>2, OwnRequest
  <2> QED
    BY <1>6, <1>7, <2>3, <2>4
<1>8. CASE /\ req[h].at = "archive"
           /\ req' = [req EXCEPT ![h].pc = "done", ![h].reply = "ok", ![h].missing = rest]
  <2> DEFINE q == [req[h] EXCEPT !.pc = "done", !.reply = "ok", !.missing = rest]
  <2>1. /\ q.op = req[h].op /\ q.id = req[h].id /\ q.reply = "ok" /\ q.pc = "done"
        /\ q.missing = rest
    BY <1>3 DEF RequestType
  <2>2. req' = [req EXCEPT ![h] = q]
    BY <1>8
  <2>3. \A t \in rest : DeletedByClient(t)
    BY <1>4, <1>5, <1>8
  <2> HIDE DEF q
  <2> QED
    BY <1>1, <1>2, <1>4, <2>1, <2>2, <2>3, OwnRequest
<1>9. CASE Reply(h, "error")
  BY <1>1, <1>2, <1>9, ReplyRequests
<1> QED
  BY <1>7, <1>8, <1>9, ScanOrderFacts DEF ListScan, rest

LEMMA RemoveRequests ==
    ASSUME EInv, NEW h \in Handler, Remove(h)
    PROVE  RequestInv'
<1>1. /\ req[h].pc = "remove" /\ req[h].op = "delete" /\ req[h].reply = "none"
      /\ req[h].id \in used /\ req[h].id \in TaskId
      /\ req[h].at = "archive" => Settled(req[h].id)
  BY DEF Remove, EInv, RequestInv, RequestsOK
<1>2. req[h] \in RequestType /\ req[h].at \in Prefix
  BY DEF EInv, TypeOK, RequestType
<1>3. /\ req'[h].op = "delete" /\ req'[h].id = req[h].id /\ req'[h].at = req[h].at
      /\ req'[h].pc = "done" /\ req'[h].reply = "ok"
      /\ \A g \in Handler : g # h => req'[g] = req[g]
  BY <1>1, <1>2 DEF Remove, Reply, EInv, TypeOK, RequestType
<1>4. /\ db'[req[h].at][req[h].id] = NoTask
      /\ \A p \in Prefix, t \in TaskId :
           p # req[h].at \/ t # req[h].id => db'[p][t] = db[p][t]
  BY <1>1, <1>2 DEF Remove, Q!DeleteKey, EInv, Q!IInv, Q!TypeOK, Prefix
<1>5. used' = used /\ starts' = starts /\ Held' = Held /\ used \subseteq TaskId
  BY DEF Remove, workerVars, Held, EInv, Q!IInv, Q!TypeOK
<1>6. \A t : DeletedByClient(t) \/ t = req[h].id => DeletedByClient(t)'
  BY <1>1, <1>3 DEF DeletedByClient
<1>7. \A t \in TaskId : Settled(t) => Settled(t)'
  BY <1>4, <1>5 DEF Settled, Q!Has, Prefix, Q!Prefix
<1>8. \A p \in Prefix, t \in TaskId : ~Q!Has(p, t) => ~Q!Has(p, t)'
  BY <1>4 DEF Q!Has
<1>9. "archive" \in Prefix /\ "queue" \in Prefix
  BY DEF Prefix, Q!Prefix
<1>10. RequestsOK'
  <2>1. ASSUME NEW g \in Handler, g # h
        PROVE  RequestsOK!(g)'
    BY <1>3, <1>5, <1>7, <1>8, <1>9, <2>1 DEF EInv, RequestInv, RequestsOK
  <2>2. RequestsOK!(h)'
    BY <1>1, <1>3, <1>4, <1>5, <1>7 DEF Q!Has
  <2> QED
    BY <2>1, <2>2 DEF RequestsOK
<1>11. StoredOK'
  BY <1>4, <1>5, <1>6 DEF EInv, RequestInv, StoredOK, Q!Has
<1>12. ListOK'
  <2>1. \A t \in used : Q!Has("archive", t) => Q!Has("archive", t)' \/ DeletedByClient(t)'
    BY <1>4, <1>5, <1>6, <1>9 DEF Q!Has
  <2> QED
    BY <1>3, <1>5, <1>6, <1>8, <1>9, <2>1 DEF EInv, RequestInv, ListOK
<1>13. ListComplete'
  BY <1>3, <1>6 DEF EInv, RequestInv, ListComplete
<1> QED
  BY <1>10, <1>11, <1>12, <1>13 DEF RequestInv

LEMMA CrashRequests ==
    ASSUME EInv, Crash
    PROVE  RequestInv'
<1>1. used' = used /\ db' = db /\ starts' = starts /\ Held' = {}
  BY DEF Crash, Held, Holding
<1>2. ASSUME NEW h \in Handler
      PROVE  /\ req'[h].op = req[h].op /\ req'[h].id = req[h].id /\ req'[h].at = req[h].at
             /\ req'[h].missing = req[h].missing
             /\ \/ req[h].pc \in {"idle", "done"} /\ req'[h] = req[h]
                \/ req[h].pc \notin {"idle", "done"} /\ req'[h].pc = "done"
                   /\ req'[h].reply = "lost"
  <2>1. req[h] \in RequestType
    BY DEF EInv, TypeOK
  <2> QED
    BY <2>1 DEF Crash, RequestType
<1>3. \A h \in Handler : req[h].pc # "done" => req[h].reply = "none"
  BY DEF EInv, RequestInv, RequestsOK
<1>4. \A t : DeletedByClient(t) => DeletedByClient(t)'
  BY <1>2, <1>3 DEF DeletedByClient
<1>5. \A t : Settled(t) => Settled(t)'
  BY <1>1 DEF Settled, Q!Has
<1>6. RequestsOK'
  BY <1>1, <1>2, <1>5 DEF EInv, RequestInv, RequestsOK, Q!Has
<1>7. StoredOK'
  BY <1>1, <1>4 DEF EInv, RequestInv, StoredOK, Q!Has
<1>8. ListOK'
  BY <1>1, <1>2 DEF EInv, RequestInv, ListOK, Q!Has
<1>9. ListComplete'
  BY <1>2, <1>4 DEF EInv, RequestInv, ListComplete
<1> QED
  BY <1>6, <1>7, <1>8, <1>9 DEF RequestInv

LEMMA RequestInvStep ==
    ASSUME EInv, [Next]_vars
    PROVE  RequestInv'
<1>1. RequestInv
  BY DEF EInv
<1>2. ASSUME NEW t \in TaskId, WatchStep(t) \/ Timeout(t)
      PROVE  RequestInv'
  <2>1. UNCHANGED Q!vars /\ UNCHANGED req
    BY <1>2, QuietSteps DEF WatchStep, Timeout, WatchClosed, WatchDone, WatchDelete,
       WatchCancel, workerVars
  <2> QED BY <1>1, <2>1, QuietRequests
<1>3. ASSUME NEW h \in Handler, HandlerStep(h)
      PROVE  RequestInv'
  BY <1>3, KillRequests, GetRequests, RemoveRequests, ListLockRequests, ListScanRequests
     DEF HandlerStep
<1>4. CASE WriterWaits
  BY <1>1, <1>4, QuietSteps, QuietRequests DEF WriterWaits, workerVars
<1>5. CASE UNCHANGED vars
  BY <1>1, <1>5, QuietSteps, QuietRequests DEF vars, workerVars
<1> QED
  BY <1>2, <1>3, <1>4, <1>5, SubmitRequests, WorkerRequests, RequestRequests, CrashRequests
     DEF Next

-----------------------------------------------------------------------------
(***************************************************************************)
(* The theorems.                                                           *)
(***************************************************************************)
LEMMA InitEInv == Init => EInv
<1> SUFFICES ASSUME Init PROVE EInv
  OBVIOUS
<1> USE DEF Init
<1>1. Held = {}
  BY DEF Held, Holding
<1>2. Q!IInv
  BY <1>1 DEF Q!IInv, Q!TypeOK, Q!OnePrefix, Q!KeysOK, Q!HeapOK, Q!TakenOK, Q!StartsOK,
     Q!Has, Q!InHeap, Prefix, Q!Prefix
<1>3. TypeOK
  <2>1. NoRequest \in RequestType
    BY DEF NoRequest, RequestType, Prefix, Q!Prefix
  <2>2. req \in [Handler -> RequestType]
    BY <2>1
  <2>3. crashes \in 0..MaxCrashes
    BY MaxCrashesAssumption
  <2>4. wpc \in [Worker -> WorkerPC] /\ tsk \in [Worker -> Task \cup {NoTask}]
        /\ \A w \in Worker : wpc[w] = "pop" <=> tsk[w] = NoTask
    BY DEF WorkerPC
  <2>5. /\ ctx \in [TaskId -> {"none", "live", "canceled", "deadline"}]
        /\ watch \in [TaskId -> {"none", "select", "deleteSignal", "cancel", "done"}]
    OBVIOUS
  <2>6. Q!TypeOK
    BY <1>2 DEF Q!IInv
  <2> QED
    BY <2>2, <2>3, <2>4, <2>5, <2>6 DEF TypeOK
<1>4. WorkerInv
  BY DEF WorkerInv, WorkersOK, Busy, CancelOK, SignalOK, RunningHasSignal, Holding
<1>5. RequestInv
  BY DEF RequestInv, RequestsOK, StoredOK, ListOK, ListComplete, NoRequest
<1>6. CanceledOnlyIfKilled
  BY DEF CanceledOnlyIfKilled, Q!Has
<1> QED
  BY <1>2, <1>3, <1>4, <1>5, <1>6 DEF EInv

LEMMA NextEInv == EInv /\ [Next]_vars => EInv'
<1> SUFFICES ASSUME EInv, [Next]_vars PROVE EInv'
  OBVIOUS
<1>1. Q!IInv'
  BY StepImplementsQueue, QueueStep DEF EInv
<1>2. TypeOK'
  BY <1>1, TypeStep DEF Q!IInv
<1> QED
  BY <1>1, <1>2, WorkerInvStep, RequestInvStep, CanceledStep DEF EInv

\* The inductive invariant of the engine: the queue's own invariant, with the
\* workers as its takers, and what ties workers, watchers, channels and requests
\* to the database.
THEOREM EngineInvariance == Spec => []EInv
BY InitEInv, NextEInv, PTL DEF Spec

\* The engine's variables have their types, and a worker has a task exactly
\* between Pop and its return.
THEOREM EngineTypes == Spec => []TypeOK
<1>1. EInv => TypeOK
  BY DEF EInv
<1> QED
  BY <1>1, EngineInvariance, PTL

\* The engine's workers, requests and restarts use the queue and the database
\* as TaskQueue describes (supervisor.go, engine.go, storage.go).
THEOREM EngineImplementsQueue == Spec => ImplementsQueue
<1>1. Init => Q!Init
  <2>1. Init => Held = {}
    BY DEF Init, Held, Holding
  <2> QED
    BY <2>1 DEF Init, Q!Init, Prefix
<1>2. EInv /\ [Next]_vars => [Q!Next]_(Q!vars)
  BY StepImplementsQueue
<1> QED
  BY <1>1, <1>2, EngineInvariance, PTL DEF Spec, ImplementsQueue, Q!Spec

\* No run or build is handed to two workers, nor to one twice, over any number
\* of restarts, and no task is under two prefixes.
THEOREM EngineStartsOnce == Spec => [](Q!AtMostOnce /\ Q!OnePrefix)
<1>1. EInv => Q!AtMostOnce /\ Q!OnePrefix
  BY DEF EInv, Q!IInv, Q!AtMostOnce, Q!StartsOK
<1> QED
  BY <1>1, EngineInvariance, PTL

\* A task is stored as canceled only if a client had its channel closed.
THEOREM CanceledTasksWereKilled == Spec => []CanceledOnlyIfKilled
<1>1. EInv => CanceledOnlyIfKilled
  BY DEF EInv
<1> QED
  BY <1>1, EngineInvariance, PTL

\* A running task can be killed until it is archived.
THEOREM RunningTasksCanBeKilled == Spec => []RunningHasSignal
<1>1. EInv => RunningHasSignal
  BY DEF EInv, WorkerInv
<1> QED
  BY <1>1, EngineInvariance, PTL

\* A task that was deleted from the archive never comes back.
THEOREM ArchivedDeletesStick == Spec => []ArchivedDeleteSticks
<1>1. EInv => ArchivedDeleteSticks
  BY DEF EInv, RequestInv, RequestsOK, Settled, ArchivedDeleteSticks, Prefix, Q!Prefix
<1> QED
  BY <1>1, EngineInvariance, PTL

\* A listing misses no task of its time range but those a client deleted, however
\* many workers and requests move tasks between its three scans.
THEOREM ListingsAreComplete == Spec => []ListComplete
<1>1. EInv => ListComplete
  BY DEF EInv, RequestInv
<1> QED
  BY <1>1, EngineInvariance, PTL

-----------------------------------------------------------------------------
(***************************************************************************)
(* Followers of logs: the inductive invariant.                             *)
(***************************************************************************)
Ended == {"complete", "canceled"}

\* Whoever finds t gone from `signals` may conclude that t has ended, unless it
\* was killed.
Announced(t) == t \in killed \/ t \in signals \/ Settled(t)

\* The state a worker archives is a final one, and its task is settled when it
\* goes to unregister the channel.
WorkersEnd ==
    \A w \in Worker :
        /\ wpc[w] \in {"persistEnd", "archive"} => tsk[w].state \in Ended
        /\ wpc[w] = "archive" /\ Q!Has("current", tsk[w].id) =>
              db["current"][tsk[w].id].state \in Ended
        /\ wpc[w] = "deleteSignal" => Settled(tsk[w].id)

ArchiveEnded ==
    \A t \in TaskId : Q!Has("archive", t) => db["archive"][t].state \in Ended

\* A state other than "scheduled" is stored only after the channel is registered.
StartAnnounced ==
    crashes = 0 =>
        \A p \in Prefix, t \in TaskId :
            Q!Has(p, t) /\ db[p][t].state # "scheduled" => Announced(t)

EndOK == WorkersEnd /\ ArchiveEnded /\ StartAnnounced

\* What a follower knows of its task, from the loop that waits for its start to
\* the last read, as long as the daemon lives.
FollowerOK(r) ==
    /\ r.pc = "idle" => r.poll = "none" /\ ~r.stop
    /\ r.pc \in {"open", "tail", "decode", "return"} \/ r.poll = "poll" => Announced(r.id)
    /\ r.poll \in {"grace", "done"} \/ r.stop => r.id \in killed \/ Settled(r.id)
    /\ r.pc = "return" /\ ~r.gone => r.stop
    /\ r.pc = "done" /\ ~r.gone => r.id \in killed \/ r.seen \in Ended

FollowOK ==
    /\ \A f \in Follower : IF fol[f].pc = "idle" THEN fol[f].poll = "none"
                                                ELSE fol[f].id \in TaskId
    /\ crashes = 0 => \A f \in Follower : FollowerOK(fol[f])

LInv == EInv /\ LogsTypeOK /\ EndOK /\ FollowOK

-----------------------------------------------------------------------------
(***************************************************************************)
(* Steps of the engine.                                                    *)
(***************************************************************************)
LEMMA KilledGrows ==
    ASSUME [Next]_vars
    PROVE  killed \subseteq killed'
BY DEF Next, vars, Submit, WorkerStep, PopEmpty, Pop, PopError, RegisterSignal,
   AddSignal, PersistStart, OpenLog, RunReturn, PersistEnd, Archive, Finish,
   DeleteSignal, WatchStep, WatchClosed, WatchDone, WatchDelete, WatchCancel,
   Timeout, Request, HandlerStep, Kill, CloseSignal, Get, Remove, ListLock,
   ListScan, WriterWaits, Crash, signalVars

\* Nothing in the queue brings a settled task back.
LEMMA SettledStep ==
    ASSUME EInv, [Next]_vars, NEW t \in TaskId, Settled(t)
    PROVE  Settled(t)'
<1> USE DEF Settled, Q!Has, Prefix, Q!Prefix
<1>1. Q!IInv /\ [Q!Next]_(Q!vars)
  BY StepImplementsQueue DEF EInv
<1>2. Q!TypeOK /\ Q!StartsOK /\ t \in used
  BY <1>1 DEF Q!IInv, Q!StartsOK
<1>3. ASSUME NEW x \in Q!NewTasks, Q!Push(x) PROVE Settled(t)'
  <2>1. x.id # t
    BY <1>2, <1>3 DEF Q!Push
  <2>2. db'["queue"][t] = db["queue"][t] /\ db'["current"][t] = db["current"][t]
    BY <1>2, <1>3, <2>1 DEF Q!Push, Q!Put, Q!TypeOK
  <2> QED
    BY <1>3, <2>2 DEF Q!Push
<1>4. ASSUME NEW x \in heap, Q!PopOK(x) PROVE Settled(t)'
  <2>1. x.id # t /\ x.id \in TaskId
    BY <1>2, <1>4 DEF Q!PopOK, Q!ChangePrefix, Q!TypeOK, Q!Task
  <2>2. /\ db'["queue"][t] = db["queue"][t] /\ db'["current"][t] = db["current"][t]
        /\ starts'[t] = starts[t] /\ Held' = Held \cup {x.id}
    BY <1>2, <1>4, <2>1 DEF Q!PopOK, Q!ChangePrefix, Q!TypeOK
  <2> QED
    BY <2>1, <2>2
<1>5. ASSUME NEW x \in Q!Task, Q!PersistProcessing(x) PROVE Settled(t)'
  <2>1. x.id # t
    BY <1>5 DEF Q!PersistProcessing
  <2>2. db'["queue"][t] = db["queue"][t] /\ db'["current"][t] = db["current"][t]
    BY <1>2, <1>5, <2>1 DEF Q!PersistProcessing, Q!Put, Q!TypeOK
  <2> QED
    BY <1>5, <2>2 DEF Q!PersistProcessing
<1>6. ASSUME NEW id \in TaskId, Q!ArchiveTask(id) PROVE Settled(t)'
  <2>1. id # t
    BY <1>6 DEF Q!ArchiveTask
  <2>2. db'["queue"][t] = db["queue"][t] /\ db'["current"][t] = db["current"][t]
    BY <1>2, <1>6, <2>1 DEF Q!ArchiveTask, Q!ChangePrefix, Q!TypeOK
  <2> QED
    BY <1>6, <2>2 DEF Q!ArchiveTask
<1>7. ASSUME NEW p \in Prefix, NEW id \in TaskId, Q!Delete(p, id) PROVE Settled(t)'
  <2>1. /\ db'["queue"][t] \in {db["queue"][t], NoTask}
        /\ db'["current"][t] \in {db["current"][t], NoTask}
    BY <1>2, <1>7 DEF Q!Delete, Q!DeleteKey, Q!TypeOK
  <2> QED
    BY <1>7, <2>1 DEF Q!Delete
<1>8. CASE Q!PushRejected \/ Q!PopEmpty \/ (\E x \in heap : Q!PopError(x))
           \/ (\E id \in TaskId : Q!GiveUp(id)) \/ Q!NewQueue \/ UNCHANGED Q!vars
  BY <1>8 DEF Q!PushRejected, Q!PopEmpty, Q!PopError, Q!GiveUp, Q!NewQueue, Q!vars
<1> HIDE DEF Settled, Q!Has, Q!Prefix
<1>9. CASE Q!Next
  BY <1>3, <1>4, <1>5, <1>6, <1>7, <1>8, <1>9 DEF Q!Next
<1> QED
  BY <1>1, <1>8, <1>9 DEF Q!vars

\* A channel leaves `signals` for one of two reasons, until the daemon dies.
LEMMA AnnouncedStep ==
    ASSUME EInv, EndOK, [Next]_vars, crashes' = crashes, NEW t \in TaskId, Announced(t)
    PROVE  Announced(t)'
<1>1. CASE t \in killed
  BY <1>1, KilledGrows DEF Announced
<1>2. CASE Settled(t)
  BY <1>2, SettledStep DEF Announced
<1>3. CASE t \in signals /\ t \notin signals'
  <2>1. ~Crash
    <3>1. crashes \in Nat
      BY MaxCrashesAssumption DEF EInv, TypeOK
    <3>2. ASSUME Crash PROVE FALSE
      <4>1. crashes' = crashes + 1
        BY <3>2 DEF Crash
      <4> QED BY <3>1, <4>1
    <3> QED BY <3>2
  <2>2. \/ \E w \in Worker : Finish(w) /\ t = tsk[w].id
        \/ watch[t] = "deleteSignal"
    BY <1>3, <2>1 DEF Next, vars, Submit, WorkerStep, PopEmpty, Pop, PopError,
       RegisterSignal, AddSignal, PersistStart, OpenLog, RunReturn, PersistEnd, Archive,
       Finish, DeleteSignal, WatchStep, WatchClosed, WatchDone, WatchDelete, WatchCancel,
       Timeout, Request, HandlerStep, Kill, CloseSignal, Get, Remove, ListLock,
       ListScan, WriterWaits, signalVars
  <2>3. Settled(t) \/ t \in killed
    BY <2>2 DEF Finish, EndOK, WorkersEnd, EInv, WorkerInv, CancelOK
  <2> QED
    BY <2>3, <1>1, <1>2
<1> QED
  BY <1>1, <1>2, <1>3 DEF Announced

\* Where an entry of the database comes from.
LEMMA StoredStep ==
    ASSUME EInv, [Next]_vars, NEW q \in Prefix, NEW t \in TaskId, Q!Has(q, t)'
    PROVE  \/ Q!Has(q, t) /\ db'[q][t] = db[q][t]
           \/ q = "queue" /\ db'[q][t].state = "scheduled"
           \/ q = "current" /\ Q!Has("queue", t) /\ db'[q][t] = db["queue"][t]
           \/ /\ q = "current"
              /\ \E w \in Worker : /\ wpc[w] \in {"persistStart", "persistEnd"}
                                   /\ tsk[w].id = t
           \/ /\ q = "archive"
              /\ \E w \in Worker : wpc[w] = "archive" /\ tsk[w].id = t
              /\ Q!Has("current", t) /\ db'[q][t] = db["current"][t]
<1> DEFINE Goal == \/ Q!Has(q, t) /\ db'[q][t] = db[q][t]
                   \/ q = "queue" /\ db'[q][t].state = "scheduled"
                   \/ q = "current" /\ Q!Has("queue", t) /\ db'[q][t] = db["queue"][t]
                   \/ /\ q = "current"
                      /\ \E w \in Worker : /\ wpc[w] \in {"persistStart", "persistEnd"}
                                           /\ tsk[w].id = t
                   \/ /\ q = "archive"
                      /\ \E w \in Worker : wpc[w] = "archive" /\ tsk[w].id = t
                      /\ Q!Has("current", t) /\ db'[q][t] = db["current"][t]
<1> SUFFICES Goal
  OBVIOUS
<1>1. TypeOK /\ db \in [Q!Prefix -> [TaskId -> Q!Task \cup {NoTask}]]
  BY DEF EInv, Q!IInv, Q!TypeOK
<1>2. ASSUME UNCHANGED db PROVE Goal
  BY <1>2 DEF Q!Has
<1>3. ASSUME NEW i \in TaskId, NEW p \in Priority, NEW c \in Time, NEW y \in Type,
             Submit(i, p, c, y)
      PROVE  Goal
  <2>1. Q!NewTask(i, p, c, y).id = i /\ Q!NewTask(i, p, c, y).state = "scheduled"
    BY DEF Q!NewTask
  <2>2. db'[q][t] = db[q][t] \/ (q = "queue" /\ db'[q][t] = Q!NewTask(i, p, c, y))
    BY <1>1, <1>3, <2>1 DEF Submit, Q!Put, Prefix, Q!Prefix
  <2> QED
    BY <2>1, <2>2 DEF Q!Has
<1>4. ASSUME NEW w \in Worker, Pop(w) PROVE Goal
  <2>1. PICK x \in heap : Q!ChangePrefix("current", "queue", x.id)
    BY <1>4 DEF Pop
  <2>2. db'[q][t] \in {db[q][t], NoTask}
        \/ (q = "current" /\ Q!Has("queue", t) /\ db'[q][t] = db["queue"][t])
    BY <1>1, <2>1 DEF Q!ChangePrefix, Prefix, Q!Prefix
  <2> QED
    BY <2>2 DEF Q!Has
<1>5. ASSUME NEW w \in Worker, PersistStart(w) PROVE Goal
  <2>1. tsk[w] \in Task /\ wpc[w] = "persistStart"
    BY <1>1, <1>5, WorkerTask DEF PersistStart
  <2>2. tsk'[w].id = tsk[w].id
    BY <1>1, <1>5, <2>1 DEF PersistStart, TypeOK, Task, Q!Task
  <2>3. CASE Q!Put("current", tsk'[w])
    <3>1. db'[q][t] = db[q][t] \/ (q = "current" /\ t = tsk[w].id)
      BY <1>1, <2>2, <2>3 DEF Q!Put, Prefix, Q!Prefix
    <3> QED
      BY <2>1, <3>1 DEF Q!Has
  <2> QED
    BY <1>2, <1>5, <2>3 DEF PersistStart
<1>6. ASSUME NEW w \in Worker, PersistEnd(w) PROVE Goal
  <2>1. wpc[w] = "persistEnd"
    BY <1>6 DEF PersistEnd
  <2>2. CASE Q!Put("current", tsk[w])
    <3>1. db'[q][t] = db[q][t] \/ (q = "current" /\ t = tsk[w].id)
      BY <1>1, <2>2 DEF Q!Put, Prefix, Q!Prefix
    <3> QED
      BY <2>1, <3>1 DEF Q!Has
  <2> QED
    BY <1>2, <1>6, <2>2 DEF PersistEnd
<1>7. ASSUME NEW w \in Worker, Archive(w) PROVE Goal
  <2>1. wpc[w] = "archive"
    BY <1>7 DEF Archive
  <2>2. CASE Q!ChangePrefix("archive", "current", tsk[w].id)
    <3>1. db'[q][t] \in {db[q][t], NoTask}
          \/ (/\ q = "archive" /\ t = tsk[w].id
              /\ Q!Has("current", t) /\ db'[q][t] = db["current"][t])
      BY <1>1, <2>2 DEF Q!ChangePrefix, Prefix, Q!Prefix
    <3> QED
      BY <2>1, <3>1 DEF Q!Has
  <2> QED
    BY <1>2, <1>7, <2>2 DEF Archive
<1>8. ASSUME NEW h \in Handler, Remove(h) PROVE Goal
  <2>1. db'[q][t] \in {db[q][t], NoTask}
    BY <1>1, <1>8 DEF Remove, Q!DeleteKey, Prefix, Q!Prefix
  <2> QED
    BY <2>1 DEF Q!Has
<1>9. ASSUME NEW w \in Worker,
             PopEmpty(w) \/ PopError(w) \/ RegisterSignal(w) \/ OpenLog(w)
               \/ RunReturn(w) \/ Finish(w)
      PROVE  UNCHANGED db
  BY <1>9 DEF PopEmpty, PopError, RegisterSignal, OpenLog, RunReturn, Finish, vars,
     queueVars
<1>10. ASSUME NEW u \in TaskId, WatchStep(u) \/ Timeout(u)
       PROVE  UNCHANGED db
  BY <1>10 DEF WatchStep, WatchClosed, WatchDone, WatchDelete, WatchCancel, Timeout,
     queueVars
<1>11. ASSUME NEW h \in Handler, Kill(h) \/ Get(h) \/ ListLock(h) \/ ListScan(h)
       PROVE  UNCHANGED db
  BY <1>11 DEF Kill, Get, ListLock, ListScan, queueVars
<1>12. ASSUME NEW h \in Handler, NEW op \in Ops, NEW id \in TaskId, Request(h, op, id)
       PROVE  UNCHANGED db
  BY <1>12 DEF Request, queueVars
<1>13. CASE WriterWaits \/ Crash \/ UNCHANGED vars
  BY <1>2, <1>13 DEF WriterWaits, Crash, vars, queueVars
<1> HIDE DEF Goal
<1> QED
  BY <1>2, <1>3, <1>4, <1>5, <1>6, <1>7, <1>8, <1>9, <1>10, <1>11, <1>12, <1>13
     DEF Next, WorkerStep, HandlerStep

\* The steps that take a worker towards the end of its task.
LEMMA WorkerMoves ==
    ASSUME TypeOK, [Next]_vars, NEW v \in Worker
    PROVE  \/ wpc'[v] = wpc[v] /\ tsk'[v] = tsk[v]
           \/ wpc'[v] \notin {"persistEnd", "archive", "deleteSignal"}
           \/ RunReturn(v)
           \/ PersistEnd(v) /\ Q!Put("current", tsk[v]) /\ wpc'[v] = "archive"
                /\ tsk'[v] = tsk[v]
           \/ Archive(v) /\ Q!ChangePrefix("archive", "current", tsk[v].id)
                /\ Goto(v, "deleteSignal") /\ UNCHANGED tsk
<1> DEFINE Same == wpc'[v] = wpc[v] /\ tsk'[v] = tsk[v]
           Other == wpc'[v] \notin {"persistEnd", "archive", "deleteSignal"}
           End == \/ PersistEnd(v) /\ Q!Put("current", tsk[v]) /\ wpc'[v] = "archive"
                       /\ tsk'[v] = tsk[v]
                  \/ Archive(v) /\ Q!ChangePrefix("archive", "current", tsk[v].id)
                       /\ Goto(v, "deleteSignal") /\ UNCHANGED tsk
<1> SUFFICES Same \/ Other \/ RunReturn(v) \/ End
  OBVIOUS
<1> USE DEF TypeOK
<1>1. ASSUME NEW w \in Worker,
             Pop(w) \/ RegisterSignal(w) \/ PersistStart(w) \/ OpenLog(w) \/ Finish(w)
      PROVE  Same \/ Other
  BY <1>1 DEF Pop, RegisterSignal, PersistStart, OpenLog, Finish, Goto, Return
<1>2. ASSUME NEW w \in Worker, PopEmpty(w) \/ PopError(w)
      PROVE  Same
  BY <1>2 DEF PopEmpty, PopError, vars, workerVars
<1>3. ASSUME NEW w \in Worker, RunReturn(w)
      PROVE  Same \/ RunReturn(v)
  BY <1>3 DEF RunReturn, Goto
<1>4. ASSUME NEW w \in Worker, PersistEnd(w)
      PROVE  Same \/ Other \/ End
  BY <1>4 DEF PersistEnd, Goto, Return
<1>5. ASSUME NEW w \in Worker, Archive(w)
      PROVE  Same \/ Other \/ End
  BY <1>5 DEF Archive, Goto, Return
<1>6. ASSUME NEW u \in TaskId, WatchStep(u) \/ Timeout(u)
      PROVE  Same
  BY <1>6 DEF WatchStep, WatchClosed, WatchDone, WatchDelete, WatchCancel, Timeout,
     workerVars
<1>7. ASSUME NEW h \in Handler, HandlerStep(h)
      PROVE  Same
  BY <1>7 DEF HandlerStep, Kill, Get, Remove, ListLock, ListScan, workerVars
<1>8. ASSUME NEW h \in Handler, NEW op \in Ops, NEW id \in TaskId, Request(h, op, id)
      PROVE  Same
  BY <1>8 DEF Request, workerVars
<1>9. ASSUME NEW i \in TaskId, NEW p \in Priority, NEW c \in Time, NEW y \in Type,
             Submit(i, p, c, y)
      PROVE  Same
  BY <1>9 DEF Submit, workerVars
<1>10. CASE WriterWaits \/ UNCHANGED vars
  BY <1>10 DEF WriterWaits, vars, workerVars
<1>11. CASE Crash
  BY <1>11 DEF Crash
<1> HIDE DEF TypeOK, Same, Other, End
<1> QED
  BY <1>1, <1>2, <1>3, <1>4, <1>5, <1>6, <1>7, <1>8, <1>9, <1>10, <1>11
     DEF Next, WorkerStep

LEMMA WorkersEndStep ==
    ASSUME EInv, EndOK, [Next]_vars
    PROVE  WorkersEnd'
<1> SUFFICES ASSUME NEW v \in Worker, NEW id, id = tsk[v].id,
                    wpc'[v] \in {"persistEnd", "archive", "deleteSignal"}
             PROVE  /\ wpc'[v] \in {"persistEnd", "archive"} => tsk'[v].state \in Ended
                    /\ wpc'[v] = "archive" /\ Q!Has("current", id)' =>
                          db'["current"][id].state \in Ended
                    /\ wpc'[v] = "deleteSignal" => Settled(id)'
                    /\ tsk'[v].id = id
  BY DEF WorkersEnd, Q!Has, Settled
<1>1. TypeOK /\ WorkersEnd
  BY DEF EInv, EndOK
<1>2. CASE wpc'[v] = wpc[v] /\ tsk'[v] = tsk[v]
  <2>1. id \in TaskId
    BY <1>1, <1>2, WorkerTask
  <2>2. wpc[v] \in {"persistEnd", "archive"} => tsk'[v].state \in Ended
    BY <1>1, <1>2 DEF WorkersEnd
  <2>3. wpc[v] = "deleteSignal" => Settled(id)'
    BY <1>1, <2>1, SettledStep DEF WorkersEnd
  <2>4. ASSUME wpc[v] = "archive", Q!Has("current", id)'
        PROVE  db'["current"][id].state \in Ended
    <3>1. \A w \in Worker : wpc[w] \in {"persistStart", "persistEnd"} => tsk[w].id # id
      BY <2>4 DEF EInv, WorkerInv, WorkersOK, Busy
    <3>2. ~Q!Has("queue", id)
      BY <2>1, <2>4 DEF EInv, WorkerInv, WorkersOK, Busy, Q!IInv, Q!StartsOK
    <3>3. "current" \in Prefix
      BY DEF Prefix, Q!Prefix
    <3>4. Q!Has("current", id) /\ db'["current"][id] = db["current"][id]
      BY <2>1, <2>4, <3>1, <3>2, <3>3, StoredStep
    <3> QED
      BY <1>1, <2>4, <3>4 DEF WorkersEnd
  <2> QED
    BY <1>2, <2>2, <2>3, <2>4
<1>3. CASE RunReturn(v)
  <2>1. wpc[v] = "run" /\ Goto(v, "persistEnd")
    BY <1>3 DEF RunReturn
  <2>2. tsk[v] \in Task /\ wpc'[v] = "persistEnd"
    BY <1>1, <2>1, WorkerTask DEF Goto, TypeOK
  <2>3. PICK o : tsk' = [tsk EXCEPT ![v].err = o[1], ![v].result = o[2],
                             ![v].state = IF o[1] = "canceled" THEN "canceled"
                                                              ELSE "complete"]
    BY <1>3 DEF RunReturn
  <2>4. tsk'[v].state \in Ended /\ tsk'[v].id = id
    BY <1>1, <2>2, <2>3 DEF TypeOK, Task, Q!Task, Ended
  <2> QED
    BY <2>2, <2>4
<1>4. CASE PersistEnd(v) /\ Q!Put("current", tsk[v]) /\ wpc'[v] = "archive"
             /\ tsk'[v] = tsk[v]
  <2>1. wpc[v] = "persistEnd"
    BY <1>4 DEF PersistEnd
  <2>2. id \in TaskId /\ tsk[v].state \in Ended
    BY <1>1, <2>1, WorkerTask DEF WorkersEnd
  <2>3. db'["current"][id] = tsk[v]
    BY <1>4, <2>2 DEF Q!Put, EInv, Q!IInv, Q!TypeOK, Q!Prefix
  <2> QED
    BY <1>4, <2>2, <2>3
<1>5. CASE Archive(v) /\ Q!ChangePrefix("archive", "current", id)
             /\ Goto(v, "deleteSignal") /\ UNCHANGED tsk
  <2>1. wpc[v] = "archive" /\ starts' = starts
    BY <1>5 DEF Archive
  <2>2. id \in TaskId
    BY <1>1, <2>1, WorkerTask
  <2>3. wpc'[v] = "deleteSignal"
    BY <1>1, <1>5 DEF Goto, TypeOK
  <2>4. id \notin Held'
    BY <1>1, <1>5, <2>1, HeldDrop DEF EInv, WorkerInv, Goto, Holding
  <2>5. db'["current"][id] = NoTask /\ db'["queue"][id] = db["queue"][id]
    BY <1>5, <2>2 DEF Q!ChangePrefix, EInv, Q!IInv, Q!TypeOK, Q!Prefix
  <2>6. starts[id] = 1 /\ ~Q!Has("queue", id)
    BY <2>1, <2>2 DEF EInv, WorkerInv, WorkersOK, Busy, Q!IInv, Q!StartsOK
  <2> QED
    BY <1>5, <2>1, <2>3, <2>4, <2>5, <2>6 DEF Settled, Q!Has
<1> QED
  BY <1>1, <1>2, <1>3, <1>4, <1>5, WorkerMoves

LEMMA EndStep ==
    ASSUME EInv, EndOK, [Next]_vars
    PROVE  EndOK'
<1>1. ArchiveEnded'
  <2> SUFFICES ASSUME NEW t \in TaskId, Q!Has("archive", t)'
               PROVE  db'["archive"][t].state \in Ended
    BY DEF ArchiveEnded
  <2>1. "archive" \in Prefix
    BY DEF Prefix, Q!Prefix
  <2>2. \/ Q!Has("archive", t) /\ db'["archive"][t] = db["archive"][t]
        \/ /\ \E w \in Worker : wpc[w] = "archive" /\ tsk[w].id = t
           /\ Q!Has("current", t) /\ db'["archive"][t] = db["current"][t]
    BY <2>1, StoredStep
  <2> QED
    BY <2>2 DEF EndOK, ArchiveEnded, WorkersEnd
<1>2. StartAnnounced'
  <2> SUFFICES ASSUME crashes' = 0, NEW q \in Prefix, NEW t \in TaskId, Q!Has(q, t)',
                      db'[q][t].state # "scheduled"
               PROVE  Announced(t)'
    BY DEF StartAnnounced
  <2>1. crashes = 0
    <3>1. crashes \in Nat
      BY MaxCrashesAssumption DEF EInv, TypeOK
    <3>2. crashes' = crashes \/ crashes' = crashes + 1
      BY DEF Next, vars, Submit, WorkerStep, PopEmpty, Pop, PopError, RegisterSignal,
         PersistStart, OpenLog, RunReturn, PersistEnd, Archive, Finish, WatchStep,
         WatchClosed, WatchDone, WatchDelete, WatchCancel, Timeout, Request, HandlerStep,
         Kill, Get, Remove, ListLock, ListScan, WriterWaits, Crash
    <3> QED BY <3>1, <3>2
  <2>2. \A p \in Prefix : Q!Has(p, t) /\ db[p][t].state # "scheduled" => Announced(t)
    BY <2>1 DEF EndOK, StartAnnounced
  <2>3. \A w \in Worker : wpc[w] \in Holding \ {"addSignal"} /\ tsk[w].id = t => Announced(t)
    BY DEF EInv, TypeOK, WorkerInv, RunningHasSignal, Announced
  <2>4. Announced(t)
    BY <2>2, <2>3, StoredStep DEF Prefix, Q!Prefix, Holding
  <2> QED
    BY <2>1, <2>4, AnnouncedStep
<1> QED
  BY <1>1, <1>2, WorkersEndStep DEF EndOK

-----------------------------------------------------------------------------
(***************************************************************************)
(* Steps of followers.                                                     *)
(***************************************************************************)

\* What followers rely on survives a step that is no crash.
Keeps ==
    /\ crashes' = crashes
    /\ killed \subseteq killed'
    /\ \A t \in TaskId : /\ Announced(t) => Announced(t)'
                         /\ Settled(t) => Settled(t)'

LEMMA FollowerKeeps ==
    ASSUME Keeps, NEW r, r.pc # "idle" => r.id \in TaskId, FollowerOK(r)
    PROVE  FollowerOK(r)'
BY DEF Keeps, FollowerOK

LEMMA EngineKeeps ==
    ASSUME EInv, EndOK, [Next]_vars, crashes' = crashes
    PROVE  Keeps
BY KilledGrows, AnnouncedStep, SettledStep DEF Keeps

LEMMA EngineQuiet ==
    ASSUME EInv, EndOK, UNCHANGED vars
    PROVE  EInv' /\ EndOK' /\ Keeps
<1>1. [Next]_vars /\ crashes' = crashes
  BY DEF vars
<1> QED
  BY <1>1, NextEInv, EndStep, EngineKeeps

\* A follower closes its task's channel.
LEMMA CloseStep ==
    ASSUME EInv, EndOK, NEW t \in TaskId, CloseSignal(t),
           UNCHANGED <<queueVars, workerVars, req, crashes>>
    PROVE  EInv' /\ EndOK' /\ Keeps
<1>1. UNCHANGED Q!vars
  BY QuietSteps DEF workerVars
<1>2. Q!IInv'
  BY <1>1, QueueStep DEF EInv
<1>3. /\ signals' = signals /\ closed \subseteq closed' /\ killed \subseteq killed'
      /\ closed' \subseteq killed' /\ killed' \subseteq TaskId
      /\ leaked' \in BOOLEAN /\ UNCHANGED <<watch, rlocked, wwait>>
  BY DEF CloseSignal, EInv, TypeOK
<1>4. TypeOK'
  BY <1>2, <1>3 DEF EInv, TypeOK, Q!IInv, queueVars, workerVars
<1>5. WorkerInv'
  BY <1>3 DEF EInv, WorkerInv, WorkersOK, Busy, CancelOK, SignalOK, RunningHasSignal,
     queueVars, workerVars
<1>6. RequestInv'
  BY <1>1, QuietRequests DEF EInv
<1>7. CanceledOnlyIfKilled'
  BY <1>3 DEF EInv, CanceledOnlyIfKilled, Q!Has, queueVars
<1>8. \A u : Settled(u) <=> Settled(u)'
  BY <1>1 DEF Settled, Q!Has, Q!vars
<1>9. \A u : Announced(u) => Announced(u)'
  BY <1>3, <1>8 DEF Announced
<1>10. WorkersEnd'
  BY <1>8 DEF EndOK, WorkersEnd, Q!Has, queueVars, workerVars, Settled, Held
<1>11. ArchiveEnded' /\ StartAnnounced'
  BY <1>9 DEF EndOK, ArchiveEnded, StartAnnounced, Q!Has, queueVars
<1> QED
  BY <1>2, <1>3, <1>4, <1>5, <1>6, <1>7, <1>8, <1>9, <1>10, <1>11 DEF EInv, EndOK, Keeps

\* A follower f takes a step; what is left to show is about its own request r.
LEMMA OwnFollow ==
    ASSUME LInv, EInv', EndOK', Keeps, UNCHANGED written,
           NEW f \in Follower, NEW r \in FollowType, fol' = [fol EXCEPT ![f] = r],
           r.pc # "idle", r.id \in TaskId, r.read <= written[r.id],
           crashes = 0 => FollowerOK(r)
    PROVE  LInv'
<1>1. fol'[f] = r /\ \A g \in Follower : g # f => fol'[g] = fol[g]
  BY DEF LInv, LogsTypeOK
<1>2. LogsTypeOK'
  <2>1. fol' \in [Follower -> FollowType]
    BY DEF LInv, LogsTypeOK
  <2> QED
    BY <1>1, <2>1 DEF LInv, LogsTypeOK
<1>3. ASSUME NEW g \in Follower
      PROVE  IF fol'[g].pc = "idle" THEN fol'[g].poll = "none" ELSE fol'[g].id \in TaskId
  BY <1>1 DEF LInv, FollowOK
<1>4. ASSUME NEW g \in Follower, NEW s, s = fol'[g], crashes' = 0 PROVE FollowerOK(s)'
  <2>1. FollowerOK(s)
    BY <1>1, <1>4 DEF LInv, FollowOK, Keeps
  <2> QED
    BY <1>3, <1>4, <2>1, FollowerKeeps
<1>5. FollowOK'
  BY <1>3, <1>4 DEF FollowOK, FollowerOK
<1> QED
  BY <1>2, <1>5 DEF LInv

LEMMA EngineStepLInv ==
    ASSUME LInv, EngineStep
    PROVE  LInv'
<1>1. EInv' /\ EndOK'
  BY NextEInv, EndStep DEF EngineStep, LInv
<1>2. CASE crashes' = crashes
  <2>1. fol' = fol /\ written' = written
    BY <1>2 DEF EngineStep
  <2>2. Keeps
    BY <1>2, EngineKeeps DEF EngineStep, LInv
  <2>3. LogsTypeOK'
    BY <2>1 DEF LInv, LogsTypeOK
  <2>4. ASSUME NEW g \in Follower, NEW s, s = fol[g], crashes = 0 PROVE FollowerOK(s)'
    BY <2>2, <2>4, FollowerKeeps DEF LInv, FollowOK
  <2>5. FollowOK'
    BY <1>2, <2>1, <2>4 DEF LInv, FollowOK, FollowerOK
  <2> QED
    BY <1>1, <2>3, <2>5 DEF LInv
<1>3. CASE crashes' # crashes
  <2>1. fol' = [f \in Follower |->
                  IF fol[f].pc \in {"idle", "done", "failed"} THEN fol[f]
                  ELSE [fol[f] EXCEPT !.pc = "failed", !.fail = "lost", !.poll = "none"]]
        /\ written' = written
    BY <1>3 DEF EngineStep
  <2>2. ASSUME NEW f \in Follower
        PROVE  /\ fol'[f] \in FollowType /\ fol'[f].id = fol[f].id
               /\ fol'[f].read = fol[f].read
               /\ fol[f].pc = "idle" => fol'[f] = fol[f]
               /\ fol'[f].pc = "idle" => fol[f].pc = "idle"
    <3>1. fol[f] \in FollowType
      BY DEF LInv, LogsTypeOK
    <3> QED
      BY <2>1, <3>1 DEF FollowType
  <2>3. LogsTypeOK'
    <3>1. fol' \in [Follower -> FollowType]
      BY <2>1, <2>2
    <3> QED
      BY <2>1, <2>2, <3>1 DEF LInv, LogsTypeOK
  <2>4. crashes' # 0
    <3>1. crashes \in Nat /\ crashes' \in Nat
      BY <1>1, MaxCrashesAssumption DEF LInv, EInv, TypeOK
    <3>2. crashes' = crashes \/ crashes' = crashes + 1
      BY DEF EngineStep, Next, vars, Submit, WorkerStep, PopEmpty, Pop, PopError,
         RegisterSignal, PersistStart, OpenLog, RunReturn, PersistEnd, Archive, Finish,
         WatchStep, WatchClosed, WatchDone, WatchDelete, WatchCancel, Timeout, Request,
         HandlerStep, Kill, Get, Remove, ListLock, ListScan, WriterWaits, Crash
    <3> QED
      BY <1>3, <3>1, <3>2
  <2>5. FollowOK'
    BY <2>2, <2>4 DEF LInv, FollowOK
  <2> QED
    BY <1>1, <2>3, <2>5 DEF LInv
<1> QED
  BY <1>2, <1>3

\* The facts about f's request that its steps start from.
LEMMA FollowFacts ==
    ASSUME LInv, NEW f \in Follower
    PROVE  /\ fol[f] \in FollowType
           /\ fol[f].pc # "idle" => fol[f].id \in TaskId /\ fol[f].read <= written[fol[f].id]
           /\ crashes = 0 => FollowerOK(fol[f])
           /\ written \in [TaskId -> 0..MaxLines]
<1>1. fol[f] \in FollowType /\ written \in [TaskId -> 0..MaxLines]
      /\ (fol[f].pc # "idle" => fol[f].read <= written[fol[f].id])
  BY DEF LInv, LogsTypeOK
<1>2. fol[f].pc # "idle" => fol[f].id \in TaskId
  BY DEF LInv, FollowOK
<1>3. crashes = 0 => FollowerOK(fol[f])
  BY DEF LInv, FollowOK
<1> QED
  BY <1>1, <1>2, <1>3

LEMMA WriteLogLInv ==
    ASSUME LInv, NEW w \in Worker, WriteLog(w)
    PROVE  LInv'
<1>1. UNCHANGED vars /\ fol' = fol
  BY DEF WriteLog
<1>2. EInv' /\ EndOK' /\ Keeps
  BY <1>1, EngineQuiet DEF LInv
<1>3. tsk[w].id \in TaskId
  BY WorkerTask DEF LInv, EInv, WriteLog
<1>4. /\ written' \in [TaskId -> 0..MaxLines]
      /\ \A t \in TaskId : written[t] <= written'[t]
  <2>1. written \in [TaskId -> 0..MaxLines] /\ written[tsk[w].id] < MaxLines
        /\ written' = [written EXCEPT ![tsk[w].id] = @ + 1]
    BY DEF WriteLog, LInv, LogsTypeOK
  <2>2. written[tsk[w].id] + 1 \in 0..MaxLines
    BY <1>3, <2>1, MaxLinesAssumption
  <2>3. \A t \in TaskId : written[t] <= written[t] /\ written[t] <= written[t] + 1
    BY <2>1, MaxLinesAssumption
  <2> QED
    BY <1>3, <2>1, <2>2, <2>3
<1>5. LogsTypeOK'
  <2>1. ASSUME NEW f \in Follower, fol'[f].pc # "idle"
        PROVE  fol'[f].read <= written'[fol'[f].id]
    <3>1. fol[f].id \in TaskId /\ fol[f].read <= written[fol[f].id]
          /\ fol[f].read \in 0..MaxLines
      BY <1>1, <2>1, FollowFacts DEF FollowType
    <3>2. written[fol[f].id] \in 0..MaxLines /\ written'[fol[f].id] \in 0..MaxLines
          /\ written[fol[f].id] <= written'[fol[f].id]
      BY <1>4, <3>1 DEF LInv, LogsTypeOK
    <3> QED
      BY <1>1, <3>1, <3>2, MaxLinesAssumption
  <2>2. fol' \in [Follower -> FollowType]
    BY <1>1 DEF LInv, LogsTypeOK
  <2> QED
    BY <1>4, <2>1, <2>2 DEF LogsTypeOK
<1>6. ASSUME NEW g \in Follower, NEW s, s = fol[g], crashes = 0 PROVE FollowerOK(s)'
  BY <1>2, <1>6, FollowerKeeps DEF LInv, FollowOK
<1>7. FollowOK'
  BY <1>1, <1>2, <1>6 DEF LInv, FollowOK, FollowerOK, Keeps
<1> QED
  BY <1>2, <1>5, <1>7 DEF LInv

LEMMA FollowLInv ==
    ASSUME LInv, NEW f \in Follower, NEW id \in TaskId, NEW c \in BOOLEAN, Follow(f, id, c)
    PROVE  LInv'
<1> DEFINE r == [NoFollow EXCEPT !.id = id, !.cancel = c, !.pc = "wait"]
<1>1. UNCHANGED vars /\ UNCHANGED written /\ fol' = [fol EXCEPT ![f] = r]
  BY DEF Follow
<1>2. EInv' /\ EndOK' /\ Keeps
  BY <1>1, EngineQuiet DEF LInv
<1>3. NoFollow \in FollowType
  <2>1. 0 \in 0..MaxLines /\ "archive" \in Prefix
    BY MaxLinesAssumption DEF Prefix, Q!Prefix
  <2> QED
    BY <2>1 DEF NoFollow, FollowType
<1>4. r \in FollowType /\ r.id = id /\ r.pc = "wait" /\ r.poll = NoFollow.poll
      /\ r.stop = NoFollow.stop /\ r.read = NoFollow.read
  BY <1>3 DEF FollowType
<1> HIDE DEF r
<1>5. r.id \in TaskId /\ r.read = 0 /\ FollowerOK(r)
  BY <1>4 DEF FollowerOK, NoFollow
<1>6. r.read <= written[r.id]
  <2>1. written[r.id] \in 0..MaxLines
    BY <1>5, FollowFacts
  <2> QED
    BY <1>5, <2>1, MaxLinesAssumption
<1> QED
  BY <1>1, <1>2, <1>4, <1>5, <1>6, OwnFollow

\* A step of f that reads no chunk and leaves the engine alone, and the request
\* r it leads to.
LEMMA QuietFollow ==
    ASSUME LInv, UNCHANGED vars, UNCHANGED written, NEW f \in Follower,
           fol[f].pc # "idle", NEW r \in FollowType, fol' = [fol EXCEPT ![f] = r],
           r.pc # "idle", r.id = fol[f].id, r.read = fol[f].read,
           crashes = 0 => FollowerOK(r)
    PROVE  LInv'
<1>1. EInv' /\ EndOK' /\ Keeps
  BY EngineQuiet DEF LInv
<1>2. r.id \in TaskId /\ r.read <= written[r.id]
  BY FollowFacts
<1> QED
  BY <1>1, <1>2, OwnFollow

LEMMA FailLInv ==
    ASSUME LInv, UNCHANGED vars, UNCHANGED written, NEW f \in Follower,
           fol[f].pc # "idle",
           NEW why \in {"notFound", "open", "write", "decode", "panic", "lost"}, Fail(f, why)
    PROVE  LInv'
<1> DEFINE r == [fol[f] EXCEPT !.pc = "failed", !.fail = why]
<1>1. fol' = [fol EXCEPT ![f] = r]
  BY DEF Fail
<1>2. fol[f] \in FollowType /\ (crashes = 0 => FollowerOK(fol[f]))
  BY FollowFacts
<1>3. /\ r \in FollowType
      /\ r.id = fol[f].id /\ r.read = fol[f].read /\ r.poll = fol[f].poll
      /\ r.stop = fol[f].stop /\ r.pc = "failed"
  BY <1>2 DEF FollowType
<1> HIDE DEF r
<1>4. crashes = 0 => FollowerOK(r)
  BY <1>2, <1>3 DEF FollowerOK
<1> QED
  BY <1>1, <1>3, <1>4, QuietFollow

LEMMA DisconnectLInv ==
    ASSUME LInv, NEW f \in Follower, Disconnect(f)
    PROVE  LInv'
<1> DEFINE r == [fol[f] EXCEPT !.gone = TRUE]
<1>1. fol' = [fol EXCEPT ![f] = r] /\ UNCHANGED vars /\ UNCHANGED written
      /\ fol[f].pc # "idle"
  BY DEF Disconnect
<1>2. fol[f] \in FollowType /\ (crashes = 0 => FollowerOK(fol[f]))
  BY FollowFacts
<1>3. /\ r \in FollowType
      /\ r.id = fol[f].id /\ r.read = fol[f].read /\ r.poll = fol[f].poll
      /\ r.stop = fol[f].stop /\ r.pc = fol[f].pc /\ r.gone /\ r.seen = fol[f].seen
  BY <1>2 DEF FollowType
<1> HIDE DEF r
<1>4. crashes = 0 => FollowerOK(r)
  BY <1>2, <1>3 DEF FollowerOK
<1> QED
  BY <1>1, <1>3, <1>4, QuietFollow

LEMMA GetTaskLInv ==
    ASSUME LInv, NEW f \in Follower, GetTask(f)
    PROVE  LInv'
<1>1. /\ fol[f] \in FollowType /\ fol[f].id \in TaskId /\ (crashes = 0 => FollowerOK(fol[f]))
      /\ fol[f].pc \in {"wait", "return"} /\ UNCHANGED vars /\ UNCHANGED written
  BY FollowFacts DEF GetTask
<1>2. fol[f].at \in Prefix
  BY <1>1 DEF FollowType
<1> DEFINE stored == db[fol[f].at][fol[f].id]
<1>3. CASE fol[f].at # Last(GetOrder) /\ fol' = [fol EXCEPT ![f].at = After(GetOrder, fol[f].at)]
  <2> DEFINE r == [fol[f] EXCEPT !.at = After(GetOrder, fol[f].at)]
  <2>1. After(GetOrder, fol[f].at) \in Prefix
    BY <1>2, <1>3, GetOrderFacts DEF Prefix, Q!Prefix
  <2>2. /\ r \in FollowType
        /\ r.id = fol[f].id /\ r.read = fol[f].read /\ r.poll = fol[f].poll
        /\ r.stop = fol[f].stop /\ r.pc = fol[f].pc /\ r.gone = fol[f].gone
    BY <1>1, <2>1 DEF FollowType
  <2>3. fol' = [fol EXCEPT ![f] = r]
    BY <1>3
  <2> HIDE DEF r
  <2>4. crashes = 0 => FollowerOK(r)
    BY <1>1, <2>2 DEF FollowerOK
  <2> QED
    BY <1>1, <2>2, <2>3, <2>4, QuietFollow
<1>4. CASE Fail(f, "notFound")
  BY <1>1, <1>4, FailLInv
<1>5. CASE fol[f].pc = "wait" /\ fol' = [fol EXCEPT ![f].at = "archive"]
  <2> DEFINE r == [fol[f] EXCEPT !.at = "archive"]
  <2>1. "archive" \in Prefix
    BY DEF Prefix, Q!Prefix
  <2>2. /\ r \in FollowType
        /\ r.id = fol[f].id /\ r.read = fol[f].read /\ r.poll = fol[f].poll
        /\ r.stop = fol[f].stop /\ r.pc = fol[f].pc /\ r.gone = fol[f].gone
    BY <1>1, <2>1 DEF FollowType
  <2>3. fol' = [fol EXCEPT ![f] = r]
    BY <1>5
  <2> HIDE DEF r
  <2>4. crashes = 0 => FollowerOK(r)
    BY <1>1, <2>2 DEF FollowerOK
  <2> QED
    BY <1>1, <2>2, <2>3, <2>4, QuietFollow
<1>6. CASE /\ stored # NoTask /\ stored.state # "scheduled"
           /\ fol' = [fol EXCEPT ![f].at = "archive", ![f].pc = "open"]
  <2> DEFINE r == [fol[f] EXCEPT !.at = "archive", !.pc = "open"]
  <2>1. "archive" \in Prefix
    BY DEF Prefix, Q!Prefix
  <2>2. /\ r \in FollowType
        /\ r.id = fol[f].id /\ r.read = fol[f].read /\ r.poll = fol[f].poll
        /\ r.stop = fol[f].stop /\ r.pc = "open" /\ r.gone = fol[f].gone
    BY <1>1, <2>1 DEF FollowType
  <2>3. fol' = [fol EXCEPT ![f] = r]
    BY <1>6
  <2> HIDE DEF r
  <2>4. crashes = 0 => Announced(fol[f].id)
    BY <1>1, <1>2, <1>6 DEF LInv, EndOK, StartAnnounced, Q!Has
  <2>5. crashes = 0 => FollowerOK(r)
    BY <1>1, <2>2, <2>4 DEF FollowerOK
  <2> QED
    BY <1>1, <2>2, <2>3, <2>5, QuietFollow
<1>7. CASE /\ stored # NoTask /\ fol[f].pc = "return"
           /\ fol' = [fol EXCEPT ![f].pc = "done", ![f].seen = stored.state]
  <2> DEFINE r == [fol[f] EXCEPT !.pc = "done", !.seen = stored.state]
  <2>1. stored.state \in Q!State
    BY <1>1, <1>2, <1>7 DEF LInv, EInv, Q!IInv, Q!TypeOK, Q!Task, Prefix
  <2>2. /\ r \in FollowType
        /\ r.id = fol[f].id /\ r.read = fol[f].read /\ r.poll = fol[f].poll
        /\ r.stop = fol[f].stop /\ r.pc = "done" /\ r.gone = fol[f].gone
        /\ r.seen = stored.state
    BY <1>1, <2>1 DEF FollowType
  <2>3. fol' = [fol EXCEPT ![f] = r]
    BY <1>7
  <2> HIDE DEF r
  <2>4. Settled(fol[f].id) => stored.state \in Ended
    BY <1>1, <1>2, <1>7 DEF Settled, Q!Has, LInv, EndOK, ArchiveEnded, Prefix, Q!Prefix
  <2>5. crashes = 0 => FollowerOK(r)
    BY <1>1, <1>7, <2>2, <2>4 DEF FollowerOK
  <2> QED
    BY <1>1, <2>2, <2>3, <2>5, QuietFollow
<1> QED
  BY <1>3, <1>4, <1>5, <1>6, <1>7 DEF GetTask

LEMMA OpenTailLInv ==
    ASSUME LInv, NEW f \in Follower, OpenTail(f)
    PROVE  LInv'
<1>1. /\ fol[f] \in FollowType /\ (crashes = 0 => FollowerOK(fol[f]))
      /\ fol[f].pc = "open" /\ UNCHANGED vars /\ UNCHANGED written
  BY FollowFacts DEF OpenTail
<1>2. CASE fol' = [fol EXCEPT ![f].pc = "tail", ![f].poll = "poll"]
  <2> DEFINE r == [fol[f] EXCEPT !.pc = "tail", !.poll = "poll"]
  <2>1. /\ r \in FollowType
        /\ r.id = fol[f].id /\ r.read = fol[f].read /\ r.poll = "poll"
        /\ r.stop = fol[f].stop /\ r.pc = "tail"
    BY <1>1 DEF FollowType
  <2>2. fol' = [fol EXCEPT ![f] = r]
    BY <1>2
  <2> HIDE DEF r
  <2>3. crashes = 0 => FollowerOK(r)
    BY <1>1, <2>1 DEF FollowerOK
  <2> QED
    BY <1>1, <2>1, <2>2, <2>3, QuietFollow
<1> QED
  BY <1>1, <1>2, FailLInv DEF OpenTail

LEMMA PollLInv ==
    ASSUME LInv, NEW f \in Follower, PollStep(f)
    PROVE  LInv'
<1>1. fol[f] \in FollowType /\ (crashes = 0 => FollowerOK(fol[f])) /\ fol[f].poll # "none"
      /\ UNCHANGED vars /\ UNCHANGED written
  BY FollowFacts DEF PollStep, PollGone, PollStop
<1>2. CASE PollGone(f) /\ fol[f].pc # "idle"
  <2> DEFINE r == [fol[f] EXCEPT !.poll = "grace"]
  <2>1. /\ r \in FollowType
        /\ r.id = fol[f].id /\ r.read = fol[f].read /\ r.poll = "grace"
        /\ r.stop = fol[f].stop /\ r.pc = fol[f].pc /\ r.gone = fol[f].gone
        /\ r.seen = fol[f].seen
    BY <1>1 DEF FollowType
  <2>2. fol' = [fol EXCEPT ![f] = r]
    BY <1>2 DEF PollGone
  <2> HIDE DEF r
  <2>3. crashes = 0 => fol[f].id \in killed \/ Settled(fol[f].id)
    BY <1>1, <1>2 DEF PollGone, FollowerOK, Announced
  <2>4. crashes = 0 => FollowerOK(r)
    BY <1>1, <1>2, <2>1, <2>3 DEF FollowerOK
  <2> QED
    BY <1>1, <1>2, <2>1, <2>2, <2>4, QuietFollow
<1>3. CASE PollStop(f) /\ fol[f].pc # "idle"
  <2> DEFINE r == [fol[f] EXCEPT !.poll = "done", !.stop = TRUE]
  <2>1. /\ r \in FollowType
        /\ r.id = fol[f].id /\ r.read = fol[f].read /\ r.poll = "done"
        /\ r.stop /\ r.pc = fol[f].pc /\ r.gone = fol[f].gone /\ r.seen = fol[f].seen
    BY <1>1 DEF FollowType
  <2>2. fol' = [fol EXCEPT ![f] = r]
    BY <1>3 DEF PollStop
  <2> HIDE DEF r
  <2>3. crashes = 0 => FollowerOK(r)
    BY <1>1, <1>3, <2>1 DEF PollStop, FollowerOK
  <2> QED
    BY <1>1, <1>3, <2>1, <2>2, <2>3, QuietFollow
<1>4. fol[f].pc # "idle"
  BY <1>1 DEF LInv, FollowOK
<1> QED
  BY <1>2, <1>3, <1>4 DEF PollStep

LEMMA TailSelectLInv ==
    ASSUME LInv, NEW f \in Follower, TailSelect(f)
    PROVE  LInv'
<1>1. /\ fol[f] \in FollowType /\ (crashes = 0 => FollowerOK(fol[f]))
      /\ fol[f].pc = "tail" /\ fol[f].id \in TaskId /\ fol[f].read <= written[fol[f].id]
      /\ UNCHANGED <<queueVars, workerVars, req, crashes, written>>
  BY FollowFacts DEF TailSelect
<1>2. ASSUME NEW pc \in {"decode", "return"}, pc = "return" => fol[f].gone
      PROVE  LET r == [fol[f] EXCEPT !.pc = pc] IN
             /\ r \in FollowType /\ r.id = fol[f].id /\ r.read = fol[f].read
             /\ r.pc = pc /\ (crashes = 0 => FollowerOK(r))
  <2> DEFINE r == [fol[f] EXCEPT !.pc = pc]
  <2>1. /\ r \in FollowType
        /\ r.id = fol[f].id /\ r.read = fol[f].read /\ r.poll = fol[f].poll
        /\ r.stop = fol[f].stop /\ r.pc = pc /\ r.gone = fol[f].gone
    BY <1>1 DEF FollowType
  <2> HIDE DEF r
  <2>2. crashes = 0 => FollowerOK(r)
    BY <1>1, <1>2, <2>1 DEF FollowerOK
  <2> USE DEF r
  <2> QED
    BY <2>1, <2>2
<1>3. ASSUME NEW pc \in {"decode", "return"}, pc = "return" => fol[f].gone,
             fol' = [fol EXCEPT ![f].pc = pc], UNCHANGED signalVars
      PROVE  LInv'
  <2> DEFINE r == [fol[f] EXCEPT !.pc = pc]
  <2>1. UNCHANGED vars
    BY <1>1, <1>3 DEF vars
  <2>2. /\ r \in FollowType /\ r.id = fol[f].id /\ r.read = fol[f].read
        /\ r.pc = pc /\ (crashes = 0 => FollowerOK(r))
    BY <1>2, <1>3
  <2>3. fol' = [fol EXCEPT ![f] = r] /\ pc # "idle"
    BY <1>3
  <2> HIDE DEF r
  <2> QED
    BY <1>1, <2>1, <2>2, <2>3, QuietFollow
<1>4. CASE /\ fol[f].gone /\ CloseSignal(fol[f].id)
           /\ Fail(f, "panic") \/ fol' = [fol EXCEPT ![f].pc = "return"]
  <2>1. EInv' /\ EndOK' /\ Keeps
    BY <1>1, <1>4, CloseStep DEF LInv
  <2>2. CASE fol' = [fol EXCEPT ![f].pc = "return"]
    <3> DEFINE r == [fol[f] EXCEPT !.pc = "return"]
    <3>1. /\ r \in FollowType /\ r.id = fol[f].id /\ r.read = fol[f].read
          /\ r.pc = "return" /\ (crashes = 0 => FollowerOK(r))
      BY <1>2, <1>4
    <3>2. fol' = [fol EXCEPT ![f] = r]
      BY <2>2
    <3> HIDE DEF r
    <3> QED
      BY <1>1, <2>1, <3>1, <3>2, OwnFollow
  <2>3. CASE Fail(f, "panic")
    <3> DEFINE r == [fol[f] EXCEPT !.pc = "failed", !.fail = "panic"]
    <3>1. fol' = [fol EXCEPT ![f] = r]
      BY <2>3 DEF Fail
    <3>2. /\ r \in FollowType
          /\ r.id = fol[f].id /\ r.read = fol[f].read /\ r.poll = fol[f].poll
          /\ r.stop = fol[f].stop /\ r.pc = "failed"
      BY <1>1 DEF FollowType
    <3> HIDE DEF r
    <3>3. crashes = 0 => FollowerOK(r)
      BY <1>1, <3>2 DEF FollowerOK
    <3> QED
      BY <1>1, <2>1, <3>1, <3>2, <3>3, OwnFollow
  <2> QED
    BY <1>4, <2>2, <2>3
<1> QED
  BY <1>3, <1>4 DEF TailSelect

LEMMA TailDecodeLInv ==
    ASSUME LInv, NEW f \in Follower, TailDecode(f)
    PROVE  LInv'
<1>1. /\ fol[f] \in FollowType /\ (crashes = 0 => FollowerOK(fol[f]))
      /\ fol[f].pc = "decode" /\ fol[f].id \in TaskId /\ UNCHANGED vars /\ UNCHANGED written
  BY FollowFacts DEF TailDecode
<1>2. CASE /\ fol[f].read < written[fol[f].id]
           /\ fol' = [fol EXCEPT ![f].pc = "tail", ![f].read = @ + 1]
  <2> DEFINE r == [fol[f] EXCEPT !.pc = "tail", !.read = fol[f].read + 1]
  <2>1. fol[f].read + 1 \in 0..MaxLines /\ fol[f].read + 1 <= written[fol[f].id]
    <3>1. written[fol[f].id] \in 0..MaxLines /\ fol[f].read \in 0..MaxLines
      BY <1>1, FollowFacts DEF FollowType
    <3> QED
      BY <1>2, <3>1, MaxLinesAssumption
  <2>2. /\ r \in FollowType
        /\ r.id = fol[f].id /\ r.read = fol[f].read + 1 /\ r.poll = fol[f].poll
        /\ r.stop = fol[f].stop /\ r.pc = "tail"
    BY <1>1, <2>1 DEF FollowType
  <2>3. fol' = [fol EXCEPT ![f] = r]
    BY <1>2
  <2> HIDE DEF r
  <2>4. crashes = 0 => FollowerOK(r)
    BY <1>1, <2>2 DEF FollowerOK
  <2>5. EInv' /\ EndOK' /\ Keeps
    BY <1>1, EngineQuiet DEF LInv
  <2> QED
    BY <1>1, <2>1, <2>2, <2>3, <2>4, <2>5, OwnFollow
<1>3. CASE fol[f].stop /\ fol' = [fol EXCEPT ![f].pc = "return"]
  <2> DEFINE r == [fol[f] EXCEPT !.pc = "return"]
  <2>1. /\ r \in FollowType
        /\ r.id = fol[f].id /\ r.read = fol[f].read /\ r.poll = fol[f].poll
        /\ r.stop = fol[f].stop /\ r.pc = "return"
    BY <1>1 DEF FollowType
  <2>2. fol' = [fol EXCEPT ![f] = r]
    BY <1>3
  <2> HIDE DEF r
  <2>3. crashes = 0 => FollowerOK(r)
    BY <1>1, <1>3, <2>1 DEF FollowerOK
  <2> QED
    BY <1>1, <2>1, <2>2, <2>3, QuietFollow
<1>4. CASE Fail(f, "write") \/ Fail(f, "decode")
  BY <1>1, <1>4, FailLInv
<1> QED
  BY <1>2, <1>3, <1>4 DEF TailDecode

-----------------------------------------------------------------------------
(***************************************************************************)
(* The theorems.                                                           *)
(***************************************************************************)
LEMMA InitLInv == LogsInit => LInv
<1> SUFFICES ASSUME LogsInit PROVE LInv
  OBVIOUS
<1>1. EInv
  BY InitEInv DEF LogsInit
<1>2. NoFollow \in FollowType
  <2>1. 0 \in 0..MaxLines /\ "archive" \in Prefix
    BY MaxLinesAssumption DEF Prefix, Q!Prefix
  <2> QED
    BY <2>1 DEF NoFollow, FollowType
<1>3. fol = [f \in Follower |-> NoFollow] /\ written = [t \in TaskId |-> 0]
  BY DEF LogsInit
<1>4. LogsTypeOK
  <2>1. fol \in [Follower -> FollowType]
    BY <1>2, <1>3
  <2>2. written \in [TaskId -> 0..MaxLines]
    BY <1>3, MaxLinesAssumption
  <2>3. \A f \in Follower : fol[f].pc = "idle"
    BY <1>3 DEF NoFollow
  <2> QED
    BY <2>1, <2>2, <2>3 DEF LogsTypeOK
<1>5. EndOK
  BY DEF LogsInit, Init, EndOK, WorkersEnd, ArchiveEnded, StartAnnounced, Q!Has, Prefix, Q!Prefix
<1>6. FollowOK
  BY <1>3 DEF FollowOK, FollowerOK, NoFollow
<1> QED
  BY <1>1, <1>4, <1>5, <1>6 DEF LInv

LEMMA NextLInv == LInv /\ [LogsNext]_allVars => LInv'
<1> SUFFICES ASSUME LInv, [LogsNext]_allVars PROVE LInv'
  OBVIOUS
<1>1. CASE UNCHANGED allVars
  <2>1. UNCHANGED vars /\ UNCHANGED <<written, fol>>
    BY <1>1 DEF allVars, logVars
  <2>2. EInv' /\ EndOK' /\ Keeps
    BY <2>1, EngineQuiet DEF LInv
  <2>3. LogsTypeOK'
    BY <2>1 DEF LInv, LogsTypeOK
  <2>4. ASSUME NEW g \in Follower, NEW s, s = fol[g], crashes = 0 PROVE FollowerOK(s)'
    BY <2>2, <2>4, FollowerKeeps DEF LInv, FollowOK
  <2>5. FollowOK'
    BY <2>1, <2>2, <2>4 DEF LInv, FollowOK, FollowerOK, Keeps
  <2> QED
    BY <2>2, <2>3, <2>5 DEF LInv
<1> QED
  BY <1>1, EngineStepLInv, WriteLogLInv, FollowLInv, DisconnectLInv, GetTaskLInv,
     OpenTailLInv, PollLInv, TailSelectLInv, TailDecodeLInv DEF LogsNext, FollowStep

\* The engine's invariant also holds with followers, who close channels too, and
\* with it: what is archived has ended, and a task's channel is registered from
\* before its state changes until it is settled.
THEOREM LogsInvariance == LogsSpec => []LInv
BY InitLInv, NextLInv, PTL DEF LogsSpec

\* A client that follows a task to the end learns how it ended, unless the task
\* was killed or the daemon died (Engine.Logs, with any number of followers,
\* workers and requests, whatever fails).
THEOREM FollowersSeeTheEnd == LogsSpec => []FollowSeesEnd
<1>1. LInv => FollowSeesEnd
  BY DEF LInv, FollowOK, FollowerOK, FollowSeesEnd, Ended
<1> QED
  BY <1>1, LogsInvariance, PTL
=============================================================================
