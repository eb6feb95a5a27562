-------------------------- MODULE TaskQueueProofs --------------------------
(***************************************************************************)
(* Proofs about TaskQueue, for any number of tasks, any priorities and     *)
(* clock readings, any queue size, with or without LevelDB failures: its   *)
(* invariants, and that it implements TaskLifecycle.                       *)
(***************************************************************************)
EXTENDS TaskQueue, FiniteSetTheorems, TLAPS

\* What a write makes of the database, entry by entry.
LEMMA PutEntry ==
    ASSUME db \in [Prefix -> [TaskId -> Task \cup {NoTask}]],
           NEW p \in Prefix, NEW tsk \in Task, Put(p, tsk)
    PROVE  /\ db' \in [Prefix -> [TaskId -> Task \cup {NoTask}]]
           /\ db'[p][tsk.id] = tsk
           /\ \A q \in Prefix, t \in TaskId :
                q # p \/ t # tsk.id => db'[q][t] = db[q][t]
BY DEF Put, Task

LEMMA ChangePrefixEntry ==
    ASSUME db \in [Prefix -> [TaskId -> Task \cup {NoTask}]],
           NEW dst \in Prefix, NEW src \in Prefix, dst # src,
           NEW id \in TaskId, ChangePrefix(dst, src, id)
    PROVE  /\ db' \in [Prefix -> [TaskId -> Task \cup {NoTask}]]
           /\ db'[dst][id] = db[src][id]
           /\ db'[src][id] = NoTask
           /\ \A q \in Prefix, t \in TaskId :
                t # id \/ (q # src /\ q # dst) => db'[q][t] = db[q][t]
BY DEF ChangePrefix

LEMMA DeleteKeyEntry ==
    ASSUME db \in [Prefix -> [TaskId -> Task \cup {NoTask}]],
           NEW p \in Prefix, NEW id \in TaskId, DeleteKey(p, id)
    PROVE  /\ db' \in [Prefix -> [TaskId -> Task \cup {NoTask}]]
           /\ db'[p][id] = NoTask
           /\ \A q \in Prefix, t \in TaskId :
                q # p \/ t # id => db'[q][t] = db[q][t]
BY DEF DeleteKey

LEMMA StoredEntry ==
    ASSUME db \in [Prefix -> [TaskId -> Task \cup {NoTask}]],
           NEW p \in Prefix
    PROVE  /\ Stored(p) \subseteq Task
           /\ \A x \in Stored(p) : \E t \in TaskId : Has(p, t) /\ x = db[p][t]
           /\ \A t \in TaskId : Has(p, t) => db[p][t] \in Stored(p)
BY DEF Stored, Has

LEMMA NewTasksAreTasks == NewTasks \subseteq Task
BY NoValueAssumption DEF NewTasks, NewTask, Task, State

-----------------------------------------------------------------------------
(***************************************************************************)
(* The inductive invariant.                                                *)
(***************************************************************************)
LEMMA InitIInv == Init => IInv
BY DEF Init, IInv, TypeOK, OnePrefix, KeysOK, HeapOK, TakenOK, StartsOK, Has,
       InHeap, Prefix

LEMMA PushIInv ==
    ASSUME IInv, NEW tsk \in Task, tsk.state = "scheduled", Push(tsk)
    PROVE  IInv'
<1> USE DEF Has, InHeap
<1>1. tsk.id \in TaskId /\ tsk.id \notin used /\ "queue" \in Prefix
  BY DEF Push, Task, Prefix
<1>2. /\ db' \in [Prefix -> [TaskId -> Task \cup {NoTask}]]
      /\ db'["queue"][tsk.id] = tsk
      /\ \A q \in Prefix, t \in TaskId :
           q # "queue" \/ t # tsk.id => db'[q][t] = db[q][t]
  BY <1>1, PutEntry DEF Push, IInv, TypeOK
<1>3. \A p \in Prefix : db[p][tsk.id] = NoTask
  BY <1>1 DEF IInv, KeysOK
<1>4. starts[tsk.id] = 0
  BY <1>1 DEF IInv, StartsOK
<1>5. heap' = heap \cup {tsk} /\ used' = used \cup {tsk.id}
      /\ taken' = taken /\ starts' = starts
  BY DEF Push
<1>6. TypeOK'
  BY <1>1, <1>2, <1>5 DEF IInv, TypeOK
<1>7. OnePrefix'
  BY <1>2, <1>3 DEF IInv, OnePrefix
<1>8. KeysOK'
  BY <1>2, <1>5 DEF IInv, KeysOK
<1>9. HeapOK'
  BY <1>1, <1>2, <1>5 DEF IInv, HeapOK, TypeOK, Task
<1>10. TakenOK'
  BY <1>1, <1>2, <1>5 DEF IInv, TakenOK, TypeOK, Prefix
<1>11. StartsOK'
  BY <1>1, <1>2, <1>3, <1>4, <1>5 DEF IInv, StartsOK, TypeOK, Prefix
<1> QED
  BY <1>6, <1>7, <1>8, <1>9, <1>10, <1>11 DEF IInv

LEMMA PopOKIInv ==
    ASSUME IInv, NEW tsk \in heap, PopOK(tsk)
    PROVE  IInv'
<1> USE DEF Has, InHeap
<1>1. tsk \in Task /\ tsk.id \in TaskId
  BY DEF IInv, TypeOK, Task
<1>2. "queue" \in Prefix /\ "current" \in Prefix /\ "archive" \in Prefix
  BY DEF Prefix
<1>3. /\ db' \in [Prefix -> [TaskId -> Task \cup {NoTask}]]
      /\ db'["current"][tsk.id] = db["queue"][tsk.id]
      /\ db'["queue"][tsk.id] = NoTask
      /\ \A q \in Prefix, t \in TaskId :
           t # tsk.id \/ q = "archive" => db'[q][t] = db[q][t]
  <2>1. ChangePrefix("current", "queue", tsk.id)
    BY DEF PopOK
  <2>2. db \in [Prefix -> [TaskId -> Task \cup {NoTask}]]
    BY DEF IInv, TypeOK
  <2> QED
    BY <1>1, <1>2, <2>1, <2>2, ChangePrefixEntry
<1>4. db["queue"][tsk.id] # NoTask
  BY DEF PopOK, ChangePrefix
<1>5. db["archive"][tsk.id] = NoTask /\ starts[tsk.id] = 0 /\ tsk.id \in used
  BY <1>1, <1>2, <1>4 DEF IInv, OnePrefix, StartsOK, KeysOK
<1>6. /\ heap' = heap \ {tsk} /\ used' = used
      /\ taken' = taken \cup {tsk.id}
      /\ starts' = [starts EXCEPT ![tsk.id] = @ + 1]
  BY DEF PopOK
<1>7. /\ starts'[tsk.id] = 1
      /\ \A t \in TaskId : t # tsk.id => starts'[t] = starts[t]
      /\ starts' \in [TaskId -> Nat]
  BY <1>1, <1>5, <1>6 DEF IInv, TypeOK
<1>8. TypeOK'
  BY <1>1, <1>3, <1>6, <1>7 DEF IInv, TypeOK
<1>9. OnePrefix'
  BY <1>3, <1>5 DEF IInv, OnePrefix, Prefix
<1>10. KeysOK'
  <2>1. ASSUME NEW p \in Prefix, NEW t \in TaskId, Has(p, t)'
        PROVE  (db[p][t].id = t /\ t \in used)'
    <3>1. CASE t # tsk.id
      BY <2>1, <3>1, <1>3, <1>6 DEF IInv, KeysOK
    <3>2. CASE t = tsk.id
      BY <2>1, <3>2, <1>2, <1>3, <1>4, <1>5, <1>6 DEF IInv, KeysOK, Prefix
    <3> QED BY <3>1, <3>2
  <2> QED BY <2>1 DEF KeysOK
<1>11. HeapOK'
  BY <1>1, <1>2, <1>3, <1>6 DEF IInv, HeapOK, TypeOK, Task
<1>12. TakenOK'
  BY <1>1, <1>2, <1>3, <1>5, <1>6, <1>7 DEF IInv, TakenOK, HeapOK, TypeOK
<1>13. StartsOK'
  BY <1>1, <1>2, <1>3, <1>5, <1>6, <1>7 DEF IInv, StartsOK
<1> QED
  BY <1>8, <1>9, <1>10, <1>11, <1>12, <1>13 DEF IInv

LEMMA PersistProcessingIInv ==
    ASSUME IInv, NEW tsk \in Task, PersistProcessing(tsk)
    PROVE  IInv'
<1> USE DEF Has, InHeap
<1>1. tsk.id \in TaskId /\ tsk.id \in taken
  BY DEF PersistProcessing, Task
<1>2. "queue" \in Prefix /\ "current" \in Prefix /\ "archive" \in Prefix
  BY DEF Prefix
<1>3. /\ db' \in [Prefix -> [TaskId -> Task \cup {NoTask}]]
      /\ db'["current"][tsk.id] = tsk
      /\ \A q \in Prefix, t \in TaskId :
           q # "current" \/ t # tsk.id => db'[q][t] = db[q][t]
  BY <1>2, PutEntry DEF PersistProcessing, IInv, TypeOK
<1>4. /\ tsk.id \in used /\ starts[tsk.id] = 1
      /\ db["archive"][tsk.id] = NoTask /\ db["queue"][tsk.id] = NoTask
  BY <1>1 DEF IInv, TakenOK, StartsOK
<1>5. UNCHANGED <<heap, used, taken, starts>>
  BY DEF PersistProcessing
<1>6. TypeOK'
  BY <1>3, <1>5 DEF IInv, TypeOK
<1>7. OnePrefix'
  BY <1>3, <1>4 DEF IInv, OnePrefix, Prefix
<1>8. KeysOK'
  BY <1>3, <1>4, <1>5 DEF IInv, KeysOK
<1>9. HeapOK'
  BY <1>2, <1>3, <1>5 DEF IInv, HeapOK, TypeOK, Task
<1>10. TakenOK'
  BY <1>2, <1>3, <1>5 DEF IInv, TakenOK, TypeOK
<1>11. StartsOK'
  BY <1>1, <1>2, <1>3, <1>4, <1>5 DEF IInv, StartsOK
<1> QED
  BY <1>6, <1>7, <1>8, <1>9, <1>10, <1>11 DEF IInv

LEMMA ArchiveTaskIInv ==
    ASSUME IInv, NEW id \in TaskId, ArchiveTask(id)
    PROVE  IInv'
<1> USE DEF Has, InHeap
<1>1. "queue" \in Prefix /\ "current" \in Prefix /\ "archive" \in Prefix
  BY DEF Prefix
<1>2. /\ db' \in [Prefix -> [TaskId -> Task \cup {NoTask}]]
      /\ db'["archive"][id] = db["current"][id]
      /\ db'["current"][id] = NoTask
      /\ \A q \in Prefix, t \in TaskId :
           t # id \/ q = "queue" => db'[q][t] = db[q][t]
  BY <1>1, ChangePrefixEntry DEF ArchiveTask, IInv, TypeOK
<1>3. db["current"][id] # NoTask /\ db["queue"][id] = NoTask /\ starts[id] = 1
  BY <1>1 DEF ArchiveTask, ChangePrefix, IInv, OnePrefix, StartsOK
<1>4. taken' = taken \ {id} /\ heap' = heap /\ used' = used /\ starts' = starts
  BY DEF ArchiveTask
<1>5. TypeOK'
  BY <1>2, <1>4 DEF IInv, TypeOK
<1>6. OnePrefix'
  BY <1>2, <1>3 DEF IInv, OnePrefix, Prefix
<1>7. KeysOK'
  BY <1>1, <1>2, <1>3, <1>4 DEF IInv, KeysOK, Prefix
<1>8. HeapOK'
  BY <1>1, <1>2, <1>4 DEF IInv, HeapOK, TypeOK, Task
<1>9. TakenOK'
  BY <1>1, <1>2, <1>4 DEF IInv, TakenOK, TypeOK
<1>10. StartsOK'
  BY <1>1, <1>2, <1>3, <1>4 DEF IInv, StartsOK
<1> QED
  BY <1>5, <1>6, <1>7, <1>8, <1>9, <1>10 DEF IInv

LEMMA DeleteIInv ==
    ASSUME IInv, NEW p \in Prefix, NEW id \in TaskId, Delete(p, id)
    PROVE  IInv'
<1> USE DEF Has, InHeap
<1>1. "queue" \in Prefix /\ "current" \in Prefix /\ "archive" \in Prefix
  BY DEF Prefix
<1>2. /\ db' \in [Prefix -> [TaskId -> Task \cup {NoTask}]]
      /\ \A q \in Prefix, t \in TaskId : db'[q][t] \in {db[q][t], NoTask}
  BY DeleteKeyEntry DEF Delete, IInv, TypeOK
<1>3. UNCHANGED <<heap, used, taken, starts>>
  BY DEF Delete
<1>4. TypeOK' /\ OnePrefix' /\ KeysOK'
  BY <1>2, <1>3 DEF IInv, TypeOK, OnePrefix, KeysOK
<1>5. HeapOK' /\ TakenOK' /\ StartsOK'
  BY <1>1, <1>2, <1>3 DEF IInv, HeapOK, TakenOK, StartsOK, TypeOK, Task
<1> QED
  BY <1>4, <1>5 DEF IInv

LEMMA NewQueueIInv ==
    ASSUME IInv, NewQueue
    PROVE  IInv'
<1> USE DEF Has, InHeap
<1>1. "queue" \in Prefix /\ "current" \in Prefix /\ "archive" \in Prefix
  BY DEF Prefix
<1>2. db' = db /\ used' = used /\ starts' = starts /\ taken' = {}
      /\ heap' = Stored("queue") \cup Stored("current")
  BY DEF NewQueue
<1>3. \A x \in heap' : \E p \in {"queue", "current"} :
        x \in Task /\ db[p][x.id] = x /\ x.id \in used /\ x.id \in TaskId
  BY <1>1, <1>2, StoredEntry DEF IInv, TypeOK, KeysOK
<1>4. TypeOK'
  BY <1>2, <1>3 DEF IInv, TypeOK
<1>5. HeapOK'
  BY <1>1, <1>2, <1>3, NoTaskAssumption DEF IInv, HeapOK, OnePrefix
<1>6. OnePrefix' /\ KeysOK' /\ TakenOK' /\ StartsOK'
  BY <1>2 DEF IInv, OnePrefix, KeysOK, TakenOK, StartsOK
<1> QED
  BY <1>4, <1>5, <1>6 DEF IInv

\* Steps that leave the database alone and only shrink the heap or `taken`.
LEMMA ShrinkIInv ==
    ASSUME IInv, UNCHANGED <<db, used, starts>>,
           heap' \subseteq heap, taken' \subseteq taken
    PROVE  IInv'
<1>1. TypeOK' /\ OnePrefix' /\ KeysOK'
  BY DEF IInv, TypeOK, OnePrefix, KeysOK, Has
<1>2. HeapOK' /\ TakenOK' /\ StartsOK'
  BY DEF IInv, HeapOK, TakenOK, StartsOK, Has, InHeap
<1> QED
  BY <1>1, <1>2 DEF IInv

LEMMA NextIInv == IInv /\ [Next]_vars => IInv'
<1> SUFFICES ASSUME IInv, [Next]_vars PROVE IInv'
  OBVIOUS
<1>1. CASE \E tsk \in NewTasks : Push(tsk)
  BY <1>1, PushIInv, NewTasksAreTasks DEF NewTasks, NewTask
<1>2. CASE PushRejected \/ PopEmpty \/ UNCHANGED vars
  BY <1>2, ShrinkIInv DEF PushRejected, PopEmpty, vars
<1>3. CASE \E tsk \in heap : PopOK(tsk)
  BY <1>3, PopOKIInv
<1>4. CASE \E tsk \in heap : PopError(tsk)
  BY <1>4, ShrinkIInv DEF PopError
<1>5. CASE \E tsk \in Task : PersistProcessing(tsk)
  BY <1>5, PersistProcessingIInv
<1>6. CASE \E id \in TaskId : ArchiveTask(id)
  BY <1>6, ArchiveTaskIInv
<1>7. CASE \E id \in TaskId : GiveUp(id)
  BY <1>7, ShrinkIInv DEF GiveUp
<1>8. CASE \E p \in Prefix, id \in TaskId : Delete(p, id)
  BY <1>8, DeleteIInv
<1>9. CASE NewQueue
  BY <1>9, NewQueueIInv
<1> QED
  BY <1>1, <1>2, <1>3, <1>4, <1>5, <1>6, <1>7, <1>8, <1>9 DEF Next

\* The invariant of the queue and its database holds in every reachable state.
THEOREM Invariance == Spec => []IInv
<1>1. Init => IInv
  BY InitIInv
<1>2. IInv /\ [Next]_vars => IInv'
  BY NextIInv
<1> QED
  BY <1>1, <1>2, PTL DEF Spec

\* Types are respected: in particular what NewQueue reads back into the heap
\* are tasks.
THEOREM TypeCorrectness == Spec => []TypeOK
BY Invariance, PTL DEF IInv

\* A task is never under two prefixes.
THEOREM OnePrefixAlways == Spec => []OnePrefix
BY Invariance, PTL DEF IInv

\* No task is handed out twice, whatever happens and however often the daemon
\* restarts.
THEOREM StartedAtMostOnce == Spec => []AtMostOnce
<1>1. IInv => AtMostOnce
  BY DEF IInv, StartsOK, AtMostOnce
<1> QED
  BY <1>1, Invariance, PTL

-----------------------------------------------------------------------------
(***************************************************************************)
(* What happens to an archived task.                                       *)
(***************************************************************************)

\* No step rewrites or moves an archived task.
THEOREM ArchiveIsFinal == Spec => ArchiveFinal
<1> DEFINE A == \A t \in TaskId :
                  Has("archive", t) =>
                    /\ db'["archive"][t] \in {db["archive"][t], NoTask}
                    /\ \A p \in {"queue", "current"} : db'[p][t] = NoTask
<1>1. IInv /\ [Next]_vars => [A]_vars
  <2> SUFFICES ASSUME IInv, Next, NEW t \in TaskId, Has("archive", t)
               PROVE  /\ db'["archive"][t] \in {db["archive"][t], NoTask}
                      /\ \A p \in {"queue", "current"} : db'[p][t] = NoTask
    OBVIOUS
  <2>1. "queue" \in Prefix /\ "current" \in Prefix /\ "archive" \in Prefix
    BY DEF Prefix
  <2>2. /\ db["queue"][t] = NoTask /\ db["current"][t] = NoTask
        /\ t \in used /\ t \notin taken
        /\ db \in [Prefix -> [TaskId -> Task \cup {NoTask}]]
    BY <2>1 DEF IInv, OnePrefix, KeysOK, TakenOK, TypeOK, Has
  <2>3. CASE \E tsk \in NewTasks : Push(tsk)
    <3>1. PICK tsk \in Task : Push(tsk)
      BY <2>3, NewTasksAreTasks
    <3>2. tsk.id # t
      BY <3>1, <2>2 DEF Push
    <3> QED
      BY <3>1, <3>2, <2>1, <2>2, PutEntry DEF Push
  <2>4. CASE \E tsk \in heap : PopOK(tsk)
    <3>1. PICK tsk \in heap : PopOK(tsk)
      BY <2>4
    <3>2. tsk.id \in TaskId /\ ChangePrefix("current", "queue", tsk.id)
      BY <3>1 DEF IInv, TypeOK, Task, PopOK
    <3>3. tsk.id # t
      BY <3>2, <2>2 DEF ChangePrefix, Has
    <3> QED
      BY <3>2, <3>3, <2>1, <2>2, ChangePrefixEntry
  <2>5. CASE \E tsk \in Task : PersistProcessing(tsk)
    <3>1. PICK tsk \in Task : PersistProcessing(tsk)
      BY <2>5
    <3>2. tsk.id # t
      BY <3>1, <2>2 DEF PersistProcessing
    <3> QED
      BY <3>1, <3>2, <2>1, <2>2, PutEntry DEF PersistProcessing
  <2>6. CASE \E id \in TaskId : ArchiveTask(id)
    <3>1. PICK id \in TaskId : ArchiveTask(id)
      BY <2>6
    <3>2. id # t
      BY <3>1, <2>2 DEF ArchiveTask
    <3> QED
      BY <3>1, <3>2, <2>1, <2>2, ChangePrefixEntry DEF ArchiveTask
  <2>7. CASE \E p \in Prefix, id \in TaskId : Delete(p, id)
    BY <2>7, <2>1, <2>2, DeleteKeyEntry DEF Delete
  <2>8. CASE UNCHANGED db
    BY <2>8, <2>2
  <2> QED
    BY <2>3, <2>4, <2>5, <2>6, <2>7, <2>8
       DEF Next, PushRejected, PopEmpty, PopError, GiveUp, NewQueue, vars
<1> QED
  BY <1>1, Invariance, PTL DEF Spec, ArchiveFinal

-----------------------------------------------------------------------------
(***************************************************************************)
(* The heap and the database agree, as long as LevelDB does not fail.      *)
(***************************************************************************)
LEMMA NextScheduledInHeap ==
    ASSUME IInv, ScheduledInHeap, [Next]_vars
    PROVE  ScheduledInHeap'
<1> SUFFICES ASSUME ~IOFaults, NEW t \in TaskId, Has("queue", t)'
             PROVE  db'["queue"][t] \in heap'
  BY DEF ScheduledInHeap
<1> USE DEF Has
<1>1. "queue" \in Prefix /\ "current" \in Prefix /\ "archive" \in Prefix
  BY DEF Prefix
<1>2. db \in [Prefix -> [TaskId -> Task \cup {NoTask}]]
  BY DEF IInv, TypeOK
<1>3. db["queue"][t] # NoTask => db["queue"][t] \in heap /\ db["queue"][t].id = t
  BY <1>1 DEF ScheduledInHeap, IInv, KeysOK
<1>4. CASE \E tsk \in NewTasks : Push(tsk)
  <2>1. PICK tsk \in Task : Push(tsk)
    BY <1>4, NewTasksAreTasks
  <2> QED
    BY <2>1, <1>1, <1>2, <1>3, PutEntry DEF Push
<1>5. CASE \E tsk \in heap : PopOK(tsk)
  <2>1. PICK tsk \in heap : PopOK(tsk)
    BY <1>5
  <2>2. tsk.id \in TaskId /\ ChangePrefix("current", "queue", tsk.id)
    BY <2>1 DEF IInv, TypeOK, Task, PopOK
  <2>3. t # tsk.id /\ db'["queue"][t] = db["queue"][t]
    BY <2>2, <1>1, <1>2, ChangePrefixEntry
  <2> QED
    BY <2>1, <2>3, <1>3 DEF PopOK
<1>6. CASE \E tsk \in heap : PopError(tsk)
  BY <1>6, <1>3, IOFaultsAssumption DEF PopError
<1>7. CASE \E tsk \in Task : PersistProcessing(tsk)
  BY <1>7, <1>1, <1>2, <1>3, PutEntry DEF PersistProcessing
<1>8. CASE \E id \in TaskId : ArchiveTask(id)
  <2>1. PICK id \in TaskId : ArchiveTask(id)
    BY <1>8
  <2> QED
    BY <2>1, <1>1, <1>2, <1>3, ChangePrefixEntry DEF ArchiveTask
<1>9. CASE \E p \in Prefix, id \in TaskId : Delete(p, id)
  BY <1>9, <1>1, <1>2, <1>3, DeleteKeyEntry DEF Delete
<1>10. CASE NewQueue
  BY <1>10, <1>1, <1>2, StoredEntry DEF NewQueue
<1>11. CASE UNCHANGED <<db, heap>>
  BY <1>11, <1>3
<1> QED
  BY <1>4, <1>5, <1>6, <1>7, <1>8, <1>9, <1>10, <1>11
     DEF Next, PushRejected, PopEmpty, GiveUp, vars

\* With a healthy LevelDB every task stored as scheduled is in the heap.
THEOREM ScheduledStaysInHeap == Spec => []ScheduledInHeap
<1>1. Init => ScheduledInHeap
  BY DEF Init, ScheduledInHeap, Has, Prefix
<1>2. IInv /\ ScheduledInHeap /\ [Next]_vars => ScheduledInHeap'
  BY NextScheduledInHeap
<1> QED
  BY <1>1, <1>2, Invariance, PTL DEF Spec

-----------------------------------------------------------------------------
(***************************************************************************)
(* The bound on what is stored as scheduled.  The heap has to be finite    *)
(* for its cardinality to mean anything, and NewQueue makes it from the    *)
(* database, so the identifiers handed out have to be finitely many too.   *)
(***************************************************************************)
Scheduled == {t \in TaskId : Has("queue", t)}

Finite == IsFiniteSet(heap) /\ IsFiniteSet(used)

LEMMA StoredFinite ==
    ASSUME IInv, Finite, NEW p \in Prefix
    PROVE  IsFiniteSet(Stored(p))
<1> DEFINE S == {t \in TaskId : Has(p, t)}
           f == [t \in S |-> db[p][t]]
<1>1. S \in SUBSET used
  BY DEF IInv, KeysOK
<1>2. IsFiniteSet(S)
  BY <1>1, FS_Subset DEF Finite
<1>3. f \in Surjection(S, Stored(p))
  BY DEF Surjection, Stored
<1> QED
  BY <1>2, <1>3, FS_Surjection

LEMMA NextFinite ==
    ASSUME IInv, Finite, [Next]_vars
    PROVE  Finite'
<1>1. CASE \E tsk \in NewTasks : Push(tsk)
  BY <1>1, FS_AddElement DEF Push, Finite
<1>2. CASE \E tsk \in heap : PopOK(tsk) \/ PopError(tsk)
  BY <1>2, FS_RemoveElement DEF PopOK, PopError, Finite
<1>3. CASE NewQueue
  <2>1. IsFiniteSet(Stored("queue")) /\ IsFiniteSet(Stored("current"))
    BY StoredFinite DEF Prefix
  <2> QED
    BY <1>3, <2>1, FS_Union DEF NewQueue, Finite
<1>4. CASE UNCHANGED <<heap, used>>
  BY <1>4 DEF Finite
<1> QED
  BY <1>1, <1>2, <1>3, <1>4 DEF Next, PushRejected, PopEmpty, PersistProcessing,
     ArchiveTask, GiveUp, Delete, vars

LEMMA ScheduledFitsHeap ==
    ASSUME IInv, Finite, ScheduledInHeap, ~IOFaults
    PROVE  /\ IsFiniteSet(Scheduled)
           /\ Cardinality(Scheduled) <= Cardinality(heap)
<1> DEFINE f == [t \in Scheduled |-> db["queue"][t]]
<1>1. \A t \in Scheduled : db["queue"][t] \in heap /\ db["queue"][t].id = t
  BY DEF ScheduledInHeap, Scheduled, IInv, KeysOK, Prefix
<1>2. f \in Injection(Scheduled, heap)
  BY <1>1 DEF Injection, IsInjective
<1> QED
  BY <1>2, FS_Injection DEF Finite

LEMMA NextScheduledBounded ==
    ASSUME IInv, Finite, ScheduledInHeap, ScheduledBounded, [Next]_vars
    PROVE  ScheduledBounded'
<1> SUFFICES ASSUME ~IOFaults PROVE Cardinality(Scheduled') <= Max
  BY DEF ScheduledBounded, Scheduled
<1>1. IsFiniteSet(Scheduled) /\ Cardinality(Scheduled) <= Cardinality(heap)
  BY ScheduledFitsHeap
<1>2. Cardinality(Scheduled) \in Nat /\ Cardinality(heap) \in Nat
      /\ Cardinality(Scheduled) <= Max
  BY <1>1, FS_CardinalityType DEF Finite, ScheduledBounded, Scheduled
<1>3. db \in [Prefix -> [TaskId -> Task \cup {NoTask}]]
      /\ "queue" \in Prefix /\ "current" \in Prefix /\ "archive" \in Prefix
  BY DEF IInv, TypeOK, Prefix
<1>4. CASE \E tsk \in NewTasks : Push(tsk)
  <2>1. PICK tsk \in Task : Push(tsk)
    BY <1>4, NewTasksAreTasks
  <2>2. Scheduled' \in SUBSET (Scheduled \cup {tsk.id})
    BY <2>1, <1>3, PutEntry DEF Push, Scheduled, Has
  <2>3. /\ IsFiniteSet(Scheduled \cup {tsk.id})
        /\ Cardinality(Scheduled \cup {tsk.id}) <= Cardinality(Scheduled) + 1
    <3>1. /\ IsFiniteSet(Scheduled \cup {tsk.id})
          /\ Cardinality(Scheduled \cup {tsk.id}) =
               IF tsk.id \in Scheduled THEN Cardinality(Scheduled)
                                       ELSE Cardinality(Scheduled) + 1
      BY <1>1, FS_AddElement, Zenon
    <3> QED
      BY <3>1, <1>2
  <2>4. /\ IsFiniteSet(Scheduled')
        /\ Cardinality(Scheduled') <= Cardinality(Scheduled \cup {tsk.id})
    BY <2>2, <2>3, FS_Subset
  <2>5. Cardinality(Scheduled') \in Nat
        /\ Cardinality(Scheduled \cup {tsk.id}) \in Nat
    BY <2>3, <2>4, FS_CardinalityType
  <2>6. Cardinality(heap) < Max
    BY <2>1 DEF Push
  <2> QED
    BY <1>1, <1>2, <2>3, <2>4, <2>5, <2>6, MaxAssumption
<1>5. CASE Scheduled' \in SUBSET Scheduled
  <2>1. IsFiniteSet(Scheduled') /\ Cardinality(Scheduled') <= Cardinality(Scheduled)
    BY <1>5, <1>1, FS_Subset
  <2>2. Cardinality(Scheduled') \in Nat
    BY <2>1, FS_CardinalityType
  <2> QED
    BY <1>2, <2>1, <2>2, MaxAssumption
<1>6. CASE \E tsk \in heap : PopOK(tsk)
  <2>1. PICK tsk \in heap : PopOK(tsk)
    BY <1>6
  <2>2. tsk.id \in TaskId /\ ChangePrefix("current", "queue", tsk.id)
    BY <2>1 DEF IInv, TypeOK, Task, PopOK
  <2>3. Scheduled' \in SUBSET Scheduled
    BY <2>2, <1>3, ChangePrefixEntry DEF Scheduled, Has
  <2> QED
    BY <2>3, <1>5
<1>7. CASE \E tsk \in Task : PersistProcessing(tsk)
  <2>1. Scheduled' \in SUBSET Scheduled
    BY <1>7, <1>3, PutEntry DEF PersistProcessing, Scheduled, Has
  <2> QED
    BY <2>1, <1>5
<1>8. CASE \E id \in TaskId : ArchiveTask(id)
  <2>1. PICK id \in TaskId : ArchiveTask(id)
    BY <1>8
  <2>2. Scheduled' \in SUBSET Scheduled
    BY <2>1, <1>3, ChangePrefixEntry DEF ArchiveTask, Scheduled, Has
  <2> QED
    BY <2>2, <1>5
<1>9. CASE \E p \in Prefix, id \in TaskId : Delete(p, id)
  <2>1. Scheduled' \in SUBSET Scheduled
    BY <1>9, <1>3, DeleteKeyEntry DEF Delete, Scheduled, Has
  <2> QED
    BY <2>1, <1>5
<1>10. CASE UNCHANGED db
  <2>1. Scheduled' \in SUBSET Scheduled
    BY <1>10 DEF Scheduled, Has
  <2> QED
    BY <2>1, <1>5
<1> QED
  BY <1>4, <1>6, <1>7, <1>8, <1>9, <1>10
     DEF Next, PushRejected, PopEmpty, PopError, GiveUp, NewQueue, vars

\* With a healthy LevelDB at most Max tasks are stored as scheduled, restarts
\* included, although only Push looks at Max, and only at the heap.
THEOREM ScheduledStaysBounded == Spec => []ScheduledBounded
<1>1. Init => Finite /\ ScheduledBounded
  <2> SUFFICES ASSUME Init PROVE Finite /\ ScheduledBounded
    OBVIOUS
  <2>1. heap = {} /\ used = {} /\ {t \in TaskId : Has("queue", t)} = {}
    BY DEF Init, Has, Prefix
  <2> QED
    BY <2>1, FS_EmptySet, MaxAssumption DEF Finite, ScheduledBounded
<1>2. IInv /\ Finite /\ [Next]_vars => Finite'
  BY NextFinite
<1>3. IInv /\ Finite /\ ScheduledInHeap /\ ScheduledBounded /\ [Next]_vars
        => ScheduledBounded'
  BY NextScheduledBounded
<1> QED
  BY <1>1, <1>2, <1>3, Invariance, ScheduledStaysInHeap, PTL DEF Spec

-----------------------------------------------------------------------------
(***************************************************************************)
(* TaskQueue implements TaskLifecycle under the refinement mapping of      *)
(* module TaskQueue.                                                       *)
(***************************************************************************)
\* The phase of a task, spelled out: OnePrefix makes the cases exclusive.
LEMMA PhaseCases ==
    ASSUME OnePrefix, NEW t \in TaskId
    PROVE  /\ Has("archive", t) => PhaseOf(t) = "archived"
           /\ Has("current", t) => PhaseOf(t) = "processing"
           /\ Has("queue", t) /\ InHeap(t) => PhaseOf(t) = "scheduled"
           /\ Has("queue", t) /\ ~InHeap(t) => PhaseOf(t) = "stranded"
           /\ (\A p \in Prefix : ~Has(p, t)) /\ t \in used => PhaseOf(t) = "removed"
           /\ (\A p \in Prefix : ~Has(p, t)) /\ t \notin used => PhaseOf(t) = "none"
BY DEF OnePrefix, PhaseOf, Prefix

\* A step that leaves a task's entries and its place in the heap alone leaves
\* its phase and its rank alone.
LEMMA SamePhase ==
    ASSUME IInv, IInv', NEW t \in TaskId,
           \A p \in Prefix : db'[p][t] = db[p][t],
           Has("queue", t) => (InHeap(t) <=> InHeap(t)'),
           t \in used <=> t \in used'
    PROVE  PhaseOf(t)' = PhaseOf(t) /\ RankOf(t)' = RankOf(t)
<1>1. \A p \in Prefix : Has(p, t)' <=> Has(p, t)
  BY DEF Has
<1>2. PhaseOf(t)' = PhaseOf(t)
  BY <1>1 DEF PhaseOf, Prefix
<1>3. RankOf(t)' = RankOf(t)
  BY <1>1 DEF RankOf, Prefix
<1> QED
  BY <1>2, <1>3

\* What the mapping does to the abstract variables when only task t changes.
LEMMA OneTaskChanges ==
    ASSUME NEW t \in TaskId, NEW ph, NEW rk,
           PhaseOf(t)' = ph, RankOf(t)' = rk,
           \A u \in TaskId : u # t => /\ PhaseOf(u)' = PhaseOf(u)
                                     /\ RankOf(u)' = RankOf(u)
    PROVE  /\ [u \in TaskId |-> PhaseOf(u)]' =
                 [[u \in TaskId |-> PhaseOf(u)] EXCEPT ![t] = ph]
           /\ [u \in TaskId |-> RankOf(u)]' =
                 [[u \in TaskId |-> RankOf(u)] EXCEPT ![t] = rk]
OBVIOUS

LEMMA NothingChanges ==
    ASSUME \A u \in TaskId : PhaseOf(u)' = PhaseOf(u) /\ RankOf(u)' = RankOf(u),
           starts' = starts
    PROVE  UNCHANGED Lifecycle!vars
BY DEF Lifecycle!vars

-----------------------------------------------------------------------------
(***************************************************************************)
(* One lemma per action.                                                   *)
(***************************************************************************)
LEMMA PushRefines ==
    ASSUME IInv, IInv', NEW tsk \in Task, Push(tsk)
    PROVE  Lifecycle!Next
<1> DEFINE t == tsk.id
           r == [prio |-> tsk.prio, created |-> tsk.created]
<1>1. t \in TaskId /\ t \notin used /\ "queue" \in Prefix /\ r \in Rank
  BY DEF Push, Task, Prefix, Rank
<1>2. /\ db'["queue"][t] = tsk
      /\ \A q \in Prefix, u \in TaskId :
           q # "queue" \/ u # t => db'[q][u] = db[q][u]
  BY <1>1, PutEntry DEF Push, IInv, TypeOK
<1>3. heap' = heap \cup {tsk} /\ used' = used \cup {t} /\ starts' = starts
  BY DEF Push
<1>4. PhaseOf(t) = "none"
  <2>1. \A p \in Prefix : ~Has(p, t)
    BY <1>1 DEF IInv, KeysOK
  <2> QED
    BY <1>1, <2>1, PhaseCases DEF IInv
<1>5. PhaseOf(t)' = "scheduled" /\ RankOf(t)' = r
  <2>1. Has("queue", t)' /\ InHeap(t)'
    BY <1>2, <1>3, NoTaskAssumption DEF Has, InHeap
  <2>2. PhaseOf(t)' = "scheduled"
    BY <2>1, <1>1 DEF IInv, OnePrefix, PhaseOf, Prefix
  <2> QED
    BY <2>1, <2>2, <1>2 DEF RankOf
<1>6. \A u \in TaskId : u # t => PhaseOf(u)' = PhaseOf(u) /\ RankOf(u)' = RankOf(u)
  <2> SUFFICES ASSUME NEW u \in TaskId, u # t
               PROVE  PhaseOf(u)' = PhaseOf(u) /\ RankOf(u)' = RankOf(u)
    OBVIOUS
  <2>1. \A p \in Prefix : db'[p][u] = db[p][u]
    BY <1>2
  <2>2. InHeap(u) <=> InHeap(u)'
    BY <1>3 DEF InHeap
  <2>3. u \in used <=> u \in used'
    BY <1>3
  <2> QED
    BY <2>1, <2>2, <2>3, SamePhase
<1>7. Lifecycle!Accept(t, r)
  <2>1. {u \in TaskId : starts[u] > 0}' = {u \in TaskId : starts[u] > 0}
    BY <1>3
  <2>2. /\ [u \in TaskId |-> PhaseOf(u)]' =
             [[u \in TaskId |-> PhaseOf(u)] EXCEPT ![t] = "scheduled"]
        /\ [u \in TaskId |-> RankOf(u)]' =
             [[u \in TaskId |-> RankOf(u)] EXCEPT ![t] = r]
    BY <1>1, <1>5, <1>6, OneTaskChanges
  <2> QED
    BY <1>1, <1>4, <2>1, <2>2 DEF Lifecycle!Accept
<1> QED
  BY <1>1, <1>7 DEF Lifecycle!Next

LEMMA PopOKRefines ==
    ASSUME IInv, IInv', NEW tsk \in heap, PopOK(tsk)
    PROVE  Lifecycle!Next
<1> DEFINE t == tsk.id
<1>1. tsk \in Task /\ t \in TaskId /\ ChangePrefix("current", "queue", t)
  BY DEF IInv, TypeOK, Task, PopOK
<1>2. "queue" \in Prefix /\ "current" \in Prefix /\ "archive" \in Prefix
  BY DEF Prefix
<1>3. /\ db'["current"][t] = db["queue"][t]
      /\ db'["queue"][t] = NoTask
      /\ \A q \in Prefix, u \in TaskId : u # t => db'[q][u] = db[q][u]
  BY <1>1, <1>2, ChangePrefixEntry DEF IInv, TypeOK
<1>4. Has("queue", t) /\ InHeap(t)
  BY <1>1 DEF ChangePrefix, InHeap
<1>5. /\ heap' = heap \ {tsk} /\ used' = used
      /\ starts' = [starts EXCEPT ![t] = @ + 1]
  BY DEF PopOK
<1>6. PhaseOf(t) = "scheduled" /\ RankOf(t) = [prio |-> tsk.prio, created |-> tsk.created]
  BY <1>1, <1>4, PhaseCases DEF IInv, HeapOK, RankOf
<1>7. PhaseOf(t)' = "processing" /\ RankOf(t)' = NoTask
  <2>1. Has("current", t)' /\ ~Has("queue", t)'
    BY <1>3, <1>4 DEF Has
  <2>2. PhaseOf(t)' = "processing"
    BY <2>1, <1>1 DEF IInv, OnePrefix, PhaseOf, Prefix
  <2> QED
    BY <2>1, <2>2 DEF RankOf
<1>8. \A u \in TaskId : u # t => PhaseOf(u)' = PhaseOf(u) /\ RankOf(u)' = RankOf(u)
  <2> SUFFICES ASSUME NEW u \in TaskId, u # t
               PROVE  PhaseOf(u)' = PhaseOf(u) /\ RankOf(u)' = RankOf(u)
    OBVIOUS
  <2>1. \A p \in Prefix : db'[p][u] = db[p][u]
    BY <1>3
  <2>2. InHeap(u) <=> InHeap(u)'
    BY <1>5 DEF InHeap
  <2> QED
    BY <2>1, <2>2, <1>5, SamePhase
<1>9. \A u \in TaskId : PhaseOf(u) = "scheduled" => ~RankBefore(RankOf(u), RankOf(t))
  <2> SUFFICES ASSUME NEW u \in TaskId, PhaseOf(u) = "scheduled"
               PROVE  ~RankBefore(RankOf(u), RankOf(t))
    OBVIOUS
  <2>1. Has("queue", u) /\ InHeap(u)
    BY DEF PhaseOf
  <2>2. db["queue"][u] \in heap
    BY <2>1 DEF InHeap, IInv, HeapOK
  <2>3. ~Less(db["queue"][u], tsk)
    BY <2>2 DEF PopOK, HeapTop
  <2> QED
    <3>1. tsk.prio \in Int /\ db["queue"][u].prio \in Int
      BY <2>2, <1>1, PriorityAssumption DEF IInv, TypeOK, Task
    <3> QED
      BY <2>1, <2>3, <1>6, <3>1 DEF Less, RankBefore, RankOf
<1>10. Lifecycle!Start(t)
  <2>1. starts[t] = 0
    BY <1>1, <1>4 DEF IInv, StartsOK
  <2>2. {u \in TaskId : starts[u] > 0}' = {u \in TaskId : starts[u] > 0} \cup {t}
    BY <2>1, <1>1, <1>5 DEF IInv, TypeOK
  <2>3. t \notin {u \in TaskId : starts[u] > 0}
    BY <2>1
  <2>4. /\ [u \in TaskId |-> PhaseOf(u)]' =
             [[u \in TaskId |-> PhaseOf(u)] EXCEPT ![t] = "processing"]
        /\ [u \in TaskId |-> RankOf(u)]' =
             [[u \in TaskId |-> RankOf(u)] EXCEPT ![t] = NoTask]
    BY <1>1, <1>7, <1>8, OneTaskChanges
  <2> QED
    BY <1>1, <1>6, <1>9, <2>2, <2>3, <2>4 DEF Lifecycle!Start
<1> QED
  BY <1>1, <1>10 DEF Lifecycle!Next

LEMMA PopErrorRefines ==
    ASSUME IInv, IInv', NEW tsk \in heap, PopError(tsk)
    PROVE  [Lifecycle!Next]_Lifecycle!vars
<1> DEFINE t == tsk.id
<1>1. t \in TaskId
  BY DEF IInv, TypeOK, Task
<1>2. heap' = heap \ {tsk} /\ UNCHANGED <<db, used, taken, starts>>
  BY DEF PopError
<1>3. \A u \in TaskId : u # t => PhaseOf(u)' = PhaseOf(u) /\ RankOf(u)' = RankOf(u)
  <2> SUFFICES ASSUME NEW u \in TaskId, u # t
               PROVE  PhaseOf(u)' = PhaseOf(u) /\ RankOf(u)' = RankOf(u)
    OBVIOUS
  <2>1. InHeap(u) <=> InHeap(u)'
    BY <1>2 DEF InHeap
  <2> QED
    BY <2>1, <1>2, SamePhase
<1>4. CASE ~Has("queue", t)
  <2>1. PhaseOf(t)' = PhaseOf(t) /\ RankOf(t)' = RankOf(t)
    BY <1>1, <1>2, <1>4, SamePhase
  <2> QED
    BY <2>1, <1>2, <1>3, NothingChanges
<1>5. CASE Has("queue", t)
  <2>1. Has("queue", t)' /\ InHeap(t) /\ ~InHeap(t)'
    BY <1>2, <1>5 DEF Has, InHeap, IInv, HeapOK
  <2>2. PhaseOf(t) = "scheduled" /\ RankOf(t)' = RankOf(t)
    BY <1>1, <1>2, <1>5, <2>1, PhaseCases DEF IInv, RankOf, Has
  <2>3. PhaseOf(t)' = "stranded"
    BY <2>1, <1>1 DEF IInv, OnePrefix, PhaseOf, Prefix
  <2>4. [u \in TaskId |-> PhaseOf(u)]' =
             [[u \in TaskId |-> PhaseOf(u)] EXCEPT ![t] = "stranded"]
    BY <1>1, <2>2, <2>3, <1>3, OneTaskChanges
  <2>5. [u \in TaskId |-> RankOf(u)]' = [u \in TaskId |-> RankOf(u)]
    BY <2>2, <1>3
  <2>6. {u \in TaskId : starts[u] > 0}' = {u \in TaskId : starts[u] > 0}
    BY <1>2
  <2>7. Lifecycle!Strand(t)
    BY <1>1, <2>2, <2>4, <2>5, <2>6 DEF Lifecycle!Strand
  <2> QED
    BY <1>1, <2>7 DEF Lifecycle!Next
<1> QED
  BY <1>4, <1>5

LEMMA PersistProcessingRefines ==
    ASSUME IInv, IInv', NEW tsk \in Task, PersistProcessing(tsk)
    PROVE  [Lifecycle!Next]_Lifecycle!vars
<1> DEFINE t == tsk.id
<1>1. t \in TaskId /\ t \in taken
  BY DEF PersistProcessing, Task
<1>2. "queue" \in Prefix /\ "current" \in Prefix /\ "archive" \in Prefix
  BY DEF Prefix
<1>3. /\ db'["current"][t] = tsk
      /\ \A q \in Prefix, u \in TaskId :
           q # "current" \/ u # t => db'[q][u] = db[q][u]
  BY <1>2, PutEntry DEF PersistProcessing, IInv, TypeOK
<1>4. UNCHANGED <<heap, used, taken, starts>>
  BY DEF PersistProcessing
<1>5. t \in used /\ starts[t] = 1 /\ ~Has("archive", t) /\ ~Has("queue", t)
  BY <1>1 DEF IInv, TakenOK, StartsOK
<1>6. PhaseOf(t)' = "processing" /\ RankOf(t) = NoTask /\ RankOf(t)' = NoTask
  <2>1. Has("current", t)' /\ ~Has("queue", t)'
    BY <1>1, <1>2, <1>3, <1>5, NoTaskAssumption DEF Has
  <2>2. PhaseOf(t)' = "processing"
    BY <2>1, <1>1 DEF IInv, OnePrefix, PhaseOf, Prefix
  <2> QED
    BY <2>1, <2>2, <1>5 DEF RankOf
<1>7. \A u \in TaskId : u # t => PhaseOf(u)' = PhaseOf(u) /\ RankOf(u)' = RankOf(u)
  <2> SUFFICES ASSUME NEW u \in TaskId, u # t
               PROVE  PhaseOf(u)' = PhaseOf(u) /\ RankOf(u)' = RankOf(u)
    OBVIOUS
  <2>1. InHeap(u) <=> InHeap(u)'
    BY <1>4 DEF InHeap
  <2> QED
    BY <2>1, <1>3, <1>4, SamePhase
<1>8. CASE Has("current", t)
  <2>1. PhaseOf(t) = "processing"
    BY <1>1, <1>8, PhaseCases DEF IInv
  <2> QED
    BY <2>1, <1>4, <1>6, <1>7, NothingChanges
<1>9. CASE ~Has("current", t)
  <2>1. PhaseOf(t) = "removed"
    BY <1>1, <1>5, <1>9, PhaseCases DEF IInv, Prefix
  <2>2. [u \in TaskId |-> PhaseOf(u)]' =
             [[u \in TaskId |-> PhaseOf(u)] EXCEPT ![t] = "processing"]
    BY <1>1, <1>6, <1>7, OneTaskChanges
  <2>3. [u \in TaskId |-> RankOf(u)]' = [u \in TaskId |-> RankOf(u)]
    BY <1>6, <1>7
  <2>4. t \in {u \in TaskId : starts[u] > 0}
        /\ {u \in TaskId : starts[u] > 0}' = {u \in TaskId : starts[u] > 0}
    BY <1>1, <1>4, <1>5
  <2>5. Lifecycle!Resurrect(t)
    BY <1>1, <2>1, <2>2, <2>3, <2>4 DEF Lifecycle!Resurrect
  <2> QED
    BY <1>1, <2>5 DEF Lifecycle!Next
<1> QED
  BY <1>8, <1>9

LEMMA ArchiveTaskRefines ==
    ASSUME IInv, IInv', NEW t \in TaskId, ArchiveTask(t)
    PROVE  Lifecycle!Next
<1>1. "queue" \in Prefix /\ "current" \in Prefix /\ "archive" \in Prefix
  BY DEF Prefix
<1>2. /\ db'["archive"][t] = db["current"][t]
      /\ \A q \in Prefix, u \in TaskId :
           u # t \/ q = "queue" => db'[q][u] = db[q][u]
  <2>1. ChangePrefix("archive", "current", t)
    BY DEF ArchiveTask
  <2>2. db \in [Prefix -> [TaskId -> Task \cup {NoTask}]]
    BY DEF IInv, TypeOK
  <2>3. /\ db'["archive"][t] = db["current"][t]
        /\ \A q \in Prefix, u \in TaskId :
             u # t \/ (q # "current" /\ q # "archive") => db'[q][u] = db[q][u]
    BY <1>1, <2>1, <2>2, ChangePrefixEntry
  <2> QED
    BY <1>1, <2>3
<1>3. heap' = heap /\ used' = used /\ starts' = starts
  BY DEF ArchiveTask
<1>4. Has("current", t) /\ ~Has("queue", t)
  BY <1>1 DEF ArchiveTask, ChangePrefix, IInv, OnePrefix
<1>5. PhaseOf(t) = "processing" /\ RankOf(t) = NoTask
  BY <1>4, PhaseCases DEF IInv, RankOf
<1>6. PhaseOf(t)' = "archived" /\ RankOf(t)' = NoTask
  <2>1. Has("archive", t)' /\ ~Has("queue", t)'
    BY <1>1, <1>2, <1>4 DEF Has
  <2>2. PhaseOf(t)' = "archived"
    BY <2>1, <1>1 DEF IInv, OnePrefix, PhaseOf
  <2> QED
    BY <2>1, <2>2 DEF RankOf
<1>7. \A u \in TaskId : u # t => PhaseOf(u)' = PhaseOf(u) /\ RankOf(u)' = RankOf(u)
  <2> SUFFICES ASSUME NEW u \in TaskId, u # t
               PROVE  PhaseOf(u)' = PhaseOf(u) /\ RankOf(u)' = RankOf(u)
    OBVIOUS
  <2>1. InHeap(u) <=> InHeap(u)'
    BY <1>3 DEF InHeap
  <2> QED
    BY <2>1, <1>2, <1>3, SamePhase
<1>8. Lifecycle!Finish(t)
  <2>1. [u \in TaskId |-> PhaseOf(u)]' =
             [[u \in TaskId |-> PhaseOf(u)] EXCEPT ![t] = "archived"]
    BY <1>6, <1>7, OneTaskChanges
  <2>2. [u \in TaskId |-> RankOf(u)]' = [u \in TaskId |-> RankOf(u)]
    BY <1>5, <1>6, <1>7
  <2>3. {u \in TaskId : starts[u] > 0}' = {u \in TaskId : starts[u] > 0}
    BY <1>3
  <2> QED
    BY <1>5, <2>1, <2>2, <2>3 DEF Lifecycle!Finish
<1> QED
  BY <1>8 DEF Lifecycle!Next

LEMMA DeleteRefines ==
    ASSUME IInv, IInv', NEW p \in Prefix, NEW t \in TaskId, Delete(p, t)
    PROVE  [Lifecycle!Next]_Lifecycle!vars
<1>1. /\ db'[p][t] = NoTask
      /\ \A q \in Prefix, u \in TaskId : q # p \/ u # t => db'[q][u] = db[q][u]
  BY DeleteKeyEntry DEF Delete, IInv, TypeOK
<1>2. UNCHANGED <<heap, used, taken, starts>> /\ t \in used
  BY DEF Delete
<1>3. \A u \in TaskId : (\A q \in Prefix : db'[q][u] = db[q][u]) =>
        PhaseOf(u)' = PhaseOf(u) /\ RankOf(u)' = RankOf(u)
  <2> SUFFICES ASSUME NEW u \in TaskId, \A q \in Prefix : db'[q][u] = db[q][u]
               PROVE  PhaseOf(u)' = PhaseOf(u) /\ RankOf(u)' = RankOf(u)
    OBVIOUS
  <2>1. InHeap(u) <=> InHeap(u)'
    BY <1>2 DEF InHeap
  <2> QED
    BY <2>1, <1>2, SamePhase
<1>4. CASE ~Has(p, t)
  <2>1. \A q \in Prefix, u \in TaskId : db'[q][u] = db[q][u]
    BY <1>1, <1>4 DEF Has
  <2> QED
    BY <2>1, <1>2, <1>3, NothingChanges
<1>5. CASE Has(p, t)
  <2>1. \A q \in Prefix : ~Has(q, t)'
    BY <1>1, <1>5 DEF Has, IInv, OnePrefix
  <2>2. PhaseOf(t)' = "removed" /\ RankOf(t)' = NoTask
    BY <2>1, <1>2 DEF PhaseOf, RankOf, Prefix
  <2>3. PhaseOf(t) \in {"archived", "processing", "scheduled", "stranded"}
    BY <1>5, PhaseCases DEF IInv, Prefix
  <2>4. /\ [u \in TaskId |-> PhaseOf(u)]' =
             [[u \in TaskId |-> PhaseOf(u)] EXCEPT ![t] = "removed"]
        /\ [u \in TaskId |-> RankOf(u)]' =
             [[u \in TaskId |-> RankOf(u)] EXCEPT ![t] = NoTask]
    <3>1. \A u \in TaskId : u # t => PhaseOf(u)' = PhaseOf(u) /\ RankOf(u)' = RankOf(u)
      BY <1>1, <1>3
    <3> QED
      BY <2>2, <3>1, OneTaskChanges
  <2>5. {u \in TaskId : starts[u] > 0}' = {u \in TaskId : starts[u] > 0}
    BY <1>2
  <2>6. Lifecycle!Remove(t)
    BY <2>3, <2>4, <2>5 DEF Lifecycle!Remove, Lifecycle!Phase
  <2> QED
    BY <2>6 DEF Lifecycle!Next
<1> QED
  BY <1>4, <1>5

LEMMA NewQueueRefines ==
    ASSUME IInv, IInv', NewQueue
    PROVE  Lifecycle!Next
<1>1. db' = db /\ used' = used /\ starts' = starts
      /\ heap' = Stored("queue") \cup Stored("current")
  BY DEF NewQueue
<1>2. \A u \in TaskId : Has("queue", u) => InHeap(u)'
  BY <1>1, StoredEntry DEF IInv, TypeOK, KeysOK, InHeap, Prefix
<1>3. \A u \in TaskId : RankOf(u)' = RankOf(u)
  BY <1>1 DEF RankOf, Has
<1>4. \A u \in TaskId : PhaseOf(u)' =
        IF PhaseOf(u) = "stranded" THEN "scheduled" ELSE PhaseOf(u)
  <2> SUFFICES ASSUME NEW u \in TaskId
               PROVE  PhaseOf(u)' =
                        IF PhaseOf(u) = "stranded" THEN "scheduled" ELSE PhaseOf(u)
    OBVIOUS
  <2>1. \A p \in Prefix : Has(p, u)' <=> Has(p, u)
    BY <1>1 DEF Has
  <2>2. CASE Has("queue", u)
    <3>1. PhaseOf(u) \in {"scheduled", "stranded"}
      BY <2>2, PhaseCases DEF IInv
    <3>2. PhaseOf(u)' = "scheduled"
      BY <2>1, <2>2, <1>2 DEF IInv, OnePrefix, PhaseOf, Prefix
    <3> QED
      BY <3>1, <3>2
  <2>3. CASE ~Has("queue", u)
    <3>1. PhaseOf(u)' = PhaseOf(u)
      BY <1>1, <2>1, <2>3, SamePhase
    <3>2. PhaseOf(u) # "stranded"
      BY <2>3 DEF PhaseOf
    <3> QED
      BY <3>1, <3>2
  <2> QED
    BY <2>2, <2>3
<1>5. [u \in TaskId |-> PhaseOf(u)]' =
        [u \in TaskId |-> IF [v \in TaskId |-> PhaseOf(v)][u] = "stranded"
                          THEN "scheduled" ELSE [v \in TaskId |-> PhaseOf(v)][u]]
  BY <1>4
<1>6. [u \in TaskId |-> RankOf(u)]' = [u \in TaskId |-> RankOf(u)]
  BY <1>3
<1>7. {u \in TaskId : starts[u] > 0}' = {u \in TaskId : starts[u] > 0}
  BY <1>1
<1>8. Lifecycle!Recover
  BY <1>5, <1>6, <1>7 DEF Lifecycle!Recover
<1> QED
  BY <1>8 DEF Lifecycle!Next

-----------------------------------------------------------------------------
LEMMA InitRefines == Init => Lifecycle!Init
<1> SUFFICES ASSUME Init PROVE Lifecycle!Init
  OBVIOUS
<1>1. \A t \in TaskId : PhaseOf(t) = "none" /\ RankOf(t) = NoTask
  BY DEF Init, PhaseOf, RankOf, Has, Prefix
<1>2. {t \in TaskId : starts[t] > 0} = {}
  BY DEF Init
<1> QED
  BY <1>1, <1>2 DEF Lifecycle!Init

LEMMA NextRefines ==
    IInv /\ IInv' /\ [Next]_vars => [Lifecycle!Next]_Lifecycle!vars
<1> SUFFICES ASSUME IInv, IInv', [Next]_vars
             PROVE  [Lifecycle!Next]_Lifecycle!vars
  OBVIOUS
<1>1. CASE \E tsk \in NewTasks : Push(tsk)
  BY <1>1, PushRefines, NewTasksAreTasks
<1>2. CASE \E tsk \in heap : PopOK(tsk)
  BY <1>2, PopOKRefines
<1>3. CASE \E tsk \in heap : PopError(tsk)
  BY <1>3, PopErrorRefines
<1>4. CASE \E tsk \in Task : PersistProcessing(tsk)
  BY <1>4, PersistProcessingRefines
<1>5. CASE \E id \in TaskId : ArchiveTask(id)
  BY <1>5, ArchiveTaskRefines
<1>6. CASE \E p \in Prefix, id \in TaskId : Delete(p, id)
  BY <1>6, DeleteRefines
<1>7. CASE NewQueue
  BY <1>7, NewQueueRefines
<1>8. CASE UNCHANGED <<db, heap, used, starts>>
  <2>1. \A u \in TaskId : PhaseOf(u)' = PhaseOf(u) /\ RankOf(u)' = RankOf(u)
    BY <1>8 DEF PhaseOf, RankOf, Has, InHeap
  <2> QED
    BY <2>1, <1>8, NothingChanges
<1> QED
  BY <1>1, <1>2, <1>3, <1>4, <1>5, <1>6, <1>7, <1>8
     DEF Next, PushRejected, PopEmpty, GiveUp, vars

\* The queue and its database implement TaskLifecycle.
THEOREM Refinement == Spec => ImplementsLifecycle
<1>1. Init => Lifecycle!Init
  BY InitRefines
<1>2. IInv /\ IInv' /\ [Next]_vars => [Lifecycle!Next]_Lifecycle!vars
  BY NextRefines
<1> QED
  BY <1>1, <1>2, Invariance, PTL DEF Spec, ImplementsLifecycle, Lifecycle!Spec
=============================================================================
