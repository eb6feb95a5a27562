----------------------------- MODULE ClusterK8s -----------------------------
(***************************************************************************)
(* One run of the cluster:k8s runner (pkg/runner/cluster_k8s.go), or       *)
(* requests to collect outputs: they share only the pool of clients        *)
(* (pkg/runner/client_pool.go), of which other runs hold some throughout.  *)
(*                                                                         *)
(* Run starts a watcher and, a bounded number at a time, a creator for     *)
(* each pod, waits for all of them, fetches logs and deletes the pods.     *)
(* The watcher polls the phases of the pods, with one call per phase, and  *)
(* then stops the outcome collector.                                       *)
(*                                                                         *)
(* A call that acquires a client, uses it and releases it is one step that *)
(* needs a free client.  The watcher, and a request that collects outputs, *)
(* keep theirs over several steps.                                         *)
(***************************************************************************)
EXTENDS Integers, Sequences, FiniteSets

CONSTANTS
    NGroups, Size, \* the composition: that many groups of that many instances
    Collections,   \* concurrent requests to collect outputs
    Elsewhere,     \* how many clients the watchers of other runs hold
    Workers,       \* clients in the pool (20)
    SemCap,        \* creators at a time (30)
    KeepService,   \* the configurations to consider
    Faults         \* whether calls may fail

ASSUME SizeAssumption == NGroups \in Nat \ {0} /\ Size \in Nat \ {0}
ASSUME CollectionsAssumption == IsFiniteSet(Collections)
ASSUME PoolAssumption ==
    /\ Workers \in Nat \ {0} /\ SemCap \in Nat \ {0}
    /\ Elsewhere \in 0..Workers

Groups == 1..NGroups
Pod == Groups \X (1..Size)
InOrder == [k \in 1..(NGroups * Size) |->
              <<1 + ((k - 1) \div Size), 1 + ((k - 1) % Size)>>]

VARIABLES
    keep, ctx, pc, err,
    todo,       \* the pods Run has not come to
    deferred,   \* the pods whose deletion is deferred
    seen,       \* the groups that have an entry in result.Outcomes
    creator,    \* the goroutine that creates each pod
    pods,       \* each pod as the cluster sees it
    said,       \* the instances that reported success
    undeleted,  \* the pods that the cluster did not delete when Run asked for it
    watcher,    \* the first goroutine of the group
    counters,   \* what the watcher's calls counted: -1 after an error
    collector, events, counted, outcome,
    free,       \* clients in the pool
    collection, \* where each request to collect outputs is
    outputs     \* the collect-outputs pod

runVars == <<keep, pc, err, todo, deferred, seen>>
podVars == <<pods, said, events, undeleted>>
watchVars == <<watcher, counters>>
outcomeVars == <<collector, counted, outcome>>
collectVars == <<collection, outputs>>
vars == <<ctx, runVars, creator, podVars, watchVars, outcomeVars, free, collectVars>>

Unread == -2
NoCounts == [succeeded |-> Unread, failed |-> Unread]

Init ==
    /\ keep \in KeepService
    /\ ctx = "live" /\ err = "nil"
    /\ \/ pc = "push" /\ collection = [k \in Collections |-> "done"]
       \/ pc = "done" /\ collection = [k \in Collections |-> "ensure"]
    /\ todo = InOrder /\ deferred = {} /\ seen = {}
    /\ creator = [p \in Pod |-> "none"]
    /\ pods = [p \in Pod |-> "absent"]
    /\ said = {} /\ events = {} /\ undeleted = {}
    /\ watcher = "none" /\ counters = NoCounts
    /\ collector = "none" /\ counted = {} /\ outcome = "unknown"
    /\ free = Workers - Elsewhere
    /\ outputs = "absent"

CallOK == ctx = "live"
CallFails == Faults \/ ctx # "live"

-----------------------------------------------------------------------------
(***************************************************************************)
(* Run.                                                                    *)
(***************************************************************************)
Return ==
    /\ pc' = "done"
    /\ outcome' = IF ctx = "canceled" THEN "canceled" ELSE outcome

\* pushImagesToDockerRegistry, if there is a provider, and the parameters.
PushImages ==
    /\ pc = "push"
    /\ \/ CallOK /\ pc' = "prepare" /\ UNCHANGED <<err, outcome>>
       \/ CallFails /\ err' = "error" /\ Return
    /\ UNCHANGED <<ctx, keep, todo, deferred, seen, creator, podVars, watchVars, collector,
                   counted, free, collectVars>>

\* checkClusterResources, which does not look at the context; then the watcher
\* starts.
Prepare ==
    /\ pc = "prepare"
    /\ free > 0
    /\ \/ pc' = "launch" /\ watcher' = "subscribe" /\ UNCHANGED <<err, outcome>>
       \/ Faults /\ err' = "error" /\ Return /\ UNCHANGED watcher
    /\ UNCHANGED <<ctx, keep, todo, deferred, seen, creator, podVars, counters, collector,
                   counted, free, collectVars>>

\* The next pod: its group's entry, a place in sem, its deferred deletion, its
\* creator.  The memory a group asks for is parsed only here: if that fails, Run
\* returns at once and leaves its goroutines behind.
Launch ==
    LET p == Head(todo) IN
    /\ pc = "launch"
    /\ todo # <<>>
    /\ seen' = seen \cup {p[1]}
    /\ \/ /\ Cardinality({q \in Pod : creator[q] = "create"}) < SemCap
          /\ todo' = Tail(todo)
          /\ deferred' = deferred \cup {p}
          /\ creator' = [creator EXCEPT ![p] = "create"]
          /\ UNCHANGED <<pc, err>>
       \/ /\ Faults /\ p[1] \notin seen
          /\ err' = "abort"
          /\ pc' = "delete"
          /\ UNCHANGED <<todo, deferred, creator>>
    /\ UNCHANGED <<ctx, keep, podVars, watchVars, outcomeVars, free, collectVars>>

LaunchEnd ==
    /\ pc = "launch"
    /\ todo = <<>>
    /\ pc' = "wait"
    /\ UNCHANGED <<ctx, keep, err, todo, deferred, seen, creator, podVars, watchVars,
                   outcomeVars, free, collectVars>>

\* createTestplanPod.
Create(p) ==
    /\ creator[p] = "create"
    /\ free > 0
    /\ \/ /\ CallOK
          /\ pods' = [pods EXCEPT ![p] = "pending"]
          /\ creator' = [creator EXCEPT ![p] = "ok"]
       \/ /\ CallFails
          /\ creator' = [creator EXCEPT ![p] = "failed"]
          /\ UNCHANGED pods
    /\ UNCHANGED <<ctx, runVars, said, events, undeleted, watchVars, outcomeVars, free,
                   collectVars>>

\* Mutant: Run waits for the watcher only.
WaitForWatcher ==
    /\ pc = "wait"
    /\ watcher \in {"ok", "err"}
    /\ err' = IF watcher = "err" THEN "error" ELSE "nil"
    /\ pc' = "logs"
    /\ UNCHANGED <<ctx, keep, todo, deferred, seen, creator, podVars, watchVars,
                   outcomeVars, free, collectVars>>

\* eg.Wait.
Wait ==
    /\ pc = "wait"
    /\ \A p \in Pod : creator[p] # "create"
    /\ watcher \in {"ok", "err"}
    /\ err' = IF watcher = "err" \/ \E p \in Pod : creator[p] = "failed"
              THEN "error" ELSE "nil"
    /\ pc' = "logs"
    /\ UNCHANGED <<ctx, keep, todo, deferred, seen, creator, podVars, watchVars,
                   outcomeVars, free, collectVars>>

\* getPodLogs, for each pod; errors are logged.
FetchLogs ==
    /\ pc = "logs"
    /\ free > 0
    /\ pc' = "delete"
    /\ UNCHANGED <<ctx, keep, err, todo, deferred, seen, creator, podVars, watchVars,
                   outcomeVars, free, collectVars>>

\* A deferred deletion, with the run's own context.  An error is logged.
DeletePod ==
    /\ pc = "delete"
    /\ deferred # {} /\ ~keep
    /\ free > 0
    /\ \E p \in deferred :
         /\ deferred' = deferred \ {p}
         /\ \/ /\ CallOK
               /\ pods' = IF pods[p] = "absent" THEN pods ELSE [pods EXCEPT ![p] = "gone"]
               /\ UNCHANGED undeleted
            \/ /\ CallFails
               /\ undeleted' = IF pods[p] = "absent" THEN undeleted ELSE undeleted \cup {p}
               /\ UNCHANGED pods
    /\ UNCHANGED <<ctx, keep, pc, err, todo, seen, creator, said, events, watchVars,
                   outcomeVars, free, collectVars>>

Finish ==
    /\ pc = "delete"
    /\ deferred = {} \/ keep
    /\ Return
    /\ UNCHANGED <<ctx, keep, err, todo, deferred, seen, creator, podVars, watchVars,
                   collector, counted, free, collectVars>>

\* TerminateAll, for whoever asks: every plan pod is deleted, while a run goes on.
TerminateAll ==
    /\ free > 0
    /\ \E p \in Pod : pods[p] \notin {"absent", "gone"}
    /\ pods' = [p \in Pod |-> IF pods[p] = "absent" THEN "absent" ELSE "gone"]
    /\ UNCHANGED <<ctx, runVars, creator, said, events, undeleted, watchVars, outcomeVars,
                   free, collectVars>>

-----------------------------------------------------------------------------
(***************************************************************************)
(* The watcher and the outcome collector.                                  *)
(***************************************************************************)
\* collectOutcomes; the watcher goes on without it if it fails.
WatchSubscribe ==
    /\ watcher = "subscribe"
    /\ watcher' = "acquire"
    /\ \/ CallOK /\ collector' = "recv"
       \/ CallFails /\ collector' = "failed"
    /\ UNCHANGED <<ctx, runVars, creator, podVars, counters, counted, outcome, free,
                   collectVars>>

\* watchRunPods acquires a client and watches events.
WatchAcquire ==
    /\ watcher = "acquire"
    /\ free > 0
    /\ \/ CallOK /\ watcher' = "poll" /\ free' = free - 1
       \/ CallFails /\ watcher' = "err" /\ UNCHANGED free
    /\ UNCHANGED <<ctx, runVars, creator, podVars, counters, outcomeVars, collectVars>>

\* The context is checked.
WatchPoll ==
    /\ watcher = "poll"
    /\ IF ctx = "live" THEN watcher' = "count" /\ UNCHANGED free
                       ELSE watcher' = "err" /\ free' = free + 1
    /\ UNCHANGED <<ctx, runVars, creator, podVars, counters, outcomeVars, collectVars>>

\* The run has taken longer than run_timeout_min.
WatchTimeout ==
    /\ watcher = "poll"
    /\ watcher' = "err"
    /\ free' = free + 1
    /\ UNCHANGED <<ctx, runVars, creator, podVars, counters, outcomeVars, collectVars>>

\* One call counts the pods in one phase.
WatchCount(phase) ==
    /\ watcher = "count"
    /\ counters[phase] = Unread
    /\ \/ /\ CallOK
          /\ counters' = [counters EXCEPT ![phase] =
                            Cardinality({p \in Pod : pods[p] = phase})]
       \/ CallFails /\ counters' = [counters EXCEPT ![phase] = -1]
    /\ UNCHANGED <<ctx, runVars, creator, podVars, watcher, outcomeVars, free, collectVars>>

\* Mutant: the pods that are neither running nor pending have finished.
AllFinishedIdle == \A p \in Pod : pods[p] \notin {"running", "pending"}

\* As many pods as there are instances have succeeded or failed.
AllFinished == \/ counters.succeeded = Cardinality(Pod)
               \/ counters.succeeded + counters.failed = Cardinality(Pod)

WatchDecide ==
    /\ watcher = "count"
    /\ \A phase \in DOMAIN counters : counters[phase] # Unread
    /\ IF AllFinished THEN watcher' = "join" /\ free' = free + 1
                      ELSE watcher' = "poll" /\ UNCHANGED free
    /\ counters' = NoCounts
    /\ UNCHANGED <<ctx, runVars, creator, podVars, outcomeVars, collectVars>>

\* cancel(); <-outcomesDoneCh, a nil channel if the collector was not started.
WatchJoin ==
    /\ watcher = "join"
    /\ collector = "send"
    /\ watcher' = "ok"
    /\ collector' = "done"
    /\ UNCHANGED <<ctx, runVars, creator, podVars, counters, counted, outcome, free,
                   collectVars>>

\* Mutant: the watcher does not cancel.
CtxContainersOfTask == ctx # "live"

CtxContainersDone == ctx # "live" \/ watcher \in {"join", "ok", "err"}

\* A success if each group that has an entry has all its events.
Verdict ==
    IF seen # {} /\ \A p \in Pod : p[1] \in seen => p \in counted
    THEN "success" ELSE "failure"

Collect ==
    /\ collector = "recv"
    /\ \/ \E p \in events :
            /\ events' = events \ {p}
            /\ counted' = counted \cup {p}
            /\ UNCHANGED <<collector, outcome>>
       \/ /\ CtxContainersDone
          /\ outcome' = Verdict
          /\ collector' = "send"
          /\ UNCHANGED <<events, counted>>
    /\ UNCHANGED <<ctx, runVars, creator, pods, said, undeleted, watchVars, free,
                   collectVars>>

-----------------------------------------------------------------------------
(***************************************************************************)
(* CollectOutputs.                                                         *)
(***************************************************************************)
\* ensureCollectOutputsPod takes a client and looks for the pod.
CollectEnsure(k) ==
    /\ collection[k] = "ensure"
    /\ free > 0
    /\ IF outputs = "absent"
       THEN collection' = [collection EXCEPT ![k] = "create"] /\ free' = free - 1
       ELSE collection' = [collection EXCEPT ![k] = "exec"] /\ UNCHANGED free
    /\ UNCHANGED <<ctx, runVars, creator, podVars, watchVars, outcomeVars, outputs>>

\* createCollectOutputsPod takes another one; it fails if the pod exists by now.
CollectCreate(k) ==
    /\ collection[k] = "create"
    /\ free > 0
    /\ IF outputs = "absent"
       THEN /\ outputs' = "pending"
            /\ collection' = [collection EXCEPT ![k] = "wait"]
            /\ UNCHANGED free
       ELSE /\ collection' = [collection EXCEPT ![k] = "failed"]
            /\ free' = free + 1
            /\ UNCHANGED outputs
    /\ UNCHANGED <<ctx, runVars, creator, podVars, watchVars, outcomeVars>>

\* Mutant: the wait is for a phase that the pod does not reach.
CollectWaitSucceeded(k) ==
    /\ \/ /\ collection[k] = "wait" /\ free > 0
          /\ collection' = [collection EXCEPT ![k] = "waiting"] /\ free' = free - 1
       \/ /\ collection[k] = "waiting" /\ outputs = "succeeded"
          /\ collection' = [collection EXCEPT ![k] = "exec"] /\ free' = free + 2
    /\ UNCHANGED <<ctx, runVars, creator, podVars, watchVars, outcomeVars, outputs>>

\* waitForPod takes another one, too.
CollectWait(k) ==
    /\ \/ /\ collection[k] = "wait" /\ free > 0
          /\ collection' = [collection EXCEPT ![k] = "waiting"] /\ free' = free - 1
       \/ /\ collection[k] = "waiting" /\ outputs = "running"
          /\ collection' = [collection EXCEPT ![k] = "exec"] /\ free' = free + 2
    /\ UNCHANGED <<ctx, runVars, creator, podVars, watchVars, outcomeVars, outputs>>

\* Mutant: the client is not released.
CollectExecKeeping(k) ==
    /\ collection[k] = "exec"
    /\ free > 0
    /\ free' = free - 1
    /\ collection' = [collection EXCEPT ![k] =
                        IF outputs = "running" THEN "done" ELSE "failed"]
    /\ UNCHANGED <<ctx, runVars, creator, podVars, watchVars, outcomeVars, outputs>>

\* tar runs in the pod.
CollectExec(k) ==
    /\ collection[k] = "exec"
    /\ free > 0
    /\ collection' = [collection EXCEPT ![k] =
                        IF outputs = "running" THEN "done" ELSE "failed"]
    /\ UNCHANGED <<ctx, runVars, creator, podVars, watchVars, outcomeVars, free, outputs>>

-----------------------------------------------------------------------------
(***************************************************************************)
(* The cluster and the task's context.                                     *)
(***************************************************************************)
\* A pod starts; it ends in either phase, having reported success or not.
PodStep(p) ==
    /\ \/ /\ pods[p] = "pending"
          /\ pods' = [pods EXCEPT ![p] = "running"]
          /\ UNCHANGED <<said, events>>
       \/ /\ pods[p] = "running"
          /\ \E phase \in {"succeeded", "failed"} : pods' = [pods EXCEPT ![p] = phase]
          /\ \/ UNCHANGED <<said, events>>
             \/ said' = said \cup {p} /\ events' = events \cup {p}
    /\ UNCHANGED <<ctx, runVars, creator, undeleted, watchVars, outcomeVars, free, collectVars>>

OutputsPodRuns ==
    /\ outputs = "pending"
    /\ outputs' = "running"
    /\ UNCHANGED <<ctx, runVars, creator, podVars, watchVars, outcomeVars, free, collection>>

CtxDone ==
    /\ ctx = "live"
    /\ ctx' \in {"canceled", "deadline"}
    /\ UNCHANGED <<runVars, creator, podVars, watchVars, outcomeVars, free, collectVars>>

-----------------------------------------------------------------------------
Main == PushImages \/ Prepare \/ Launch \/ LaunchEnd \/ Wait \/ FetchLogs \/ DeletePod \/ Finish
Creating == \E p \in Pod : Create(p)
Watching == \/ WatchSubscribe \/ WatchAcquire \/ WatchPoll
            \/ \E phase \in DOMAIN counters : WatchCount(phase)
            \/ WatchDecide \/ WatchJoin
Collecting(k) == CollectEnsure(k) \/ CollectCreate(k) \/ CollectWait(k) \/ CollectExec(k)

\* The model of the run ends with Run, that of the collections goes on.
Running == pc # "done"

Next ==
    \/ Main
    \/ Running /\ Creating
    \/ Running /\ Watching
    \/ Running /\ WatchTimeout
    \/ Running /\ Collect
    \/ Running /\ \E p \in Pod : PodStep(p)
    \/ Running /\ TerminateAll
    \/ Running /\ CtxDone
    \/ \E k \in Collections : Collecting(k)
    \/ OutputsPodRuns

(***************************************************************************)
(* Goroutines run, and a run that goes on times out; the pod that collects *)
(* outputs comes up.  A client is handed to whoever waits for one:         *)
(* acquisitions are strongly fair.                                         *)
(***************************************************************************)
Spec ==
    /\ Init /\ [][Next]_vars
    /\ SF_vars(Main) /\ SF_vars(Running /\ Creating) /\ SF_vars(Running /\ Watching)
    /\ SF_vars(Running /\ WatchTimeout)
    /\ WF_vars(Running /\ Collect)
    /\ WF_vars(OutputsPodRuns)
    /\ \A k \in Collections : SF_vars(Collecting(k))

-----------------------------------------------------------------------------
(***************************************************************************)
(* Properties.                                                             *)
(***************************************************************************)
Holding == (IF watcher \in {"poll", "count"} THEN 1 ELSE 0)
           + Cardinality({k \in Collections : collection[k] \in {"create", "wait"}})
           + 2 * Cardinality({k \in Collections : collection[k] = "waiting"})

\* Types; every client is in the pool or held by someone who will release it.
TypeOK ==
    /\ pc \in {"push", "prepare", "launch", "wait", "logs", "delete", "done"}
    /\ pods \in [Pod -> {"absent", "pending", "running", "succeeded", "failed", "gone"}]
    /\ deferred \subseteq Pod /\ counted \subseteq said
    /\ free >= 0 /\ free + Holding + Elsewhere = Workers
    /\ Cardinality({p \in Pod : creator[p] = "create"}) <= SemCap

\* The watcher ends the run only when every instance has finished, although it
\* counts each phase in a call of its own while pods move on.
EndSound ==
    watcher \in {"join", "ok"} =>
        \A p \in Pod : pods[p] \in {"succeeded", "failed", "gone"}

\* A run that was not aborted halfway leaves no pod behind, except those that it
\* asked the cluster to delete and that the cluster (or a context that was done)
\* would not: no pod is forgotten, and no creator is at work while pods are
\* deleted.
NothingLeft ==
    pc = "done" /\ err # "abort" /\ ~keep =>
        \A p \in Pod : pods[p] \in {"absent", "gone"} \/ p \in undeleted

\* The collector was started, or it is still to be.
Collectable == collector # "failed"

\* Every run returns, because its instances finish, its context is done or it
\* times out, unless outcomes could not be collected.
RunReturns == <>(pc = "done" \/ ~Collectable)

\* A request to collect outputs ends, although it holds one client while it waits
\* for another: the pool is larger than the number of runs and requests.
CollectionEnds ==
    \A k \in Collections : <>(collection[k] \in {"done", "failed"})

=============================================================================
