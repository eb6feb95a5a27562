# A TLA+ development for Testground

Testground runs distributed test plans. A daemon accepts *build* and *run* tasks
over HTTP, keeps them in a LevelDB database, works them off with a few worker
goroutines, and hands each one to a builder or to a runner (local processes,
Docker containers, a Kubernetes cluster). A sidecar next to the test instances
shapes their network. This directory models the client, the daemon, two of its
runners, the builders and the sidecar where their correctness depends on
interleavings, failures and restarts, checks them with TLC, and proves all their
safety properties with TLAPS.

Line numbers refer to the Go sources under `src/pkg`.

## 1. Inventory

| Component | State it keeps | Operations | What makes it correct |
|---|---|---|---|
| Task queue and storage (`task/queue.go`, `task/storage.go`, `task/task.go`) | LevelDB keys `queue:`, `current:`, `archive:`; an in-memory heap under a mutex | `NewQueue`, `Push`, `Pop`; `PersistScheduled/Processing`, `ProcessTask`, `ArchiveTask`, `Delete`, `Get`, `Filter` | a task is under one prefix, is started at most once and by priority then age; nothing accepted is lost; archived tasks stay as they are |
| Engine (`engine/engine.go`, `engine/supervisor.go`) | the two above, `signals` (task id to channel) under an `RWMutex`, one context and one watcher goroutine per running task, one `.out` file per task | `QueueBuild`, `QueueRun`, `worker`, `Kill`, `DeleteTask`, `GetTask`, `Tasks`, `Logs`; `doBuild`, `doRun`; `DoHealthcheck`, `DoTerminate`, `DoCollectOutputs` | accepted tasks are archived; kills are honoured; deletions and listings agree with the database; locks and goroutines are not leaked |
| Daemon handlers (`daemon/*.go`) | none; one goroutine per request | decode a request, call the engine, write chunks | no request wedges the daemon |
| Outcomes (`data/result.go`) | none | `DecodeTaskOutcome`, `IsTaskOutcomeInError` | a failed task is not reported as a success |
| `local:docker` runner (`runner/local_docker.go`, `docker/container.go`, `runner/pretty.go`) | containers, data networks, a per-runner `RWMutex`, channels between the outcome collector, the starter and the log tailer | `Healthcheck`, `Run`, `CollectOutputs`, `TerminateAll` | every container created is removed; the run ends; outcomes add up |
| `local:exec` runner | processes | `Run`, `TerminateAll` | processes end with the run |
| `cluster:k8s` runner (`runner/cluster_k8s.go`, `runner/client_pool.go`) | pods, a pool of clients, a semaphore, the outcome collector | `Run`, `watchRunPods`, `CollectOutputs`, `TerminateAll` | no hold-and-wait on the pool; pods are removed; the run ends |
| `cluster:swarm` runner | one service | `Run` | the service is removed |
| Sidecar (`sidecar/*.go`) and Docker manager (`docker/manager.go`) | one worker per container, its network links; barriers and topics of the sync service | `Watch`, `handler`, `ConfigureNetwork` | no instance starts before all networks are up; changes are applied and acknowledged in order |
| Health checks (`healthcheck/*.go`) | a report | `Enlist`, `RunChecks` | the report says what was checked and fixed |
| Compositions (`api/composition.go`) | none | validation, `PrepareForBuild`, `PrepareForRun`, `PickGroups` | instance counts and defaults come out as documented |
| RPC and client (`rpc/*.go`, `client/client.go`) | a stream of chunks | `OutputWriter`, `parseGeneric` | progress, then exactly one result or error |
| Builders, command line, metrics, configuration | none, or Docker's | | sequential I/O |

How they interact. Handlers call the engine. The engine's workers share the
queue (through its mutex), the database (through nothing but LevelDB's own
atomic writes) and `signals` (through `signalsLk`) with the handlers; a kill
travels from a handler through a channel to a watcher goroutine, from there
through a context to the runner, and back as an error to the worker. A follower
of logs deduces from `signals` that a task has ended. Runners and sidecars meet
only in Docker or Kubernetes and in the sync service.

Hard behaviours. (a) The database and `signals` are guarded separately, so every
prefix move interleaves with every request. (b) The daemon may die between any
two writes; the heap is rebuilt from the database. (c) Five early returns of
`worker` leave different amounts of clean-up undone. (d) Kill, task timeout,
runner return and deferred `cancel()` race for one context and one lock. (e)
`Logs` infers the end of a task from the absence of a channel. (f) Runners
multiplex several goroutines into one channel with a fixed capacity. The
hazards are listed line by line in `PROJECT.json`.

## 2. Modules

| Module | Models | Uses |
|---|---|---|
| `TaskLifecycle` | what the queue promises: phases of a task, one start, in rank order | |
| `TaskQueue` | `Queue` and `Storage` with abstract callers | refines `TaskLifecycle` |
| `TaskQueueProofs` | the inductive invariant, the safety theorems and the refinement | `TaskQueue` |
| `Engine` | workers, watchers, `signals`, requests, restarts | refines `TaskQueue` |
| `EngineProofs` | the engine implements the queue; its safety theorems; what a follower may conclude | `EngineLogs`, `TaskQueueProofs` |
| `EngineLogs` | `Logs` with `follow`, its poller, clients that go away | `Engine` |
| `Prepare` | compositions, `doBuild`, builders, `doRun` up to the run input | |
| `PrepareProofs` | artifacts, run input, idempotence of preparing | `Prepare` |
| `DockerRun` | `Run` of `local:docker` | |
| `DockerRunProofs` | its outcome, its clean-up, its end without error | `DockerRun` |
| `ClusterK8s` | `Run` and `CollectOutputs` of `cluster:k8s`, the client pool | |
| `ClusterK8sProofs` | the pool, the end of a run, its clean-up | `ClusterK8s` |
| `Sidecar` | the Docker manager's `Watch`, the workers of both reactors | |
| `SidecarProofs` | `Watch`, the barrier, the acknowledgements | `Sidecar` |
| `Infra` | health checks and fixes, the go proxy, terminate | |
| `InfraProofs` | what a successful check promises, when names conflict | `Infra` |
| `Client` | `run`, `build` and `collect`, the chunk protocol, their handlers, outcomes | |
| `ClientProofs` | exit codes, uploads, one answer per response | `Client` |
| `MC...` | symmetry sets and sets of inputs for TLC | |

The modules meet where the components do. `Engine` abstracts `doRun` and `doBuild`
to what they may return; `Prepare`, `DockerRun` and `ClusterK8s` are the inside of
these calls, and the properties `RunEnds` and `RunReturns` are what `Engine` assumes
of runners (`RunnerFairness`). `Client` takes from `Engine` that tasks end
(`EveryTaskArchived`), and from `EngineLogs` that a follower is given the finished
task (`FollowSeesEnd`). `Sidecar` sees containers come and go as `DockerRun` makes
them.

### TaskQueue

`db[prefix][id]` is LevelDB; `heap` is `Queue.tq` (the order inside the heap is
`container/heap`'s business: `HeapTop` is any minimum under `Less`); `taken` are
the tasks whose taker may still write. A task keeps its priority, creation
time, type, last state, error and result; `States` is reduced to its first
timestamp and its last state, because `Created()` and `State()` read nothing
else.

`Push` and `Pop` run under the queue's mutex and are one action each, split by
outcome: `Push`/`PushRejected` (queue full, or the write fails), `PopOK`,
`PopEmpty`, `PopError` (the task has left the heap, `ProcessTask` failed: key not
found, or a LevelDB error). `changePrefix` is a LevelDB transaction, hence one
step. `PersistProcessing`, `ArchiveTask` and each key deletion are one write.
`NewQueue` is a restart: memory is lost, the heap is refilled from `queue:` and
`current:`. `GiveUp` is the taker's return, after which it writes no more.
`IOFaults` says whether LevelDB calls may fail.

### TaskLifecycle

Each task is `none`, `scheduled`, `stranded` (in the database but not in the
heap until the next restart), `processing`, `archived` or `removed`. A task may
start only once, and only if nothing scheduled ranks before it. The mapping:
`PhaseOf` reads the phase off `db` and `heap`, `RankOf` the priority and creation
time, `started` the counter of starts.

### Engine

Every point at which a worker, watcher or handler can be observed by another one
(lock acquisition, database call, file system call, channel operation) is a step.

* `wpc`, `tsk`: where a worker is and its private copy of its task
  (`supervisor.go` 55-181). The early returns are the disjuncts that end in
  `Return`, which runs the deferred `cancel()`.
* `ctx`, `watch`: the task's context, and the watcher goroutine (71-82), which
  on a closed channel first takes the write lock to unregister it (`WatchDelete`)
  and then cancels (`WatchCancel`).
* `signals`, `closed`: the registered channels and the closed ones. `signalsLk`
  is modelled as Go implements it: `rlocked` are readers that hold it over
  several steps (`Tasks`), `wwait` a waiting writer that holds off new readers,
  `leaked` a read lock nobody will release, which a panic inside `Kill` or an
  error inside `Tasks` leaves behind.
* `req`: one request per handler: `kill`, `delete` (kill, then three reads, then
  one key deletion), `status` (three reads), `list` (lock, three scans of the same
  range of keys). The range is by time, which is not modelled: `TimeRanges` lets it
  hold any of the tasks accepted so far.
* `Crash`: the daemon dies and restarts on its disk repository; running requests
  are lost.

`doRun` and `doBuild` are reduced to what they may return (`Outcomes`): any
result or error, a context error only if the task's own context is in that
state, and build artifacts only from a build that succeeded. `Q == INSTANCE
TaskQueue WITH taken <- Held` makes the workers the queue's callers.

### EngineLogs

A follower reads the task until it has left the scheduled state, opens the
`.out` file, and alternates between the select on its context and `Decode`, which
blocks; its poller closes `stop` after the channel has left `signals`. What is
in a log chunk does not matter, only how many there are.

### Prepare

From a composition to the runner's input. The state is the one composition that
the client, `doBuild` and `doRun` share through pointers (`comp`; `orig` is what
the user wrote), the groups to build (`pick`), the jobs and the plan's cache
image. The operators are the functions of `api/composition.go` and of the
builders: `ApplyDefaults`, `PrepareForBuild`, `PrepareForRun`, `InstanceCount`,
`BuildKey`, and per builder what it makes of a group (`DockerGo`, `ExecGo`,
`DockerNode`, `DockerGeneric`). A job is the steps of a build that others can
see: look up the cache image, build, untag, tag, name the result. An image has an
ID from `Images` that no earlier image has. `InstanceCount` rounds
`percentage * float64(total)`: the model computes in hundredths, where the product is exact, and the
constant `HalvesDown` holds the pairs of percentage and total for which the float64 product of
a number and a half is just below it, so that `math.Round` goes down (58% of 25 is 14). For totals
the model is about only exact halves are that close. `Wanted` is the reference definition the
artifacts are compared with.

### DockerRun

`pc` follows `Run` from `setupSyncClient` to its deferred clean-up (`todo`, `list`:
the create loop; `loop`, `removal`: `DeleteContainers`). The goroutines are the
starters, the waiter that closes `started`, the two tailers and the outcome
collector. Instances report success or not, and exit or not, as they like. The
goroutines that send on `doneCh` are followed until `Run` has its answer: what
they do later nobody reads. A tailer follows an instance's output to its end
(`PrettyEnd`), or gives up on it while the instance goes on (`PrettyCut`: an event the
printer does not know, a line longer than the scanner takes, a stream that breaks).
`network` is `lost` when nobody will remove it any more. A call that fails has had no
effect.

### ClusterK8s

The same for pods. A call that takes a client from the pool, uses it and gives
it back is one step that needs a free client; the watcher, and a request that
collects outputs (which holds up to two), keep theirs over several steps.
`Elsewhere` are the clients other runs hold. `counters` are the counts of pods per
phase, each from a call of its own. `undeleted` is a history: the pods that the cluster
did not delete when `Run` asked for it.

### Sidecar

`watch`, `events` and `managers` are `Manager.Watch`; `worker` is the goroutine per
container: set up the control link, apply the default configuration, signal and
wait at the barrier, then receive, apply and acknowledge. `kernel` is what the
namespace really has (data link, address, qdisc, shape, filter, external routes,
control routes), `active` what the worker believes. A step of
`ConfigureNetwork` is one kernel or Docker call. `reactor` chooses the order of
`docker_network.go` or `k8s_network.go`. A crash or a broken event stream ends the
process, which starts again.

### Infra

Two requests at a time: a healthcheck of `local:docker` or `local:exec` with
fixes, a build that sets up its go proxy, `TerminateAll`. Each works through its
list of items; each Docker call is a step; a container is known by name and
generation, because fixes and deletions go by ID. A running container may exit at any
time (`Exit`), right after its start as well: what `EnsureContainerStarted` reads after the start
does not tell. `lost` is a history: the containers that exited or were terminated
after the request had found or started them running.

### Client

One command: upload the request part by part, read the id, follow the logs,
collect the outputs, exit. `stream` is the response in flight, a sequence of
chunks; `up` the connection, which may break with any suffix of `stream` lost.
The handlers read parts, queue the task, follow it, and stream the archive;
`OutputsRefused` is the outputs handler that cannot decode its request. `dl`
is a browser's `GET /outputs`, with its pipe and parser goroutine.
`DecodeTaskOutcome` and `IsTaskOutcomeInError` judge the task.

## 3. What is checked

| Run | Instance | Shows |
|---|---|---|
| `queue` | 3 tasks, 2 priorities, 2 times, `Max` 2, no faults, any number of restarts | scheduled tasks are in the heap (`ScheduledInHeap`) and at most `Max` (`ScheduledBounded`) |
| `queue_faults` | the same with LevelDB failures | `OnePrefix`, `AtMostOnce`, `ArchiveFinal`, the inductive invariant `IInv`, and `ImplementsLifecycle` |
| `engine` | 2 tasks, 2 workers, 1 request of any kind, 1 restart, failing database and files | a task is archived as canceled only if a client killed it (`CanceledOnlyIfKilled`), a running task can be killed (`RunningHasSignal`), a deleted archived task stays away (`ArchivedDeleteSticks`), a listing misses no task of its time range but those that a client deleted (`ListComplete`); `ImplementsQueue` |
| `engine_live` | 2 tasks, 1 worker, 2 kill or list requests, at most one kill per task | `KillIsHonoured`, `EveryTaskArchived` |
| `logs` | 2 tasks, 1 worker, 1 follower that may go away | `FollowSeesEnd`, `FollowEnds` |
| `docker_run` | 2 groups of 1 instance, 3 configurations (foreground, unstarted, background and kept), failing calls, 1 container whose removal may fail, 1 removal at a time | a success had every event (`OutcomeSound`), no container is left, and no network but one that could not be removed (`NothingLeft`), in a run without error every instance reported its success (`CleanFinish`), `RunEnds`, `EndsWithInstances` |
| `k8s_run` | 2 groups of 1 pod with 1 creator at a time, or 2 collections; 4 clients, 1 held elsewhere | clients are conserved (`TypeOK`), `EndSound`, no pod is left but those whose deletion failed (`NothingLeft`), `RunReturns`, `CollectionEnds` |
| `sidecar` | 2 containers, both reactors, 1 instance that changes its network twice, 1 crash, failing calls | no instance passes the barrier before all networks are up (`BarrierSound`), every container is managed (`WatchComplete`), an acknowledged configuration is in force (`AckedInForce`), `EveryConfigAcked` |
| `prepare` | several hundred compositions of 1 to 3 groups, as a build, a run, or a build that is run later, failing builders, purges | a group runs what it asked to be built, or the artifact it names, and none is left without (`ArtifactFits`), with its instances and its parameters (`InputFits`); preparing twice changes nothing (`PrepareOnce`) |
| `infra` | 2 requests at once, 1 service, from nothing, stopped or running containers, failing calls, containers that exit | a request that reports success has its services, but for those that went down after it had seen them run (`ReadyWhenTold`), name conflicts need overlapping requests (`ConflictNeedsOverlap`) |
| `client` | 4 commands of 1 to 3 parts, 2 pieces of output, breaking connections, 1 restart | the exit code and the collected file tell the truth (`ExitSound`), `SourcesComplete`, `OneAnswer`, `ClientEnds`, `DownloadEnds` |

Each module also has a `TypeOK`, which documents its state. It is a conjunct of the
inductive invariants of the queue, the engine and the sidecar, follows from those of
`Infra` and `Prepare`, and is a property of `k8s_run`, where it says that clients are
neither lost nor made; the others hold on the instances above and are not listed.

One more run shows where the code does something other than what a comment says,
and finds its property violated. `engine_resume`: the daemon dies while a task
runs; `NewQueue` puts the task back into the heap, the first `Pop` fails because
the task is not under `queue:`, and the task stays in `current:` for good.

### Divergences met on the way

The models do what the code does, and the properties are stated so that they
hold of it. These behaviours are excused in a property or visible in a model;
each contradicts a comment, or a reader might not expect it.

Engine and handlers:
* Two kills of one task before the watcher has unregistered the channel: the
  second `close` panics between `RLock` and `RUnlock` (`engine.go` 419), nobody
  releases the lock, the task is not canceled and every worker blocks. A failing
  `Filter` in `Tasks` (379) leaks the lock, too. Hence no deadlock check in `engine`.
* A delete request that succeeds while the task runs is undone by the worker's
  next write (`supervisor.go` 158); `Get` and `Delete` read prefixes against the
  direction in which tasks move and may miss one (`storage.go` 123).
* A follower that goes away while `Decode` blocks does not cancel the task although
  it asked for it (`engine.go` 523).
* A build that failed is archived as complete and `DecodeTaskOutcome` judges it a
  success (`result.go` 44-45). The client looks at the error first, which is why
  `ExitSound` holds.
* "Exactly 1 `result` or `error` chunk before EOF" (`chunk.go` 15) is not so in two
  responses. The status handler ends with neither when `GetTask` fails (`status.go` 24);
  it is not in the model. The outputs handler answers a request it cannot decode with
  a status of 400 and no chunk (`outputs.go` 23-28); `OneAnswer` says so, and the client
  takes the status for an error.
* A listing ends before the second in which `Tasks` read the clock (`storage.go` 204-214,
  `engine.go` 369), so a task accepted in that second is not listed; the dashboard's starts
  a week ago (`daemon/tasks.go` 59-63). `ListComplete` is about the tasks in between.
* `GET /outputs` (`outputs.go` 67): when the browser goes away the parser gives up
  and the handler blocks in the pipe; `DownloadEnds` excuses this. Nobody closes
  the pipe, so the parser goroutine stays behind.
* `run --collect` exits with the task's outcome when collecting failed in the
  daemon, and removes the file (`collect.go` 92): `ExitSound` allows it.

Runners:
* After a failed removal `DeleteContainers` receives once too often and waits for
  ever (`container.go` 187, whose comment says it "does not short-circuit");
  `Stuck` in `RunEnds` and `EndsWithInstances`.
* A container that cannot be created leaves the inner loop only, and the next
  group overwrites the error (`local_docker.go` 402-440): the run goes on and its
  outcome tells. The sidecar's log stream counts as a failed node when it ends.
  Success events that arrive after the last container has exited may be lost. The
  pretty printer sends twice when a node failed (`pretty.go` 84); nobody receives
  the second time, and its goroutine stays behind.
* When the tailer gives up on an instance that has reported success (`pretty.go` 131-184),
  the run may end without an error and cut that instance off while it runs: `CleanFinish`
  promises that every instance has reported success, not that it has exited.
* A network whose removal fails stays (`local_docker.go` 426-428 only logs it), and so does
  the network of a run whose configuration cannot be merged (295-298: the clean-up is
  deferred later); `network = "lost"` in `NothingLeft`.
* `setupSyncClient` takes the write lock, so runs do not overlap although
  `local_docker.go` 249 says they may.
* If the k8s collector cannot be started, the watcher waits on a nil channel
  (`cluster_k8s.go` 284); `Collectable` in `RunReturns`. A pod whose
  deletion fails stays (354-356 only log it), and deletions use the run's context, so a
  canceled run leaves its pods (`undeleted` in `NothingLeft`); a
  memory size that cannot be parsed makes `Run` return with goroutines at work
  (`err # "abort"`). A run whose pods are terminated ends only by its timeout or
  its context. As many concurrent collections as the pool has clients block for
  ever; `CollectionEnds` is checked below that.

Sidecar:
* A restarted docker sidecar fails to initialise links that have their qdiscs,
  and does not manage these containers again: `BarrierSound` relies on it, and
  `Excused` in `EveryConfigAcked` excuses it. A restarted k8s sidecar deletes
  the service routes it means to keep (`k8s_reactor.go` 227; `control = "cut"`).
* The k8s reactor skips the routing policy when it disables a network. `AddRules` only
  logs that an old route could not be deleted (`link.go` 197-200); the model takes that
  deletion for done.

Compositions and builders:
* `sort.SearchStrings` accepts runners that the manifest does not have
  (`composition.go` 430; `RunnerAccepted`). `ValidateInstances` is never reached.
  "This method doesn't modify the composition" (407) is not so; `PrepareOnce` says
  why it does no harm. Defaults lose their `Target`, and the build key has none, so
  that groups that differ in it share a build (`supervisor.go` 398);
  `ForgetTargets` in `ArtifactFits`.
* Shares are rounded in floating point: 58% and 42% of 25 are accepted as 14 and 11
  instances, while 50% and 50% of 25 are refused because both round up (`composition.go` 299).
  `InputFits` asks for the nearest number, and for either neighbour at a half.
* Concurrent jobs may find the cache image untagged between look-up and build
  (`docker_go.go` 503-510), and then fail.

Infrastructure:
* An aborted check counts as a fix that was not needed (`helper.go` 85);
  `ReadyWhenTold` asks that none was. A container that exits right after its start is
  reported as fixed (`container.go` 99-100 and 156-161 do not look at its state,
  `helper.go` 121): `lost` in `ReadyWhenTold`. The local runners lock separately and may
  take a container's name under each other's hands; `TerminateAll` misses
  containers that are not running.

Bounds. Two tasks are the fewest for which order and confusion of tasks matter;
three let the queue be full while one runs, and let a restart overfill the heap.
Two workers and a request give the races of workers with each other and with a
request; requests race with each other in `engine_live`, and for safety in the
theorems of section 4, which hold for any number of them. (`Engine.cfg` with one
worker, two handlers and no restart passes as well, in four minutes.) For the lock
one reader, one writer and one waiting writer are enough. One restart is enough
for the engine, because a restart leaves nothing behind but the database, and `queue` and `queue_faults` restart as often as they like. `MaxKills` bounds
the requests that kill the same task: 1 where liveness is checked, since two kills
wedge the daemon. For the same reason deadlock is not checked in `engine`, where a
failing `Filter` also makes `Tasks` return with the lock held.
`MaxLines` is 1: a follower behaves alike at every chunk.

Two groups of one instance are the fewest for which an error of one group is
overwritten by the next and an outcome is more than one event; a second instance
per group only adds siblings whose goroutines never meet. One removal at a time
makes the rate limit bind. One creator at a time makes the semaphore of
`ClusterK8s` bind, and four clients are one more than two collections and one
other run can hold with one step to go. Two containers make a barrier; one crash
lets a worker meet what an earlier one left, and a second crash would meet the
same. The compositions of `MCPrepare` differ in one setting at a time, for each
setting, over two groups, with one composition of three build keys, so that a
key collides and a job has two siblings; the totals include 25 with shares that round up,
that round down, and that fall between (`MCHalvesDown`). Six `Images` are more than a build and a later
rebuild of three groups can make, so a job never lacks an ID. Two requests in
`Infra` are all pairs of
requests. In these modules deadlock is not checked because a run, a request or a
command ends and the model stops there.

Fairness. `FairSpec` and `LogsFairSpec` assume that goroutines that can run do run
(Go's scheduler) and that a waiting writer announces itself (`sync.RWMutex`).
Clients need not call and nothing has to fail. Runners may run for ever;
`EveryTaskArchived`, `FollowEnds` and `ActiveTasksResume` assume
`RunnerFairness` explicitly: the task timeout of `supervisor.go` 50-53 expires,
and a runner returns once its context is done. `KillIsHonoured` does without it,
which is the point of a kill.

The other modules assume that goroutines run and that calls to Docker, Kubernetes
and the sync service return, with an error if need be. Instances, containers,
pods, users and contexts owe nothing: `EndsWithInstances` and
`EveryConfigAcked` say what follows if they move. `ClusterK8s` assumes strong fairness for
those who wait for a client, and that a run that goes on reaches
`run_timeout_min`, because the pool is a Go channel, which serves receivers in
order, and the watcher compares the time. `Prepare` and `Infra` are checked for
safety only and assume nothing. `Sidecar` assumes that a canceled worker returns (its
calls take the context) and that the process is restarted (it is a container
with a restart policy, or a daemon set). `Client` assumes that workers start and
end tasks, which `engine_live` checks.

## 4. What is proved

Each theorem holds for every value of the constants: any number of tasks, workers,
requests, followers, containers, pods, sources, groups and restarts, with or without
failures.

| Module | Theorem | Statement |
|---|---|---|
| `TaskQueueProofs` | `Invariance`, `TypeCorrectness` | `[]IInv`, `[]TypeOK` |
| | `OnePrefixAlways`, `StartedAtMostOnce` | `OnePrefix`, `AtMostOnce` |
| | `ArchiveIsFinal` | the action property `ArchiveFinal` |
| | `ScheduledStaysInHeap`, `ScheduledStaysBounded` | `ScheduledInHeap`, `ScheduledBounded`, with a healthy LevelDB |
| | `Refinement` | `Spec => ImplementsLifecycle` |
| `EngineProofs` | `EngineInvariance`, `EngineTypes` | `[]EInv`, `[]TypeOK` |
| | `EngineImplementsQueue` | `Spec => ImplementsQueue` |
| | `EngineStartsOnce` | the queue's `AtMostOnce` and `OnePrefix`, of the engine |
| | `CanceledTasksWereKilled`, `RunningTasksCanBeKilled` | `CanceledOnlyIfKilled`, `RunningHasSignal` |
| | `ArchivedDeletesStick`, `ListingsAreComplete` | `ArchivedDeleteSticks`, `ListComplete` |
| | `LogsInvariance`, `FollowersSeeTheEnd` | `[]LInv`, `FollowSeesEnd` |
| `DockerRunProofs` | `DockerInvariance`, `SuccessesAreReal`, `RunsLeaveNothing`, `FinishesAreClean` | `[]DInv`, `OutcomeSound`, `NothingLeft`, `CleanFinish` |
| `ClusterK8sProofs` | `ClusterInvariance`, `ClientsAreConserved`, `RunsEndWhenFinished`, `RunsLeaveNoPod` | `[]KInv`, `TypeOK`, `EndSound`, `NothingLeft` |
| `SidecarProofs` | `SidecarInvariance`, `WatchMissesNothing`, `BarrierIsSound` | `[]SInv`, `WatchComplete`, `BarrierSound` |
| | `AcksAreInForce` | the action property `AckedInForce` |
| `ClientProofs` | `ClientInvariance`, `ExitCodesAreSound`, `QueuedSourcesAreComplete`, `ResponsesHaveOneAnswer` | `[]CInv`, `ExitSound`, `SourcesComplete`, `OneAnswer` |
| `InfraProofs` | `InfraInvariance`, `InfraTypes`, `ReadyTheorem`, `ConflictTheorem` | `[]IInv`, `[]TypeOK`, `ReadyWhenTold`, `ConflictNeedsOverlap` |
| `PrepareProofs` | `PrepareInvariance`, `PrepareTypes` | `[]IInv`, `[]TypeOK` |
| | `ArtifactTheorem`, `InputTheorem`, `OnceTheorem` | `ArtifactFits`, `InputFits`, `PrepareOnce` |

Assumptions, each an `ASSUME` of the module that declares the constant, which TLC
evaluates. Queue and engine: priorities and times are integers, `Max` is a natural
number, `NoErr` and `NoResult` are members of their sets, the absent task is no task.
Runners: numbers of groups and instances are natural numbers (positive for pods); the
requests that collect outputs are finitely many, and others hold no more clients
than the pool has. Sidecar: there are finitely many containers. Client: a command has
a known kind and the archive at least one piece. Infrastructure: the services have
names that no other item has, and a proxy belongs to `docker:go`, as in
`local_common.go` and `docker_go.go`. Compositions: they have the fields of `Global` and
`Group`, counts and percentages are natural numbers, the manifest's builders are among
those of `engine.go` 24-31 and are the ones the environment configures, and no
artifact in a file the user has written is the ID of an image yet to be built.

### The queue

`OnePrefix` alone is not inductive: after a `Pop` the worker writes under
`current:`, which is harmless only because the task has left `queue:` and has not
reached `archive:`. `IInv` adds what is needed for that:

* `KeysOK`: an entry is stored under its own identifier, which was handed out.
* `HeapOK`: the heap has one copy per task, equal to the stored one.
* `TakenOK`: a task somebody holds was started, is not in the heap, and is not
  archived.
* `StartsOK`: only unstarted tasks are under `queue:`, only started ones
  elsewhere.

From these a second start is impossible: a restart may put a started task back
into the heap, but it is under `current:`, and `Pop` only succeeds from `queue:`.
`ScheduledStaysBounded` needs in addition that the heap is finite and has no more
than `Max` tasks that are stored as scheduled; the cardinalities come from
`FiniteSetTheorems`. `Refinement` maps each action to a step of `TaskLifecycle` or to
a stutter, with one lemma per action, and uses `IInv` to know in which phase a
task is.

### The engine

`EngineProofs` takes the queue's lemmas with `INSTANCE TaskQueueProofs WITH taken <- Held`:
each step of a worker or handler is shown to be a step of the queue, or none, and
the queue's invariant comes with it. That needs `WorkersOK` (a task belongs to
one worker, and the one a worker archives has left the scheduled state). On top:

* `CancelOK` follows a cancellation from the closed channel through the watcher and
  the context to the worker's copy and the database, with the history `killed` at
  its start.
* `SignalOK`: a watcher unregisters only channels that were closed.
* `RequestsOK`: a delete request that found its task in the archive deals with a task
  that nobody holds and that is under no other prefix (`Settled`).
* `StoredOK`: an accepted task is in the database until a client deletes it.
* `ListOK`: what a listing has not seen of its range is under a prefix it has yet to scan, or was
  deleted. This is where the order of the scans counts.

For the followers `LInv` adds that a stored state other than scheduled means a
registered channel, a kill or a settled task (`StartAnnounced`), that what is archived is
final (`ArchiveEnded`, `WorkersEnd`), and what each point of a follower and its poller has
learnt from that (`FollowerOK`). All of it is conditional on the daemon not having
died in between: after a restart the absence of a channel says nothing.

### The runners

`DInv` (`local:docker`): `RemoveOK` counts. `DeleteContainers` has received an answer for
each iteration that is over, and one more since a removal failed (`Extra`), so that
its loop can only end when all answers are in and none was an error: this is why
no container is left, and also why it hangs otherwise. `TailOK` follows a container from
its start through the channel `started` to the pretty printer; `AnswerOK` says that
the only `nil` on `doneCh` is the container tailer's, and that it stands for instances
that have all reported success. `OutcomeOK` relates what is counted to what was said.

`KInv` (`cluster:k8s`): every client is in the pool or held (`PoolOK`), by the watcher and
by each collection according to where it is; `CountOK` remembers the pods that each of
the two counting calls saw, which have ended and are different pods, hence the sum is
no larger than the number of ended pods (`EndSound`) although the calls are not
atomic; `TodoOK` and `SemOK` bound the creators; `PodsOK` has what is deferred to the end.

### The sidecar

In `SInv`, `WatchOK` says that the last unread event of a container tells whether it
runs and that `managers` is right about the others. `LinkOK` and `ConfigOK` relate what a
worker believes to the kernel, call by call, for both reactors. The barrier counts
signals, not containers: `BarrierOK` shows that no more have signalled than are
settled, where a settled container is set up and will not be counted again
(`Signalling`). The case that needs care is a worker that replaces one that died: it
may find a link that it does not know of, and never gets past connecting.

### The client

In `CInv`, `StreamOK` puts the answer of a response last; `SubmitOK`, `LogsOK` and
`OutputsOK` say what may be in flight in each phase of the command, that the task in
the answer of `Logs` is the task as it stays, and that what was collected and what is
in flight is what was sent; `UploadOK` that a body that ends has all its parts.

### The infrastructure

A check that was passed says nothing about later: another request may remove, stop or
recreate what it saw. `IInv` of `InfraProofs` therefore follows each request: `LockOK` has
a lock held by exactly the request that works under it; `PlaceOK` says where a request
may be in its list; `SettledOK` that the items before that place are up, but for the
containers that are known to have gone down since (`lost`), because only exits and
deletions take anything down (`LosingOK`); `ConfirmOK` that the container a fixer has started
still runs when it asks, or is one of those; `NameOK` that a name which a
fixer is about to create is free, or was taken by a healthcheck under the other lock,
which `OverlapOK` knows to have overlapped; `ToldOK` is what the answer says.

### Compositions

The state is a composition that several functions change in place, so the question is
in which of its versions a group is found. `IInv` of `PrepareProofs` answers: a group's
build settings (`Settings`) are those the user wrote or those that `PrepareForBuild` makes
of them (`Prepared`), never anything else, and the global section prepares every group
as the written one does (`SameGlobal`) although its configuration is overwritten. This
rests on lemmas about the operators for all inputs: filling in defaults is
associative and idempotent (`DefaultsAssociative`, `DefaultsTwice`), so is
`ApplyDefaults` on lists of dependencies with any repetitions (`AppliedFacts`,
`AppliedTwice`), equal build keys mean equal content up to targets (`KeyContent`), and what
is built from a prepared group is what `Wanted` defines (`WantedContent`). `JobBuilds`
says that the one group a job builds stands for all of its groups, and that a finished
job's image has that content; `PickedOK` that a group without an artifact is among
those picked, so that the global artifact never replaces one; `GroupOK` that an artifact
comes from such a job, or is the group's own. `RoundFacts` is the arithmetic of shares, for any set `HalvesDown`.
No induction over groups is needed: a sum is compared with the sum that `ValidateForRun`
has checked, of the same function.

### Only model-checked

All liveness, which is out of the proof system's reach: `EveryTaskArchived`, `KillIsHonoured`,
`FollowEnds`, `RunEnds`, `EndsWithInstances`, `RunReturns`, `CollectionEnds`,
`EveryConfigAcked`, `ClientEnds`, `DownloadEnds`. And the violated `ActiveTasksResume`, for
which TLC has the counterexample. Every safety property that a run checks is stated by
a theorem.

## 5. What is not modelled

* The memory repository (`task.repo_type = memory`) has no restarts; it is the
  special case without `NewQueue`.
* The clock behind `Filter`'s time window (`TimeRanges` is any range) and the type and
  state filters of `Tasks`: they select, and do not touch state.
* GitHub status and Slack posts of the worker, and the default branch of its
  switch over task types, which no accepted task takes.
* `Logs` without `follow`, which copies a file.
* The two-second pause before a poller stops the tail: the model has no clock, so
  it does not claim that a follower has seen every line.
* `Run` of `local:exec`: it starts processes and waits for them on the pretty
  printer that `DockerRun` has. `cluster:swarm`: one service, created, polled and
  removed by one goroutine.
* Several runs of `local:docker` at once: `setupSyncClient` takes the write lock,
  so one waits for the other. The subnet a run takes from the number of existing
  networks (`common.go` 27) is a call that may fail.
* The Kubernetes health checks, and `checkClusterResources` beyond success and
  failure.
* Names, resources and templates of compositions, and the text of Dockerfiles and
  `go.mod`.
* The sidecar's bandwidth and latency parameters: a shape is one value.
* The other requests of the client (`status`, `tasks`, `kill`, `healthcheck`, ...):
  one request and one answer.
* Metrics, configuration files, logging, conversions, AWS and the dashboard:
  sequential input and output.

## 6. Plan

1. An abstract `Runner` (ends once its context is done, owns nothing afterwards)
   that both runner modules are shown to implement.
2. Several collections and runs of `cluster:k8s` that share one pool, and the
   `cluster:swarm` runner.

## 7. Running it

    tlc -workers 2 -config Engine.cfg MCEngine
    tlapm EngineProofs.tla

The same for the other runs (their modules and configurations are listed in
`PROJECT.json`) and the other `...Proofs` modules. The longest
run, `docker_run`, takes about two and a half minutes with two workers.
