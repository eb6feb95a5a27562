------------------------------ MODULE Sidecar ------------------------------
(***************************************************************************)
(* The sidecar: a process per host that watches Docker for the containers  *)
(* of a run and, for each, runs a worker that configures its network.      *)
(* pkg/docker/manager.go (Watch), pkg/sidecar/docker_reactor.go and        *)
(* k8s_reactor.go (what a worker does first), sidecar_handler.go (what it  *)
(* does then), docker_network.go and k8s_network.go (ConfigureNetwork),    *)
(* link.go and route.go.                                                   *)
(*                                                                         *)
(* Workers meet at a barrier of the sync service, then apply the           *)
(* configurations their instance publishes and acknowledge each.  The      *)
(* process may crash at any point and is then restarted.  Docker, the      *)
(* kernel, the sync service and the instances are external.                *)
(***************************************************************************)
EXTENDS Integers, Sequences, FiniteSets

CONSTANTS
    Containers, \* the instances of one run
    Reactors,   \* the reactors to consider: a subset of {"docker", "k8s"}
    Publishers, \* those that change their network
    Configs,    \* the configurations instances may publish
    MaxConfigs, \* bound: how many each publishes
    MaxCrashes, \* bound: how often the process dies
    Faults      \* whether calls may fail

AnyIP == "any"

ASSUME ContainersAssumption == IsFiniteSet(Containers)
ASSUME ReactorsAssumption == Reactors \subseteq {"docker", "k8s"}
ASSUME ConfigsAssumption ==
    \A f \in Configs : /\ f.enable \in BOOLEAN
                       /\ f.policy \in {"allow", "deny"}
                       /\ f.filter \in {"accept", "drop", "reject"}
ASSUME PublishersAssumption == Publishers \subseteq Containers
ASSUME BoundsAssumption == MaxConfigs \in Nat /\ MaxCrashes \in Nat

VARIABLES
    reactor,
    docker,    \* each container, as Docker sees it
    kernel,    \* each container's network namespace
    watch,     \* where Watch is
    events,    \* Docker's events since the time Watch noted that it has not read
    managers,  \* the containers that have an entry in managers
    worker,    \* where the worker of each container is
    active,    \* what the worker knows of the data link: activeLinks
    netInit,   \* signals on "network-initialized"
    pub,       \* what each instance published on its network topic
    taken,     \* how many of these its worker has received
    acked,     \* how many callback states its worker has signalled
    crashes

envVars == <<docker, pub>>
watchVars == <<watch, events, managers>>
workVars == <<worker, active, taken>>
syncVars == <<netInit, acked>>
vars == <<reactor, envVars, kernel, watchVars, workVars, syncVars, crashes>>

NoLink == [on |-> FALSE, ip |-> AnyIP]

Init ==
    /\ reactor \in Reactors
    /\ docker = [c \in Containers |-> "created"]
    \* local:docker attaches the container to the data network, CNI does not.
    /\ kernel = [c \in Containers |->
                   [up |-> reactor = "docker", ip |-> AnyIP, qdisc |-> FALSE,
                    shape |-> "none", filter |-> "accept", ext |-> reactor = "docker",
                    control |-> "open"]]
    /\ watch = "down" /\ events = <<>> /\ managers = {}
    /\ worker = [c \in Containers |-> "none"]
    /\ active = [c \in Containers |-> NoLink]
    /\ netInit = 0
    /\ pub = [c \in Containers |-> <<>>]
    /\ taken = [c \in Containers |-> 0]
    /\ acked = [c \in Containers |-> 0]
    /\ crashes = 0

-----------------------------------------------------------------------------
(***************************************************************************)
(* Watch.                                                                  *)
(***************************************************************************)
\* NewManager and the start of Watch.  The time is noted before the listing, so
\* from now on Docker's events are of interest.
WatchBegin ==
    /\ watch = "down"
    /\ watch' = "list"
    /\ UNCHANGED <<reactor, envVars, kernel, events, managers, workVars, syncVars, crashes>>

\* Entry and goroutine for each of cs that has none.
StartWorkers(cs) ==
    /\ managers' = managers \cup cs
    /\ worker' = [c \in Containers |->
                    IF c \in cs \ managers THEN "init" ELSE worker[c]]

\* Mutant: events are requested from the time after the listing.
WatchListThenNow ==
    /\ \/ /\ watch = "list"
          /\ StartWorkers({c \in Containers : docker[c] = "running"})
          /\ watch' = "subscribe"
          /\ UNCHANGED events
       \/ /\ watch = "subscribe"
          /\ watch' = "events"
          /\ events' = <<>>
          /\ UNCHANGED <<managers, worker>>
    /\ UNCHANGED <<reactor, envVars, kernel, active, taken, syncVars, crashes>>

\* The running containers get a worker; events since the noted time follow.
WatchList ==
    /\ watch = "list"
    /\ StartWorkers({c \in Containers : docker[c] = "running"})
    /\ watch' = "events"
    /\ UNCHANGED <<reactor, envVars, kernel, events, active, taken, syncVars, crashes>>

\* The next event: a container that started gets a worker unless it has one;
\* the worker of one that died is canceled, and its entry deleted.
WatchEvent ==
    /\ watch = "events"
    /\ events # <<>>
    /\ events' = Tail(events)
    /\ LET c == Head(events).container IN
       \/ /\ Head(events).status = "start"
          /\ StartWorkers({c})
          /\ UNCHANGED watch
       \/ /\ Head(events).status \in {"die", "destroy"}
          /\ managers' = managers \ {c}
          /\ watch' = IF c \in managers THEN "stopping" ELSE "events"
          /\ UNCHANGED worker
    /\ UNCHANGED <<reactor, envVars, kernel, active, taken, syncVars, crashes>>

\* stop waits until the worker has returned.
WatchStopped ==
    /\ watch = "stopping"
    /\ \A c \in Containers \ managers : worker[c] \in {"none", "ended"}
    /\ worker' = [c \in Containers |-> IF c \in managers THEN worker[c] ELSE "none"]
    /\ watch' = "events"
    /\ UNCHANGED <<reactor, envVars, kernel, events, managers, active, taken, syncVars,
                   crashes>>

\* The listing fails or the stream of events breaks: Watch cancels its workers
\* and waits for them.
WatchError ==
    /\ watch \in {"list", "events"}
    /\ crashes < MaxCrashes
    /\ crashes' = crashes + 1
    /\ watch' = "draining"
    /\ events' = <<>>
    /\ UNCHANGED <<reactor, envVars, kernel, managers, workVars, syncVars>>

\* The process ends, and its memory is lost.
Down ==
    /\ watch' = "down"
    /\ events' = <<>>
    /\ managers' = {}
    /\ worker' = [c \in Containers |-> "none"]
    /\ active' = [c \in Containers |-> NoLink]
    /\ taken' = [c \in Containers |-> 0]

WatchReturn ==
    /\ watch = "draining"
    /\ \A c \in managers : worker[c] = "ended"
    /\ Down
    /\ UNCHANGED <<reactor, envVars, kernel, syncVars, crashes>>

\* The process dies: it is killed, or a worker panics (a link without IPv6 that
\* is asked for one), or stop does (a worker that takes over a minute to return).
Crash ==
    /\ watch # "down"
    /\ crashes < MaxCrashes
    /\ crashes' = crashes + 1
    /\ Down
    /\ UNCHANGED <<reactor, envVars, kernel, syncVars>>

-----------------------------------------------------------------------------
(***************************************************************************)
(* A worker.                                                               *)
(***************************************************************************)
Canceled(c) == watch = "draining" \/ c \notin managers

Alive(c) == worker[c] \notin {"none", "ended"}

\* A call failed or was canceled; the worker returns with an error.
WorkerFails(c) ==
    /\ Alive(c)
    /\ Faults \/ Canceled(c)
    /\ worker' = [worker EXCEPT ![c] = "ended"]
    /\ active' = [active EXCEPT ![c] = NoLink]
    /\ taken' = [taken EXCEPT ![c] = 0]
    /\ UNCHANGED <<reactor, envVars, kernel, watchVars, syncVars, crashes>>

Default == [enable |-> TRUE, ip |-> AnyIP, shape |-> "none", policy |-> "deny",
            filter |-> "accept"]

\* The configuration being applied: first the default one.
Current(c) == IF taken[c] = 0 THEN Default ELSE pub[c][taken[c]]

FirstStep == IF reactor = "docker" THEN "routing" ELSE "disconnect"

\* Mutant: qdiscs and routes that exist are replaced.
InitDockerReplacing(c) ==
    /\ active' = [active EXCEPT ![c] = [on |-> kernel[c].up, ip |-> kernel[c].ip]]
    /\ kernel' = [kernel EXCEPT ![c].qdisc = kernel[c].up, ![c].control = "restricted"]
    /\ worker' = [worker EXCEPT ![c] = FirstStep]

\* handleContainer: an active data link gets its qdiscs, the control link routes
\* to the services.  The kernel adds neither where there is one.
InitDocker(c) ==
    IF kernel[c].qdisc \/ kernel[c].control # "open"
    THEN worker' = [worker EXCEPT ![c] = "ended"] /\ UNCHANGED <<kernel, active>>
    ELSE /\ active' = [active EXCEPT ![c] = [on |-> kernel[c].up, ip |-> kernel[c].ip]]
         /\ kernel' = [kernel EXCEPT ![c].qdisc = kernel[c].up,
                                     ![c].control = "restricted"]
         /\ worker' = [worker EXCEPT ![c] = FirstStep]

\* A route to each service is added, then all routes the control link had before
\* are deleted and black holes put in their place.  Adding a route that exists
\* fails and is only logged; it is deleted all the same.
RestrictControl(control) == IF control = "open" THEN "restricted" ELSE "cut"

\* manageContainer: no data link yet, and a restricted control link.
InitK8s(c) ==
    /\ active' = [active EXCEPT ![c] = NoLink]
    /\ kernel' = [kernel EXCEPT ![c].control = RestrictControl(@)]
    /\ worker' = [worker EXCEPT ![c] = FirstStep]

WorkerInit(c) ==
    /\ worker[c] = "init"
    /\ IF docker[c] # "running"
       THEN worker' = [worker EXCEPT ![c] = "ended"] /\ UNCHANGED <<kernel, active>>
       ELSE \/ reactor = "docker" /\ InitDocker(c)
            \/ reactor = "k8s" /\ InitK8s(c)
    /\ taken' = [taken EXCEPT ![c] = 0]
    /\ UNCHANGED <<reactor, envVars, watchVars, syncVars, crashes>>

\* Where a worker goes when a configuration is applied.
Applied(c) == IF taken[c] = 0 THEN "signal" ELSE "ack"

\* handleRoutingPolicy: the external routes are enabled or disabled.
Routed(k, policy) == [k EXCEPT !.ext = (policy = "allow")]

ConfigRouting(c) ==
    /\ worker[c] = "routing"
    /\ kernel' = [kernel EXCEPT ![c] = Routed(@, Current(c).policy)]
    /\ worker' = [worker EXCEPT ![c] = IF reactor = "docker" THEN "disconnect"
                                                             ELSE Applied(c)]
    /\ UNCHANGED <<reactor, envVars, watchVars, active, taken, syncVars, crashes>>

\* Mutant: a connected link keeps its address.
ConfigDisconnectSameAddress(c) ==
    LET f == Current(c) IN
    /\ worker[c] = "disconnect"
    /\ IF active[c].on /\ ~f.enable
       THEN /\ kernel' = [kernel EXCEPT ![c].up = FALSE, ![c].qdisc = FALSE]
            /\ active' = [active EXCEPT ![c] = NoLink]
       ELSE UNCHANGED <<kernel, active>>
    /\ worker' = [worker EXCEPT ![c] = IF f.enable THEN "connect" ELSE Applied(c)]
    /\ UNCHANGED <<reactor, envVars, watchVars, taken, syncVars, crashes>>

\* An active link is disconnected if the network is disabled, or to change the
\* address.
Disconnects(link, f) ==
    link.on /\ (~f.enable \/ (f.ip # AnyIP /\ f.ip # link.ip))

ConfigDisconnect(c) ==
    LET f == Current(c) IN
    /\ worker[c] = "disconnect"
    /\ IF Disconnects(active[c], f)
       THEN /\ kernel' = [kernel EXCEPT ![c].up = FALSE, ![c].qdisc = FALSE]
            /\ active' = [active EXCEPT ![c] = NoLink]
       ELSE UNCHANGED <<kernel, active>>
    /\ worker' = [worker EXCEPT ![c] = IF f.enable THEN "connect" ELSE Applied(c)]
    /\ UNCHANGED <<reactor, envVars, watchVars, taken, syncVars, crashes>>

\* The plugin adds the interface, with the address that was asked for or one of
\* the subnet, and gives the link a default route; Docker adds no route.
Plugged(k, f) == [k EXCEPT !.up = TRUE, !.ip = f.ip, !.ext = (reactor = "k8s") \/ @]

\* Connect unless connected.  An interface that exists is not added again.
ConfigConnect(c) ==
    /\ worker[c] = "connect"
    /\ \/ /\ active[c].on
          /\ worker' = [worker EXCEPT ![c] = "shape"]
          /\ UNCHANGED <<kernel, active>>
       \/ /\ ~active[c].on /\ ~kernel[c].up
          /\ kernel' = [kernel EXCEPT ![c] = Plugged(@, Current(c))]
          /\ worker' = [worker EXCEPT ![c] = "register"]
          /\ UNCHANGED active
       \/ /\ ~active[c].on /\ kernel[c].up
          /\ worker' = [worker EXCEPT ![c] = "ended"]
          /\ UNCHANGED <<kernel, active>>
    /\ UNCHANGED <<reactor, envVars, watchVars, taken, syncVars, crashes>>

\* A link with its root qdisc and an unshaped class in it.
Initialized(k) == [k EXCEPT !.qdisc = TRUE, !.shape = "none"]

\* The entry of a link in activeLinks, with the address the kernel reports.
Entry(k) == [on |-> TRUE, ip |-> k.ip]

\* The new link is looked up, gets its qdiscs, and is registered.
ConfigRegister(c) ==
    /\ worker[c] = "register"
    /\ kernel' = [kernel EXCEPT ![c] = Initialized(@)]
    /\ active' = [active EXCEPT ![c] = Entry(kernel[c])]
    /\ worker' = [worker EXCEPT ![c] = "shape"]
    /\ UNCHANGED <<reactor, envVars, watchVars, taken, syncVars, crashes>>

Shaped(k, shape) == [k EXCEPT !.shape = shape]
Ruled(k, filter) == [k EXCEPT !.filter = filter]

\* Shape and AddRules.
ConfigShape(c) ==
    /\ worker[c] = "shape"
    /\ kernel' = [kernel EXCEPT ![c] = Ruled(Shaped(@, Current(c).shape), Current(c).filter)]
    /\ worker' = [worker EXCEPT ![c] = IF reactor = "docker" THEN Applied(c)
                                                             ELSE "routing"]
    /\ UNCHANGED <<reactor, envVars, watchVars, active, taken, syncVars, crashes>>

\* SignalAndWait: the signal...
WorkerSignal(c) ==
    /\ worker[c] = "signal"
    /\ netInit' = netInit + 1
    /\ worker' = [worker EXCEPT ![c] = "barrier"]
    /\ UNCHANGED <<reactor, envVars, kernel, watchVars, active, taken, acked, crashes>>

\* The count is that of instances, RunEnv.TestInstanceCount.
BarrierOpen == netInit >= Cardinality(Containers)

\* ... and the wait; then the worker subscribes.
WorkerPass(c) ==
    /\ worker[c] = "barrier"
    /\ BarrierOpen
    /\ worker' = [worker EXCEPT ![c] = "loop"]
    /\ UNCHANGED <<reactor, envVars, kernel, watchVars, active, taken, syncVars, crashes>>

WorkerReceive(c) ==
    /\ worker[c] = "loop"
    /\ taken[c] < Len(pub[c])
    /\ taken' = [taken EXCEPT ![c] = @ + 1]
    /\ worker' = [worker EXCEPT ![c] = FirstStep]
    /\ UNCHANGED <<reactor, envVars, kernel, watchVars, active, syncVars, crashes>>

\* Mutant: disabling a network is not acknowledged.
WorkerAckEnabledOnly(c) ==
    /\ worker[c] = "ack"
    /\ acked' = IF Current(c).enable THEN [acked EXCEPT ![c] = @ + 1] ELSE acked
    /\ worker' = [worker EXCEPT ![c] = "loop"]
    /\ UNCHANGED <<reactor, envVars, kernel, watchVars, active, taken, netInit, crashes>>

\* SignalEntry on the configuration's callback state.
WorkerAck(c) ==
    /\ worker[c] = "ack"
    /\ acked' = [acked EXCEPT ![c] = @ + 1]
    /\ worker' = [worker EXCEPT ![c] = "loop"]
    /\ UNCHANGED <<reactor, envVars, kernel, watchVars, active, taken, netInit, crashes>>

-----------------------------------------------------------------------------
(***************************************************************************)
(* Docker and the instances.                                               *)
(***************************************************************************)
Happens(c, from, to, status) ==
    /\ docker[c] = from
    /\ docker' = [docker EXCEPT ![c] = to]
    /\ events' = IF watch \in {"down", "draining"} THEN events
                 ELSE Append(events, [status |-> status, container |-> c])
    /\ UNCHANGED <<reactor, pub, kernel, watch, managers, workVars, syncVars, crashes>>

ContainerStart(c) == Happens(c, "created", "running", "start")
ContainerDie(c) == Happens(c, "running", "exited", "die")
ContainerRemove(c) == Happens(c, "exited", "removed", "destroy")

\* An instance waits for the barrier, and then for the acknowledgement of each
\* configuration before it publishes the next.
Publish(c) ==
    /\ c \in Publishers
    /\ docker[c] = "running"
    /\ BarrierOpen
    /\ Len(pub[c]) < MaxConfigs
    /\ acked[c] >= Len(pub[c])
    /\ \E f \in Configs : pub' = [pub EXCEPT ![c] = Append(@, f)]
    /\ UNCHANGED <<reactor, docker, kernel, watchVars, workVars, syncVars, crashes>>

-----------------------------------------------------------------------------
Watching == \/ WatchBegin \/ WatchList \/ WatchEvent \/ WatchStopped \/ WatchReturn

Working(c) == \/ WorkerInit(c) \/ ConfigRouting(c) \/ ConfigDisconnect(c)
              \/ ConfigConnect(c) \/ ConfigRegister(c) \/ ConfigShape(c)
              \/ WorkerSignal(c) \/ WorkerPass(c) \/ WorkerReceive(c) \/ WorkerAck(c)

Next ==
    \/ Watching \/ WatchError \/ Crash
    \/ \E c \in Containers : \/ Working(c) \/ WorkerFails(c) \/ Publish(c)
                             \/ ContainerStart(c) \/ ContainerDie(c)
                             \/ ContainerRemove(c)

(***************************************************************************)
(* The process is scheduled and restarted; a canceled worker's calls       *)
(* return.  Containers and instances owe nothing.                          *)
(***************************************************************************)
Spec ==
    /\ Init /\ [][Next]_vars
    /\ WF_vars(Watching)
    /\ \A c \in Containers : /\ WF_vars(Working(c))
                             /\ WF_vars(Canceled(c) /\ WorkerFails(c))

-----------------------------------------------------------------------------
(***************************************************************************)
(* Properties.                                                             *)
(***************************************************************************)
WorkerStates == {"none", "init", "routing", "disconnect", "connect", "register",
                 "shape", "signal", "barrier", "loop", "ack", "ended"}

IPs == {AnyIP} \cup {f.ip : f \in Configs}
Shapes == {"none"} \cup {f.shape : f \in Configs}

\* Types; a worker has received nothing that was not published.
TypeOK ==
    /\ reactor \in {"docker", "k8s"}
    /\ docker \in [Containers -> {"created", "running", "exited", "removed"}]
    /\ kernel \in [Containers ->
                     [up : BOOLEAN, ip : IPs, qdisc : BOOLEAN, shape : Shapes,
                      filter : {"accept", "drop", "reject"}, ext : BOOLEAN,
                      control : {"open", "restricted", "cut"}]]
    /\ watch \in {"down", "list", "events", "stopping", "draining"}
    /\ events \in Seq([status : {"start", "die", "destroy"}, container : Containers])
    /\ managers \subseteq Containers
    /\ worker \in [Containers -> WorkerStates]
    /\ active \in [Containers -> [on : BOOLEAN, ip : IPs]]
    /\ netInit \in Nat
    /\ pub \in [Containers -> Seq(Configs)]
    /\ taken \in [Containers -> Nat]
    /\ \A c \in Containers : taken[c] <= Len(pub[c])
    /\ acked \in [Containers -> Nat]

\* The network of an instance that has asked for nothing yet is set up: a shaped
\* data link, no way out, and a restricted control link.
Ready(c) == /\ kernel[c].up /\ kernel[c].qdisc /\ ~kernel[c].ext
            /\ kernel[c].control # "open"

\* The barrier opens only when the network of every instance is set up, however
\* workers interleave, whichever fail, and even if the sidecar crashes and is
\* restarted in between: a restarted worker does not signal for an instance that
\* was counted, unless the barrier is open anyway.
BarrierSound ==
    BarrierOpen => \A c \in Containers : pub[c] = <<>> => Ready(c)

\* When Watch has no event left to read, exactly the running containers have an
\* entry: none that started between the listing and the subscription is missed,
\* and no worker outlives its container.  At any time a worker that runs has an
\* entry, or Watch is waiting for it to stop.
WatchComplete ==
    /\ watch = "events" /\ events = <<>> =>
          managers = {c \in Containers : docker[c] = "running"}
    /\ \A c \in Containers : Alive(c) => c \in managers \/ watch = "stopping"

\* The kernel state of c is what f asks for.
Reflects(c, f) ==
    /\ kernel[c].up = f.enable
    /\ f.enable => /\ f.ip \in {AnyIP, kernel[c].ip}
                   /\ kernel[c].shape = f.shape
                   /\ kernel[c].filter = f.filter
                   /\ kernel[c].ext = (f.policy = "allow")

\* A callback state is signalled only when the configuration it belongs to is in
\* force, also when a restarted worker goes through the topic again.
AckedInForce ==
    [][\A c \in Containers : acked'[c] # acked[c] =>
          Reflects(c, pub[c][taken[c]])]_vars

\* A worker of c failed, c stopped or the sidecar died.
Excused(c) == worker[c] = "ended" \/ docker[c] \in {"exited", "removed"} \/ crashes > 0

\* Every configuration an instance publishes is acknowledged, or it is excused.
EveryConfigAcked ==
    \A c \in Containers : Len(pub[c]) > acked[c]
                            ~> (acked[c] >= Len(pub[c]) \/ Excused(c))
=============================================================================
