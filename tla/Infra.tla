------------------------------- MODULE Infra -------------------------------
(***************************************************************************)
(* The infrastructure the local runners and the docker:go builder share    *)
(* through one Docker daemon: healthchecks with their fixes, the go proxy  *)
(* of a build, and terminate, in any order and at the same time.           *)
(*                                                                         *)
(* A healthcheck holds the lock of its runner and the go proxy is set up   *)
(* under the lock of the builder; local:docker and local:exec check and    *)
(* start the same containers under different locks, and terminate takes    *)
(* none.  Every call to Docker is a step.  A container is known by its     *)
(* name and by the number of times it has been created (its ID).           *)
(***************************************************************************)
EXTENDS Integers, Sequences, FiniteSets

CONSTANTS
    Thread,         \* requests served at the same time, one each
    Requests,       \* the requests there may be
    Services,       \* sequence of the containers both local runners use
    Found,          \* the sets of containers an earlier use may have left
    Terminated,     \* the containers the list in TerminateAll names
    Faults          \* whether calls to Docker may fail

Containers == {Services[i] : i \in DOMAIN Services} \cup {"sidecar", "goproxy"}

NoOne == "none"

\* The go proxy belongs to the docker:go builder and healthchecks to the local
\* runners; the services have names of their own.
ASSUME InfraAssumption ==
    /\ \A r \in Requests :
          /\ r.op \in {"health", "proxy", "terminate"}
          /\ r.on \in {"local:docker", "local:exec", "docker:go"}
          /\ r.fix \in BOOLEAN
          /\ r.op = "health" => r.on # "docker:go"
          /\ r.op = "proxy" => r.on = "docker:go"
    /\ Services \in Seq(STRING)
    /\ \A k \in DOMAIN Services :
          Services[k] \notin {"dir", "port", "control", "build", "sidecar", "goproxy"}
    /\ Terminated \subseteq Containers
    /\ NoOne \notin Thread
    /\ Faults \in BOOLEAN

VARIABLES
    ctr,        \* state of each container: absent, created (stopped), running
    gen,        \* how often each container was created: the ID of the last one
    nets,       \* networks by name: Docker accepts several of one name
    dirs,       \* runners whose outputs directory exists
    portBusy,   \* something else listens on port 6379
    lock,       \* holder of each runner's or builder's lock
    th          \* the requests

vars == <<ctr, gen, nets, dirs, portBusy, lock, th>>

Locks == {"local:docker", "local:exec", "docker:go"}

Idle == [req |-> [op |-> "none", on |-> "none", fix |-> FALSE], pc |-> "idle",
         i |-> 1, ph |-> "check", st |-> "list", saw |-> 0, made |-> FALSE,
         checksOK |-> TRUE, aborted |-> FALSE, fixesOK |-> TRUE,
         victims |-> {}, err |-> "none",
         lost |-> {}, overlap |-> FALSE, up |-> TRUE]

\* The checks of a runner, in the order in which they are enlisted, and the one
\* container of the go proxy.
Items(on) ==
    CASE on = "local:docker" -> <<"dir", "control">> \o Services \o <<"sidecar">>
      [] on = "local:exec" -> <<"port", "dir", "control">> \o Services
      [] on = "docker:go" -> <<"build", "goproxy">>

Item(t) == Items(th[t].req.on)[th[t].i]

Init ==
    /\ \E S \in Found, s \in {"created", "running"} :
          ctr = [n \in Containers |-> IF n \in S THEN s ELSE "absent"]
    /\ gen = [n \in Containers |-> 1]
    /\ \E k \in {0, 1} : nets = [n \in {"control", "build"} |-> k]
    /\ dirs \in {{}, {"local:docker", "local:exec"}}
    /\ portBusy \in BOOLEAN
    /\ portBusy /\ "redis" \in Containers => ctr["redis"] # "running"
    /\ (\E n \in Containers : ctr[n] = "running") => nets["control"] = 1
    /\ lock = [l \in Locks |-> NoOne]
    /\ th = [t \in Thread |-> Idle]

-----------------------------------------------------------------------------
(* Requests and their locks *)

\* A request arrives; healthchecks of the two runners that overlap are marked.
Begin(t, r) ==
    /\ th[t].pc = "idle"
    /\ LET others == {u \in Thread : /\ th[u].pc \notin {"idle", "done"}
                                     /\ th[u].req.op = "health" /\ r.op = "health"
                                     /\ th[u].req.on # r.on}
           new == [Idle EXCEPT !.req = r, !.overlap = others # {},
                      !.pc = IF r.op = "terminate" THEN "listAll" ELSE "lock"]
       IN  th' = [u \in Thread |-> IF u = t THEN new
                                   ELSE IF u \in others THEN [th[u] EXCEPT !.overlap = TRUE]
                                   ELSE th[u]]
    /\ UNCHANGED <<ctr, gen, nets, dirs, portBusy, lock>>

\* Mutant: the lock is not taken.
AcquireWithoutLock(t) ==
    /\ th[t].pc = "lock"
    /\ th' = [th EXCEPT ![t].pc = "item",
                        ![t].ph = IF th[t].req.op = "proxy" THEN "fix" ELSE "check"]
    /\ UNCHANGED <<ctr, gen, nets, dirs, portBusy, lock>>

\* lk.Lock() in Healthcheck, proxyLk.Lock() in setupGoProxy, which has only
\* fixes: the network, then the container.
Acquire(t) ==
    /\ th[t].pc = "lock" /\ lock[th[t].req.on] = NoOne
    /\ lock' = [lock EXCEPT ![th[t].req.on] = t]
    /\ th' = [th EXCEPT ![t].pc = "item",
                        ![t].ph = IF th[t].req.op = "proxy" THEN "fix" ELSE "check"]
    /\ UNCHANGED <<ctr, gen, nets, dirs, portBusy>>

\* What a request has promised when it returns without an error: every network,
\* directory and container on its list is there, but for the containers that
\* went down behind its back.
Up(on, c, n, d, lost) ==
    \A k \in DOMAIN Items(on) : LET x == Items(on)[k] IN
        CASE x = "dir" -> on \in d
          [] x \in {"control", "build"} -> n[x] > 0
          [] x \in Containers -> c[x] = "running" \/ x \in lost
          [] OTHER -> TRUE

More(r) == r.i < Len(Items(r.req.on)) /\ (r.req.op = "proxy" => r.err = "none")

Advance(r) == [r EXCEPT !.i = @ + 1, !.st = "list", !.made = FALSE, !.saw = 0,
                        !.ph = IF r.req.op = "proxy" THEN "fix" ELSE "check"]

Return(r) == [r EXCEPT !.pc = "done", !.up = Up(r.req.on, ctr', nets', dirs', r.lost),
                       !.lost = {}, !.i = 1, !.ph = "check", !.st = "list", !.made = FALSE, !.saw = 0]

\* The item is settled: go to the next one, or return and unlock.  RunChecks
\* goes on after a failure, setupGoProxy falls back to direct mode at the first.
NextItem(t, r) ==
    IF More(r) THEN th' = [th EXCEPT ![t] = Advance(r)] /\ UNCHANGED lock
    ELSE /\ th' = [th EXCEPT ![t] = Return(r)]
         /\ lock' = [l \in Locks |-> IF lock[l] = t THEN NoOne ELSE lock[l]]

-----------------------------------------------------------------------------
(* Helper.RunChecks *)

\* The checker has answered.  ChecksSucceeded and FixesSucceeded are kept in
\* place of the report's lists.  Only a failed check is fixed: the fix of an
\* aborted one is omitted, and counts as a success.
Verdict(t, status) ==
    LET r == [th[t] EXCEPT !.checksOK = @ /\ status = "ok",
                           !.aborted = @ \/ status = "aborted"] IN
    IF status = "failed" /\ th[t].req.fix
    THEN /\ th' = [th EXCEPT ![t] = [r EXCEPT !.ph = "fix", !.st = "list", !.saw = 0]]
         /\ UNCHANGED lock
    ELSE NextItem(t, r)

\* The fixer has answered.
Fixed(t, why) ==
    NextItem(t, [th[t] EXCEPT !.fixesOK = @ /\ why = "none",
                              !.err = IF why = "none" \/ @ = "conflict" THEN @ ELSE why])

At(t, ph, items) == th[t].pc = "item" /\ th[t].ph = ph /\ Item(t) \in items
World == <<ctr, gen, nets, dirs, portBusy>>

\* Any call to Docker or the file system may fail: a check is aborted then.
CallFails(t) ==
    /\ Faults /\ th[t].pc = "item"
    /\ Item(t) # "port"
    /\ UNCHANGED World
    /\ IF th[t].ph = "check" THEN Verdict(t, "aborted") ELSE Fixed(t, "error")

\* CheckDirectoryExists, CheckNetwork and CheckRedisPort.
CheckSimple(t) ==
    /\ At(t, "check", {"dir", "control", "port"})
    /\ UNCHANGED World
    /\ LET ok == CASE Item(t) = "dir" -> th[t].req.on \in dirs
                   [] Item(t) = "control" -> nets["control"] > 0
                   [] Item(t) = "port" ->
                        ~portBusy \/ ("redis" \in Containers /\ ctr["redis"] = "running")
       IN  Verdict(t, IF ok THEN "ok" ELSE "failed")

\* CreateDirectory, and RequiresManualFixing for the port.
FixSimple(t) ==
    /\ At(t, "fix", {"dir", "port"})
    /\ dirs' = IF Item(t) = "dir" THEN dirs \cup {th[t].req.on} ELSE dirs
    /\ UNCHANGED <<ctr, gen, nets, portBusy>>
    /\ Fixed(t, IF Item(t) = "dir" THEN "none" ELSE "error")

\* EnsureBridgeNetwork: list again, then create.
FixNetwork(t) ==
    /\ At(t, "fix", {"control", "build"})
    /\ \/ /\ th[t].st = "list" /\ nets[Item(t)] > 0
          /\ UNCHANGED World /\ Fixed(t, "none")
       \/ /\ th[t].st = "list" /\ nets[Item(t)] = 0
          /\ th' = [th EXCEPT ![t].st = "create"]
          /\ UNCHANGED <<ctr, gen, nets, dirs, portBusy, lock>>
       \/ /\ th[t].st = "create"
          /\ nets' = [nets EXCEPT ![Item(t)] = @ + 1]
          /\ UNCHANGED <<ctr, gen, dirs, portBusy>>
          /\ Fixed(t, "none")

To(t, st) == /\ th' = [th EXCEPT ![t].st = st] /\ UNCHANGED lock

\* CheckContainer lists the container by its exact name ...
ListContainer(t) ==
    /\ \E ph \in {"check", "fix"} : At(t, ph, Containers)
    /\ th[t].st = "list"
    /\ UNCHANGED World
    /\ \/ /\ ctr[Item(t)] # "absent"
          /\ th' = [th EXCEPT ![t].st = "inspect", ![t].saw = gen[Item(t)]]
          /\ UNCHANGED lock
       \/ /\ ctr[Item(t)] = "absent" /\ th[t].ph = "check" /\ Verdict(t, "failed")
       \/ /\ ctr[Item(t)] = "absent" /\ th[t].ph = "fix" /\ To(t, "image")

\* The container that was listed is still there.
Same(t) == ctr[Item(t)] # "absent" /\ gen[Item(t)] = th[t].saw

\* Mutant: a container that exists is taken for a running one.
InspectContainerAnyState(t) ==
    /\ \E ph \in {"check", "fix"} : At(t, ph, Containers)
    /\ th[t].st = "inspect"
    /\ UNCHANGED World
    /\ IF th[t].ph = "check" THEN Verdict(t, IF Same(t) THEN "ok" ELSE "aborted")
       ELSE Fixed(t, IF Same(t) THEN "none" ELSE "error")

\* ... and inspects it by its ID.
InspectContainer(t) ==
    /\ \E ph \in {"check", "fix"} : At(t, ph, Containers)
    /\ th[t].st = "inspect"
    /\ UNCHANGED World
    /\ \/ /\ ~Same(t) /\ th[t].ph = "check" /\ Verdict(t, "aborted")
       \/ /\ ~Same(t) /\ th[t].ph = "fix" /\ Fixed(t, "error")
       \/ /\ Same(t) /\ th[t].ph = "check"
          /\ Verdict(t, IF ctr[Item(t)] = "running" THEN "ok" ELSE "failed")
       \/ /\ Same(t) /\ th[t].ph = "fix" /\ ctr[Item(t)] = "running" /\ Fixed(t, "none")
       \/ /\ Same(t) /\ th[t].ph = "fix" /\ ctr[Item(t)] = "created" /\ To(t, "start")

\* The image is looked up or pulled, then the container is created.
FindOrPullImage(t) ==
    /\ At(t, "fix", Containers) /\ th[t].st = "image"
    /\ UNCHANGED World /\ To(t, "create")

CreateContainer(t) ==
    /\ At(t, "fix", Containers) /\ th[t].st = "create"
    /\ UNCHANGED <<nets, dirs, portBusy>>
    /\ \/ /\ ctr[Item(t)] = "absent"
          /\ ctr' = [ctr EXCEPT ![Item(t)] = "created"]
          /\ gen' = [gen EXCEPT ![Item(t)] = @ + 1]
          /\ th' = [th EXCEPT ![t].st = "start", ![t].saw = gen'[Item(t)], ![t].made = TRUE]
          /\ UNCHANGED lock
       \/ /\ ctr[Item(t)] # "absent"
          /\ UNCHANGED <<ctr, gen>>
          /\ Fixed(t, "conflict")

\* A start needs the network, and redis its port.
StartContainer(t) ==
    LET n == Item(t)
        ok == /\ Same(t)
              /\ nets[IF n = "goproxy" THEN "build" ELSE "control"] > 0
              /\ n = "redis" => ~portBusy
    IN  /\ At(t, "fix", Containers) /\ th[t].st = "start"
        /\ UNCHANGED <<gen, nets, dirs, portBusy>>
        /\ \/ ok /\ ctr' = [ctr EXCEPT ![n] = "running"] /\ To(t, "confirm")
           \/ ~ok /\ UNCHANGED ctr /\ Fixed(t, "error")

\* A container that was created is inspected, one that existed is listed and its
\* absence is no error; neither answer is asked whether the container runs.
ConfirmContainer(t) ==
    /\ At(t, "fix", Containers) /\ th[t].st = "confirm"
    /\ UNCHANGED World
    /\ Fixed(t, IF Same(t) \/ ~th[t].made THEN "none" ELSE "error")

-----------------------------------------------------------------------------
(* Containers that go down, by themselves or in TerminateAll *)

\* The containers a request has found or started running: those it has passed
\* over, and the one whose start it is about to confirm.
Seen(r) ==
    {x \in Containers :
        \/ \E k \in 1..(r.i - 1) : Items(r.req.on)[k] = x
        \/ r.st = "confirm" /\ Items(r.req.on)[r.i] = x}

\* A container that a request has seen running went down behind its back.
Losing(r, n) ==
    IF r.pc = "item" /\ n \in Seen(r) THEN [r EXCEPT !.lost = @ \cup {n}] ELSE r

\* The main process of a container ends, right after the start or later.
Exit(n) ==
    /\ ctr[n] = "running"
    /\ ctr' = [ctr EXCEPT ![n] = "created"]
    /\ th' = [t \in Thread |-> Losing(th[t], n)]
    /\ UNCHANGED <<gen, nets, dirs, portBusy, lock>>

\* Only running containers are listed, by name.
ListAll(t) ==
    /\ th[t].pc = "listAll"
    /\ \/ th' = [th EXCEPT ![t].pc = "delete", ![t].victims =
                    {<<n, gen[n]>> : n \in {m \in Terminated : ctr[m] = "running"}}]
       \/ Faults /\ th' = [th EXCEPT ![t].pc = "done", ![t].err = "error"]
    /\ UNCHANGED <<ctr, gen, nets, dirs, portBusy, lock>>

\* DeleteContainers removes by ID, in any order.
Delete(t, v) ==
    /\ th[t].pc = "delete" /\ v \in th[t].victims
    /\ LET there == ctr[v[1]] # "absent" /\ gen[v[1]] = v[2]
           T == [th EXCEPT ![t].victims = @ \ {v},
                           ![t].err = IF there THEN @ ELSE "error"]
       IN  /\ ctr' = IF there THEN [ctr EXCEPT ![v[1]] = "absent"] ELSE ctr
           /\ th' = IF there THEN [u \in Thread |-> Losing(T[u], v[1])] ELSE T
    /\ UNCHANGED <<gen, nets, dirs, portBusy, lock>>

\* After an error DeleteContainers waits for an answer that does not come.
DeleteEnd(t) ==
    /\ th[t].pc = "delete" /\ th[t].victims = {}
    /\ th' = [th EXCEPT ![t].pc = IF th[t].err = "none" THEN "done" ELSE "stuck"]
    /\ UNCHANGED <<ctr, gen, nets, dirs, portBusy, lock>>

-----------------------------------------------------------------------------
Step(t) ==
    \/ Acquire(t)
    \/ CallFails(t) \/ CheckSimple(t) \/ FixSimple(t) \/ FixNetwork(t)
    \/ ListContainer(t) \/ InspectContainer(t) \/ FindOrPullImage(t)
    \/ CreateContainer(t) \/ StartContainer(t) \/ ConfirmContainer(t)
    \/ ListAll(t) \/ DeleteEnd(t)
    \/ \E v \in th[t].victims : Delete(t, v)

Next ==
    \/ \E t \in Thread, r \in Requests : Begin(t, r)
    \/ \E t \in Thread : Step(t)
    \/ \E n \in Containers : Exit(n)

Spec == Init /\ [][Next]_vars

-----------------------------------------------------------------------------
\* States of containers and requests; a lock is held exactly by the request that
\* works on its items.
TypeOK ==
    /\ ctr \in [Containers -> {"absent", "created", "running"}]
    /\ dirs \subseteq {"local:docker", "local:exec"}
    /\ \A l \in Locks, t \in Thread :
          lock[l] = t <=> th[t].pc = "item" /\ th[t].req.on = l
    /\ \A t \in Thread :
          /\ th[t].pc \in {"idle", "lock", "item", "listAll", "delete", "stuck", "done"}
          /\ th[t].err \in {"none", "error", "conflict"}

\* Whoever is told that all is well can rely on it: if the checks succeeded, or
\* the failed ones were fixed and none was aborted, or the go proxy's address
\* was handed to a build, then every network and directory of the list is there
\* at that moment and every container runs, whatever other requests, terminate
\* and the containers themselves were doing, except a container that exited or
\* was terminated after this request had found or started it running: what
\* EnsureContainerStarted reads after the start does not tell (container.go).
ReadyWhenTold ==
    \A t \in Thread :
        /\ th[t].pc = "done" /\ th[t].req.op # "terminate"
        /\ \/ th[t].req.op = "health" /\ th[t].checksOK
           \/ th[t].req.op = "health" /\ th[t].req.fix /\ ~th[t].aborted /\ th[t].fixesOK
           \/ th[t].req.op = "proxy" /\ th[t].err = "none"
        => th[t].up

\* The lock of a runner keeps its healthchecks from getting in each other's
\* way: a container's name is taken under the hands of a fixer only by a
\* healthcheck of the other runner that overlapped with it.
ConflictNeedsOverlap ==
    \A t \in Thread :
        th[t].err = "conflict" => th[t].overlap /\ th[t].req.op = "health"

=============================================================================
