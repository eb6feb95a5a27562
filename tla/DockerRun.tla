----------------------------- MODULE DockerRun -----------------------------
(***************************************************************************)
(* One run of the local:docker runner (pkg/runner/local_docker.go).        *)
(*                                                                         *)
(* Run creates one container per instance, starts them concurrently, and   *)
(* then waits: for the first message on doneCh, which the start-up waiter, *)
(* the sidecar log tailer and the container log tailer share, or for its   *)
(* context.  Meanwhile a collector counts success events that instances    *)
(* publish through the sync service.  Deferred calls remove the containers *)
(* and the data network.                                                   *)
(*                                                                         *)
(* Docker, the sync service and the test instances are external: API calls *)
(* may fail (without effect), instances succeed, fail, just exit or print  *)
(* what the pretty printer cannot read, events arrive late.                *)
(***************************************************************************)
EXTENDS Integers, Sequences, FiniteSets

CONSTANTS
    NGroups, Size, \* the composition: that many groups of that many instances
    Config,        \* the runner configurations to consider
    Faults,        \* whether Docker and sync service calls may fail
    Unremovable,   \* the containers whose removal may fail
    RateLimit      \* how many containers are removed at a time (16)

ASSUME SizeAssumption == NGroups \in Nat /\ Size \in Nat
ASSUME ConfigAssumption ==
    Config \subseteq [keep : BOOLEAN, unstarted : BOOLEAN, background : BOOLEAN]
ASSUME RateLimitAssumption == RateLimit \in Nat \ {0}

Container == (1..NGroups) \X (1..Size)
ASSUME UnremovableAssumption == Unremovable \subseteq Container
InOrder == [k \in 1..(NGroups * Size) |->
              <<1 + ((k - 1) \div Size), 1 + ((k - 1) % Size)>>]
DoneChCap == 2

VARIABLES
    cfg, ctx,  \* the run's configuration and its task's context
    pc, err,   \* where Run is, and the error it returns
    todo,      \* the containers Run has yet to create, in order
    list,      \* the containers Run knows of
    live,      \* each container as Docker sees it
    said,      \* the instances that reported success
    network,   \* the data network: none, up, or lost (nobody will remove it)
    start,     \* the goroutine that starts each container
    started,   \* the buffered channel of that name
    waiter, sidecar, tailer,   \* the three goroutines that send on doneCh
    msg,       \* what each of them is about to send
    doneCh,
    managed,   \* containers whose output the pretty printer still reads
    failed,    \* PrettyPrinter.failed is positive
    events,    \* success events the sync service has not delivered
    counted,   \* containers whose success event was counted
    collector, \* the outcome collector
    outcome,   \* result.Outcome
    removal,   \* the goroutine that removes each container
    loop       \* DeleteContainers: iterations left, and whether it is in the
               \* second receive of one

runVars == <<cfg, pc, err, todo, list>>
dockerVars == <<live, said, network, events>>
startVars == <<start, started, waiter, sidecar, tailer, msg, doneCh, managed, failed>>
outcomeVars == <<counted, collector, outcome>>
removeVars == <<removal, loop>>
vars == <<ctx, runVars, dockerVars, startVars, outcomeVars, removeVars>>

Pc == {"setup", "network", "merge", "create", "subscribe", "select", "join", "delete",
       "rmnet", "done"}

Init ==
    /\ cfg \in Config
    /\ ctx = "live"
    /\ pc = "setup" /\ err = "nil"
    /\ todo = InOrder
    /\ list = {}
    /\ live = [c \in Container |-> "absent"]
    /\ said = {}
    /\ network = "none"
    /\ start = [c \in Container |-> "none"]
    /\ started = <<>>
    /\ waiter = "none" /\ sidecar = "none" /\ tailer = "none"
    /\ msg = [waiter |-> "error", sidecar |-> "error", tailer |-> "nil"]
    /\ doneCh = <<>>
    /\ managed = {}
    /\ failed = FALSE
    /\ events = {}
    /\ counted = {}
    /\ collector = "none"
    /\ outcome = "unknown"
    /\ removal = [c \in Container |-> "none"]
    /\ loop = [left |-> 0, again |-> FALSE]

-----------------------------------------------------------------------------
\* setupSyncClient.
Setup ==
    /\ pc = "setup"
    /\ \/ pc' = "network" /\ UNCHANGED err
       \/ Faults /\ pc' = "done" /\ err' = "error"
    /\ UNCHANGED <<cfg, ctx, todo, list, dockerVars, startVars, outcomeVars,
                   removeVars>>

-----------------------------------------------------------------------------
(***************************************************************************)
(* Run, up to the point where the containers start.                        *)
(***************************************************************************)
CallOK == ctx = "live"
CallFails == Faults \/ ctx # "live"

\* The last deferred calls: a canceled run says so, and the lock is released.
Return ==
    /\ pc' = "done"
    /\ outcome' = IF ctx = "canceled" THEN "canceled" ELSE outcome

\* Run returns once its containers are known: the deferred clean-up starts.
Unwind ==
    IF cfg.keep
    THEN Return /\ UNCHANGED <<removeVars, network>>
    ELSE /\ pc' = "delete"
         /\ removal' = [c \in Container |-> IF c \in list THEN "queued" ELSE "none"]
         /\ loop' = [left |-> Cardinality(list), again |-> FALSE]
         /\ UNCHANGED <<outcome, network>>

\* newDataNetwork.
NewDataNetwork ==
    /\ pc = "network"
    /\ \/ CallOK /\ network' = "up" /\ pc' = "merge" /\ UNCHANGED <<err, outcome>>
       \/ CallFails /\ err' = "error" /\ Return /\ UNCHANGED network
    /\ UNCHANGED <<cfg, ctx, todo, list, live, said, events, startVars, counted,
                   collector, removeVars>>

\* The runner's configuration is merged.  An error returns before any clean-up
\* is deferred, and leaves the network behind.
MergeConfig ==
    /\ pc = "merge"
    /\ \/ pc' = "create" /\ UNCHANGED <<err, outcome, network>>
       \/ Faults /\ err' = "error" /\ Return /\ network' = "lost"
    /\ UNCHANGED <<cfg, ctx, todo, list, live, said, events, startVars, counted,
                   collector, removeVars>>

\* The next container.  A failure leaves the loop over the group's instances
\* only, and the next group overwrites err.  If it is the attachment to the data
\* network that fails, the container exists and is known.
CreateContainer ==
    LET c == Head(todo)
        nextGroup == SubSeq(todo, 2 + Size - c[2], Len(todo))
        Created == /\ list' = list \cup {c}
                   /\ live' = [live EXCEPT ![c] = "created"] IN
    /\ pc = "create"
    /\ todo # <<>>
    /\ \/ CallOK /\ Created /\ err' = "nil" /\ todo' = Tail(todo)
       \/ CallFails /\ err' = "error" /\ todo' = nextGroup /\ UNCHANGED <<list, live>>
       \/ CallOK /\ CallFails /\ Created /\ err' = "error" /\ todo' = nextGroup
    /\ UNCHANGED <<cfg, ctx, pc, said, network, events, startVars, outcomeVars,
                   removeVars>>

\* Mutant: the clean-up is deferred only after the check of the error.
CreateEndNoCleanup ==
    /\ pc = "create"
    /\ todo = <<>>
    /\ IF err # "nil"
       THEN Return /\ UNCHANGED <<network, removeVars>>
       ELSE IF cfg.unstarted
       THEN Unwind
       ELSE pc' = "subscribe" /\ UNCHANGED <<outcome, network, removeVars>>
    /\ UNCHANGED <<cfg, ctx, err, todo, list, live, said, events, startVars, counted,
                   collector>>

\* The clean-up is deferred; an error of the last group, or unstarted, ends the run.
CreateEnd ==
    /\ pc = "create"
    /\ todo = <<>>
    /\ IF err # "nil" \/ cfg.unstarted
       THEN Unwind
       ELSE pc' = "subscribe" /\ UNCHANGED <<outcome, network, removeVars>>
    /\ UNCHANGED <<cfg, ctx, err, todo, list, live, said, events, startVars, counted,
                   collector>>

\* collectOutcomes subscribes to events; then all goroutines start.
Subscribe ==
    /\ pc = "subscribe"
    /\ \/ /\ CallOK
          /\ pc' = "select"
          /\ collector' = "recv"
          /\ start' = [c \in Container |-> IF c \in list THEN "start" ELSE "none"]
          /\ waiter' = "wait"
          /\ sidecar' = IF cfg.background THEN "none" ELSE "open"
          /\ tailer' = IF cfg.background THEN "none" ELSE "recv"
          /\ UNCHANGED <<err, outcome, network, removeVars>>
       \/ /\ CallFails
          /\ err' = "error"
          /\ Unwind
          /\ UNCHANGED <<collector, start, waiter, sidecar, tailer>>
    /\ UNCHANGED <<cfg, ctx, todo, list, live, said, events, started, msg, doneCh,
                   managed, failed, counted>>

-----------------------------------------------------------------------------
(***************************************************************************)
(* The goroutines of a run.                                                *)
(***************************************************************************)
\* ctxContainers: canceled with the task, or by Run when it has its answer.
CtxContainersDone == ctx # "live" \/ pc \in {"join", "delete", "rmnet", "done"}
GroupCtxDone == CtxContainersDone \/ \E d \in Container : start[d] = "failed"

StartContainer(c) ==
    /\ start[c] = "start"
    /\ \/ /\ CallOK /\ live[c] = "created"
          /\ live' = [live EXCEPT ![c] = "running"]
          /\ start' = [start EXCEPT ![c] = "ok"]
          /\ started' = IF GroupCtxDone THEN started ELSE Append(started, c)
       \/ /\ CallFails \/ live[c] = "removed"
          /\ start' = [start EXCEPT ![c] = "failed"]
          /\ UNCHANGED <<live, started>>
    /\ UNCHANGED <<ctx, runVars, said, network, events, waiter, sidecar, tailer, msg,
                   doneCh, managed, failed, outcomeVars, removeVars>>

\* g.Wait returns; started is closed first, an error is sent afterwards.
WaiterClose ==
    /\ waiter = "wait"
    /\ \A c \in list : start[c] \in {"ok", "failed"}
    /\ waiter' = IF \E c \in list : start[c] = "failed" THEN "send" ELSE "done"
    /\ UNCHANGED <<ctx, runVars, dockerVars, start, started, sidecar, tailer, msg,
                   doneCh, managed, failed, outcomeVars, removeVars>>

StartedClosed == waiter \in {"send", "done"}

\* The sidecar's log is appended to the output.  When its stream ends, because
\* the run is over or the sidecar restarts, it counts as a failed node.
TailSidecar ==
    /\ sidecar = "open"
    /\ \/ CallFails /\ sidecar' = "send" /\ UNCHANGED failed
       \/ sidecar' = "done" /\ failed' = TRUE
    /\ UNCHANGED <<ctx, runVars, dockerVars, start, started, waiter, tailer, msg,
                   doneCh, managed, outcomeVars, removeVars>>

\* Attach the next started container to the pretty printer.
TailerManage ==
    /\ tailer = "recv"
    /\ started # <<>>
    /\ started' = Tail(started)
    /\ \/ /\ CallOK
          /\ managed' = managed \cup {Head(started)}
          /\ UNCHANGED <<tailer, msg>>
       \/ /\ CallFails
          /\ tailer' = "send"
          /\ msg' = [msg EXCEPT !.tailer = "error"]
          /\ UNCHANGED managed
    /\ UNCHANGED <<ctx, runVars, dockerVars, start, waiter, sidecar, doneCh, failed,
                   outcomeVars, removeVars>>

\* Mutant: pretty.Wait is called before all containers are attached.
TailerEndEarly ==
    /\ \/ tailer = "recv" /\ started = <<>> /\ tailer' = "wait" /\ UNCHANGED msg
       \/ /\ tailer = "wait" /\ managed = {}
          /\ tailer' = "send"
          /\ msg' = [msg EXCEPT !.tailer = IF failed THEN "error" ELSE "nil"]
       \/ /\ tailer \in {"recv", "wait"} /\ ctx # "live"
          /\ tailer' = "send"
          /\ msg' = [msg EXCEPT !.tailer = "ctx"]
    /\ UNCHANGED <<ctx, runVars, dockerVars, start, started, waiter, sidecar, doneCh,
                   managed, failed, outcomeVars, removeVars>>

\* All containers are attached; wait for the pretty printer's verdict, or yield
\* to the context.
TailerEnd ==
    /\ \/ /\ tailer = "recv" /\ started = <<>> /\ StartedClosed
          /\ tailer' = "wait"
          /\ UNCHANGED msg
       \/ /\ tailer = "wait" /\ managed = {}
          /\ tailer' = "send"
          /\ msg' = [msg EXCEPT !.tailer = IF failed THEN "error" ELSE "nil"]
       \/ /\ tailer \in {"recv", "wait"} /\ ctx # "live"
          /\ tailer' = "send"
          /\ msg' = [msg EXCEPT !.tailer = "ctx"]
    /\ UNCHANGED <<ctx, runVars, dockerVars, start, started, waiter, sidecar, doneCh,
                   managed, failed, outcomeVars, removeVars>>

\* doneCh is buffered; a sender that finds it full blocks.
Send ==
    /\ Len(doneCh) < DoneChCap
    /\ \/ /\ waiter = "send" /\ waiter' = "done"
          /\ doneCh' = Append(doneCh, msg.waiter) /\ UNCHANGED <<sidecar, tailer>>
       \/ /\ sidecar = "send" /\ sidecar' = "done"
          /\ doneCh' = Append(doneCh, msg.sidecar) /\ UNCHANGED <<waiter, tailer>>
       \/ /\ tailer = "send" /\ tailer' = "done"
          /\ doneCh' = Append(doneCh, msg.tailer) /\ UNCHANGED <<waiter, sidecar>>
    /\ UNCHANGED <<ctx, runVars, dockerVars, start, started, msg, managed, failed,
                   outcomeVars, removeVars>>

\* Mutant: a node that failed never leaves the wait group.
PrettyEndSuccessOnly(c) ==
    /\ c \in managed
    /\ c \in said
    /\ live[c] \in {"exited", "removed"} \/ ctx # "live"
    /\ managed' = managed \ {c}
    /\ UNCHANGED <<ctx, runVars, dockerVars, start, started, waiter, sidecar, tailer,
                   msg, doneCh, failed, outcomeVars, removeVars>>

\* The pretty printer reaches the end of a container's output.  Without a success
\* in it the node counts as failed.
PrettyEnd(c) ==
    /\ c \in managed
    /\ live[c] \in {"exited", "removed"} \/ ctx # "live"
    /\ managed' = managed \ {c}
    /\ failed' = (failed \/ c \notin said)
    /\ UNCHANGED <<ctx, runVars, dockerVars, start, started, waiter, sidecar, tailer,
                   msg, doneCh, outcomeVars, removeVars>>

\* It gives up on an output that has not ended: an unknown event, a line longer
\* than the scanner's limit, a stream that breaks.  The instance runs on, and its
\* success counts only if it was read by then.
PrettyCut(c) ==
    /\ c \in managed
    /\ managed' = managed \ {c}
    /\ \/ c \in said /\ UNCHANGED failed
       \/ failed' = TRUE
    /\ UNCHANGED <<ctx, runVars, dockerVars, start, started, waiter, sidecar, tailer,
                   msg, doneCh, outcomeVars, removeVars>>

\* Mutant: the totals are those of the containers that were created.
VerdictOfCreated == IF NGroups > 0 /\ list \subseteq counted
                    THEN "success" ELSE "failure"

\* The outcome is a success if every group has as many events as instances.
Verdict == IF NGroups > 0 /\ counted = Container THEN "success" ELSE "failure"

\* The collector counts events until its context is done, and leaves the rest.
Collect ==
    /\ collector = "recv"
    /\ \/ \E c \in events :
            /\ events' = events \ {c}
            /\ counted' = counted \cup {c}
            /\ UNCHANGED <<collector, outcome>>
       \/ /\ CtxContainersDone
          /\ outcome' = Verdict
          /\ collector' = "send"
          /\ UNCHANGED <<events, counted>>
    /\ UNCHANGED <<ctx, runVars, live, said, network, startVars, removeVars>>

-----------------------------------------------------------------------------
(***************************************************************************)
(* Run, from the select to its return.                                     *)
(***************************************************************************)
\* Mutant: Run waits for doneCh only.
SelectDoneOnly ==
    /\ pc = "select"
    /\ doneCh # <<>>
    /\ err' = Head(doneCh)
    /\ doneCh' = Tail(doneCh)
    /\ pc' = "join"
    /\ UNCHANGED <<cfg, ctx, todo, list, dockerVars, start, started, waiter, sidecar,
                   tailer, msg, managed, failed, outcomeVars, removeVars>>

\* The first message, or the context.
Select ==
    /\ pc = "select"
    /\ \/ /\ doneCh # <<>>
          /\ err' = Head(doneCh)
          /\ doneCh' = Tail(doneCh)
       \/ /\ ctx # "live"
          /\ err' = "ctx"
          /\ UNCHANGED doneCh
    /\ pc' = "join"
    /\ UNCHANGED <<cfg, ctx, todo, list, dockerVars, start, started, waiter, sidecar,
                   tailer, msg, managed, failed, outcomeVars, removeVars>>

\* <-outcomesDoneCh.
Join ==
    /\ pc = "join"
    /\ collector = "send"
    /\ collector' = "done"
    /\ Unwind
    /\ UNCHANGED <<cfg, ctx, err, todo, list, live, said, events, startVars, counted>>

\* DeleteContainers: one goroutine per container removes it and holds its place
\* under the rate limit until its answer is received.
RemoveContainer(c) ==
    /\ pc = "delete"
    /\ removal[c] = "queued"
    /\ Cardinality({d \in Container : removal[d] \in {"ok", "failed"}}) < RateLimit
    /\ \/ /\ removal' = [removal EXCEPT ![c] = "ok"]
          /\ live' = [live EXCEPT ![c] = "removed"]
       \/ /\ c \in Unremovable
          /\ removal' = [removal EXCEPT ![c] = "failed"]
          /\ UNCHANGED live
    /\ UNCHANGED <<ctx, runVars, said, network, events, startVars, outcomeVars, loop>>

\* One receive.  An iteration that received an error receives once more.
ReceiveRemoval(c) ==
    /\ pc = "delete"
    /\ loop.left > 0
    /\ removal[c] \in {"ok", "failed"}
    /\ removal' = [removal EXCEPT ![c] = "received"]
    /\ loop' = IF removal[c] = "failed" /\ ~loop.again
               THEN [loop EXCEPT !.again = TRUE]
               ELSE [left |-> loop.left - 1, again |-> FALSE]
    /\ UNCHANGED <<ctx, runVars, dockerVars, startVars, outcomeVars>>

DeleteEnd ==
    /\ pc = "delete"
    /\ loop.left = 0
    /\ pc' = "rmnet"
    /\ UNCHANGED <<cfg, ctx, err, todo, list, dockerVars, startVars, outcomeVars,
                   removeVars>>

\* Docker does not remove a network that running containers are attached to.  An
\* error of the call is logged, and the network is left to somebody else.
RemoveNetwork ==
    /\ pc = "rmnet"
    /\ \/ network' = IF \E c \in list : live[c] = "running" THEN "up" ELSE "none"
       \/ Faults /\ network' = "lost"
    /\ Return
    /\ UNCHANGED <<cfg, ctx, err, todo, list, live, said, events, startVars, counted,
                   collector, removeVars>>

-----------------------------------------------------------------------------
(***************************************************************************)
(* The environment: instances, and the task's context.                     *)
(***************************************************************************)
\* An instance reports success at most once; one that fails or crashes exits
\* without, which the pretty printer and the collector treat alike.
Report(c) ==
    /\ live[c] = "running"
    /\ c \notin said
    /\ said' = said \cup {c}
    /\ events' = events \cup {c}
    /\ UNCHANGED <<ctx, runVars, live, network, startVars, outcomeVars, removeVars>>

Exit(c) ==
    /\ live[c] = "running"
    /\ live' = [live EXCEPT ![c] = "exited"]
    /\ UNCHANGED <<ctx, runVars, said, network, events, startVars, outcomeVars,
                   removeVars>>

CtxDone ==
    /\ ctx = "live"
    /\ pc # "done"
    /\ ctx' \in {"canceled", "deadline"}
    /\ UNCHANGED <<runVars, dockerVars, startVars, outcomeVars, removeVars>>

-----------------------------------------------------------------------------
Main == \/ Setup \/ NewDataNetwork \/ MergeConfig \/ CreateContainer \/ CreateEnd
        \/ Subscribe \/ Select \/ Join \/ DeleteEnd \/ RemoveNetwork

Removals == \E c \in Container : RemoveContainer(c) \/ ReceiveRemoval(c)
Starts == \E c \in Container : StartContainer(c)
Tailing == TailerManage \/ TailerEnd \/ \E c \in Container : PrettyEnd(c)

\* Goroutines that outlive Run touch nothing that is read afterwards: the model
\* ends with Run, and with the answer Run received for those that send one.
Running == pc # "done"
Awaited == pc = "select"

Next ==
    \/ Main
    \/ Removals
    \/ Running /\ Starts
    \/ Awaited /\ WaiterClose
    \/ Awaited /\ TailSidecar
    \/ Awaited /\ Tailing
    \/ Awaited /\ \E c \in Container : PrettyCut(c)
    \/ Awaited /\ Send
    \/ Running /\ Collect
    \/ Running /\ \E c \in Container : Report(c) \/ Exit(c)
    \/ CtxDone

(***************************************************************************)
(* Goroutines run and Docker answers.  Instances need not report, exit nor *)
(* print what cannot be read, and the context need not end.                *)
(***************************************************************************)
Goroutines == /\ WF_vars(Running /\ Starts)
              /\ WF_vars(Awaited /\ WaiterClose)
              /\ WF_vars(Awaited /\ Tailing)
              /\ WF_vars(Awaited /\ Send)
              /\ WF_vars(Running /\ Collect)

Spec == Init /\ [][Next]_vars /\ WF_vars(Main) /\ WF_vars(Removals) /\ Goroutines

-----------------------------------------------------------------------------
(***************************************************************************)
(* Properties.                                                             *)
(***************************************************************************)
\* The variables that count or select something stay within the code's types.
TypeOK ==
    /\ pc \in Pc
    /\ err \in {"nil", "error", "ctx"}
    /\ list \subseteq Container /\ counted \subseteq Container
    /\ live \in [Container -> {"absent", "created", "running", "exited", "removed"}]
    /\ Len(doneCh) <= DoneChCap
    /\ failed \in BOOLEAN
    /\ loop.left \in 0..Cardinality(Container)
    /\ outcome \in {"unknown", "success", "failure", "canceled"}

\* A run is judged a success only if every instance of every group said so,
\* whichever containers could not be created or started and whatever error was
\* overwritten on the way.
OutcomeSound ==
    pc = "done" /\ outcome = "success" => said = Container

\* A run that returns, and was not told to keep its containers, has removed them
\* all, those it could not start or attach included.  The network outlives the
\* run only if the very call to remove it failed, or the merge of the
\* configuration before any clean-up was deferred: never because a container was
\* still attached to it or nobody tried.
NothingLeft ==
    pc = "done" /\ ~cfg.keep =>
        /\ \A c \in Container : live[c] \in {"absent", "removed"}
        /\ network # "up"

\* When a run whose containers all started returns without an error and was not
\* canceled, every instance has reported its success: nil is never the answer of
\* a tailer that has not attached all of them, or that has given up on one.
CleanFinish ==
    /\ pc \in {"join", "delete"} /\ err = "nil" /\ ctx = "live"
    /\ waiter # "none"
    /\ \A c \in list : start[c] = "ok"
    => list \subseteq said

\* DeleteContainers has received every answer and waits for one more: an
\* iteration that receives an error receives twice.
Stuck ==
    /\ pc = "delete" /\ loop.left > 0
    /\ \A c \in Container : removal[c] \in {"none", "received"}

\* Once its context is done a run returns, the assumption RunnerFairness that
\* Engine makes of runners, unless a removal fails.
RunEnds == ctx # "live" ~> (pc = "done" \/ Stuck)

\* A run in the foreground returns by itself when no container is running any
\* more, whether they succeeded, failed or never started, unless a removal
\* fails.
EndsWithInstances ==
    /\ pc = "select" /\ ~cfg.background
    /\ \A c \in list : start[c] = "failed" \/ live[c] = "exited"
    ~> (pc = "done" \/ Stuck)

=============================================================================
