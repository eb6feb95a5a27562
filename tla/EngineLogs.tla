---------------------------- MODULE EngineLogs -----------------------------
(***************************************************************************)
(* Engine.Logs with follow = true, on top of the engine.                   *)
(*                                                                         *)
(* A follower waits until the task has left the scheduled state, tails its *)
(* .out file, and returns the task at the end.  A poller goroutine ends    *)
(* the tail some time after the task's channel has left `signals`.         *)
(***************************************************************************)
EXTENDS Engine

CONSTANTS
    Follower,      \* concurrent follow requests, one each
    MaxLines       \* bound on the chunks a task writes to its .out file

ASSUME MaxLinesAssumption == MaxLines \in Nat

VARIABLES
    written,       \* chunks in each task's .out file
    fol            \* the follow request of each follower

logVars == <<written, fol>>
allVars == <<vars, logVars>>

NoFollow == [id |-> NoTask, cancel |-> FALSE, pc |-> "idle", at |-> "archive",
             poll |-> "none", stop |-> FALSE, read |-> 0, gone |-> FALSE,
             seen |-> "none", fail |-> "none"]

LogsInit ==
    /\ Init
    /\ written = [t \in TaskId |-> 0]
    /\ fol = [f \in Follower |-> NoFollow]

\* A step of the engine leaves followers alone; a crash ends their requests.
EngineStep ==
    /\ Next
    /\ UNCHANGED written
    /\ fol' = IF crashes' = crashes THEN fol
              ELSE [f \in Follower |->
                      IF fol[f].pc \in {"idle", "done", "failed"} THEN fol[f]
                      ELSE [fol[f] EXCEPT !.pc = "failed", !.fail = "lost",
                                          !.poll = "none"]]

-----------------------------------------------------------------------------
Fail(f, why) == fol' = [fol EXCEPT ![f].pc = "failed", ![f].fail = why]

\* The runner or builder writes a chunk to the task's .out file.
WriteLog(w) ==
    /\ wpc[w] = "run"
    /\ written[tsk[w].id] < MaxLines
    /\ written' = [written EXCEPT ![tsk[w].id] = @ + 1]
    /\ UNCHANGED <<vars, fol>>

Follow(f, id, cancel) ==
    /\ fol[f].pc = "idle"
    /\ id \in used
    /\ fol' = [fol EXCEPT ![f] = [NoFollow EXCEPT !.id = id, !.cancel = cancel,
                                                  !.pc = "wait"]]
    /\ UNCHANGED <<vars, written>>

\* The client goes away: the request's context is done.
Disconnect(f) ==
    /\ fol[f].pc \notin {"idle", "done", "failed"}
    /\ ~fol[f].gone
    /\ fol' = [fol EXCEPT ![f].gone = TRUE]
    /\ UNCHANGED <<vars, written>>

\* One read of GetTask, in the loop that waits for the task to start and in
\* the return statement.
GetTask(f) ==
    LET p == fol[f].at
        stored == db[p][fol[f].id] IN
    /\ fol[f].pc \in {"wait", "return"}
    /\ \/ /\ stored = NoTask /\ p # Last(GetOrder)
          /\ fol' = [fol EXCEPT ![f].at = After(GetOrder, p)]
       \/ /\ stored = NoTask /\ p = Last(GetOrder)
          /\ Fail(f, "notFound")
       \/ /\ stored # NoTask /\ fol[f].pc = "wait" /\ stored.state = "scheduled"
          /\ fol' = [fol EXCEPT ![f].at = "archive"]
       \/ /\ stored # NoTask /\ fol[f].pc = "wait" /\ stored.state # "scheduled"
          /\ fol' = [fol EXCEPT ![f].at = "archive", ![f].pc = "open"]
       \/ /\ stored # NoTask /\ fol[f].pc = "return"
          /\ fol' = [fol EXCEPT ![f].pc = "done", ![f].seen = stored.state]
    /\ UNCHANGED <<vars, written>>

\* newTailReader; then the poller starts.
OpenTail(f) ==
    /\ fol[f].pc = "open"
    /\ \/ /\ fol[f].id \in logfile
          /\ fol' = [fol EXCEPT ![f].pc = "tail", ![f].poll = "poll"]
       \/ /\ fol[f].id \notin logfile
          /\ Fail(f, "open")
    /\ UNCHANGED <<vars, written>>

\* The poller finds the task gone from `signals`, sleeps, and closes stop.
PollGone(f) ==
    /\ fol[f].poll = "poll"
    /\ CanRLock
    /\ fol[f].id \notin signals
    /\ fol' = [fol EXCEPT ![f].poll = "grace"]
    /\ UNCHANGED <<vars, written>>

PollStop(f) ==
    /\ fol[f].poll = "grace"
    /\ fol' = [fol EXCEPT ![f].poll = "done", ![f].stop = TRUE]
    /\ UNCHANGED <<vars, written>>

\* The select at the top of the loop: ctx.Done(), with or without cancelling
\* the task, or on to Decode.
TailSelect(f) ==
    /\ fol[f].pc = "tail"
    /\ \/ /\ ~fol[f].gone
          /\ fol' = [fol EXCEPT ![f].pc = "decode"]
          /\ UNCHANGED signalVars
       \/ /\ fol[f].gone /\ ~fol[f].cancel
          /\ fol' = [fol EXCEPT ![f].pc = "return"]
          /\ UNCHANGED signalVars
       \/ /\ fol[f].gone /\ fol[f].cancel
          /\ CloseSignal(fol[f].id)
          /\ IF ClosePanics(fol[f].id)
             THEN Fail(f, "panic")
             ELSE fol' = [fol EXCEPT ![f].pc = "return"]
    /\ UNCHANGED <<queueVars, workerVars, req, crashes, written>>

\* Decode blocks until there is a chunk or stop is closed; the client is not
\* looked at meanwhile.  A closed stop ends the tail, in the middle of a chunk
\* with an error, unless the decoder has buffered what is left.  Writing to a
\* client that has gone may fail.
TailDecode(f) ==
    LET more == fol[f].read < written[fol[f].id] IN
    /\ fol[f].pc = "decode"
    /\ \/ /\ more
          /\ fol' = [fol EXCEPT ![f].pc = "tail", ![f].read = @ + 1]
       \/ /\ more /\ fol[f].gone
          /\ Fail(f, "write")
       \/ /\ fol[f].stop
          /\ fol' = [fol EXCEPT ![f].pc = "return"]
       \/ /\ more /\ fol[f].stop
          /\ Fail(f, "decode")
    /\ UNCHANGED <<vars, written>>

-----------------------------------------------------------------------------
FollowStep(f) == GetTask(f) \/ OpenTail(f) \/ TailSelect(f) \/ TailDecode(f)

PollStep(f) == PollGone(f) \/ PollStop(f)

LogsNext ==
    \/ EngineStep
    \/ \E w \in Worker : WriteLog(w)
    \/ \E f \in Follower, id \in TaskId, c \in BOOLEAN : Follow(f, id, c)
    \/ \E f \in Follower : Disconnect(f) \/ FollowStep(f) \/ PollStep(f)

LogsSpec == LogsInit /\ [][LogsNext]_allVars

\* The fairness of Engine, restated over all variables, and goroutine fairness
\* for followers and pollers.
LogsFairness ==
    /\ \A w \in Worker : WF_allVars(WorkerStep(w) /\ UNCHANGED logVars)
    /\ \A t \in TaskId : WF_allVars(WatchStep(t) /\ UNCHANGED logVars)
    /\ \A h \in Handler : WF_allVars(HandlerStep(h) /\ UNCHANGED logVars)
    /\ WF_allVars(WriterWaits /\ UNCHANGED logVars)
    /\ \A f \in Follower : WF_allVars(FollowStep(f)) /\ WF_allVars(PollStep(f))

LogsRunnerFairness ==
    /\ \A t \in TaskId : WF_allVars(Timeout(t) /\ UNCHANGED logVars)
    /\ \A w \in Worker :
         WF_allVars(RunReturn(w) /\ ctx[tsk[w].id] # "live" /\ UNCHANGED logVars)

LogsFairSpec == LogsSpec /\ LogsFairness

-----------------------------------------------------------------------------
(***************************************************************************)
(* Properties.                                                             *)
(***************************************************************************)
FollowType ==
    [id : TaskId \cup {NoTask}, cancel : BOOLEAN,
     pc : {"idle", "wait", "open", "tail", "decode", "return", "done", "failed"},
     at : Prefix, poll : {"none", "poll", "grace", "done"}, stop : BOOLEAN,
     read : 0..MaxLines, gone : BOOLEAN,
     seen : {"none"} \cup Q!State,
     fail : {"none", "notFound", "open", "write", "decode", "panic", "lost"}]

\* Followers are where Logs can be, and have read no more than was written.
LogsTypeOK ==
    /\ written \in [TaskId -> 0..MaxLines]
    /\ fol \in [Follower -> FollowType]
    /\ \A f \in Follower : fol[f].pc # "idle" => fol[f].read <= written[fol[f].id]

\* A client that follows to the end is told how the task ended, unless the
\* task was killed: its channel is registered before its state becomes
\* "processing" and removed only after it is archived, so the poller neither
\* starts too early nor stops too early.
FollowSeesEnd ==
    \A f \in Follower :
        /\ fol[f].pc = "done" /\ ~fol[f].gone
        /\ fol[f].id \notin killed
        /\ crashes = 0
        => fol[f].seen \in {"complete", "canceled"}

\* Following a task always comes to an end, if runners return.
FollowEnds ==
    LogsRunnerFairness =>
        \A f \in Follower :
            fol[f].pc = "wait" ~> fol[f].pc \in {"done", "failed"}
=============================================================================
