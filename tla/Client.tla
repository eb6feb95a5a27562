------------------------------- MODULE Client -------------------------------
(***************************************************************************)
(* `testground run` and `testground build` against the daemon: the client  *)
(* uploads the request with its sources, reads the id of the queued task,  *)
(* follows the task's logs to its end, collects the outputs, and turns all *)
(* that into an exit code (pkg/cmd, pkg/client, pkg/rpc, pkg/data and the  *)
(* POST handlers of pkg/daemon).  Beside it a browser downloads outputs    *)
(* through the daemon's own pipe (GET /outputs).                           *)
(*                                                                         *)
(* A response is a stream of chunks: progress "p", binary "b", and a last  *)
(* one, result "r" or error "e".  A chunk is written under the             *)
(* OutputWriter's lock, in one piece.  The connection may break at any     *)
(* time, with any of the chunks in flight lost; the daemon may restart.    *)
(* What happens to the task in the queue and its worker is in Engine, how  *)
(* Logs follows it in EngineLogs; here a task just gets its outcome.       *)
(***************************************************************************)
EXTENDS Integers, Sequences, FiniteSets

CONSTANTS
    Options,       \* the command lines: [type, wait, collect, parts]
    Pieces,        \* binary chunks the outputs of a run take
    MaxProgress,   \* bound on the progress chunks of one response
    MaxCrashes,    \* bound on daemon restarts
    Faults         \* whether calls may fail and connections break

ASSUME OptionsAssumption ==
    \A o \in Options : /\ o.type \in {"run", "build"} /\ o.parts \in Nat
                       /\ o.wait \in BOOLEAN /\ o.collect \in BOOLEAN
ASSUME PiecesAssumption == Pieces \in Nat \ {0}
ASSUME ClientBounds == MaxProgress \in Nat /\ MaxCrashes \in Nat /\ Faults \in BOOLEAN

VARIABLES
    opts,     \* the command line
    cli,      \* what the client is doing
    exit,     \* its exit code
    upload,   \* the multipart body: how it stands, and the parts written to it
    read,     \* the parts the daemon has read and unpacked
    srv,      \* the handler of the current request
    up,       \* whether the connection of the current request is up
    stream,   \* its chunks in flight
    answers,  \* result and error chunks the handler wrote (history)
    progress, \* progress chunks the handler wrote (history)
    sent,     \* binary chunks the handler wrote
    task,     \* the stored task
    file,     \* the collected file, and the pieces in it
    dl,       \* the download
    crashes

reqVars == <<upload, read>>
respVars == <<srv, up, stream, answers, progress, sent>>
vars == <<opts, cli, exit, reqVars, respVars, task, file, dl, crashes>>

NoTask == [state |-> "none", type |-> "run", err |-> "none", result |-> "nil",
           lost |-> FALSE]

Init ==
    /\ opts \in Options
    /\ cli = "submit" /\ exit = "none"
    /\ upload = [is |-> "open", parts |-> 0]
    /\ read = 0
    /\ srv = "submit" /\ up = TRUE
    /\ stream = <<>> /\ answers = 0 /\ progress = 0 /\ sent = 0
    /\ task = NoTask
    /\ file = [is |-> "absent", pieces |-> 0]
    /\ dl = [h |-> "idle", parser |-> "none", sent |-> 0, browser |-> TRUE]
    /\ crashes = 0

-----------------------------------------------------------------------------
(***************************************************************************)
(* How a finished task is judged (pkg/data).                               *)
(***************************************************************************)
\* A missing result, as local:exec returns, leaves the default.
DecodeRunnerResult(result) == IF result = "nil" THEN "success" ELSE result

DecodeTaskOutcome(t) ==
    CASE t.state = "canceled" -> "canceled"
      [] t.state \in {"processing", "scheduled"} -> "unknown"
      [] t.state = "complete" /\ t.type = "build" -> "success"
      [] t.state = "complete" /\ t.type = "run" -> DecodeRunnerResult(t.result)

\* Mutant: only a failure is an error.
IsFailure(t) == DecodeTaskOutcome(t) = "failure"

IsTaskOutcomeInError(t) == DecodeTaskOutcome(t) # "success"

-----------------------------------------------------------------------------
(***************************************************************************)
(* The client.                                                             *)
(***************************************************************************)
Exit(code) == cli' = "done" /\ exit' = code

\* runBuild's goroutine writes the next part of the body: the request, then the
\* zipped plan, sdk and extra directories.
WritePart ==
    /\ cli = "submit" /\ up
    /\ upload.is = "open"
    /\ upload' = IF upload.parts < opts.parts
                 THEN [upload EXCEPT !.parts = @ + 1]
                 ELSE [upload EXCEPT !.is = "closed"]
    /\ UNCHANGED <<opts, cli, exit, read, respVars, task, file, dl, crashes>>

\* Mutant: the pipe is closed without the error.
WritePartFailsQuietly ==
    /\ cli = "submit" /\ up /\ Faults
    /\ upload.is = "open"
    /\ upload' = [upload EXCEPT !.is = "closed"]
    /\ UNCHANGED <<opts, cli, exit, read, respVars, task, file, dl, crashes>>

\* A directory cannot be zipped: CloseWithError breaks the body off.
WritePartFails ==
    /\ cli = "submit" /\ up /\ Faults
    /\ upload.is = "open"
    /\ upload' = [upload EXCEPT !.is = "aborted"]
    /\ UNCHANGED <<opts, cli, exit, read, respVars, task, file, dl, crashes>>

\* The client sends its next request, on a stream of its own.
NextRequest(to) ==
    /\ cli' = to /\ srv' = to
    /\ up' = TRUE /\ stream' = <<>>
    /\ answers' = 0 /\ progress' = 0 /\ sent' = 0

\* The id of the task: without --wait that is all.
Queued ==
    /\ \/ /\ ~opts.wait
          /\ Exit("ok")
          /\ stream' = Tail(stream)
          /\ UNCHANGED <<srv, up, answers, progress, sent>>
       \/ opts.wait /\ NextRequest("logs") /\ UNCHANGED exit
    /\ UNCHANGED file

\* The task as Logs returned it: an error, or an outcome other than success, is
\* the client's error; otherwise a run may go on to collect, once it could
\* create the file.  An outcome is judged after collecting.
Finished(t) ==
    \/ /\ t.err # "none" \/ (~opts.collect /\ IsTaskOutcomeInError(t))
       /\ Exit("error")
       /\ stream' = Tail(stream)
       /\ UNCHANGED <<srv, up, answers, progress, sent, file>>
    \/ /\ t.err = "none" /\ ~opts.collect /\ ~IsTaskOutcomeInError(t)
       /\ Exit("ok")
       /\ stream' = Tail(stream)
       /\ UNCHANGED <<srv, up, answers, progress, sent, file>>
    \/ /\ t.err = "none" /\ opts.collect
       /\ NextRequest("outputs")
       /\ file' = [file EXCEPT !.is = "created"]
       /\ UNCHANGED exit

\* collect's result: there is nothing to collect, and the file is removed, or
\* it is there.  The exit code is the task's.
Collected(exists, t) ==
    /\ file' = IF exists THEN file ELSE [file EXCEPT !.is = "removed"]
    /\ Exit(IF IsTaskOutcomeInError(t) THEN "error" ELSE "ok")
    /\ stream' = Tail(stream)
    /\ UNCHANGED <<srv, up, answers, progress, sent>>

\* One turn of parseGeneric.
Parse ==
    /\ cli # "done" /\ stream # <<>>
    /\ LET chunk == Head(stream)
           rest == stream' = Tail(stream) /\ UNCHANGED <<srv, up, answers, progress, sent>> IN
       \/ chunk.t = "p" /\ rest /\ UNCHANGED <<cli, exit, file>>
       \/ chunk.t = "e" /\ rest /\ Exit("error") /\ UNCHANGED file
       \/ /\ chunk.t = "b" /\ rest
          /\ file' = [file EXCEPT !.pieces = @ + 1]
          /\ UNCHANGED <<cli, exit>>
       \/ chunk.t = "r" /\ cli = "submit" /\ Queued
       \/ chunk.t = "r" /\ cli = "logs" /\ Finished(chunk.v)
       \/ chunk.t = "r" /\ cli = "outputs" /\ Collected(chunk.v, task)
    /\ UNCHANGED <<opts, reqVars, task, dl, crashes>>

\* Mutant: the end of a response that was broken off is waited for.
ParseEOFOfAnswer ==
    /\ cli # "done" /\ stream = <<>>
    /\ srv \in {"ended", "refused"} /\ up
    /\ Exit("error")
    /\ UNCHANGED <<opts, reqVars, respVars, task, file, dl, crashes>>

\* The response has a status of 400, or ends or is broken off without a result.
ParseEOF ==
    /\ cli # "done" /\ stream = <<>>
    /\ srv \in {"ended", "refused"} \/ ~up
    /\ Exit("error")
    /\ UNCHANGED <<opts, reqVars, respVars, task, file, dl, crashes>>

\* A request or a file operation fails, or the user interrupts: the process
\* ends and its connection with it.
ClientFails ==
    /\ Faults /\ cli # "done"
    /\ Exit("error")
    /\ up' = FALSE
    /\ UNCHANGED <<opts, reqVars, srv, stream, answers, progress, sent, task, file, dl,
                   crashes>>

-----------------------------------------------------------------------------
(***************************************************************************)
(* The daemon's handlers.  A write to a broken connection is an error.     *)
(***************************************************************************)
Write(chunks) == stream' = IF up THEN stream \o chunks ELSE stream

WriteProgress ==
    /\ Write(<<[t |-> "p", v |-> "line"]>>)
    /\ progress' = progress + 1
    /\ UNCHANGED <<answers, sent>>

\* WriteError logs the error, which makes a progress chunk, and writes it.
WriteError ==
    /\ Write(<<[t |-> "p", v |-> "line"], [t |-> "e", v |-> "error"]>>)
    /\ answers' = answers + 1
    /\ UNCHANGED <<progress, sent>>

WriteResult(v) ==
    /\ Write(<<[t |-> "r", v |-> v]>>)
    /\ answers' = answers + 1
    /\ UNCHANGED <<progress, sent>>

ServerRest == UNCHANGED <<opts, cli, exit, up, file, dl, crashes>>

\* consumeRunBuildRequest reads and unpacks a part.  A body that breaks off is
\* not a body that ends.
ReadPart ==
    /\ srv = "submit"
    /\ \/ /\ read < upload.parts
          /\ read' = read + 1
          /\ UNCHANGED respVars
       \/ /\ upload.is = "aborted" \/ (~up /\ upload.is # "closed")
          /\ srv' = "ended" /\ WriteError
          /\ UNCHANGED <<up, read>>
    /\ UNCHANGED <<opts, cli, exit, upload, task, file, dl, crashes>>

\* The body has ended: QueueBuild or QueueRun.
Queue ==
    /\ srv = "submit"
    /\ read = upload.parts /\ upload.is = "closed"
    /\ task' = [NoTask EXCEPT !.state = "scheduled", !.type = opts.type]
    /\ srv' = "queued"
    /\ ServerRest /\ UNCHANGED <<reqVars, stream, answers, progress, sent>>

AnswerQueued ==
    /\ srv = "queued"
    /\ srv' = "ended" /\ WriteResult("id")
    /\ ServerRest /\ UNCHANGED <<reqVars, task>>

\* Engine.Logs and its handler, which returns the task when its channel is gone.
ServeLogs ==
    /\ srv = "logs"
    /\ \/ /\ task.state # "scheduled" /\ progress < MaxProgress
          /\ WriteProgress
          /\ srv' = IF up THEN srv ELSE "ended"
       \/ /\ task.state \in {"complete", "canceled"} \/ task.lost
          /\ srv' = "ended" /\ WriteResult(task)
    /\ ServerRest /\ UNCHANGED <<reqVars, task>>

\* DoCollectOutputs streams the archive; then a deferred call writes the result.
ServeOutputs ==
    /\ srv = "outputs"
    /\ \/ /\ sent < Pieces
          /\ Write(<<[t |-> "b", v |-> "piece"]>>)
          /\ sent' = sent + 1
          /\ srv' = IF up THEN srv ELSE "ended"
          /\ UNCHANGED <<answers, progress>>
       \/ sent = Pieces /\ srv' = "ended" /\ WriteResult(TRUE)
    /\ ServerRest /\ UNCHANGED <<reqVars, task>>

\* Mutant: the result is not deferred, and an error leaves the response without.
HandlerFailsSilently ==
    /\ Faults
    /\ \/ srv \in {"submit", "logs"} /\ WriteError
       \/ srv = "outputs" /\ UNCHANGED <<stream, answers, progress, sent>>
    /\ srv' = "ended"
    /\ ServerRest /\ UNCHANGED <<reqVars, task>>

\* A handler fails: a part cannot be unpacked, the queue is full, the log file
\* is not there yet, the task has been deleted.  An error while collecting is
\* only logged, and the deferred result is FALSE.
HandlerFails ==
    /\ Faults
    /\ \/ srv \in {"submit", "logs"} /\ WriteError
       \/ srv = "outputs" /\ WriteResult(FALSE)
    /\ srv' = "ended"
    /\ ServerRest /\ UNCHANGED <<reqVars, task>>

\* The outputs handler cannot decode its request: it answers with a status of
\* 400, before there is an OutputWriter and a deferred result.
OutputsRefused ==
    /\ Faults
    /\ srv = "outputs" /\ sent = 0
    /\ srv' = "refused"
    /\ ServerRest /\ UNCHANGED <<reqVars, stream, answers, progress, sent, task>>

-----------------------------------------------------------------------------
(***************************************************************************)
(* GET /outputs: the handler collects into a pipe, and a goroutine parses  *)
(* what comes out and writes it to the browser.  Nobody closes the pipe.   *)
(***************************************************************************)
DownloadRest == UNCHANGED <<opts, cli, exit, reqVars, respVars, task, file, crashes>>

Download ==
    /\ dl.h = "idle" /\ task.state # "none"
    /\ dl' = [dl EXCEPT !.h = "collect", !.parser = "read"]
    /\ DownloadRest

\* A write to the pipe returns when the parser has taken it.
DownloadPiece ==
    /\ dl.h = "collect" /\ dl.sent < Pieces /\ dl.parser = "read"
    /\ dl' = [dl EXCEPT !.sent = @ + 1, !.parser = "write"]
    /\ DownloadRest

DownloadReturn ==
    /\ dl.h = "collect" /\ dl.sent = Pieces
    /\ dl' = [dl EXCEPT !.h = "ended"]
    /\ DownloadRest

DownloadFails ==
    /\ Faults /\ dl.h = "collect"
    /\ dl' = [dl EXCEPT !.h = "ended"]
    /\ DownloadRest

\* Mutant: the parser takes the first chunk for the last.
DownloadParseOnce ==
    /\ dl.parser = "write"
    /\ dl' = [dl EXCEPT !.parser = "gone"]
    /\ DownloadRest

\* The parser gives up when it cannot write to the browser.
DownloadParse ==
    /\ dl.parser = "write"
    /\ dl' = [dl EXCEPT !.parser = IF dl.browser THEN "read" ELSE "gone"]
    /\ DownloadRest

BrowserGone ==
    /\ Faults /\ dl.h = "collect" /\ dl.browser
    /\ dl' = [dl EXCEPT !.browser = FALSE]
    /\ DownloadRest

-----------------------------------------------------------------------------
(***************************************************************************)
(* The task, the network, the daemon.                                      *)
(***************************************************************************)
TaskStarts ==
    /\ task.state = "scheduled"
    /\ task' = [task EXCEPT !.state = "processing"]
    /\ UNCHANGED <<opts, cli, exit, reqVars, respVars, file, dl, crashes>>

\* What the worker archives (Engine!Outcomes).
TaskEnds ==
    /\ task.state = "processing" /\ ~task.lost
    /\ \E e \in {"none", "failed", "canceled"},
          r \in {"nil", "success", "failure", "unknown", "artifacts"} :
         /\ task.type = "run" => r # "artifacts"
         /\ task.type = "build" => r = IF e = "none" THEN "artifacts" ELSE "nil"
         /\ task' = [task EXCEPT !.err = e, !.result = r,
                        !.state = IF e = "canceled" THEN "canceled" ELSE "complete"]
    /\ UNCHANGED <<opts, cli, exit, reqVars, respVars, file, dl, crashes>>

\* The connection breaks; some of what is in flight arrives.
Drop ==
    /\ Faults /\ up
    /\ up' = FALSE
    /\ \E k \in 0..Len(stream) : stream' = SubSeq(stream, 1, k)
    /\ UNCHANGED <<opts, cli, exit, reqVars, srv, answers, progress, sent, task, file,
                   dl, crashes>>

\* A restart; a task that was running stays as it is for good.
Crash ==
    /\ crashes < MaxCrashes
    /\ crashes' = crashes + 1
    /\ up' = FALSE /\ srv' = "ended"
    /\ task' = [task EXCEPT !.lost = (task.state = "processing")]
    /\ dl' = [dl EXCEPT !.h = IF @ = "idle" THEN @ ELSE "ended", !.parser = "none"]
    /\ UNCHANGED <<opts, cli, exit, reqVars, stream, answers, progress, sent, file>>

-----------------------------------------------------------------------------
ClientStep == WritePart \/ Parse \/ ParseEOF
Serve == ReadPart \/ Queue \/ AnswerQueued \/ ServeLogs \/ ServeOutputs
Downloading == DownloadPiece \/ DownloadReturn \/ DownloadParse

Next ==
    \/ ClientStep \/ WritePartFails \/ ClientFails
    \/ Serve \/ HandlerFails \/ OutputsRefused
    \/ Download \/ Downloading \/ DownloadFails \/ BrowserGone
    \/ TaskStarts \/ TaskEnds
    \/ Drop \/ Crash

\* Processes that can go on do, and workers start and finish tasks (Engine,
\* EveryTaskArchived); nothing has to fail.
Spec == /\ Init /\ [][Next]_vars
        /\ WF_vars(ClientStep) /\ WF_vars(Serve) /\ WF_vars(Downloading)
        /\ WF_vars(TaskStarts) /\ WF_vars(TaskEnds)

-----------------------------------------------------------------------------
\* What each side may be doing; the client has an exit code when it is done, and
\* the daemon has read no part that was not written.
TypeOK ==
    /\ opts \in Options
    /\ cli \in {"submit", "logs", "outputs", "done"}
    /\ exit \in {"none", "ok", "error"} /\ (cli = "done" <=> exit # "none")
    /\ upload.is \in {"open", "closed", "aborted"}
    /\ read <= upload.parts /\ upload.parts <= opts.parts
    /\ srv \in {"submit", "queued", "logs", "outputs", "refused", "ended"}
    /\ up \in BOOLEAN /\ sent \in 0..Pieces /\ progress \in 0..MaxProgress
    /\ file.is \in {"absent", "created", "removed"} /\ file.pieces \in 0..Pieces
    /\ dl.h \in {"idle", "collect", "ended"} /\ dl.sent \in 0..Pieces
    /\ dl.parser \in {"none", "read", "write", "gone"}

\* The exit code of `run --wait` and `build --wait` can be relied on: it is zero
\* only if the task was archived as complete, without an error and with an
\* outcome that is not a failure, whatever broke or restarted on the way; and a
\* client that collected has the whole archive, or has removed the file because
\* the daemon said that it had collected nothing.
ExitSound ==
    exit = "ok" /\ opts.wait =>
        /\ task.state = "complete" /\ task.err = "none"
        /\ task.result \notin {"failure", "unknown"}
        /\ opts.collect =>
            file.is = "removed" \/ (file.is = "created" /\ file.pieces = Pieces)

\* No task is queued with only some of its sources: an upload that breaks off,
\* on the client's side or in the network, is refused.
SourcesComplete == task.state # "none" => read = opts.parts

\* "Exactly 1 `result` or `error` chunk before EOF" (chunk.go), from the handlers
\* of build, run, logs and outputs, however they fail on the way, in every
\* response but one: when the outputs handler could not decode its request, the
\* response has a status of 400, no answer and no piece of the archive.
OneAnswer ==
    /\ answers <= 1
    /\ srv = "ended" /\ up => answers = 1
    /\ srv = "refused" => answers = 0 /\ sent = 0

\* The command ends, with an error if need be, although connections break and
\* the daemon restarts under it.
ClientEnds == <>(cli = "done")

\* A download ends as long as the browser waits for it.
DownloadEnds == dl.h = "collect" ~> (dl.h = "ended" \/ ~dl.browser)
=============================================================================
