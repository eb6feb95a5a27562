---------------------------- MODULE ClientProofs ----------------------------
(***************************************************************************)
(* Proofs about Client, for any command line, any number of sources,       *)
(* output pieces and restarts: the exit code can be relied on, no task is  *)
(* queued without all of its sources, and a response has one answer.       *)
(***************************************************************************)
EXTENDS Client, TLAPS

TaskType ==
    [state : {"none", "scheduled", "processing", "complete", "canceled"},
     type : {"run", "build"}, err : {"none", "failed", "canceled"},
     result : {"nil", "success", "failure", "unknown", "artifacts"}, lost : BOOLEAN]

Value == {"line", "error", "id", "piece"} \cup BOOLEAN \cup TaskType

Chunk == [t : {"p", "b", "r", "e"}, v : Value]

StateType ==
    /\ opts \in Options
    /\ cli \in {"submit", "logs", "outputs", "done"}
    /\ exit \in {"none", "ok", "error"}
    /\ upload \in [is : {"open", "closed", "aborted"}, parts : Nat]
    /\ read \in Nat
    /\ srv \in {"submit", "queued", "logs", "outputs", "refused", "ended"}
    /\ up \in BOOLEAN
    /\ answers \in Nat /\ sent \in Nat
    /\ task \in TaskType
    /\ file \in [is : {"absent", "created", "removed"}, pieces : Nat]

StreamType == stream \in Seq(Chunk)

-----------------------------------------------------------------------------
(***************************************************************************)
(* The inductive invariant.                                                *)
(***************************************************************************)

\* Nothing changes a task any more.
Over(t) == t.state \in {"complete", "canceled"} \/ t.lost

TaskOK ==
    /\ task.lost => task.state = "processing"
    /\ task.type = "build" => task.result \in {"nil", "artifacts"}

\* A handler that has not ended has not answered.
AnswerOK == OneAnswer /\ (srv # "ended" => answers = 0)

\* A body that ends has all its parts, and is read before the task is queued.
UploadOK ==
    /\ read <= upload.parts /\ upload.parts <= opts.parts
    /\ upload.is = "closed" => upload.parts = opts.parts
    /\ srv = "submit" => task = NoTask
    /\ SourcesComplete

IsAnswer(i) == stream[i].t \in {"r", "e"}

\* An answer is the last chunk of its response.
StreamOK ==
    \A i \in 1..Len(stream) : IsAnswer(i) => i = Len(stream) /\ srv = "ended"

SubmitOK ==
    cli \in {"submit", "logs"} =>
        /\ file.is = "absent" /\ file.pieces = 0
        /\ \A i \in 1..Len(stream) : stream[i].t # "b"
        /\ cli = "submit" => srv \in {"submit", "queued", "ended"}

\* The result of Logs is the task as it stays.
LogsOK ==
    cli = "logs" =>
        /\ srv \in {"logs", "ended"}
        /\ \A i \in 1..Len(stream) : stream[i].t = "r" => stream[i].v = task /\ Over(task)

\* What was collected and what is in flight is what was sent, unless the
\* connection broke, and a result that says so was sent after everything else.
OutputsOK ==
    cli = "outputs" =>
        /\ srv \in {"outputs", "refused", "ended"}
        /\ file.is = "created" /\ task.err = "none" /\ Over(task)
        /\ \A i \in 1..Len(stream) :
              /\ stream[i].t \in {"b", "r"}
              /\ stream[i].t = "r" =>
                    /\ stream[i].v \in BOOLEAN
                    /\ stream[i].v = TRUE => file.pieces + i - 1 = Pieces
        /\ srv = "outputs" /\ up => file.pieces + Len(stream) = sent

ExitOK == ExitSound /\ (cli = "done" <=> exit # "none")

Phases == SubmitOK /\ LogsOK /\ OutputsOK

Control == TaskOK /\ AnswerOK /\ UploadOK /\ StreamOK /\ Phases /\ ExitOK

CInv == StateType /\ StreamType /\ Control

-----------------------------------------------------------------------------
(***************************************************************************)
(* What writing, reading and breaking off do to the chunks in flight.      *)
(***************************************************************************)
LEMMA OneWritten ==
    ASSUME NEW s \in Seq(Chunk), NEW x \in Chunk
    PROVE  /\ s \o <<x>> \in Seq(Chunk) /\ Len(s \o <<x>>) = Len(s) + 1
           /\ \A i \in 1..Len(s) : (s \o <<x>>)[i] = s[i]
           /\ (s \o <<x>>)[Len(s) + 1] = x
OBVIOUS

LEMMA TwoWritten ==
    ASSUME NEW s \in Seq(Chunk), NEW x \in Chunk, NEW y \in Chunk
    PROVE  /\ s \o <<x, y>> \in Seq(Chunk) /\ Len(s \o <<x, y>>) = Len(s) + 2
           /\ \A i \in 1..Len(s) : (s \o <<x, y>>)[i] = s[i]
           /\ (s \o <<x, y>>)[Len(s) + 1] = x
           /\ (s \o <<x, y>>)[Len(s) + 2] = y
OBVIOUS

LEMMA OneRead ==
    ASSUME NEW s \in Seq(Chunk), s # <<>>
    PROVE  /\ Tail(s) \in Seq(Chunk) /\ Len(Tail(s)) = Len(s) - 1 /\ Len(s) \in Nat \ {0}
           /\ \A i \in 1..Len(s) - 1 : Tail(s)[i] = s[i + 1]
           /\ Head(s) = s[1]
OBVIOUS

LEMMA BrokenOff ==
    ASSUME NEW s \in Seq(Chunk), NEW k \in 0..Len(s)
    PROVE  /\ SubSeq(s, 1, k) \in Seq(Chunk) /\ Len(SubSeq(s, 1, k)) = k
           /\ \A i \in 1..k : SubSeq(s, 1, k)[i] = s[i]
OBVIOUS

-----------------------------------------------------------------------------
(***************************************************************************)
(* The steps.                                                              *)
(***************************************************************************)

\* Steps that touch nothing the invariant is about.
LEMMA Frame ==
    ASSUME CInv, UNCHANGED <<opts, cli, exit, reqVars, srv, up, stream, answers, sent, task, file>>
    PROVE  CInv'
BY DEF CInv, StateType, StreamType, Control, TaskOK, AnswerOK, OneAnswer, UploadOK,
   SourcesComplete, StreamOK, IsAnswer, Phases, SubmitOK, LogsOK, OutputsOK, ExitOK,
   ExitSound, reqVars

LEMMA WritePartStep ==
    ASSUME CInv, WritePart \/ WritePartFails
    PROVE  CInv'
<1>1. opts.parts \in Nat
  BY OptionsAssumption DEF CInv, StateType
<1>2. upload \in [is : {"open", "closed", "aborted"}, parts : Nat] /\ read \in Nat
      /\ read <= upload.parts /\ upload.parts <= opts.parts
  BY DEF CInv, StateType, Control, UploadOK
<1>3. /\ upload' \in [is : {"open", "closed", "aborted"}, parts : Nat]
      /\ read <= upload'.parts /\ upload'.parts <= opts.parts
      /\ upload'.is = "closed" => upload'.parts = opts.parts
  <2>1. CASE upload' = [upload EXCEPT !.parts = @ + 1] /\ upload.parts < opts.parts
             /\ upload.is = "open"
    BY <1>1, <1>2, <2>1
  <2>2. CASE upload' = [upload EXCEPT !.is = "closed"] /\ ~(upload.parts < opts.parts)
    BY <1>1, <1>2, <2>2
  <2>3. CASE upload' = [upload EXCEPT !.is = "aborted"]
    BY <1>1, <1>2, <2>3
  <2> QED
    BY <2>1, <2>2, <2>3 DEF WritePart, WritePartFails
<1>4. UNCHANGED <<opts, cli, exit, read, srv, up, stream, answers, sent, task, file>>
  BY DEF WritePart, WritePartFails, respVars
<1>5. StateType' /\ UploadOK'
  BY <1>3, <1>4 DEF CInv, StateType, Control, UploadOK, SourcesComplete
<1>6. StreamType' /\ TaskOK' /\ AnswerOK' /\ StreamOK' /\ Phases' /\ ExitOK'
  BY <1>4 DEF CInv, StreamType, Control, TaskOK, AnswerOK, OneAnswer, StreamOK, IsAnswer,
     Phases, SubmitOK, LogsOK, OutputsOK, ExitOK, ExitSound
<1> QED
  BY <1>5, <1>6 DEF CInv, Control

\* The client is done with an error, or without --wait.
LEMMA ExitStep ==
    ASSUME CInv, cli # "done", cli' = "done", exit' \in {"ok", "error"},
           exit' = "ok" => ~opts.wait,
           stream' \in Seq(Chunk), StreamOK', up' \in BOOLEAN, up' => up,
           UNCHANGED <<opts, reqVars, srv, answers, sent, task, file>>
    PROVE  CInv'
<1>1. StateType' /\ StreamType'
  BY DEF CInv, StateType, StreamType, reqVars
<1>2. TaskOK' /\ AnswerOK' /\ UploadOK'
  BY DEF CInv, Control, TaskOK, AnswerOK, OneAnswer, UploadOK, SourcesComplete, reqVars
<1>3. Phases'
  BY DEF Phases, SubmitOK, LogsOK, OutputsOK
<1>4. ExitOK'
  BY DEF ExitOK, ExitSound
<1> QED
  BY <1>1, <1>2, <1>3, <1>4 DEF CInv, Control

\* The chunk at the head of the stream is taken off.
LEMMA TailStream ==
    ASSUME CInv, stream # <<>>, stream' = Tail(stream), srv' = srv
    PROVE  stream' \in Seq(Chunk) /\ StreamOK'
<1>1. stream \in Seq(Chunk)
  BY DEF CInv, StreamType
<1>2. /\ stream' \in Seq(Chunk) /\ Len(stream') = Len(stream) - 1 /\ Len(stream) \in Nat \ {0}
      /\ \A i \in 1..Len(stream) - 1 : stream'[i] = stream[i + 1]
  BY <1>1, OneRead
<1>3. ASSUME NEW i \in 1..Len(stream'), stream'[i].t \in {"r", "e"}
      PROVE  i = Len(stream') /\ srv' = "ended"
  <2>1. i + 1 \in 1..Len(stream) /\ stream'[i] = stream[i + 1]
    BY <1>2
  <2>2. i + 1 = Len(stream) /\ srv = "ended"
    BY <1>3, <2>1 DEF CInv, Control, StreamOK, IsAnswer
  <2>3. i \in Int
    BY <1>2
  <2>4. Len(stream') = Len(stream) - 1
    BY <1>2
  <2>5. i = Len(stream')
    BY <2>2, <2>3, <2>4
  <2> QED
    BY <2>2, <2>5
<1>4. StreamOK'
  BY <1>3 DEF StreamOK, IsAnswer
<1> QED
  BY <1>2, <1>4

\* The judgement of a task that is over.
LEMMA Judged ==
    ASSUME CInv, Over(task), ~IsTaskOutcomeInError(task)
    PROVE  task.state = "complete" /\ task.result \notin {"failure", "unknown"}
<1>1. task \in TaskType /\ TaskOK
  BY DEF CInv, StateType, Control
<1>2. task.state \in {"complete", "canceled", "processing"} /\ task.type \in {"run", "build"}
  BY <1>1 DEF Over, TaskOK, TaskType
<1>3. DecodeTaskOutcome(task) = "success"
  BY DEF IsTaskOutcomeInError
<1>4. CASE task.state = "canceled"
  BY <1>3, <1>4 DEF DecodeTaskOutcome
<1>5. CASE task.state = "processing"
  BY <1>3, <1>5 DEF DecodeTaskOutcome
<1>6. CASE task.state = "complete" /\ task.type = "build"
  BY <1>1, <1>6 DEF TaskOK
<1>7. CASE task.state = "complete" /\ task.type = "run"
  BY <1>3, <1>7 DEF DecodeTaskOutcome, DecodeRunnerResult
<1> QED
  BY <1>2, <1>4, <1>5, <1>6, <1>7

LEMMA QueuedStep ==
    ASSUME CInv, cli = "submit", stream # <<>>, stream[1].t = "r", Queued,
           UNCHANGED <<opts, reqVars, task>>
    PROVE  CInv'
<1>1. CASE ~opts.wait /\ Exit("ok") /\ stream' = Tail(stream)
           /\ UNCHANGED <<srv, up, answers, sent, file>>
  <2>1. up' \in BOOLEAN /\ (up' => up)
    BY <1>1 DEF CInv, StateType
  <2> QED
    BY <1>1, <2>1, TailStream, ExitStep DEF Exit
<1>2. CASE NextRequest("logs") /\ UNCHANGED <<exit, file>>
  <2>1. /\ cli' = "logs" /\ srv' = "logs" /\ up' = TRUE /\ stream' = <<>> /\ answers' = 0
        /\ sent' = 0
    BY <1>2 DEF NextRequest
  <2>2. stream' \in Seq(Chunk) /\ Len(stream') = 0
    BY <2>1
  <2>3. 1..Len(stream') = {}
    BY <2>2
  <2>4. StateType' /\ StreamType'
    BY <1>2, <2>1, <2>2 DEF CInv, StateType, StreamType, reqVars
  <2>5. TaskOK' /\ AnswerOK' /\ UploadOK'
    BY <2>1 DEF CInv, Control, TaskOK, AnswerOK, OneAnswer, UploadOK, SourcesComplete, reqVars
  <2>6. StreamOK' /\ Phases'
    BY <1>2, <2>1, <2>3 DEF CInv, Control, StreamOK, Phases, SubmitOK, LogsOK, OutputsOK
  <2>7. ExitOK'
    BY <1>2, <2>1 DEF CInv, Control, ExitOK, ExitSound
  <2> QED
    BY <2>4, <2>5, <2>6, <2>7 DEF CInv, Control
<1> QED
  BY <1>1, <1>2 DEF Queued

LEMMA FinishedStep ==
    ASSUME CInv, cli = "logs", stream # <<>>, stream[1].t = "r", Finished(stream[1].v),
           UNCHANGED <<opts, reqVars, task>>
    PROVE  CInv'
<1>1. stream[1].v = task /\ Over(task)
  <2>1. 1 \in 1..Len(stream)
    BY OneRead DEF CInv, StreamType
  <2> QED
    BY <2>1 DEF CInv, Control, Phases, LogsOK
<1>2. CASE Exit("error") /\ stream' = Tail(stream)
           /\ UNCHANGED <<srv, up, answers, sent, file>>
  <2>1. up' \in BOOLEAN /\ (up' => up)
    BY <1>2 DEF CInv, StateType
  <2> QED
    BY <1>2, <2>1, TailStream, ExitStep DEF Exit
<1>3. CASE /\ task.err = "none" /\ ~opts.collect /\ ~IsTaskOutcomeInError(task)
           /\ Exit("ok") /\ stream' = Tail(stream)
           /\ UNCHANGED <<srv, up, answers, sent, file>>
  <2>1. stream' \in Seq(Chunk) /\ StreamOK'
    BY <1>3, TailStream
  <2>2. cli' = "done" /\ exit' = "ok"
    BY <1>3 DEF Exit
  <2>3. StateType' /\ StreamType'
    BY <1>3, <2>1, <2>2 DEF CInv, StateType, StreamType, reqVars
  <2>4. TaskOK' /\ AnswerOK' /\ UploadOK'
    BY <1>3 DEF CInv, Control, TaskOK, AnswerOK, OneAnswer, UploadOK, SourcesComplete, reqVars
  <2>5. Phases'
    BY <2>2 DEF Phases, SubmitOK, LogsOK, OutputsOK
  <2>6. ExitOK'
    BY <1>1, <1>3, <2>2, Judged DEF ExitOK, ExitSound
  <2> QED
    BY <2>1, <2>3, <2>4, <2>5, <2>6 DEF CInv, Control
<1>4. CASE /\ task.err = "none" /\ opts.collect /\ NextRequest("outputs")
           /\ file' = [file EXCEPT !.is = "created"] /\ UNCHANGED exit
  <2>1. /\ cli' = "outputs" /\ srv' = "outputs" /\ up' = TRUE /\ stream' = <<>>
        /\ answers' = 0 /\ sent' = 0
    BY <1>4 DEF NextRequest
  <2>2. stream' \in Seq(Chunk) /\ Len(stream') = 0
    BY <2>1
  <2>3. 1..Len(stream') = {}
    BY <2>2
  <2>4. file.pieces = 0
    BY DEF CInv, Control, Phases, SubmitOK
  <2>5. file \in [is : {"absent", "created", "removed"}, pieces : Nat]
    BY DEF CInv, StateType
  <2>6. /\ file' \in [is : {"absent", "created", "removed"}, pieces : Nat]
        /\ file'.is = "created" /\ file'.pieces = 0
    BY <1>4, <2>4, <2>5
  <2>7. StateType' /\ StreamType'
    BY <1>4, <2>1, <2>2, <2>6 DEF CInv, StateType, StreamType, reqVars
  <2>8. TaskOK' /\ AnswerOK' /\ UploadOK'
    BY <2>1 DEF CInv, Control, TaskOK, AnswerOK, OneAnswer, UploadOK, SourcesComplete, reqVars
  <2>9. StreamOK' /\ Phases'
    BY <1>1, <1>4, <2>1, <2>2, <2>3, <2>6
       DEF StreamOK, Phases, SubmitOK, LogsOK, OutputsOK, Over
  <2>10. ExitOK'
    BY <1>4, <2>1 DEF CInv, Control, ExitOK, ExitSound
  <2> QED
    BY <2>7, <2>8, <2>9, <2>10 DEF CInv, Control
<1> QED
  BY <1>1, <1>2, <1>3, <1>4 DEF Finished

LEMMA CollectedStep ==
    ASSUME CInv, cli = "outputs", stream # <<>>, stream[1].t = "r",
           Collected(stream[1].v, task), UNCHANGED <<opts, reqVars, task>>
    PROVE  CInv'
<1>1. /\ Over(task) /\ task.err = "none" /\ file.is = "created"
      /\ stream[1].v \in BOOLEAN /\ (stream[1].v = TRUE => file.pieces = Pieces)
  <2>1. 1 \in 1..Len(stream)
    BY OneRead DEF CInv, StreamType
  <2>2. file.pieces \in Nat
    BY DEF CInv, StateType
  <2>3. stream[1].v = TRUE => file.pieces + 1 - 1 = Pieces
    BY <2>1 DEF CInv, Control, Phases, OutputsOK
  <2> QED
    BY <2>1, <2>2, <2>3 DEF CInv, Control, Phases, OutputsOK
<1>2. stream' \in Seq(Chunk) /\ StreamOK' /\ UNCHANGED <<srv, up, answers, sent>>
  BY TailStream DEF Collected
<1>3. /\ cli' = "done" /\ exit' \in {"ok", "error"}
      /\ exit' = "ok" => ~IsTaskOutcomeInError(task)
  BY DEF Collected, Exit
<1>4. /\ file' \in [is : {"absent", "created", "removed"}, pieces : Nat]
      /\ file'.is = "removed" \/ (file'.is = "created" /\ file'.pieces = Pieces)
  <2>1. file \in [is : {"absent", "created", "removed"}, pieces : Nat]
    BY DEF CInv, StateType
  <2>2. CASE stream[1].v = TRUE
    BY <1>1, <2>1, <2>2 DEF Collected
  <2>3. CASE stream[1].v = FALSE
    <3>1. file' = [file EXCEPT !.is = "removed"]
      BY <2>3 DEF Collected
    <3> QED BY <2>1, <3>1
  <2> QED
    BY <1>1, <2>2, <2>3
<1>5. StateType' /\ StreamType'
  BY <1>2, <1>3, <1>4 DEF CInv, StateType, StreamType, reqVars
<1>6. TaskOK' /\ AnswerOK' /\ UploadOK'
  BY <1>2 DEF CInv, Control, TaskOK, AnswerOK, OneAnswer, UploadOK, SourcesComplete, reqVars
<1>7. Phases'
  BY <1>3 DEF Phases, SubmitOK, LogsOK, OutputsOK
<1>8. ExitOK'
  BY <1>1, <1>3, <1>4, Judged DEF ExitOK, ExitSound
<1> QED
  BY <1>2, <1>5, <1>6, <1>7, <1>8 DEF CInv, Control

LEMMA ParseStep ==
    ASSUME CInv, Parse
    PROVE  CInv'
<1>1. /\ stream \in Seq(Chunk) /\ stream # <<>> /\ cli # "done"
      /\ UNCHANGED <<opts, reqVars, task>>
  BY DEF CInv, StreamType, Parse
<1>2. Head(stream) = stream[1] /\ 1 \in 1..Len(stream) /\ stream[1] \in Chunk
  BY <1>1, OneRead
<1>3. ASSUME stream' = Tail(stream), UNCHANGED <<srv, up, answers, sent>>
      PROVE  /\ stream' \in Seq(Chunk) /\ StreamOK' /\ Len(stream') = Len(stream) - 1
             /\ Len(stream) \in Nat \ {0}
             /\ \A i \in 1..Len(stream') : i + 1 \in 1..Len(stream) /\ stream'[i] = stream[i + 1]
  <2>1. /\ Len(stream') = Len(stream) - 1 /\ Len(stream) \in Nat \ {0}
        /\ \A i \in 1..Len(stream) - 1 : stream'[i] = stream[i + 1]
    BY <1>1, <1>3, OneRead
  <2>2. stream' \in Seq(Chunk) /\ StreamOK'
    BY <1>1, <1>3, TailStream
  <2>3. \A i \in 1..Len(stream') : i + 1 \in 1..Len(stream) /\ stream'[i] = stream[i + 1]
    BY <2>1
  <2> QED
    BY <2>1, <2>2, <2>3
<1>4. CASE stream[1].t = "p" /\ stream' = Tail(stream)
           /\ UNCHANGED <<srv, up, answers, sent, cli, exit, file>>
  <2>1. cli # "outputs"
    BY <1>2, <1>4 DEF CInv, Control, Phases, OutputsOK
  <2>2. StateType' /\ StreamType'
    BY <1>1, <1>3, <1>4 DEF CInv, StateType, StreamType, reqVars
  <2>3. TaskOK' /\ AnswerOK' /\ UploadOK' /\ ExitOK'
    BY <1>1, <1>4 DEF CInv, Control, TaskOK, AnswerOK, OneAnswer, UploadOK,
       SourcesComplete, ExitOK, ExitSound, reqVars
  <2>4. Phases'
    BY <1>1, <1>3, <1>4, <2>1 DEF CInv, Control, Phases, SubmitOK, LogsOK, OutputsOK
  <2> QED
    BY <1>3, <1>4, <2>2, <2>3, <2>4 DEF CInv, Control
<1>5. CASE stream[1].t = "e" /\ stream' = Tail(stream) /\ Exit("error")
           /\ UNCHANGED <<srv, up, answers, sent, file>>
  <2>1. up' \in BOOLEAN /\ (up' => up)
    BY <1>5 DEF CInv, StateType
  <2> QED
    BY <1>1, <1>3, <1>5, <2>1, ExitStep DEF Exit
<1>6. CASE stream[1].t = "b" /\ stream' = Tail(stream)
           /\ file' = [file EXCEPT !.pieces = @ + 1]
           /\ UNCHANGED <<srv, up, answers, sent, cli, exit>>
  <2>1. cli = "outputs"
    BY <1>1, <1>2, <1>6 DEF CInv, StateType, Control, Phases, SubmitOK
  <2>2. file \in [is : {"absent", "created", "removed"}, pieces : Nat]
    BY DEF CInv, StateType
  <2>3. /\ file' \in [is : {"absent", "created", "removed"}, pieces : Nat]
        /\ file'.is = file.is /\ file'.pieces = file.pieces + 1 /\ file.pieces \in Nat
    BY <1>6, <2>2
  <2>4. StateType' /\ StreamType'
    BY <1>1, <1>3, <1>6, <2>3 DEF CInv, StateType, StreamType, reqVars
  <2>5. TaskOK' /\ AnswerOK' /\ UploadOK'
    BY <1>1, <1>6 DEF CInv, Control, TaskOK, AnswerOK, OneAnswer, UploadOK,
       SourcesComplete, reqVars
  <2>6. ExitOK'
    BY <1>1, <1>6, <2>1 DEF CInv, Control, ExitOK, ExitSound
  <2>7. ASSUME NEW i \in 1..Len(stream')
        PROVE  /\ stream'[i].t \in {"b", "r"}
               /\ stream'[i].t = "r" =>
                    /\ stream'[i].v \in BOOLEAN
                    /\ stream'[i].v = TRUE => file'.pieces + i - 1 = Pieces
    <3>1. i + 1 \in 1..Len(stream) /\ stream'[i] = stream[i + 1] /\ i \in Int
      BY <1>3, <1>6
    <3>2. file.pieces + (i + 1) - 1 = file'.pieces + i - 1
      BY <2>3, <3>1
    <3> QED
      BY <2>1, <3>1, <3>2 DEF CInv, Control, Phases, OutputsOK
  <2>8. srv' = "outputs" /\ up' => file'.pieces + Len(stream') = sent'
    <3>1. file'.pieces + Len(stream') = file.pieces + Len(stream)
      BY <1>3, <1>6, <2>3
    <3> QED
      BY <1>6, <2>1, <3>1 DEF CInv, Control, Phases, OutputsOK
  <2>9. OutputsOK'
    <3>1. srv' \in {"outputs", "refused", "ended"} /\ file'.is = "created" /\ task'.err = "none"
          /\ Over(task')
      BY <1>1, <1>6, <2>1, <2>3 DEF CInv, Control, Phases, OutputsOK
    <3> QED
      BY <2>7, <2>8, <3>1 DEF OutputsOK, Over
  <2>10. Phases'
    BY <1>6, <2>1, <2>9 DEF Phases, SubmitOK, LogsOK
  <2> QED
    BY <1>3, <1>6, <2>4, <2>5, <2>6, <2>10 DEF CInv, Control
<1>7. CASE stream[1].t = "r" /\ cli = "submit" /\ Queued
  BY <1>1, <1>7, QueuedStep
<1>8. CASE stream[1].t = "r" /\ cli = "logs" /\ Finished(stream[1].v)
  BY <1>1, <1>8, FinishedStep
<1>9. CASE stream[1].t = "r" /\ cli = "outputs" /\ Collected(stream[1].v, task)
  BY <1>1, <1>9, CollectedStep
<1> QED
  BY <1>2, <1>4, <1>5, <1>6, <1>7, <1>8, <1>9 DEF Parse

LEMMA ClientEndsStep ==
    ASSUME CInv, ParseEOF \/ ClientFails
    PROVE  CInv'
<1>1. /\ cli # "done" /\ cli' = "done" /\ exit' = "error"
      /\ UNCHANGED <<opts, reqVars, srv, answers, sent, task, file, stream>>
      /\ up' = up \/ up' = FALSE
  BY DEF ParseEOF, ClientFails, Exit, respVars
<1>2. up' \in BOOLEAN /\ (up' => up) /\ stream' \in Seq(Chunk)
  <2>1. up \in BOOLEAN /\ stream' \in Seq(Chunk)
    BY <1>1 DEF CInv, StateType, StreamType
  <2>2. CASE up' = up
    BY <2>1, <2>2
  <2>3. CASE up' = FALSE
    BY <2>1, <2>3
  <2> QED
    BY <1>1, <2>2, <2>3
<1>3. StreamOK'
  BY <1>1 DEF CInv, Control, StreamOK, IsAnswer
<1> QED
  BY <1>1, <1>2, <1>3, ExitStep

-----------------------------------------------------------------------------
(***************************************************************************)
(* The daemon's steps.                                                     *)
(***************************************************************************)

\* A handler writes an error, after a line of progress, and ends.
LEMMA ErrorStep ==
    ASSUME CInv, srv \in {"submit", "logs"}, srv' = "ended", WriteError,
           UNCHANGED <<opts, cli, exit, up, reqVars, task, file>>
    PROVE  CInv'
<1> DEFINE p == [t |-> "p", v |-> "line"]
           e == [t |-> "e", v |-> "error"]
<1>1. stream \in Seq(Chunk) /\ Len(stream) \in Nat
  BY DEF CInv, StreamType
<1>2. p \in Chunk /\ e \in Chunk /\ p.t = "p" /\ e.t = "e"
  BY DEF Chunk, Value
<1>3. stream' = stream \/ stream' = stream \o <<p, e>>
  BY DEF WriteError, Write
<1> HIDE DEF p, e
<1>4. /\ stream' \in Seq(Chunk)
      /\ Len(stream') = Len(stream) \/ Len(stream') = Len(stream) + 2
      /\ \A i \in 1..Len(stream) : stream'[i] = stream[i]
      /\ Len(stream') = Len(stream) + 2 =>
           stream'[Len(stream) + 1] = p /\ stream'[Len(stream) + 2] = e
  <2>1. CASE stream' = stream
    BY <1>1, <2>1
  <2>2. CASE stream' = stream \o <<p, e>>
    BY <1>1, <1>2, <2>2, TwoWritten
  <2> QED
    BY <1>3, <2>1, <2>2
<1>5. \A i \in 1..Len(stream) : stream[i].t \notin {"r", "e"}
  BY DEF CInv, Control, StreamOK, IsAnswer
<1>6. ASSUME NEW i \in 1..Len(stream')
      PROVE  \/ i \in 1..Len(stream) /\ stream'[i].t = stream[i].t /\ stream'[i].t \notin {"r", "e"}
             \/ stream'[i].t = "p"
             \/ i = Len(stream') /\ stream'[i].t = "e"
  <2>1. CASE i \in 1..Len(stream)
    BY <1>4, <1>5, <2>1
  <2>2. CASE i \notin 1..Len(stream)
    <3>1. Len(stream') = Len(stream) + 2 /\ (i = Len(stream) + 1 \/ i = Len(stream) + 2)
      BY <1>1, <1>4, <2>2
    <3> QED
      BY <1>2, <1>4, <3>1
  <2> QED
    BY <2>1, <2>2
<1>7. StreamOK'
  BY <1>6 DEF StreamOK, IsAnswer
<1>8. answers' = 1 /\ sent' = sent /\ answers = 0
  BY DEF WriteError, CInv, Control, AnswerOK
<1>9. StateType' /\ StreamType'
  BY <1>4, <1>8 DEF CInv, StateType, StreamType, reqVars
<1>10. TaskOK' /\ AnswerOK' /\ UploadOK' /\ ExitOK'
  BY <1>8 DEF CInv, Control, TaskOK, AnswerOK, OneAnswer, UploadOK, SourcesComplete,
     ExitOK, ExitSound, reqVars
<1>11. cli # "outputs"
  BY DEF CInv, Control, Phases, OutputsOK
<1>12. Phases'
  BY <1>6, <1>11 DEF CInv, Control, Phases, SubmitOK, LogsOK, OutputsOK
<1> QED
  BY <1>7, <1>9, <1>10, <1>12 DEF CInv, Control

\* A handler writes one more chunk x, and goes on or ends.
LEMMA ChunkWritten ==
    ASSUME CInv, srv # "ended", NEW x \in Chunk, Write(<<x>>)
    PROVE  /\ stream' \in Seq(Chunk) /\ Len(stream) \in Nat
           /\ \/ ~up /\ Len(stream') = Len(stream)
              \/ up /\ Len(stream') = Len(stream) + 1
           /\ \A i \in 1..Len(stream') :
                \/ i \in 1..Len(stream) /\ stream'[i] = stream[i]
                     /\ stream[i].t \notin {"r", "e"}
                \/ i = Len(stream') /\ i = Len(stream) + 1 /\ stream'[i] = x /\ up
<1>1. stream \in Seq(Chunk) /\ Len(stream) \in Nat
  BY DEF CInv, StreamType
<1>2. \A i \in 1..Len(stream) : stream[i].t \notin {"r", "e"}
  BY DEF CInv, Control, StreamOK, IsAnswer
<1>3. CASE ~up
  <2>1. stream' = stream
    BY <1>3 DEF Write
  <2> QED
    BY <1>1, <1>2, <1>3, <2>1
<1>4. CASE up
  <2>1. stream' = stream \o <<x>>
    BY <1>4 DEF Write
  <2>2. /\ stream' \in Seq(Chunk) /\ Len(stream') = Len(stream) + 1
        /\ \A i \in 1..Len(stream) : stream'[i] = stream[i]
        /\ stream'[Len(stream) + 1] = x
    BY <1>1, <2>1, OneWritten
  <2>3. \A i \in 1..Len(stream') : i \in 1..Len(stream) \/ i = Len(stream) + 1
    BY <1>1, <2>2
  <2> QED
    BY <1>1, <1>2, <1>4, <2>2, <2>3
<1> QED
  BY <1>3, <1>4

\* A handler writes its result and ends.
LEMMA ResultStep ==
    ASSUME CInv, srv \in {"queued", "logs", "outputs"}, srv' = "ended",
           NEW v \in Value, WriteResult(v),
           srv = "logs" => v = task /\ Over(task),
           srv = "outputs" => v \in BOOLEAN /\ (v = TRUE => sent = Pieces),
           UNCHANGED <<opts, cli, exit, up, reqVars, task, file>>
    PROVE  CInv'
<1> DEFINE x == [t |-> "r", v |-> v]
<1>1. x \in Chunk /\ x.t = "r" /\ x.v = v
  BY DEF Chunk
<1>2. Write(<<x>>) /\ answers' = 1 /\ sent' = sent
  BY DEF WriteResult, CInv, Control, AnswerOK
<1> HIDE DEF x
<1>3. /\ stream' \in Seq(Chunk) /\ Len(stream) \in Nat
      /\ \A i \in 1..Len(stream') :
            \/ i \in 1..Len(stream) /\ stream'[i] = stream[i]
                 /\ stream[i].t \notin {"r", "e"}
            \/ i = Len(stream') /\ i = Len(stream) + 1 /\ stream'[i] = x /\ up
  BY <1>1, <1>2, ChunkWritten
<1>4. StreamOK'
  BY <1>3 DEF StreamOK, IsAnswer
<1>5. StateType' /\ StreamType'
  BY <1>2, <1>3 DEF CInv, StateType, StreamType, reqVars
<1>6. TaskOK' /\ AnswerOK' /\ UploadOK' /\ ExitOK'
  BY <1>2 DEF CInv, Control, TaskOK, AnswerOK, OneAnswer, UploadOK, SourcesComplete,
     ExitOK, ExitSound, reqVars
<1>7. SubmitOK' /\ LogsOK'
  BY <1>1, <1>3 DEF CInv, Control, Phases, SubmitOK, LogsOK, Over
<1>8. OutputsOK'
  <2> SUFFICES ASSUME cli = "outputs" PROVE OutputsOK'
    BY DEF OutputsOK
  <2>1. /\ srv = "outputs" /\ file.is = "created" /\ task.err = "none" /\ Over(task)
        /\ \A i \in 1..Len(stream) : stream[i].t \in {"b", "r"}
        /\ up => file.pieces + Len(stream) = sent
    BY DEF CInv, Control, Phases, OutputsOK
  <2>2. file.pieces \in Nat
    BY DEF CInv, StateType
  <2>3. ASSUME NEW i \in 1..Len(stream')
        PROVE  /\ stream'[i].t \in {"b", "r"}
               /\ stream'[i].t = "r" =>
                    /\ stream'[i].v \in BOOLEAN
                    /\ stream'[i].v = TRUE => file.pieces + i - 1 = Pieces
    <3>1. CASE i \in 1..Len(stream) /\ stream'[i] = stream[i] /\ stream[i].t \notin {"r", "e"}
      BY <2>1, <3>1
    <3>2. CASE i = Len(stream) + 1 /\ stream'[i] = x /\ up
      <4>1. file.pieces + i - 1 = file.pieces + Len(stream)
        BY <1>3, <2>2, <3>2
      <4> QED
        BY <1>1, <2>1, <3>2, <4>1
    <3> QED
      BY <1>3, <3>1, <3>2
  <2> QED
    BY <2>1, <2>3 DEF OutputsOK, Over
<1> QED
  BY <1>4, <1>5, <1>6, <1>7, <1>8 DEF CInv, Control, Phases

LEMMA ReadPartStep ==
    ASSUME CInv, ReadPart
    PROVE  CInv'
<1>1. CASE read < upload.parts /\ read' = read + 1 /\ UNCHANGED respVars
  <2>1. UNCHANGED <<opts, cli, exit, upload, srv, up, stream, answers, sent, task, file>>
        /\ srv = "submit"
    BY <1>1 DEF ReadPart, respVars
  <2>2. read \in Nat /\ upload.parts \in Nat
    BY DEF CInv, StateType
  <2>3. read' \in Nat /\ read' <= upload.parts
    BY <1>1, <2>2
  <2>4. StateType' /\ StreamType'
    BY <2>1, <2>3 DEF CInv, StateType, StreamType
  <2>5. task.state = "none"
    BY <2>1 DEF CInv, Control, UploadOK, NoTask
  <2>6. UploadOK'
    BY <2>1, <2>3, <2>5 DEF CInv, Control, UploadOK, SourcesComplete
  <2>7. TaskOK' /\ AnswerOK' /\ StreamOK' /\ Phases' /\ ExitOK'
    BY <2>1 DEF CInv, Control, TaskOK, AnswerOK, OneAnswer, StreamOK, IsAnswer,
       Phases, SubmitOK, LogsOK, OutputsOK, ExitOK, ExitSound
  <2> QED
    BY <2>4, <2>6, <2>7 DEF CInv, Control
<1>2. CASE srv' = "ended" /\ WriteError /\ UNCHANGED <<up, read>>
  BY <1>2, ErrorStep DEF ReadPart, reqVars
<1> QED
  BY <1>1, <1>2 DEF ReadPart

\* The task moves on: it was not over, and nobody relies on it.
LEMMA TaskMoves ==
    ASSUME CInv, task' \in TaskType, ~Over(task),
           task'.lost => task'.state = "processing",
           task'.type = "build" => task'.result \in {"nil", "artifacts"},
           srv' = "submit" => task' = NoTask,
           task'.state # "none" => read = opts.parts,
           srv' = srv \/ (srv = "submit" /\ srv' = "queued"),
           UNCHANGED <<opts, cli, exit, reqVars, up, stream, answers, sent, file>>
    PROVE  CInv'
<1>1. StateType' /\ StreamType'
  BY DEF CInv, StateType, StreamType, reqVars
<1>2. TaskOK'
  BY DEF TaskOK
<1>3. AnswerOK' /\ UploadOK'
  BY DEF CInv, Control, AnswerOK, OneAnswer, UploadOK, SourcesComplete, reqVars
<1>4. StreamOK'
  BY DEF CInv, Control, StreamOK, IsAnswer
<1>5. SubmitOK' /\ LogsOK' /\ OutputsOK'
  BY DEF CInv, Control, Phases, SubmitOK, LogsOK, OutputsOK
<1>6. ExitOK'
  BY DEF CInv, Control, ExitOK, ExitSound, Over
<1> QED
  BY <1>1, <1>2, <1>3, <1>4, <1>5, <1>6 DEF CInv, Control, Phases

LEMMA NoTaskType == NoTask \in TaskType /\ ~Over(NoTask) /\ NoTask.result = "nil"
                    /\ NoTask.lost = FALSE
BY DEF NoTask, TaskType, Over

LEMMA QueueStep ==
    ASSUME CInv, Queue
    PROVE  CInv'
<1>1. /\ srv = "submit" /\ srv' = "queued" /\ task = NoTask /\ read = upload.parts
      /\ upload.is = "closed"
      /\ UNCHANGED <<opts, cli, exit, reqVars, up, stream, answers, sent, file>>
  BY DEF Queue, ServerRest, CInv, Control, UploadOK
<1>2. read = opts.parts
  BY <1>1 DEF CInv, Control, UploadOK
<1>3. opts.type \in {"run", "build"}
  BY OptionsAssumption DEF CInv, StateType
<1>4. /\ task' \in TaskType /\ task'.lost = NoTask.lost /\ task'.result = NoTask.result
      /\ task'.state = "scheduled"
  BY <1>3, NoTaskType DEF Queue, TaskType
<1> QED
  BY <1>1, <1>2, <1>4, NoTaskType, TaskMoves

LEMMA TaskStep ==
    ASSUME CInv, TaskStarts \/ TaskEnds
    PROVE  CInv'
<1>1. /\ task \in TaskType /\ task.state \in {"scheduled", "processing"}
      /\ UNCHANGED <<opts, cli, exit, reqVars, srv, up, stream, answers, sent, file>>
  BY DEF TaskStarts, TaskEnds, respVars, CInv, StateType
<1>2. TaskOK /\ read = opts.parts /\ srv # "submit"
  BY <1>1 DEF CInv, Control, UploadOK, SourcesComplete, NoTask
<1>3. CASE TaskStarts
  <2>1. task.state = "scheduled" /\ task' = [task EXCEPT !.state = "processing"]
    BY <1>3 DEF TaskStarts
  <2>2. /\ task' \in TaskType /\ task'.state = "processing" /\ task'.lost = task.lost
        /\ task'.type = task.type /\ task'.result = task.result
    BY <1>1, <2>1 DEF TaskType
  <2>3. ~Over(task)
    BY <1>2, <2>1 DEF TaskOK, Over
  <2> QED
    BY <1>1, <1>2, <2>2, <2>3, TaskMoves DEF TaskOK
<1>4. CASE TaskEnds
  <2>1. PICK e \in {"none", "failed", "canceled"},
             r \in {"nil", "success", "failure", "unknown", "artifacts"} :
          /\ task.type = "build" => r = IF e = "none" THEN "artifacts" ELSE "nil"
          /\ task' = [task EXCEPT !.err = e, !.result = r,
                         !.state = IF e = "canceled" THEN "canceled" ELSE "complete"]
    BY <1>4 DEF TaskEnds
  <2>2. ~task.lost /\ task.state = "processing"
    BY <1>4 DEF TaskEnds
  <2>3. /\ task' \in TaskType /\ task'.lost = task.lost /\ task'.type = task.type
        /\ task'.result = r
    BY <1>1, <2>1 DEF TaskType
  <2>4. ~Over(task)
    BY <2>2 DEF Over
  <2> QED
    BY <1>1, <1>2, <2>1, <2>2, <2>3, <2>4, TaskMoves
<1> QED
  BY <1>3, <1>4

LEMMA ServeLogsStep ==
    ASSUME CInv, ServeLogs
    PROVE  CInv'
<1>1. srv = "logs" /\ UNCHANGED <<opts, cli, exit, up, reqVars, task, file>>
  BY DEF ServeLogs, ServerRest
<1>2. CASE (task.state \in {"complete", "canceled"} \/ task.lost)
           /\ srv' = "ended" /\ WriteResult(task)
  <2>1. task \in Value /\ Over(task)
    BY <1>2 DEF Over, CInv, StateType, Value
  <2> QED
    BY <1>1, <1>2, <2>1, ResultStep
<1>3. CASE WriteProgress /\ srv' = IF up THEN srv ELSE "ended"
  <2> DEFINE x == [t |-> "p", v |-> "line"]
  <2>1. x \in Chunk /\ x.t = "p"
    BY DEF Chunk, Value
  <2>2. Write(<<x>>) /\ answers' = answers /\ sent' = sent
    BY <1>3 DEF WriteProgress
  <2> HIDE DEF x
  <2>3. /\ stream' \in Seq(Chunk)
        /\ \A i \in 1..Len(stream') :
              \/ i \in 1..Len(stream) /\ stream'[i] = stream[i]
                   /\ stream[i].t \notin {"r", "e"}
              \/ stream'[i] = x
    BY <1>1, <2>1, <2>2, ChunkWritten
  <2>4. StreamOK'
    BY <2>1, <2>3 DEF StreamOK, IsAnswer
  <2>5. (srv' = "logs" /\ up) \/ (srv' = "ended" /\ ~up)
    BY <1>1, <1>3
  <2>6. StateType' /\ StreamType'
    BY <1>1, <2>2, <2>3, <2>5 DEF CInv, StateType, StreamType, reqVars
  <2>7. TaskOK' /\ AnswerOK' /\ UploadOK' /\ ExitOK'
    BY <1>1, <2>2, <2>5 DEF CInv, Control, TaskOK, AnswerOK, OneAnswer, UploadOK,
       SourcesComplete, ExitOK, ExitSound, reqVars
  <2>8. cli # "outputs" /\ cli # "submit"
    BY <1>1 DEF CInv, Control, Phases, SubmitOK, OutputsOK
  <2>9. Phases'
    BY <1>1, <2>1, <2>3, <2>5, <2>8 DEF CInv, Control, Phases, SubmitOK, LogsOK, OutputsOK
  <2> QED
    BY <2>4, <2>6, <2>7, <2>9 DEF CInv, Control
<1> QED
  BY <1>2, <1>3 DEF ServeLogs

LEMMA ServeOutputsStep ==
    ASSUME CInv, ServeOutputs
    PROVE  CInv'
<1>1. srv = "outputs" /\ UNCHANGED <<opts, cli, exit, up, reqVars, task, file>>
  BY DEF ServeOutputs, ServerRest
<1>2. CASE sent = Pieces /\ srv' = "ended" /\ WriteResult(TRUE)
  <2>1. TRUE \in Value /\ TRUE \in BOOLEAN
    BY DEF Value
  <2> QED
    BY <1>1, <1>2, <2>1, ResultStep
<1>3. CASE /\ Write(<<[t |-> "b", v |-> "piece"]>>) /\ sent' = sent + 1
           /\ srv' = (IF up THEN srv ELSE "ended") /\ answers' = answers
  <2> DEFINE x == [t |-> "b", v |-> "piece"]
  <2>1. x \in Chunk /\ x.t = "b" /\ Write(<<x>>)
    BY <1>3 DEF Chunk, Value
  <2> HIDE DEF x
  <2>2. /\ stream' \in Seq(Chunk) /\ Len(stream) \in Nat
        /\ up => Len(stream') = Len(stream) + 1
        /\ \A i \in 1..Len(stream') :
              \/ i \in 1..Len(stream) /\ stream'[i] = stream[i]
                   /\ stream[i].t \notin {"r", "e"}
              \/ stream'[i] = x
    BY <1>1, <2>1, ChunkWritten
  <2>3. StreamOK'
    BY <2>1, <2>2 DEF StreamOK, IsAnswer
  <2>4. (srv' = "outputs" /\ up) \/ (srv' = "ended" /\ ~up)
    BY <1>1, <1>3
  <2>5. StateType' /\ StreamType'
    BY <1>1, <1>3, <2>2, <2>4 DEF CInv, StateType, StreamType, reqVars
  <2>6. TaskOK' /\ AnswerOK' /\ UploadOK' /\ ExitOK'
    BY <1>1, <1>3, <2>4 DEF CInv, Control, TaskOK, AnswerOK, OneAnswer, UploadOK,
       SourcesComplete, ExitOK, ExitSound, reqVars
  <2>7. cli \notin {"submit", "logs"}
    BY <1>1 DEF CInv, Control, Phases, SubmitOK, LogsOK
  <2>8. OutputsOK'
    <3> SUFFICES ASSUME cli = "outputs" PROVE OutputsOK'
      BY <1>1 DEF OutputsOK
    <3>1. /\ file.is = "created" /\ task.err = "none" /\ Over(task)
          /\ \A i \in 1..Len(stream) : stream[i].t \in {"b", "r"}
          /\ up => file.pieces + Len(stream) = sent
      BY <1>1 DEF CInv, Control, Phases, OutputsOK
    <3>2. \A i \in 1..Len(stream') : stream'[i].t = "b"
      BY <2>1, <2>2, <3>1
    <3>3. up => file.pieces + Len(stream') = sent'
      <4>1. file.pieces \in Nat
        BY DEF CInv, StateType
      <4> SUFFICES ASSUME up PROVE file.pieces + Len(stream') = sent'
        OBVIOUS
      <4>2. Len(stream) \in Nat /\ Len(stream') = Len(stream) + 1
        BY <2>2
      <4>3. sent' = sent + 1 /\ file.pieces + Len(stream) = sent
        BY <1>3, <3>1
      <4> QED
        BY <4>1, <4>2, <4>3
    <3> QED
      BY <1>1, <2>4, <3>1, <3>2, <3>3 DEF OutputsOK, Over
  <2>9. Phases'
    BY <1>1, <2>7, <2>8 DEF Phases, SubmitOK, LogsOK
  <2> QED
    BY <2>3, <2>5, <2>6, <2>9 DEF CInv, Control
<1> QED
  BY <1>2, <1>3 DEF ServeOutputs

LEMMA HandlerStep ==
    ASSUME CInv, AnswerQueued \/ HandlerFails
    PROVE  CInv'
<1>1. srv' = "ended" /\ UNCHANGED <<opts, cli, exit, up, reqVars, task, file>>
  BY DEF AnswerQueued, HandlerFails, ServerRest
<1>2. CASE srv = "queued" /\ WriteResult("id")
  <2>1. "id" \in Value
    BY DEF Value
  <2> QED
    BY <1>1, <1>2, <2>1, ResultStep
<1>3. CASE srv \in {"submit", "logs"} /\ WriteError
  BY <1>1, <1>3, ErrorStep
<1>4. CASE srv = "outputs" /\ WriteResult(FALSE)
  <2>1. FALSE \in Value /\ FALSE \in BOOLEAN /\ FALSE # TRUE
    BY DEF Value
  <2> QED
    BY <1>1, <1>4, <2>1, ResultStep
<1> QED
  BY <1>2, <1>3, <1>4 DEF AnswerQueued, HandlerFails

\* A request for outputs is refused.
LEMMA RefusedStep ==
    ASSUME CInv, OutputsRefused
    PROVE  CInv'
<1>1. /\ srv = "outputs" /\ sent = 0 /\ srv' = "refused"
      /\ UNCHANGED <<opts, cli, exit, reqVars, up, stream, answers, sent, task, file>>
  BY DEF OutputsRefused, ServerRest
<1>2. StateType' /\ StreamType'
  BY <1>1 DEF CInv, StateType, StreamType, reqVars
<1>3. TaskOK' /\ AnswerOK' /\ UploadOK' /\ ExitOK'
  BY <1>1 DEF CInv, Control, TaskOK, AnswerOK, OneAnswer, UploadOK, SourcesComplete,
     ExitOK, ExitSound, reqVars
<1>4. StreamOK'
  BY <1>1 DEF CInv, Control, StreamOK, IsAnswer
<1>5. SubmitOK' /\ LogsOK' /\ OutputsOK'
  BY <1>1 DEF CInv, Control, Phases, SubmitOK, LogsOK, OutputsOK, Over
<1> QED
  BY <1>2, <1>3, <1>4, <1>5 DEF CInv, Control, Phases

LEMMA DropStep ==
    ASSUME CInv, Drop
    PROVE  CInv'
<1>1. /\ up' = FALSE
      /\ UNCHANGED <<opts, cli, exit, reqVars, srv, answers, sent, task, file>>
  BY DEF Drop
<1>2. PICK k \in 0..Len(stream) : stream' = SubSeq(stream, 1, k)
  BY DEF Drop
<1>3. stream \in Seq(Chunk) /\ Len(stream) \in Nat
  BY DEF CInv, StreamType
<1>4. stream' \in Seq(Chunk) /\ Len(stream') = k /\ \A i \in 1..k : stream'[i] = stream[i]
  BY <1>2, <1>3, BrokenOff
<1>5. \A i \in 1..Len(stream') : i \in 1..Len(stream) /\ stream'[i] = stream[i] /\ i <= Len(stream')
  BY <1>2, <1>3, <1>4
<1>6. StreamOK'
  <2>1. ASSUME NEW i \in 1..Len(stream'), stream'[i].t \in {"r", "e"}
        PROVE  i = Len(stream') /\ srv' = "ended"
    <3>1. i = Len(stream) /\ srv = "ended"
      BY <1>5, <2>1 DEF CInv, Control, StreamOK, IsAnswer
    <3>2. i \in Int /\ i <= k /\ k <= Len(stream) /\ k \in Int
      BY <1>2, <1>3, <1>4
    <3> QED
      BY <1>1, <1>3, <1>4, <3>1, <3>2
  <2> QED
    BY <2>1 DEF StreamOK, IsAnswer
<1>7. StateType' /\ StreamType'
  BY <1>1, <1>4 DEF CInv, StateType, StreamType, reqVars
<1>8. TaskOK' /\ AnswerOK' /\ UploadOK' /\ ExitOK'
  BY <1>1 DEF CInv, Control, TaskOK, AnswerOK, OneAnswer, UploadOK, SourcesComplete,
     ExitOK, ExitSound, reqVars
<1>9. SubmitOK' /\ LogsOK' /\ OutputsOK'
  BY <1>1, <1>5 DEF CInv, Control, Phases, SubmitOK, LogsOK, OutputsOK, Over
<1> QED
  BY <1>6, <1>7, <1>8, <1>9 DEF CInv, Control, Phases

LEMMA CrashStep ==
    ASSUME CInv, Crash
    PROVE  CInv'
<1>1. /\ up' = FALSE /\ srv' = "ended"
      /\ UNCHANGED <<opts, cli, exit, reqVars, stream, answers, sent, file>>
  BY DEF Crash
<1>2. task \in TaskType /\ TaskOK
  BY DEF CInv, StateType, Control
<1>3. /\ task' \in TaskType
      /\ task'.state = task.state /\ task'.type = task.type /\ task'.err = task.err
      /\ task'.result = task.result /\ (task'.lost <=> task.state = "processing")
  BY <1>2 DEF Crash, TaskType
<1>4. Over(task) => task' = task
  <2>1. ASSUME Over(task) PROVE task.lost = (task.state = "processing")
    BY <1>2, <2>1 DEF Over, TaskOK, TaskType
  <2>2. ASSUME task.lost = (task.state = "processing") PROVE task' = task
    BY <1>2, <2>2 DEF Crash, TaskType
  <2> QED
    BY <2>1, <2>2
<1>5. StateType' /\ StreamType' /\ TaskOK'
  BY <1>1, <1>2, <1>3 DEF CInv, StateType, StreamType, reqVars, TaskOK
<1>6. AnswerOK' /\ UploadOK' /\ ExitOK'
  BY <1>1, <1>3 DEF CInv, Control, AnswerOK, OneAnswer, UploadOK, SourcesComplete,
     ExitOK, ExitSound, reqVars
<1>7. StreamOK'
  BY <1>1 DEF CInv, Control, StreamOK, IsAnswer
<1>8. SubmitOK' /\ LogsOK' /\ OutputsOK'
  BY <1>1, <1>4 DEF CInv, Control, Phases, SubmitOK, LogsOK, OutputsOK
<1> QED
  BY <1>5, <1>6, <1>7, <1>8 DEF CInv, Control, Phases

-----------------------------------------------------------------------------
(***************************************************************************)
(* The theorems.                                                           *)
(***************************************************************************)
LEMMA InitCInv == Init => CInv
<1> SUFFICES ASSUME Init PROVE CInv
  OBVIOUS
<1>1. stream \in Seq(Chunk) /\ Len(stream) = 0
  BY DEF Init
<1>2. 1..Len(stream) = {}
  BY <1>1
<1>3. opts.parts \in Nat
  BY OptionsAssumption DEF Init
<1>4. StateType /\ StreamType
  BY <1>1, NoTaskType DEF Init, StateType, StreamType
<1>5. TaskOK /\ AnswerOK /\ UploadOK /\ ExitOK
  BY <1>3, NoTaskType DEF Init, TaskOK, AnswerOK, OneAnswer, UploadOK, SourcesComplete,
     ExitOK, ExitSound, NoTask
<1>6. StreamOK /\ Phases
  BY <1>2 DEF Init, StreamOK, Phases, SubmitOK, LogsOK, OutputsOK
<1> QED
  BY <1>4, <1>5, <1>6 DEF CInv, Control

LEMMA NextCInv == CInv /\ [Next]_vars => CInv'
<1> SUFFICES ASSUME CInv, [Next]_vars PROVE CInv'
  OBVIOUS
<1>1. CASE UNCHANGED vars
  BY <1>1, Frame DEF vars, respVars
<1>2. CASE Download \/ Downloading \/ DownloadFails \/ BrowserGone
  <2>1. UNCHANGED <<opts, cli, exit, reqVars, srv, up, stream, answers, sent, task, file>>
    BY <1>2 DEF Download, Downloading, DownloadPiece, DownloadReturn, DownloadParse,
       DownloadFails, BrowserGone, DownloadRest, respVars
  <2> QED
    BY <2>1, Frame
<1> QED
  BY <1>1, <1>2, WritePartStep, ParseStep, ClientEndsStep, ReadPartStep, QueueStep,
     HandlerStep, RefusedStep, ServeLogsStep, ServeOutputsStep, TaskStep, DropStep, CrashStep
     DEF Next, ClientStep, Serve

\* The inductive invariant of the client and the daemon: where each of them is,
\* what is in flight between them, and the task and the file they are about.
THEOREM ClientInvariance == Spec => []CInv
<1>1. Spec => Init /\ [][Next]_vars
  BY PTL DEF Spec
<1> QED
  BY <1>1, InitCInv, NextCInv, PTL

\* A client that waited exits with zero only if the task was archived as a
\* success and, where it was to collect, it has all of the outputs or was told
\* that there are none (pkg/cmd/run.go, build.go, pkg/data).
THEOREM ExitCodesAreSound == Spec => []ExitSound
<1>1. CInv => ExitSound
  BY DEF CInv, Control, ExitOK
<1> QED
  BY <1>1, ClientInvariance, PTL

\* No task is queued with only some of its sources, wherever the upload breaks.
THEOREM QueuedSourcesAreComplete == Spec => []SourcesComplete
<1>1. CInv => SourcesComplete
  BY DEF CInv, Control, UploadOK
<1> QED
  BY <1>1, ClientInvariance, PTL

\* A response has at most one result or error, and has one when its handler has
\* ended and the connection held (pkg/rpc/chunk.go), unless the outputs handler
\* refused a request it could not decode: then there is none, and no piece of the
\* archive either (pkg/daemon/outputs.go).
THEOREM ResponsesHaveOneAnswer == Spec => []OneAnswer
<1>1. CInv => OneAnswer
  BY DEF CInv, Control, AnswerOK
<1> QED
  BY <1>1, ClientInvariance, PTL
=============================================================================
