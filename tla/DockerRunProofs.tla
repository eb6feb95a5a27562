-------------------------- MODULE DockerRunProofs --------------------------
(***************************************************************************)
(* Proofs about the local:docker runner, for any composition, any rate     *)
(* limit and whichever calls of Docker and of the sync service fail.       *)
(***************************************************************************)
EXTENDS DockerRun, FiniteSetTheorems, TLAPS

LiveStates == {"absent", "created", "running", "exited", "removed"}
StartStates == {"none", "start", "ok", "failed"}
NetworkStates == {"none", "up", "lost"}
RemovalStates == {"none", "queued", "ok", "failed", "received"}
Answers == {"nil", "error", "ctx"}

Types ==
    /\ pc \in Pc /\ network \in NetworkStates /\ failed \in BOOLEAN
    /\ todo \in Seq(Container) /\ list \in SUBSET Container
    /\ live \in [Container -> LiveStates]
    /\ start \in [Container -> StartStates] /\ started \in Seq(Container)
    /\ msg \in [waiter : {"error"}, sidecar : {"error"}, tailer : Answers]
    /\ doneCh \in Seq(Answers)
    /\ removal \in [Container -> RemovalStates]
    /\ loop \in [left : Nat, again : BOOLEAN]

\* What is counted was said, and the verdict is about all instances.
OutcomeOK ==
    /\ events \subseteq said /\ counted \subseteq said /\ said \subseteq Container
    /\ outcome = "success" => said = Container

Received == {c \in Container : removal[c] = "received"}
Survivors == {c \in Received : live[c] # "removed"}
Extra == IF loop.again \/ Survivors # {} THEN 1 ELSE 0

\* DeleteContainers has received an answer for each iteration that is over, and
\* one more since a removal failed.
DeleteOK ==
    pc = "delete" =>
        /\ \A c \in list : removal[c] # "none"
        /\ loop.again => loop.left > 0
        /\ Cardinality(Received) + loop.left >= Cardinality(list) + Extra

RemoveOK ==
    /\ \A c \in Container : live[c] # "absent" => c \in list
    /\ \A c \in Container : removal[c] # "none" => c \in list
    /\ \A c \in Container : removal[c] = "ok" => live[c] = "removed"
    /\ pc \notin {"delete", "rmnet", "done"} => \A c \in Container : removal[c] = "none"
    /\ pc \in {"setup", "network"} => network = "none"
    /\ pc \in {"setup", "network", "merge"} => list = {}
    /\ DeleteOK
    /\ pc = "rmnet" => \A c \in Container : live[c] \in {"absent", "removed"}
    /\ NothingLeft

Passed(c) == c \in said
InStarted(c) == \E i \in 1..Len(started) : started[i] = c

\* What the container log tailer's nil stands for.
Finished ==
    ctx = "live" /\ (\A c \in list : start[c] = "ok") => \A c \in list : Passed(c)

\* A container that was started is on its way to the pretty printer, or read by
\* it, or its success was read, or it counts as failed.
TailOK ==
    /\ pc = "select" /\ ctx = "live" /\ tailer \in {"recv", "wait"}
       /\ (\A c \in Container : start[c] # "failed")
       => \A c \in Container : start[c] = "ok" =>
             InStarted(c) \/ c \in managed \/ Passed(c) \/ failed
    /\ tailer = "wait" => started = <<>> /\ StartedClosed

AnswerOK ==
    /\ tailer \in {"send", "done"} /\ msg.tailer = "nil" => StartedClosed /\ Finished
    /\ \A i \in 1..Len(doneCh) : doneCh[i] = "nil" => tailer = "done" /\ msg.tailer = "nil"
    /\ pc \in {"join", "delete"} /\ err = "nil" /\ waiter # "none" =>
          StartedClosed /\ Finished

StartOK ==
    /\ \A c \in Container : start[c] # "none" => c \in list
    /\ StartedClosed => \A c \in list : start[c] \in {"ok", "failed"}
    /\ waiter = "none" => tailer = "none" /\ \A c \in Container : start[c] = "none"
    /\ pc \in {"setup", "network", "merge", "create", "subscribe"} => waiter = "none"

FinishOK == TailOK /\ AnswerOK /\ StartOK

DInv == Types /\ OutcomeOK /\ RemoveOK /\ FinishOK

-----------------------------------------------------------------------------
(***************************************************************************)
(* Containers and their order.                                             *)
(***************************************************************************)
LEMMA ContainersFinite == IsFiniteSet(Container) /\ Cardinality(Container) \in Nat
<1>1. IsFiniteSet(1..NGroups) /\ IsFiniteSet(1..Size)
  BY SizeAssumption, FS_Interval
<1>2. IsFiniteSet((1..NGroups) \X (1..Size))
  BY <1>1, FS_Product
<1> QED
  BY <1>2, FS_CardinalityType DEF Container

LEMMA SubsetOfContainers ==
    ASSUME NEW S \in SUBSET Container
    PROVE  IsFiniteSet(S) /\ Cardinality(S) \in Nat
BY ContainersFinite, FS_Subset, FS_CardinalityType

\* InOrder lists containers.
LEMMA InOrderContainers == InOrder \in Seq(Container)
<1> DEFINE n == NGroups * Size
           at(k) == <<1 + ((k - 1) \div Size), 1 + ((k - 1) % Size)>>
<1>1. n \in Nat /\ NGroups \in Nat /\ Size \in Nat
  BY SizeAssumption
<1>2. ASSUME NEW k \in 1..n
      PROVE  Size > 0
  BY <1>1
<1>3. ASSUME NEW k \in 1..n
      PROVE  /\ (k - 1) \div Size \in Nat /\ (k - 1) % Size \in 0..(Size - 1)
             /\ k - 1 = Size * ((k - 1) \div Size) + ((k - 1) % Size)
  BY <1>1, <1>2
<1>4. ASSUME NEW k \in 1..n
      PROVE  (k - 1) \div Size < NGroups
  <2> DEFINE q == (k - 1) \div Size
  <2>1. q \in Nat /\ k - 1 >= Size * q
    BY <1>1, <1>3
  <2> HIDE DEF q
  <2>2. ASSUME q >= NGroups PROVE FALSE
    <3>1. Size * q >= Size * NGroups
      BY <1>1, <2>1, <2>2
    <3> QED
      BY <1>1, <2>1, <3>1
  <2> QED
    BY <1>1, <2>1, <2>2 DEF q
<1>5. ASSUME NEW k \in 1..n PROVE at(k) \in Container
  BY <1>1, <1>3, <1>4 DEF Container
<1>6. InOrder = [k \in 1..n |-> at(k)]
  BY DEF InOrder
<1> HIDE DEF n, at
<1> QED
  BY <1>1, <1>5, <1>6

-----------------------------------------------------------------------------
(***************************************************************************)
(* The types.                                                              *)
(***************************************************************************)
LEMMA TypesInit == Init => Types
<1> SUFFICES ASSUME Init PROVE Types
  OBVIOUS
<1>1. /\ pc \in Pc /\ network \in NetworkStates /\ failed \in BOOLEAN
      /\ list \in SUBSET Container /\ todo \in Seq(Container)
  BY InOrderContainers DEF Init, Pc, NetworkStates
<1>2. /\ live \in [Container -> LiveStates] /\ start \in [Container -> StartStates]
      /\ removal \in [Container -> RemovalStates]
  BY DEF Init, LiveStates, StartStates, RemovalStates
<1>3. started \in Seq(Container) /\ doneCh \in Seq(Answers)
  BY DEF Init
<1>4. msg \in [waiter : {"error"}, sidecar : {"error"}, tailer : Answers]
  BY DEF Init, Answers
<1>5. loop \in [left : Nat, again : BOOLEAN]
  BY DEF Init
<1> QED
  BY <1>1, <1>2, <1>3, <1>4, <1>5 DEF Types

\* The end of Run: what is left is to remove the containers that it knows of.
LEMMA UnwindTypes ==
    ASSUME Types, Unwind
    PROVE  /\ pc' \in Pc /\ network' \in NetworkStates
           /\ removal' \in [Container -> RemovalStates]
           /\ loop' \in [left : Nat, again : BOOLEAN]
<1>1. Cardinality(list) \in Nat
  BY SubsetOfContainers DEF Types
<1>2. CASE cfg.keep
  BY <1>2 DEF Types, Unwind, Return, removeVars, Pc
<1>3. CASE ~cfg.keep
  <2>1. /\ pc' \in Pc /\ network' \in NetworkStates
        /\ removal' \in [Container -> RemovalStates]
    BY <1>3 DEF Types, Unwind, Pc, RemovalStates
  <2>2. loop' = [left |-> Cardinality(list), again |-> FALSE]
    BY <1>3 DEF Unwind
  <2> QED
    BY <1>1, <2>1, <2>2
<1> QED
  BY <1>2, <1>3

LEMMA CreateTypes ==
    ASSUME Types, CreateContainer
    PROVE  Types'
<1> DEFINE c == Head(todo)
           rest == SubSeq(todo, 2 + Size - c[2], Len(todo))
<1>1. todo \in Seq(Container) /\ todo # <<>> /\ c \in Container /\ Size \in Nat
  BY SizeAssumption DEF Types, CreateContainer
<1>2. c[2] \in 1..Size
  BY <1>1 DEF Container
<1>3. Tail(todo) \in Seq(Container) /\ rest \in Seq(Container)
  <2> HIDE DEF c
  <2>1. 2 + Size - c[2] \in Nat /\ 2 + Size - c[2] >= 2
    BY <1>1, <1>2
  <2>2. PICK k \in Nat : k = 2 + Size - c[2] /\ k >= 2
    BY <2>1
  <2>3. SubSeq(todo, k, Len(todo)) \in Seq(Container)
    BY <1>1, <2>2
  <2> QED
    BY <1>1, <2>2, <2>3
<1>4. todo' \in {Tail(todo), rest} /\ list' \in {list, list \cup {c}}
      /\ live' \in {live, [live EXCEPT ![c] = "created"]}
  BY DEF CreateContainer
<1> HIDE DEF c, rest
<1>5. todo' \in Seq(Container) /\ list' \in SUBSET Container
      /\ live' \in [Container -> LiveStates]
  BY <1>1, <1>3, <1>4 DEF Types, LiveStates
<1> QED
  BY <1>5 DEF Types, CreateContainer, startVars, removeVars

LEMMA LoopTypes ==
    ASSUME NEW l \in [left : Nat, again : BOOLEAN], l.left > 0
    PROVE  /\ [l EXCEPT !.again = TRUE] \in [left : Nat, again : BOOLEAN]
           /\ [left |-> l.left - 1, again |-> FALSE] \in [left : Nat, again : BOOLEAN]
<1>1. [l EXCEPT !.again = TRUE] \in [left : Nat, again : BOOLEAN]
  OBVIOUS
<1>2. [left |-> l.left - 1, again |-> FALSE] \in [left : Nat, again : BOOLEAN]
  OBVIOUS
<1> QED
  BY <1>1, <1>2

LEMMA TypesStep == ASSUME Types, Next PROVE Types'
<1>1. CASE Setup
  BY <1>1 DEF Types, Setup, dockerVars, startVars, removeVars, Pc
<1>2. CASE NewDataNetwork \/ MergeConfig
  BY <1>2 DEF Types, NewDataNetwork, MergeConfig, Return, startVars, removeVars, Pc,
              NetworkStates
<1>3. CASE CreateContainer
  BY <1>3, CreateTypes
<1>4. CASE CreateEnd
  <2>1. pc' \in Pc /\ network' \in NetworkStates /\ removal' \in [Container -> RemovalStates]
        /\ loop' \in [left : Nat, again : BOOLEAN]
    <3>1. CASE Unwind
      BY <3>1, UnwindTypes
    <3>2. CASE ~Unwind
      BY <1>4, <3>2 DEF CreateEnd, removeVars, Types, Pc
    <3> QED
      BY <3>1, <3>2
  <2> QED
    BY <1>4, <2>1 DEF Types, CreateEnd, startVars
<1>5. CASE Subscribe
  <2>1. pc' \in Pc /\ network' \in NetworkStates /\ removal' \in [Container -> RemovalStates]
        /\ loop' \in [left : Nat, again : BOOLEAN]
    <3>1. CASE Unwind
      BY <3>1, UnwindTypes
    <3>2. CASE ~Unwind
      BY <1>5, <3>2 DEF Subscribe, removeVars, Types, Pc
    <3> QED
      BY <3>1, <3>2
  <2>2. start' \in [Container -> StartStates]
    BY <1>5 DEF Types, Subscribe, StartStates
  <2> QED
    BY <1>5, <2>1, <2>2 DEF Types, Subscribe
<1>6. CASE Select
  <2>1. doneCh \in Seq(Answers)
    BY DEF Types
  <2>2. doneCh' = doneCh \/ (doneCh # <<>> /\ doneCh' = Tail(doneCh))
    BY <1>6 DEF Select
  <2>3. doneCh' \in Seq(Answers)
    BY <2>1, <2>2
  <2> QED
    BY <1>6, <2>3 DEF Types, Select, dockerVars, removeVars, Pc
<1>7. CASE Join
  <2>1. Unwind
    BY <1>7 DEF Join
  <2> QED
    BY <1>7, <2>1, UnwindTypes DEF Types, Join, startVars
<1>8. CASE DeleteEnd
  BY <1>8 DEF Types, DeleteEnd, dockerVars, startVars, removeVars, Pc
<1>9. CASE RemoveNetwork
  BY <1>9 DEF Types, RemoveNetwork, Return, startVars, removeVars, Pc, NetworkStates
<1>10. ASSUME NEW c \in Container, RemoveContainer(c) PROVE Types'
  BY <1>10 DEF Types, RemoveContainer, runVars, startVars, RemovalStates, LiveStates
<1>11. ASSUME NEW c \in Container, ReceiveRemoval(c) PROVE Types'
  <2>1. loop' \in [left : Nat, again : BOOLEAN]
    <3>1. loop \in [left : Nat, again : BOOLEAN] /\ loop.left \in Nat /\ loop.left > 0
      BY <1>11 DEF Types, ReceiveRemoval
    <3>2. \/ loop' = [loop EXCEPT !.again = TRUE]
          \/ loop' = [left |-> loop.left - 1, again |-> FALSE]
      BY <1>11 DEF ReceiveRemoval
    <3> QED
      BY <3>1, <3>2, LoopTypes
  <2> QED
    BY <1>11, <2>1 DEF Types, ReceiveRemoval, runVars, dockerVars, startVars, RemovalStates
<1>12. ASSUME NEW c \in Container, StartContainer(c) PROVE Types'
  <2>1. started' \in Seq(Container)
    <3>1. started' = started \/ started' = Append(started, c)
      BY <1>12 DEF StartContainer
    <3>2. started \in Seq(Container)
      BY DEF Types
    <3> QED
      BY <3>1, <3>2
  <2> QED
    BY <1>12, <2>1 DEF Types, StartContainer, runVars, removeVars, StartStates, LiveStates
<1>13. CASE WaiterClose
  BY <1>13 DEF Types, WaiterClose, runVars, dockerVars, removeVars
<1>14. CASE TailSidecar
  BY <1>14 DEF Types, TailSidecar, runVars, dockerVars, removeVars
<1>15. CASE TailerManage
  BY <1>15 DEF Types, TailerManage, runVars, dockerVars, removeVars, Answers
<1>16. CASE TailerEnd
  BY <1>16 DEF Types, TailerEnd, runVars, dockerVars, removeVars, Answers
<1>17. ASSUME NEW c \in Container, PrettyEnd(c) \/ PrettyCut(c) PROVE Types'
  <2>1. failed' \in BOOLEAN
    BY <1>17 DEF Types, PrettyEnd, PrettyCut
  <2> QED
    BY <1>17, <2>1 DEF Types, PrettyEnd, PrettyCut, runVars, dockerVars, removeVars
<1>18. CASE Send
  <2>1. doneCh' \in Seq(Answers)
    <3>1. \E a \in {msg.waiter, msg.sidecar, msg.tailer} : doneCh' = Append(doneCh, a)
      BY <1>18 DEF Send
    <3>2. {msg.waiter, msg.sidecar, msg.tailer} \subseteq Answers
      BY DEF Types, Answers
    <3> QED
      BY <3>1, <3>2 DEF Types
  <2> QED
    BY <1>18, <2>1 DEF Types, Send, runVars, dockerVars, removeVars
<1>19. CASE Collect
  BY <1>19 DEF Types, Collect, runVars, startVars, removeVars
<1>20. ASSUME NEW c \in Container, Report(c) PROVE Types'
  BY <1>20 DEF Types, Report, runVars, startVars, removeVars
<1>21. ASSUME NEW c \in Container, Exit(c) PROVE Types'
  BY <1>21 DEF Types, Exit, runVars, startVars, removeVars, LiveStates
<1>22. CASE CtxDone
  BY <1>22 DEF Types, CtxDone, runVars, dockerVars, startVars, removeVars
<1> QED
  BY <1>1, <1>2, <1>3, <1>4, <1>5, <1>6, <1>7, <1>8, <1>9, <1>10, <1>11, <1>12, <1>13,
     <1>14, <1>15, <1>16, <1>17, <1>18, <1>19, <1>20, <1>21, <1>22
     DEF Next, Main, Removals, Starts, Tailing

-----------------------------------------------------------------------------
(***************************************************************************)
(* The outcome.                                                            *)
(***************************************************************************)
LEMMA OutcomeInit == Init => OutcomeOK
BY DEF Init, OutcomeOK

\* A step that ends the run may replace the outcome by canceled, never by a success.
LEMMA OutcomeStep == ASSUME OutcomeOK, Next PROVE OutcomeOK'
<1>1. CASE /\ UNCHANGED <<events, counted, said>>
           /\ outcome' \in {outcome, "canceled"}
  BY <1>1 DEF OutcomeOK
<1>2. CASE Main
  <2>1. UNCHANGED <<events, counted, said>> /\ outcome' \in {outcome, "canceled"}
    BY <1>2 DEF Main, Setup, NewDataNetwork, MergeConfig, CreateContainer, CreateEnd, Subscribe, Select,
                Join, DeleteEnd, RemoveNetwork, Unwind, Return, dockerVars, outcomeVars
  <2> QED
    BY <1>1, <2>1
<1>3. CASE Removals \/ Starts \/ WaiterClose \/ TailSidecar \/ Tailing \/ Send \/ CtxDone
           \/ \E c \in Container : PrettyCut(c) \/ Exit(c)
  <2>1. UNCHANGED <<events, counted, said>> /\ outcome' = outcome
    BY <1>3 DEF Removals, RemoveContainer, ReceiveRemoval, Starts, StartContainer,
                WaiterClose, TailSidecar, Tailing, TailerManage, TailerEnd, PrettyEnd,
                PrettyCut, Send, CtxDone, Exit, dockerVars, outcomeVars
  <2> QED
    BY <1>1, <2>1
<1>4. CASE Collect
  BY <1>4 DEF Collect, OutcomeOK, Verdict
<1>5. ASSUME NEW c \in Container, Report(c) PROVE OutcomeOK'
  BY <1>5 DEF Report, OutcomeOK, outcomeVars
<1> QED
  BY <1>2, <1>3, <1>4, <1>5 DEF Next

-----------------------------------------------------------------------------
(***************************************************************************)
(* The clean-up.                                                           *)
(***************************************************************************)
LEMMA RemoveInit == Init => RemoveOK
BY DEF Init, RemoveOK, DeleteOK, NothingLeft

\* Steps that leave the containers alone.
LEMMA RemoveFrame ==
    ASSUME RemoveOK, UNCHANGED <<cfg, pc, list, live, network, removal, loop>>
    PROVE  RemoveOK'
BY DEF RemoveOK, DeleteOK, Extra, Survivors, Received, NothingLeft

\* A container that is not removed changes its state.
LEMMA RemoveLive ==
    ASSUME Types, RemoveOK, pc # "done", NEW c \in Container, live[c] \in {"created", "running"},
           live' \in {[live EXCEPT ![c] = "running"], [live EXCEPT ![c] = "exited"]},
           UNCHANGED <<cfg, pc, list, network, removal, loop>>
    PROVE  RemoveOK'
<1>1. /\ \A d \in Container : d # c => live'[d] = live[d]
      /\ live'[c] \in {"running", "exited"} /\ live[c] # "removed" /\ live[c] # "absent"
  BY DEF Types
<1>2. \A d \in Container : (live'[d] = "removed" <=> live[d] = "removed")
                          /\ (live'[d] = "absent" <=> live[d] = "absent")
  BY <1>1
<1>3. Received' = Received /\ Survivors' = Survivors /\ Extra' = Extra
  BY <1>2 DEF Received, Survivors, Extra
<1>4. DeleteOK'
  BY <1>3 DEF RemoveOK, DeleteOK
<1>5. pc # "rmnet"
  BY <1>1 DEF RemoveOK
<1> QED
  BY <1>2, <1>4, <1>5 DEF RemoveOK, NothingLeft

\* Run returns: if it removes anything, it is all that it knows of.
LEMMA RemoveUnwind ==
    ASSUME Types, RemoveOK, Unwind, pc \in {"create", "subscribe", "join"},
           UNCHANGED <<cfg, list, live>>
    PROVE  RemoveOK'
<1>1. CASE cfg.keep
  <2>1. pc' = "done" /\ UNCHANGED <<removal, loop, network>>
    BY <1>1 DEF Unwind, Return, removeVars
  <2> QED
    BY <1>1, <2>1 DEF RemoveOK, DeleteOK, NothingLeft
<1>2. CASE ~cfg.keep
  <2>1. /\ pc' = "delete"
        /\ removal' = [c \in Container |-> IF c \in list THEN "queued" ELSE "none"]
        /\ loop' = [left |-> Cardinality(list), again |-> FALSE]
    BY <1>2 DEF Unwind
  <2>2. Received' = {} /\ Survivors' = {}
    BY <2>1 DEF Received, Survivors
  <2>3. Cardinality(Received') = 0
    BY <2>2, FS_EmptySet
  <2>4. loop'.left = Cardinality(list') /\ loop'.again = FALSE /\ Cardinality(list') \in Nat
    BY <2>1, SubsetOfContainers DEF Types
  <2>5. Extra' = 0
    BY <2>2, <2>4 DEF Extra
  <2>6. Cardinality(Received') + loop'.left >= Cardinality(list') + Extra'
    BY <2>3, <2>4, <2>5
  <2>7. DeleteOK'
    <3>1. \A c \in list' : removal'[c] # "none"
      BY <2>1 DEF Types
    <3> QED
      BY <2>4, <2>6, <3>1 DEF DeleteOK
  <2> QED
    BY <2>1, <2>7 DEF RemoveOK, NothingLeft
<1> QED
  BY <1>1, <1>2

LEMMA RemoveContainerOK ==
    ASSUME Types, RemoveOK, NEW c \in Container, RemoveContainer(c)
    PROVE  RemoveOK'
<1>1. /\ pc = "delete" /\ removal[c] = "queued" /\ UNCHANGED <<cfg, pc, list, network, loop>>
      /\ \A d \in Container : d # c => removal'[d] = removal[d] /\ live'[d] = live[d]
      /\ removal'[c] \in {"ok", "failed"}
      /\ removal'[c] = "ok" => live'[c] = "removed"
      /\ live'[c] # "removed" => live'[c] = live[c]
  BY DEF Types, RemoveContainer, runVars
<1>2. c \in list
  BY <1>1 DEF RemoveOK
<1>3. Received' = Received /\ Survivors' = Survivors /\ Extra' = Extra
  BY <1>1 DEF Received, Survivors, Extra
<1>4. DeleteOK'
  <2>1. \A d \in list' : removal'[d] # "none"
    BY <1>1 DEF Types, RemoveOK, DeleteOK
  <2> QED
    BY <1>1, <1>3, <2>1 DEF RemoveOK, DeleteOK
<1> QED
  BY <1>1, <1>2, <1>4 DEF RemoveOK, NothingLeft

LEMMA ReceiveRemovalOK ==
    ASSUME Types, RemoveOK, NEW c \in Container, ReceiveRemoval(c)
    PROVE  RemoveOK'
<1>1. /\ pc = "delete" /\ removal[c] \in {"ok", "failed"}
      /\ UNCHANGED <<cfg, pc, list, network, live>>
      /\ removal' = [removal EXCEPT ![c] = "received"]
      /\ removal[c] = "ok" => live[c] = "removed"
  BY DEF ReceiveRemoval, runVars, dockerVars, RemoveOK
<1>2. /\ \A d \in Container : d # c => removal'[d] = removal[d]
      /\ removal'[c] = "received"
  BY <1>1 DEF Types
<1>3. Received' = Received \cup {c} /\ c \notin Received
  BY <1>1, <1>2 DEF Received
<1>4. live[c] = "removed" => Survivors' = Survivors
  BY <1>1, <1>3 DEF Survivors
<1>5. IsFiniteSet(Received) /\ Cardinality(Received) \in Nat
  BY SubsetOfContainers DEF Received
<1>6. Cardinality(Received') = Cardinality(Received) + 1
  BY <1>3, <1>5, FS_AddElement
<1>7. Cardinality(list) \in Nat /\ loop.left \in Nat /\ loop.left > 0 /\ loop.again \in BOOLEAN
  BY SubsetOfContainers DEF Types, ReceiveRemoval
<1>8. PICK n \in Nat, k \in Nat, l \in Nat :
          n = Cardinality(Received) /\ k = Cardinality(list) /\ l = loop.left
  BY <1>5, <1>7
<1>9. n + l >= k + Extra /\ (loop.again => Extra = 1) /\ Extra \in {0, 1}
  BY <1>1, <1>8 DEF RemoveOK, DeleteOK, Extra
<1>10. Extra' \in {0, 1}
  BY DEF Extra
<1>11. CASE removal[c] = "failed" /\ ~loop.again
  <2>1. loop' = [loop EXCEPT !.again = TRUE]
    BY <1>11 DEF ReceiveRemoval
  <2>2. loop'.left = l /\ loop'.again = TRUE
    BY <1>8, <2>1 DEF Types
  <2>3. Cardinality(Received') + loop'.left >= Cardinality(list') + Extra'
    BY <1>1, <1>6, <1>8, <1>9, <1>10, <2>2
  <2>4. DeleteOK'
    BY <1>1, <1>2, <1>7, <1>8, <2>2, <2>3 DEF RemoveOK, DeleteOK
  <2> QED
    BY <1>1, <1>2, <2>4 DEF RemoveOK, NothingLeft
<1>12. CASE ~(removal[c] = "failed" /\ ~loop.again)
  <2>1. loop' = [left |-> loop.left - 1, again |-> FALSE]
    BY <1>12 DEF ReceiveRemoval
  <2>2. loop'.left = l - 1 /\ loop'.again = FALSE
    BY <1>8, <2>1
  <2>3. ~loop.again => Extra' = Extra
    BY <1>1, <1>4, <1>12, <2>2 DEF Extra
  <2>4. Cardinality(Received') + loop'.left >= Cardinality(list') + Extra'
    <3>1. PICK e \in {0, 1}, f \in {0, 1} : e = Extra /\ f = Extra'
      BY <1>9, <1>10
    <3>2. n + l >= k + e /\ f <= e
      BY <1>9, <2>3, <3>1
    <3> QED
      BY <1>1, <1>6, <1>8, <2>2, <3>1, <3>2
  <2>5. DeleteOK'
    BY <1>1, <1>2, <2>2, <2>4 DEF RemoveOK, DeleteOK
  <2> QED
    BY <1>1, <1>2, <2>5 DEF RemoveOK, NothingLeft
<1> QED
  BY <1>11, <1>12

\* When the last iteration is over every answer was received, and none was an error.
LEMMA DeleteEndOK ==
    ASSUME Types, RemoveOK, DeleteEnd
    PROVE  RemoveOK'
<1>1. /\ pc = "delete" /\ loop.left = 0 /\ pc' = "rmnet"
      /\ UNCHANGED <<cfg, list, network, live, removal, loop>>
  BY DEF DeleteEnd, dockerVars, removeVars
<1>2. Received \subseteq list
  BY DEF Received, RemoveOK
<1>3. /\ IsFiniteSet(list) /\ Cardinality(Received) \in Nat /\ Cardinality(list) \in Nat
      /\ Cardinality(Received) <= Cardinality(list)
      /\ Cardinality(Received) = Cardinality(list) => Received = list
  <2>1. IsFiniteSet(list) /\ list \in SUBSET Container /\ Received \in SUBSET Container
    BY SubsetOfContainers DEF Types, Received
  <2> QED
    BY <1>2, <2>1, FS_Subset, SubsetOfContainers
<1>4. Cardinality(Received) >= Cardinality(list) + Extra /\ Extra \in {0, 1}
  <2>1. Cardinality(Received) + 0 >= Cardinality(list) + Extra
    BY <1>1 DEF RemoveOK, DeleteOK
  <2> QED
    BY <1>3, <2>1 DEF Extra
<1>5. Received = list /\ Extra = 0
  BY <1>3, <1>4
<1>6. Survivors = {}
  BY <1>5 DEF Extra
<1>7. \A c \in Container : live[c] \in {"absent", "removed"}
  BY <1>5, <1>6 DEF Survivors, RemoveOK, Received
<1> QED
  BY <1>1, <1>7 DEF RemoveOK, DeleteOK, NothingLeft

LEMMA RemoveStep == ASSUME Types, RemoveOK, Next PROVE RemoveOK'
<1>1. CASE Setup
  BY <1>1 DEF Setup, RemoveOK, DeleteOK, NothingLeft, dockerVars, removeVars
<1>2. CASE NewDataNetwork \/ MergeConfig
  <2>1. /\ pc \in {"network", "merge"} /\ UNCHANGED <<cfg, list, live, removal, loop>>
        /\ pc' = "merge" \/ pc' = "create" \/ (pc' = "done" /\ network' # "up")
    BY <1>2 DEF NewDataNetwork, MergeConfig, Return, RemoveOK, removeVars
  <2>2. list = {} /\ \A c \in Container : live[c] = "absent"
    BY <2>1 DEF RemoveOK
  <2> QED
    BY <2>1, <2>2 DEF RemoveOK, DeleteOK, NothingLeft
<1>3. CASE CreateContainer
  <2> DEFINE c == Head(todo)
  <2>1. /\ pc = "create" /\ UNCHANGED <<cfg, pc, network, removal, loop>>
        /\ \/ UNCHANGED <<list, live>>
           \/ list' = list \cup {c} /\ live' = [live EXCEPT ![c] = "created"]
    BY <1>3 DEF CreateContainer, removeVars
  <2>2. c \in Container
    BY <1>3 DEF CreateContainer, Types
  <2> HIDE DEF c
  <2> QED
    BY <2>1, <2>2 DEF RemoveOK, DeleteOK, NothingLeft, Types
<1>4. CASE CreateEnd \/ Subscribe
  <2>1. CASE Unwind
    BY <1>4, <2>1, RemoveUnwind DEF CreateEnd, Subscribe
  <2>2. CASE ~Unwind
    <3>1. /\ pc \in {"create", "subscribe"} /\ pc' \in {"subscribe", "select"}
          /\ UNCHANGED <<cfg, network, removal, loop, list, live>>
      BY <1>4, <2>2 DEF CreateEnd, Subscribe, removeVars
    <3> QED
      BY <3>1 DEF RemoveOK, DeleteOK, NothingLeft
  <2> QED
    BY <2>1, <2>2
<1>5. CASE Select
  BY <1>5 DEF Select, RemoveOK, DeleteOK, NothingLeft, dockerVars, removeVars
<1>6. CASE Join
  BY <1>6, RemoveUnwind DEF Join
<1>7. CASE DeleteEnd
  BY <1>7, DeleteEndOK
<1>8. CASE RemoveNetwork
  <2>1. /\ pc = "rmnet" /\ pc' = "done" /\ UNCHANGED <<cfg, list, live, removal, loop>>
        /\ network' # "up" \/ \E c \in list : live[c] = "running"
    BY <1>8 DEF RemoveNetwork, Return, removeVars
  <2>2. \A c \in Container : live[c] \in {"absent", "removed"}
    BY <2>1 DEF RemoveOK
  <2>3. network' # "up"
    BY <2>1, <2>2 DEF Types
  <2> QED
    BY <2>1, <2>2, <2>3 DEF RemoveOK, DeleteOK, NothingLeft
<1>9. ASSUME NEW c \in Container, RemoveContainer(c) \/ ReceiveRemoval(c) PROVE RemoveOK'
  BY <1>9, RemoveContainerOK, ReceiveRemovalOK
<1>10. ASSUME NEW c \in Container, StartContainer(c), pc # "done" PROVE RemoveOK'
  <2>1. UNCHANGED <<cfg, pc, list, network, removal, loop>>
    BY <1>10 DEF StartContainer, runVars, removeVars
  <2>2. \/ UNCHANGED live
        \/ live[c] = "created" /\ live' = [live EXCEPT ![c] = "running"]
    BY <1>10 DEF StartContainer
  <2> QED
    BY <1>10, <2>1, <2>2, RemoveFrame, RemoveLive
<1>11. ASSUME NEW c \in Container, Exit(c), pc # "done" PROVE RemoveOK'
  <2>1. UNCHANGED <<cfg, pc, list, network, removal, loop>>
    BY <1>11 DEF Exit, runVars, removeVars
  <2>2. live[c] = "running" /\ live' = [live EXCEPT ![c] = "exited"]
    BY <1>11 DEF Exit
  <2> QED
    BY <1>11, <2>1, <2>2, RemoveLive
<1>12. CASE WaiterClose \/ TailSidecar \/ Tailing \/ Send \/ Collect \/ CtxDone
            \/ \E c \in Container : PrettyCut(c) \/ Report(c)
  <2>1. UNCHANGED <<cfg, pc, list, live, network, removal, loop>>
    BY <1>12 DEF WaiterClose, TailSidecar, Tailing, TailerManage, TailerEnd, PrettyEnd,
                 PrettyCut, Send, Collect, CtxDone, Report, runVars, dockerVars, removeVars
  <2> QED
    BY <2>1, RemoveFrame
<1> QED
  BY <1>1, <1>2, <1>3, <1>4, <1>5, <1>6, <1>7, <1>8, <1>9, <1>10, <1>11, <1>12
     DEF Next, Main, Removals, Running, Starts

-----------------------------------------------------------------------------
(***************************************************************************)
(* The answer of the container log tailer.                                 *)
(***************************************************************************)
LEMMA FinishInit == Init => FinishOK
BY DEF Init, FinishOK, TailOK, AnswerOK, StartOK, StartedClosed

\* Run moves on, instances report success and nodes fail.
LEMMA FinishFrame ==
    ASSUME FinishOK, list \in SUBSET Container,
           UNCHANGED <<ctx, list, start, started, waiter, tailer, msg, doneCh, managed>>,
           \A c \in Container : Passed(c) => Passed(c)', failed => failed',
           pc' \in {"setup", "network", "merge", "create", "subscribe"} => waiter = "none",
           pc' = "select" => pc = "select",
           pc' \in {"join", "delete"} /\ err' = "nil" /\ waiter # "none" =>
              StartedClosed /\ Finished
    PROVE  FinishOK'
<1>1. StartOK'
  BY DEF FinishOK, StartOK, StartedClosed
<1>2. Finished => Finished'
  BY DEF Finished
<1>3. AnswerOK'
  BY <1>2 DEF FinishOK, AnswerOK, StartedClosed
<1>4. TailOK'
  BY DEF FinishOK, TailOK, StartedClosed, InStarted
<1> QED
  BY <1>1, <1>3, <1>4 DEF FinishOK

\* Nothing has been started yet.
LEMMA FinishBefore ==
    ASSUME FinishOK, waiter = "none",
           UNCHANGED <<start, started, waiter, tailer, msg, doneCh>>
    PROVE  FinishOK'
BY DEF FinishOK, TailOK, AnswerOK, StartOK, StartedClosed

LEMMA FinishSubscribe ==
    ASSUME Types, FinishOK, Subscribe
    PROVE  FinishOK'
<1>1. pc = "subscribe" /\ waiter = "none" /\ tailer = "none"
      /\ UNCHANGED <<list, started, msg, doneCh>>
  BY DEF Subscribe, FinishOK, StartOK
<1>2. CASE UNCHANGED <<start, waiter, tailer>>
  BY <1>1, <1>2, FinishBefore
<1>3. CASE ~UNCHANGED <<start, waiter, tailer>>
  <2>1. /\ pc' = "select" /\ waiter' = "wait" /\ tailer' \in {"none", "recv"}
        /\ start' = [c \in Container |-> IF c \in list THEN "start" ELSE "none"]
    BY <1>3 DEF Subscribe
  <2>2. \A i \in 1..Len(doneCh) : doneCh[i] # "nil"
    BY <1>1 DEF FinishOK, AnswerOK
  <2>3. \A c \in Container : start'[c] # "ok" /\ (start'[c] # "none" => c \in list)
    BY <2>1
  <2> QED
    BY <1>1, <2>1, <2>2, <2>3 DEF FinishOK, TailOK, AnswerOK, StartOK, StartedClosed
<1> QED
  BY <1>2, <1>3

\* A container is started before the channel of started ones is closed.
LEMMA FinishStart ==
    ASSUME Types, FinishOK, NEW c \in Container, StartContainer(c)
    PROVE  FinishOK'
<1>1. /\ start[c] = "start" /\ start'[c] \in {"ok", "failed"}
      /\ \A d \in Container : d # c => start'[d] = start[d]
      /\ UNCHANGED <<ctx, pc, err, list, said, failed, waiter, tailer, msg, doneCh, managed>>
  BY DEF StartContainer, Types, runVars
<1>2. c \in list /\ ~StartedClosed /\ waiter # "none"
  BY <1>1 DEF FinishOK, StartOK
<1>3. StartOK'
  BY <1>1, <1>2 DEF FinishOK, StartOK, StartedClosed
<1>4. AnswerOK'
  BY <1>1, <1>2 DEF FinishOK, AnswerOK, StartedClosed
<1>5. tailer # "wait"
  BY <1>2 DEF FinishOK, TailOK
<1>6. ASSUME pc = "select", ctx = "live", tailer = "recv",
             \A d \in Container : start'[d] # "failed",
             NEW d \in Container, start'[d] = "ok"
      PROVE  InStarted(d)' \/ d \in managed' \/ Passed(d)' \/ failed'
  <2>1. start'[c] = "ok" /\ \A e \in Container : start[e] # "failed"
    BY <1>1, <1>6
  <2>2. ~GroupCtxDone
    BY <1>6, <2>1 DEF GroupCtxDone, CtxContainersDone
  <2>3. started' = Append(started, c)
    <3>1. start' # [start EXCEPT ![c] = "failed"]
      BY <2>1 DEF Types
    <3> QED
      BY <2>2, <3>1 DEF StartContainer
  <2>4. started \in Seq(Container)
    BY DEF Types
  <2>5. Len(started') = Len(started) + 1 /\ started'[Len(started) + 1] = c
        /\ Len(started) \in Nat
        /\ \A i \in 1..Len(started) : started'[i] = started[i]
    BY <2>3, <2>4
  <2>6. CASE d = c
    BY <2>5, <2>6 DEF InStarted
  <2>7. CASE d # c
    <3>1. InStarted(d) \/ d \in managed \/ Passed(d) \/ failed
      BY <1>1, <1>6, <2>1, <2>7 DEF FinishOK, TailOK
    <3>2. CASE InStarted(d)
      <4>1. PICK i \in 1..Len(started) : started[i] = d
        BY <3>2 DEF InStarted
      <4>2. i \in 1..Len(started') /\ started'[i] = d
        BY <2>5, <4>1
      <4> QED
        BY <4>2 DEF InStarted
    <3> QED
      BY <1>1, <2>7, <3>1, <3>2 DEF Passed
  <2> QED
    BY <2>6, <2>7
<1>7. TailOK'
  BY <1>1, <1>5, <1>6 DEF TailOK
<1> QED
  BY <1>3, <1>4, <1>7 DEF FinishOK

\* A started container is handed to the pretty printer.
LEMMA FinishManage ==
    ASSUME Types, FinishOK, TailerManage
    PROVE  FinishOK'
<1>1. /\ tailer = "recv" /\ started # <<>> /\ started' = Tail(started)
      /\ UNCHANGED <<ctx, pc, err, list, said, failed, start, waiter, doneCh>>
  BY DEF TailerManage, runVars, dockerVars
<1>2. started \in Seq(Container)
  BY DEF Types
<1>3. \A i \in 1..Len(doneCh) : doneCh[i] # "nil"
  BY <1>1 DEF FinishOK, AnswerOK
<1>4. StartOK' /\ Finished' = Finished
  BY <1>1 DEF FinishOK, StartOK, StartedClosed, Finished, Passed
<1>5. CASE managed' = managed \cup {Head(started)} /\ UNCHANGED <<tailer, msg>>
  <2>1. ASSUME NEW d \in Container, InStarted(d)
        PROVE  InStarted(d)' \/ d \in managed'
    <3>1. PICK i \in 1..Len(started) : started[i] = d
      BY <2>1 DEF InStarted
    <3>2. CASE i = 1
      BY <1>1, <1>2, <1>5, <3>1, <3>2
    <3>3. CASE i # 1
      <4>1. i - 1 \in 1..Len(started') /\ started'[i - 1] = d
        BY <1>1, <1>2, <3>1, <3>3
      <4> QED
        BY <4>1 DEF InStarted
    <3> QED
      BY <3>2, <3>3
  <2>2. \A d \in Container : (d \in managed => d \in managed') /\ (Passed(d) => Passed(d)')
    BY <1>1, <1>5 DEF Passed
  <2>3. TailOK'
    BY <1>1, <1>5, <2>1, <2>2 DEF FinishOK, TailOK
  <2>4. AnswerOK'
    BY <1>1, <1>3, <1>4, <1>5 DEF FinishOK, AnswerOK, StartedClosed
  <2> QED
    BY <1>4, <2>3, <2>4 DEF FinishOK
<1>6. CASE tailer' = "send" /\ msg' = [msg EXCEPT !.tailer = "error"]
  <2>1. msg'.tailer = "error"
    BY <1>6 DEF Types
  <2>2. TailOK'
    BY <1>6 DEF TailOK
  <2>3. AnswerOK'
    BY <1>1, <1>3, <1>4, <2>1 DEF FinishOK, AnswerOK, StartedClosed
  <2> QED
    BY <1>4, <2>2, <2>3 DEF FinishOK
<1> QED
  BY <1>5, <1>6 DEF TailerManage

\* The tailer's nil says that it was given every container, and that it read the
\* success of each.
LEMMA FinishTailerEnd ==
    ASSUME Types, FinishOK, pc = "select", TailerEnd
    PROVE  FinishOK'
<1>1. /\ tailer \in {"recv", "wait"}
      /\ UNCHANGED <<ctx, pc, err, list, said, failed, start, started, waiter, doneCh, managed>>
  BY DEF TailerEnd, runVars, dockerVars
<1>2. \A i \in 1..Len(doneCh) : doneCh[i] # "nil"
  BY <1>1 DEF FinishOK, AnswerOK
<1>3. StartOK' /\ Finished' = Finished /\ StartedClosed' = StartedClosed
  <2>1. waiter # "none"
    BY <1>1 DEF FinishOK, StartOK
  <2> QED
    BY <1>1, <2>1 DEF FinishOK, StartOK, StartedClosed, Finished, Passed
<1>4. CASE tailer = "recv" /\ started = <<>> /\ StartedClosed /\ tailer' = "wait" /\ msg' = msg
  <2>1. TailOK'
    BY <1>1, <1>3, <1>4 DEF FinishOK, TailOK, InStarted, Passed
  <2>2. AnswerOK'
    BY <1>1, <1>2, <1>4 DEF FinishOK, AnswerOK
  <2> QED
    BY <1>3, <2>1, <2>2 DEF FinishOK
<1>5. CASE /\ tailer = "wait" /\ managed = {} /\ tailer' = "send"
           /\ msg' = [msg EXCEPT !.tailer = IF failed THEN "error" ELSE "nil"]
  <2>1. StartedClosed /\ started = <<>>
    BY <1>5 DEF FinishOK, TailOK
  <2>0. msg'.tailer = "nil" => ~failed
    BY <1>5 DEF Types
  <2>2. ~failed => Finished
    <3> SUFFICES ASSUME ~failed, ctx = "live", \A c \in list : start[c] = "ok"
                 PROVE  \A c \in list : Passed(c)
      BY DEF Finished
    <3>1. \A c \in Container : start[c] # "failed"
      BY DEF FinishOK, StartOK, Types
    <3>2. \A c \in Container : ~InStarted(c) /\ c \notin managed
      BY <1>5, <2>1 DEF InStarted
    <3> QED
      BY <1>5, <3>1, <3>2 DEF FinishOK, TailOK, Types
  <2>3. TailOK'
    BY <1>5 DEF TailOK
  <2>4. AnswerOK'
    BY <1>1, <1>2, <1>3, <2>0, <2>1, <2>2 DEF FinishOK, AnswerOK
  <2> QED
    BY <1>3, <2>3, <2>4 DEF FinishOK
<1>6. CASE tailer' = "send" /\ msg' = [msg EXCEPT !.tailer = "ctx"]
  <2>1. msg'.tailer = "ctx"
    BY <1>6 DEF Types
  <2>2. TailOK'
    BY <1>6 DEF TailOK
  <2>3. AnswerOK'
    BY <1>1, <1>2, <2>1 DEF AnswerOK
  <2> QED
    BY <1>3, <2>2, <2>3 DEF FinishOK
<1> QED
  BY <1>4, <1>5, <1>6 DEF TailerEnd

\* Only the container log tailer ever sends nil.
LEMMA FinishSend ==
    ASSUME Types, FinishOK, pc = "select", Send
    PROVE  FinishOK'
<1>1. UNCHANGED <<ctx, pc, err, list, said, failed, start, started, msg, managed>>
  BY DEF Send, runVars, dockerVars
<1>2. doneCh \in Seq(Answers) /\ msg.waiter = "error" /\ msg.sidecar = "error"
  BY DEF Types
<1>3. /\ waiter' = waiter \/ (waiter = "send" /\ waiter' = "done")
      /\ tailer' = tailer \/ (tailer = "send" /\ tailer' = "done")
  BY DEF Send
<1>4. Finished' = Finished /\ StartedClosed' = StartedClosed
  BY <1>1, <1>3 DEF Finished, Passed, StartedClosed
<1>5. StartOK'
  BY <1>1, <1>3, <1>4 DEF FinishOK, StartOK
<1>6. TailOK'
  BY <1>1, <1>3, <1>4 DEF FinishOK, TailOK, InStarted, Passed
<1>7. PICK a : /\ doneCh' = Append(doneCh, a)
               /\ a \in Answers
               /\ a = "nil" => tailer = "send" /\ tailer' = "done" /\ msg.tailer = "nil"
  BY <1>2 DEF Send, Types, Answers
<1>8. ASSUME NEW i \in 1..Len(doneCh'), doneCh'[i] = "nil"
      PROVE  tailer' = "done" /\ msg'.tailer = "nil"
  <2>1. i \in 1..(Len(doneCh) + 1) /\ Len(doneCh) \in Nat
        /\ (i # Len(doneCh) + 1 => doneCh'[i] = doneCh[i])
        /\ (i = Len(doneCh) + 1 => doneCh'[i] = a)
    BY <1>2, <1>7
  <2>2. CASE i = Len(doneCh) + 1
    BY <1>1, <1>7, <1>8, <2>1, <2>2
  <2>3. CASE i # Len(doneCh) + 1
    <3>1. i \in 1..Len(doneCh) /\ doneCh[i] = "nil"
      BY <1>8, <2>1, <2>3
    <3> QED
      BY <1>1, <1>3, <3>1 DEF FinishOK, AnswerOK
  <2> QED
    BY <2>2, <2>3
<1>9. AnswerOK'
  BY <1>1, <1>3, <1>4, <1>8 DEF FinishOK, AnswerOK
<1> QED
  BY <1>5, <1>6, <1>9 DEF FinishOK

LEMMA FinishSelect ==
    ASSUME Types, FinishOK, Select
    PROVE  FinishOK'
<1>1. /\ pc = "select" /\ pc' = "join"
      /\ UNCHANGED <<ctx, list, said, failed, start, started, waiter, tailer, msg, managed>>
  BY DEF Select, dockerVars
<1>2. doneCh \in Seq(Answers)
  BY DEF Types
<1>3. \/ doneCh # <<>> /\ err' = Head(doneCh) /\ doneCh' = Tail(doneCh)
      \/ err' = "ctx" /\ doneCh' = doneCh
  BY DEF Select
<1>4. Finished' = Finished /\ StartedClosed' = StartedClosed
  BY <1>1 DEF Finished, Passed, StartedClosed
<1>5. StartOK'
  BY <1>1, <1>4 DEF FinishOK, StartOK
<1>6. TailOK'
  BY <1>1, <1>4 DEF FinishOK, TailOK
<1>7. \A i \in 1..Len(doneCh') : \E j \in 1..Len(doneCh) : doneCh'[i] = doneCh[j]
  BY <1>2, <1>3
<1>8. ASSUME err' = "nil" PROVE StartedClosed /\ Finished
  <2>1. doneCh # <<>> /\ err' = Head(doneCh)
    BY <1>3, <1>8
  <2>2. 1 \in 1..Len(doneCh) /\ doneCh[1] = "nil"
    BY <1>2, <1>8, <2>1
  <2> QED
    BY <2>2 DEF FinishOK, AnswerOK
<1>9. AnswerOK'
  BY <1>1, <1>4, <1>7, <1>8 DEF FinishOK, AnswerOK
<1> QED
  BY <1>5, <1>6, <1>9 DEF FinishOK

LEMMA FinishStep == ASSUME Types, FinishOK, Next PROVE FinishOK'
<1>0. list \in SUBSET Container
  BY DEF Types
<1>1. CASE Setup \/ NewDataNetwork \/ MergeConfig \/ CreateContainer \/ CreateEnd
  <2>1. waiter = "none"
    BY <1>1 DEF Setup, NewDataNetwork, MergeConfig, CreateContainer, CreateEnd, FinishOK, StartOK
  <2>2. UNCHANGED <<start, started, waiter, tailer, msg, doneCh>>
    BY <1>1 DEF Setup, NewDataNetwork, MergeConfig, CreateContainer, CreateEnd, startVars
  <2> QED
    BY <2>1, <2>2, FinishBefore
<1>2. CASE Subscribe
  BY <1>2, FinishSubscribe
<1>3. CASE Select
  BY <1>3, FinishSelect
<1>4. CASE Join \/ DeleteEnd \/ RemoveNetwork
  <2>1. /\ UNCHANGED <<ctx, err, list, said, failed, start, started, waiter, tailer, msg, doneCh,
                       managed>>
        /\ pc' \in {"delete", "rmnet", "done"} /\ (pc' = "delete" => pc = "join")
    BY <1>4 DEF Join, DeleteEnd, RemoveNetwork, Unwind, Return, dockerVars, startVars
  <2>2. pc' \in {"join", "delete"} /\ err' = "nil" /\ waiter # "none" =>
           StartedClosed /\ Finished
    BY <2>1 DEF FinishOK, AnswerOK
  <2>3. \A c \in Container : Passed(c) => Passed(c)'
    BY <2>1 DEF Passed
  <2> QED
    BY <1>0, <2>1, <2>2, <2>3, FinishFrame
<1>5. ASSUME UNCHANGED <<ctx, pc, err, list, start, started, waiter, tailer, msg, doneCh>>,
             managed' = managed, \A c \in Container : Passed(c) => Passed(c)', failed => failed'
      PROVE  FinishOK'
  <2>1. /\ pc' \in {"setup", "network", "merge", "create", "subscribe"} => waiter = "none"
        /\ pc' \in {"join", "delete"} /\ err' = "nil" /\ waiter # "none" =>
              StartedClosed /\ Finished
    BY <1>5 DEF FinishOK, StartOK, AnswerOK
  <2> QED
    BY <1>0, <1>5, <2>1, FinishFrame
<1>6. CASE Collect \/ \E c \in Container : RemoveContainer(c) \/ ReceiveRemoval(c) \/ Exit(c)
  <2>1. UNCHANGED <<ctx, pc, err, list, said, failed, start, started, waiter, tailer, msg, doneCh,
                    managed>>
    BY <1>6 DEF Collect, RemoveContainer, ReceiveRemoval, Exit, runVars, dockerVars, startVars
  <2> QED
    BY <1>5, <2>1 DEF Passed
<1>7. CASE TailSidecar \/ \E c \in Container : Report(c)
  <2>1. /\ UNCHANGED <<ctx, pc, err, list, start, started, waiter, tailer, msg, doneCh, managed>>
        /\ said \subseteq said' /\ (failed => failed')
    BY <1>7 DEF TailSidecar, Report, runVars, dockerVars, startVars
  <2> QED
    BY <1>5, <2>1 DEF Passed
<1>8. ASSUME NEW c \in Container, StartContainer(c) PROVE FinishOK'
  BY <1>8, FinishStart
<1>9. CASE WaiterClose
  <2>1. /\ waiter = "wait" /\ waiter' \in {"send", "done"}
        /\ \A c \in list : start[c] \in {"ok", "failed"}
        /\ UNCHANGED <<ctx, pc, err, list, said, failed, start, started, tailer, msg, doneCh,
                       managed>>
    BY <1>9 DEF WaiterClose, runVars, dockerVars
  <2>2. Finished' = Finished /\ StartedClosed' /\ (StartedClosed => FALSE)
    BY <2>1 DEF Finished, Passed, StartedClosed
  <2> QED
    BY <2>1, <2>2 DEF FinishOK, TailOK, AnswerOK, StartOK, InStarted, Passed
<1>10. CASE TailerManage
  BY <1>10, FinishManage
<1>11. CASE pc = "select" /\ TailerEnd
  BY <1>11, FinishTailerEnd
<1>12. ASSUME NEW c \in Container, PrettyEnd(c) \/ PrettyCut(c) PROVE FinishOK'
  <2>1. /\ UNCHANGED <<ctx, pc, err, list, said, start, started, waiter, tailer, msg, doneCh>>
        /\ managed' = managed \ {c}
    BY <1>12 DEF PrettyEnd, PrettyCut, runVars, dockerVars
  <2>2. (failed => failed') /\ (Passed(c) \/ failed')
    BY <1>12 DEF PrettyEnd, PrettyCut, Passed, Types
  <2>3. Finished' = Finished /\ StartedClosed' = StartedClosed
    BY <2>1 DEF Finished, Passed, StartedClosed
  <2>4. StartOK' /\ AnswerOK'
    BY <2>1, <2>3 DEF FinishOK, StartOK, AnswerOK
  <2>5. TailOK'
    BY <2>1, <2>2, <2>3 DEF FinishOK, TailOK, InStarted, Passed
  <2> QED
    BY <2>4, <2>5 DEF FinishOK
<1>13. CASE pc = "select" /\ Send
  BY <1>13, FinishSend
<1>14. CASE CtxDone
  <2>1. /\ ctx' # "live"
        /\ UNCHANGED <<pc, err, list, said, failed, start, started, waiter, tailer, msg, doneCh,
                       managed>>
    BY <1>14 DEF CtxDone, runVars, dockerVars, startVars
  <2>2. Finished' /\ StartedClosed' = StartedClosed
    BY <2>1 DEF Finished, StartedClosed
  <2>3. StartOK' /\ AnswerOK' /\ TailOK'
    BY <2>1, <2>2 DEF FinishOK, StartOK, AnswerOK, TailOK
  <2> QED
    BY <2>3 DEF FinishOK
<1> QED
  BY <1>1, <1>2, <1>3, <1>4, <1>6, <1>7, <1>8, <1>9, <1>10, <1>11, <1>12, <1>13, <1>14
     DEF Next, Main, Removals, Starts, Tailing, Awaited

-----------------------------------------------------------------------------
(***************************************************************************)
(* The theorems.                                                           *)
(***************************************************************************)
\* The inductive invariant of a run: the deletion loop's count of answers, the
\* way of a container from its start to the pretty printer, and what the
\* verdict and the tailer's answer were concluded from.
THEOREM DockerInvariance == Spec => []DInv
<1>1. Spec => Init /\ [][Next]_vars
  BY PTL DEF Spec
<1>2. Init => DInv
  BY TypesInit, OutcomeInit, RemoveInit, FinishInit DEF DInv
<1>3. DInv /\ [Next]_vars => DInv'
  <2>1. ASSUME DInv, Next PROVE DInv'
    BY <2>1, TypesStep, OutcomeStep, RemoveStep, FinishStep DEF DInv
  <2>2. ASSUME DInv, UNCHANGED vars PROVE DInv'
    <3>1. UNCHANGED <<ctx, cfg, pc, err, todo, list, live, said, network, events, start, started,
                      waiter, tailer, msg, doneCh, managed, failed, counted, outcome, removal, loop>>
      BY <2>2 DEF vars, runVars, dockerVars, startVars, outcomeVars, removeVars
    <3>2. Types' /\ OutcomeOK'
      BY <2>2, <3>1 DEF DInv, Types, OutcomeOK
    <3>3. RemoveOK'
      BY <2>2, <3>1, RemoveFrame DEF DInv
    <3>4. FinishOK'
      BY <2>2, <3>1 DEF DInv, FinishOK, TailOK, AnswerOK, StartOK, StartedClosed, Finished,
                        Passed, InStarted
    <3> QED
      BY <3>2, <3>3, <3>4 DEF DInv
  <2> QED
    BY <2>1, <2>2
<1> QED
  BY <1>1, <1>2, <1>3, PTL

\* A run of local:docker is judged a success only if every instance of every
\* group said so (OutcomeSound), whatever could not be created or started.
THEOREM SuccessesAreReal == Spec => []OutcomeSound
<1>1. DInv => OutcomeSound
  BY DEF DInv, OutcomeOK, OutcomeSound
<1> QED
  BY <1>1, DockerInvariance, PTL

\* When Run returns its containers are gone unless it was told to keep them, and
\* the network too unless the call to remove it, or the merge of the configuration,
\* failed (NothingLeft), for any number of containers, any rate limit and any
\* failing removals.
THEOREM RunsLeaveNothing == Spec => []NothingLeft
<1>1. DInv => NothingLeft
  BY DEF DInv, RemoveOK
<1> QED
  BY <1>1, DockerInvariance, PTL

\* A run that ends without an error, all of its containers started, has heard of
\* the success of every instance (CleanFinish), however the starts, the tailer and
\* the outputs that end early interleave.
THEOREM FinishesAreClean == Spec => []CleanFinish
<1>1. DInv => CleanFinish
  BY DEF DInv, FinishOK, AnswerOK, Finished, Passed, CleanFinish
<1> QED
  BY <1>1, DockerInvariance, PTL

=============================================================================
