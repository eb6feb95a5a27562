-------------------------- MODULE ClusterK8sProofs --------------------------
(***************************************************************************)
(* Proofs about the cluster:k8s runner, for any composition, any number of *)
(* requests to collect outputs and any size of the pool.                   *)
(***************************************************************************)
EXTENDS ClusterK8s, FiniteSetTheorems, TLAPS

CreatorStates == {"none", "create", "ok", "failed"}
PodStates == {"absent", "pending", "running", "succeeded", "failed", "gone"}
CollectStates == {"ensure", "create", "wait", "waiting", "exec", "done", "failed"}

Types ==
    /\ pc \in {"push", "prepare", "launch", "wait", "logs", "delete", "done"}
    /\ todo \in Seq(Pod) /\ deferred \subseteq Pod
    /\ creator \in [Pod -> CreatorStates] /\ pods \in [Pod -> PodStates]
    /\ counted \subseteq said /\ events \subseteq said
    /\ counters \in [succeeded : Int, failed : Int]
    /\ collection \in [Collections -> CollectStates]
    /\ free \in Nat

\* Every client is in the pool or held.
PoolOK == free + Holding + Elsewhere = Workers

Creators == {p \in Pod : creator[p] = "create"}
SemOK == Cardinality(Creators) <= SemCap

\* The pods that are still to be launched differ, and none has a creator yet.
TodoOK ==
    \A i \in 1..Len(todo) : /\ creator[todo[i]] = "none"
                            /\ \A j \in 1..Len(todo) : todo[i] = todo[j] => i = j

Ended(p, phase) == pods[p] \in {phase, "gone"}

\* The pods that each call counted: as they were when it was made, they are no
\* longer at work, and those of one call are not those of the other.
CountOK ==
    \E S, F \in SUBSET Pod :
       /\ S \cap F = {}
       /\ \A p \in S : Ended(p, "succeeded")
       /\ \A p \in F : Ended(p, "failed")
       /\ counters.succeeded \in {Unread, -1, Cardinality(S)}
       /\ counters.failed \in {Unread, -1, Cardinality(F)}

\* Who may be creating, and what is still to be deleted, as Run moves on.
PodsOK ==
    /\ \A p \in Pod : pods[p] # "absent" => creator[p] = "ok"
    /\ pc \in {"push", "prepare"} =>
          watcher = "none" /\ \A p \in Pod : creator[p] = "none"
    /\ pc \in {"launch", "wait", "logs"} =>
          \A p \in Pod : creator[p] # "none" => p \in deferred
    /\ pc \in {"logs", "delete", "done"} /\ err # "abort" =>
          \A p \in Pod : creator[p] # "create"
    /\ pc = "delete" /\ err # "abort" =>
          \A p \in Pod : pods[p] \notin {"absent", "gone"} => p \in deferred \cup undeleted
    /\ NothingLeft

KInv == Types /\ PoolOK /\ SemOK /\ TodoOK /\ CountOK /\ EndSound /\ PodsOK

-----------------------------------------------------------------------------
(***************************************************************************)
(* Pods and their order.                                                   *)
(***************************************************************************)
LEMMA PodFinite == IsFiniteSet(Pod) /\ Cardinality(Pod) \in Nat
<1>1. IsFiniteSet(1..NGroups) /\ IsFiniteSet(1..Size)
  BY SizeAssumption, FS_Interval
<1>2. IsFiniteSet((1..NGroups) \X (1..Size))
  BY <1>1, FS_Product
<1> QED
  BY <1>2, FS_CardinalityType DEF Pod, Groups

LEMMA SubsetOfPods ==
    ASSUME NEW S \in SUBSET Pod
    PROVE  /\ IsFiniteSet(S) /\ Cardinality(S) \in Nat /\ Cardinality(S) <= Cardinality(Pod)
           /\ Cardinality(S) = Cardinality(Pod) => S = Pod
BY PodFinite, FS_Subset, FS_CardinalityType

\* InOrder lists pods, each of them once.
LEMMA InOrderPods ==
    /\ InOrder \in Seq(Pod)
    /\ \A i, j \in 1..Len(InOrder) : InOrder[i] = InOrder[j] => i = j
<1> DEFINE n == NGroups * Size
           at(k) == <<1 + ((k - 1) \div Size), 1 + ((k - 1) % Size)>>
<1>1. n \in Nat /\ NGroups \in Nat /\ Size \in Nat /\ Size > 0
  BY SizeAssumption
<1>2. ASSUME NEW k \in 1..n
      PROVE  /\ (k - 1) \div Size \in Nat /\ (k - 1) % Size \in 0..(Size - 1)
             /\ k - 1 = Size * ((k - 1) \div Size) + ((k - 1) % Size)
  BY <1>1
<1>3. ASSUME NEW k \in 1..n
      PROVE  (k - 1) \div Size < NGroups
  <2> DEFINE q == (k - 1) \div Size
  <2>1. q \in Nat /\ k - 1 >= Size * q
    BY <1>1, <1>2
  <2> HIDE DEF q
  <2>2. ASSUME q >= NGroups PROVE FALSE
    <3>1. Size * q >= Size * NGroups
      BY <1>1, <2>1, <2>2
    <3> QED
      BY <1>1, <2>1, <3>1
  <2> QED
    BY <1>1, <2>1, <2>2 DEF q
<1>4. ASSUME NEW k \in 1..n PROVE at(k) \in Pod
  BY <1>1, <1>2, <1>3 DEF Pod, Groups
<1>5. ASSUME NEW i \in 1..n, NEW j \in 1..n, at(i) = at(j) PROVE i = j
  <2>1. (i - 1) \div Size = (j - 1) \div Size /\ (i - 1) % Size = (j - 1) % Size
    <3>1. /\ 1 + ((i - 1) \div Size) = 1 + ((j - 1) \div Size)
          /\ 1 + ((i - 1) % Size) = 1 + ((j - 1) % Size)
      BY <1>5
    <3> QED
      BY <1>2, <3>1
  <2>2. i - 1 = j - 1
    BY <1>2, <2>1
  <2> QED
    BY <2>2
<1>6. InOrder = [k \in 1..n |-> at(k)]
  BY DEF InOrder
<1> HIDE DEF n, at
<1>7. InOrder \in Seq(Pod) /\ Len(InOrder) = n
  BY <1>1, <1>4, <1>6 DEF n
<1> QED
  BY <1>5, <1>6, <1>7

-----------------------------------------------------------------------------
(***************************************************************************)
(* The pool.                                                               *)
(***************************************************************************)
OneEach == {k \in Collections : collection[k] \in {"create", "wait"}}
TwoEach == {k \in Collections : collection[k] = "waiting"}
Watches == IF watcher \in {"poll", "count"} THEN 1 ELSE 0

LEMMA HoldingIs ==
    /\ Holding = Watches + Cardinality(OneEach) + 2 * Cardinality(TwoEach)
    /\ IsFiniteSet(OneEach) /\ IsFiniteSet(TwoEach)
    /\ Cardinality(OneEach) \in Nat /\ Cardinality(TwoEach) \in Nat /\ Watches \in Nat
<1>1. IsFiniteSet(OneEach) /\ IsFiniteSet(TwoEach)
  BY CollectionsAssumption, FS_Subset DEF OneEach, TwoEach
<1> QED
  BY <1>1, FS_CardinalityType DEF Holding, OneEach, TwoEach, Watches

\* Steps of the run: a client is taken and given back by the watcher only.
LEMMA PoolRun ==
    ASSUME Types, PoolOK, UNCHANGED collection, free' + Watches' = free + Watches, free' \in Int
    PROVE  PoolOK'
<1>1. OneEach' = OneEach /\ TwoEach' = TwoEach
  BY DEF OneEach, TwoEach
<1>2. Holding' = Watches' + Cardinality(OneEach) + 2 * Cardinality(TwoEach)
  BY <1>1 DEF Holding, OneEach, TwoEach, Watches
<1>3. Watches \in Int /\ Watches' \in Int
  BY DEF Watches
<1>4. /\ free + Holding + Elsewhere = Workers /\ free \in Int
      /\ Elsewhere \in Int /\ Workers \in Int
  BY PoolAssumption DEF PoolOK, Types
<1>5. /\ Holding = Watches + Cardinality(OneEach) + 2 * Cardinality(TwoEach)
      /\ Cardinality(OneEach) \in Int /\ Cardinality(TwoEach) \in Int
  BY HoldingIs
<1>6. PICK h \in Int : h = Cardinality(OneEach) + 2 * Cardinality(TwoEach)
  BY <1>5
<1>7. PICK w \in Int, w1 \in Int : w = Watches /\ w1 = Watches'
  BY <1>3
<1>8. Holding = w + h /\ Holding' = w1 + h
  BY <1>2, <1>5, <1>6, <1>7
<1>9. free + (w + h) + Elsewhere = Workers /\ free' + w1 = free + w
  BY <1>4, <1>7, <1>8
<1>10. free' + (w1 + h) + Elsewhere = Workers
  <2>1. PICK f \in Int, f1 \in Int, e \in Int, n \in Int :
           f = free /\ f1 = free' /\ e = Elsewhere /\ n = Workers
    BY <1>4
  <2>2. f + (w + h) + e = n /\ f1 + w1 = f + w
    BY <1>9, <2>1
  <2>3. f1 + (w1 + h) + e = n
    BY <2>2
  <2> QED
    BY <2>1, <2>3
<1> QED
  BY <1>8, <1>10 DEF PoolOK

\* Steps of a request to collect outputs: what it holds, it has taken.
Holds(s) == IF s \in {"create", "wait"} THEN 1 ELSE IF s = "waiting" THEN 2 ELSE 0

LEMMA PoolCollect ==
    ASSUME Types, PoolOK, UNCHANGED watcher, NEW k \in Collections, NEW s \in CollectStates,
           collection' = [collection EXCEPT ![k] = s],
           free' + Holds(s) = free + Holds(collection[k]), free' \in Int
    PROVE  PoolOK'
<1> DEFINE c == Cardinality(OneEach)
           d == Cardinality(TwoEach)
           c1 == Cardinality(OneEach')
           d1 == Cardinality(TwoEach')
           inc(b) == IF b THEN 1 ELSE 0
<1>1. \A j \in Collections : collection'[j] = IF j = k THEN s ELSE collection[j]
  BY DEF Types
<1>2. IsFiniteSet(OneEach) /\ IsFiniteSet(TwoEach) /\ c \in Nat /\ d \in Nat
  BY HoldingIs
<1>3. IsFiniteSet(OneEach \ {k}) /\ IsFiniteSet(TwoEach \ {k})
  BY <1>2, FS_RemoveElement
<1>4. /\ Cardinality(OneEach \ {k}) = c - inc(k \in OneEach)
      /\ Cardinality(TwoEach \ {k}) = d - inc(k \in TwoEach)
  <2>1. k \notin OneEach => OneEach \ {k} = OneEach
    OBVIOUS
  <2>2. k \notin TwoEach => TwoEach \ {k} = TwoEach
    OBVIOUS
  <2>3. Cardinality(OneEach \ {k}) = c - inc(k \in OneEach)
    <3>1. CASE k \in OneEach
      BY <1>2, <3>1, FS_RemoveElement
    <3>2. CASE k \notin OneEach
      BY <1>2, <2>1, <3>2
    <3> QED
      BY <3>1, <3>2
  <2>4. Cardinality(TwoEach \ {k}) = d - inc(k \in TwoEach)
    <3>1. CASE k \in TwoEach
      BY <1>2, <3>1, FS_RemoveElement
    <3>2. CASE k \notin TwoEach
      BY <1>2, <2>2, <3>2
    <3> QED
      BY <3>1, <3>2
  <2> QED
    BY <2>3, <2>4
<1>5. OneEach' = IF s \in {"create", "wait"} THEN (OneEach \ {k}) \cup {k} ELSE OneEach \ {k}
  BY <1>1 DEF OneEach
<1>6. TwoEach' = IF s = "waiting" THEN (TwoEach \ {k}) \cup {k} ELSE TwoEach \ {k}
  BY <1>1 DEF TwoEach
<1>7. c1 = Cardinality(OneEach \ {k}) + inc(s \in {"create", "wait"})
  <2>1. k \notin OneEach \ {k}
    OBVIOUS
  <2>2. Cardinality((OneEach \ {k}) \cup {k}) = Cardinality(OneEach \ {k}) + 1
    BY <1>3, <2>1, FS_AddElement
  <2>3. Cardinality(OneEach \ {k}) \in Nat
    BY <1>3, FS_CardinalityType
  <2> QED
    BY <1>5, <2>2, <2>3
<1>8. d1 = Cardinality(TwoEach \ {k}) + inc(s = "waiting")
  <2>1. k \notin TwoEach \ {k}
    OBVIOUS
  <2>2. Cardinality((TwoEach \ {k}) \cup {k}) = Cardinality(TwoEach \ {k}) + 1
    BY <1>3, <2>1, FS_AddElement
  <2>3. Cardinality(TwoEach \ {k}) \in Nat
    BY <1>3, FS_CardinalityType
  <2> QED
    BY <1>6, <2>2, <2>3
<1>9. Holds(collection[k]) = inc(k \in OneEach) + 2 * inc(k \in TwoEach)
  BY DEF Holds, OneEach, TwoEach
<1>10. Holds(s) = inc(s \in {"create", "wait"}) + 2 * inc(s = "waiting")
  BY DEF Holds
<1>11. c1 + 2 * d1 - Holds(s) = c + 2 * d - Holds(collection[k])
  BY <1>2, <1>4, <1>7, <1>8, <1>9, <1>10
<1>12. Holding' = Watches + c1 + 2 * d1 /\ Holding = Watches + c + 2 * d
  BY DEF Holding, Watches, OneEach, TwoEach
<1>13. Holds(s) \in Int /\ Holds(collection[k]) \in Int /\ Watches \in Int
  BY DEF Holds, Watches
<1>14. c1 \in Int /\ d1 \in Int
  BY <1>2, <1>4, <1>7, <1>8
<1>15. /\ free + Holding + Elsewhere = Workers /\ free \in Int
       /\ Elsewhere \in Int /\ Workers \in Int
  BY PoolAssumption DEF PoolOK, Types
<1>16. PICK w \in Int, h \in Int, h1 \in Int, x \in Int, x1 \in Int :
          /\ w = Watches /\ h = Holds(collection[k]) /\ h1 = Holds(s)
          /\ x = c + 2 * d /\ x1 = c1 + 2 * d1
  BY <1>2, <1>13, <1>14
<1>17. Holding = w + x /\ Holding' = w + x1
  BY <1>2, <1>12, <1>14, <1>16
<1>18. PICK f \in Int, f1 \in Int, e \in Int, n \in Int :
          f = free /\ f1 = free' /\ e = Elsewhere /\ n = Workers
  BY <1>15
<1>19. f1 + h1 = f + h /\ f + (w + x) + e = n
  BY <1>15, <1>16, <1>17, <1>18
<1>20. x1 - h1 = x - h
  <2>1. PICK a \in Int, b \in Int, a1 \in Int, b1 \in Int :
           a = c /\ b = d /\ a1 = c1 /\ b1 = d1
    BY <1>2, <1>14
  <2>2. /\ x = a + 2 * b /\ x1 = a1 + 2 * b1
        /\ a1 + 2 * b1 - h1 = a + 2 * b - h
    BY <1>11, <1>16, <2>1
  <2> QED
    BY <2>2
<1>21. f1 + (w + x1) + e = n
  BY <1>19, <1>20
<1> QED
  BY <1>17, <1>18, <1>21 DEF PoolOK

-----------------------------------------------------------------------------
(***************************************************************************)
(* The parts of the invariant, and what keeps each.                        *)
(***************************************************************************)
\* Pods that ended do not come back.
Onwards ==
    \A p \in Pod : /\ pods[p] = "succeeded" => pods'[p] \in {"succeeded", "gone"}
                   /\ pods[p] = "failed" => pods'[p] \in {"failed", "gone"}
                   /\ pods[p] = "gone" => pods'[p] = "gone"

LEMMA CountFrame ==
    ASSUME CountOK, Onwards, counters' = counters \/ counters' = NoCounts
    PROVE  CountOK'
<1>1. PICK S \in SUBSET Pod, F \in SUBSET Pod :
         /\ S \cap F = {}
         /\ \A p \in S : Ended(p, "succeeded")
         /\ \A p \in F : Ended(p, "failed")
         /\ counters.succeeded \in {Unread, -1, Cardinality(S)}
         /\ counters.failed \in {Unread, -1, Cardinality(F)}
  BY DEF CountOK
<1>2. (\A p \in S : Ended(p, "succeeded")') /\ (\A p \in F : Ended(p, "failed")')
  BY <1>1 DEF Onwards, Ended
<1>3. /\ counters'.succeeded \in {Unread, -1, Cardinality(S)}
      /\ counters'.failed \in {Unread, -1, Cardinality(F)}
  BY <1>1 DEF NoCounts
<1> QED
  BY <1>1, <1>2, <1>3 DEF CountOK

LEMMA EndFrame ==
    ASSUME EndSound, Onwards, watcher' \in {"join", "ok"} => watcher \in {"join", "ok"}
    PROVE  EndSound'
BY DEF EndSound, Onwards

LEMMA SemFrame ==
    ASSUME SemOK, Creators' \subseteq Creators
    PROVE  SemOK'
<1>1. IsFiniteSet(Creators)
  BY PodFinite, FS_Subset DEF Creators
<1>2. Cardinality(Creators') <= Cardinality(Creators) /\ Cardinality(Creators) \in Nat
      /\ Cardinality(Creators') \in Nat
  BY <1>1, FS_Subset, FS_CardinalityType
<1> QED
  BY <1>2, PoolAssumption DEF SemOK

\* When the counts say that all have finished, they have: no pod was counted
\* twice, so all of them were counted.
LEMMA AllFinishedSound ==
    ASSUME CountOK, AllFinished, counters.succeeded # Unread, counters.failed # Unread
    PROVE  \A p \in Pod : pods[p] \in {"succeeded", "failed", "gone"}
<1>1. PICK S \in SUBSET Pod, F \in SUBSET Pod :
         /\ S \cap F = {}
         /\ \A p \in S : Ended(p, "succeeded")
         /\ \A p \in F : Ended(p, "failed")
         /\ counters.succeeded \in {Unread, -1, Cardinality(S)}
         /\ counters.failed \in {Unread, -1, Cardinality(F)}
  BY DEF CountOK
<1>2. PICK n \in Nat, a \in Nat, b \in Nat :
         /\ n = Cardinality(Pod) /\ a = Cardinality(S) /\ b = Cardinality(F)
         /\ a <= n /\ b <= n
  BY SubsetOfPods, PodFinite
<1>3. PICK x \in Int, y \in Int :
         /\ x = counters.succeeded /\ y = counters.failed /\ x \in {-1, a} /\ y \in {-1, b}
         /\ x = n \/ x + y = n
  BY <1>1, <1>2 DEF AllFinished
<1>4. a = n \/ a + b = n
  BY <1>2, <1>3
<1>5. CASE a = n
  <2>1. S = Pod
    BY <1>2, <1>5, SubsetOfPods
  <2> QED
    BY <1>1, <2>1 DEF Ended
<1>6. CASE a + b = n
  <2>1. /\ IsFiniteSet(S) /\ IsFiniteSet(F) /\ S \cup F \in SUBSET Pod
        /\ Cardinality(S \cap F) = 0
    BY <1>1, SubsetOfPods, FS_EmptySet
  <2>2. Cardinality(S \cup F) = Cardinality(S) + Cardinality(F) - Cardinality(S \cap F)
    BY <2>1, FS_Union
  <2>3. Cardinality(S \cup F) = Cardinality(Pod)
    BY <1>2, <1>6, <2>1, <2>2
  <2>4. S \cup F = Pod
    BY <2>1, <2>3, SubsetOfPods
  <2> QED
    BY <1>1, <2>4 DEF Ended
<1> QED
  BY <1>4, <1>5, <1>6

\* A step that leaves creators and requests alone.
LEMMA Rest ==
    ASSUME KInv, UNCHANGED <<todo, creator, collection>>, Onwards,
           pods' \in [Pod -> PodStates], deferred' \subseteq Pod,
           counted' \subseteq said', events' \subseteq said',
           counters' = counters \/ counters' = NoCounts,
           free' \in Nat, free' + Watches' = free + Watches,
           watcher' \in {"join", "ok"} => watcher \in {"join", "ok"},
           pc' \in {"push", "prepare", "launch", "wait", "logs", "delete", "done"}
    PROVE  Types' /\ PoolOK' /\ SemOK' /\ TodoOK' /\ CountOK' /\ EndSound'
<1>1. counters' \in [succeeded : Int, failed : Int]
  <2>1. NoCounts \in [succeeded : Int, failed : Int]
    BY DEF NoCounts, Unread
  <2>2. counters \in [succeeded : Int, failed : Int]
    BY DEF KInv, Types
  <2> QED
    BY <2>1, <2>2
<1>2. Types'
  BY <1>1 DEF KInv, Types
<1>3. PoolOK'
  BY PoolRun DEF KInv
<1>4. SemOK'
  BY SemFrame DEF KInv, Creators
<1>5. TodoOK'
  BY DEF KInv, TodoOK
<1> QED
  BY <1>2, <1>3, <1>4, <1>5, CountFrame, EndFrame DEF KInv

LEMMA Stay == UNCHANGED pods => Onwards
BY DEF Onwards

\* The steps of Run that neither launch nor delete.
LEMMA RunStep ==
    ASSUME KInv, PushImages \/ Prepare \/ LaunchEnd \/ Wait \/ FetchLogs \/ Finish
    PROVE  KInv'
<1>1. /\ UNCHANGED <<ctx, keep, todo, deferred, creator, pods, said, undeleted, events, counters,
                     counted, free, collection>>
      /\ pc' \in {"push", "prepare", "launch", "wait", "logs", "delete", "done"}
  BY DEF PushImages, Prepare, LaunchEnd, Wait, FetchLogs, Finish, Return, podVars, watchVars,
     outcomeVars, collectVars
<1>2. watcher' = watcher \/ (watcher = "none" /\ watcher' = "subscribe")
  BY DEF KInv, PodsOK, PushImages, Prepare, LaunchEnd, Wait, FetchLogs, Finish, watchVars
<1>3. Watches' = Watches
  BY <1>2 DEF Watches
<1>4. Types' /\ PoolOK' /\ SemOK' /\ TodoOK' /\ CountOK' /\ EndSound'
  <2>1. /\ pods' \in [Pod -> PodStates] /\ deferred' \subseteq Pod
        /\ counted' \subseteq said' /\ events' \subseteq said'
        /\ free' \in Nat /\ free' + Watches' = free + Watches
    BY <1>1, <1>3 DEF KInv, Types
  <2>2. watcher' \in {"join", "ok"} => watcher \in {"join", "ok"}
    BY <1>2
  <2>3. Onwards
    BY <1>1, Stay
  <2> QED
    BY <1>1, <2>1, <2>2, <2>3, Rest
<1>5. PodsOK'
  <2>1. CASE PushImages
    BY <1>1, <2>1 DEF PushImages, Return, KInv, PodsOK, NothingLeft, watchVars
  <2>2. CASE Prepare
    BY <1>1, <2>2 DEF Prepare, Return, KInv, PodsOK, NothingLeft
  <2>3. CASE LaunchEnd \/ Wait
    BY <1>1, <2>3 DEF LaunchEnd, Wait, KInv, PodsOK, NothingLeft
  <2>4. CASE FetchLogs
    BY <1>1, <2>4 DEF FetchLogs, KInv, PodsOK, NothingLeft
  <2>5. CASE Finish
    BY <1>1, <2>5 DEF Finish, Return, KInv, PodsOK, NothingLeft, Types, PodStates
  <2> QED
    BY <2>1, <2>2, <2>3, <2>4, <2>5
<1> QED
  BY <1>4, <1>5 DEF KInv

LEMMA LaunchStep ==
    ASSUME KInv, Launch
    PROVE  KInv'
<1> DEFINE p == Head(todo)
<1>1. /\ pc = "launch" /\ todo # <<>>
      /\ UNCHANGED <<ctx, keep, pods, said, events, watcher, counters, counted, free, collection>>
  BY DEF Launch, podVars, watchVars, outcomeVars, collectVars
<1>2. /\ p \in Pod /\ p = todo[1] /\ Tail(todo) \in Seq(Pod) /\ Len(todo) \in Nat
      /\ Len(todo) >= 1 /\ Len(Tail(todo)) = Len(todo) - 1
      /\ \A i \in 1..Len(Tail(todo)) : Tail(todo)[i] = todo[i + 1]
  <2>1. todo \in Seq(Pod)
    BY DEF KInv, Types
  <2> QED
    BY <1>1, <2>1
<1>3. creator[p] = "none" /\ pods[p] = "absent"
  BY <1>2 DEF KInv, TodoOK, PodsOK
<1>4. CASE /\ Cardinality(Creators) < SemCap /\ todo' = Tail(todo) /\ pc' = pc
           /\ deferred' = deferred \cup {p} /\ err' = err
           /\ creator' = [creator EXCEPT ![p] = "create"]
  <2>1. /\ creator' \in [Pod -> CreatorStates] /\ creator'[p] = "create"
        /\ \A q \in Pod : q # p => creator'[q] = creator[q]
    BY <1>2, <1>4 DEF KInv, Types, CreatorStates
  <2>2. Types'
    BY <1>1, <1>2, <1>4, <2>1 DEF KInv, Types
  <2>3. PoolOK'
    BY <1>1, PoolRun DEF KInv, Types, Watches
  <2>4. SemOK'
    <3>1. Creators' = Creators \cup {p} /\ p \notin Creators
      BY <1>2, <1>3, <2>1 DEF Creators
    <3>2. IsFiniteSet(Creators) /\ Cardinality(Creators) \in Nat
      BY PodFinite, FS_Subset, FS_CardinalityType DEF Creators
    <3>3. Cardinality(Creators') = Cardinality(Creators) + 1
      BY <3>1, <3>2, FS_AddElement
    <3> QED
      BY <1>4, <3>2, <3>3, PoolAssumption DEF SemOK
  <2>5. TodoOK'
    <3> SUFFICES ASSUME NEW i \in 1..Len(todo')
                 PROVE  /\ creator'[todo'[i]] = "none"
                        /\ \A j \in 1..Len(todo') : todo'[i] = todo'[j] => i = j
      BY DEF TodoOK
    <3>1. \A j \in 1..Len(todo') : /\ j + 1 \in 1..Len(todo) /\ j + 1 # 1
                                   /\ todo'[j] = todo[j + 1]
      BY <1>2, <1>4
    <3>2. \A m, n \in 1..Len(todo) : todo[m] = todo[n] => m = n
      BY DEF KInv, TodoOK
    <3>3. todo[i + 1] \in Pod /\ todo[i + 1] # p /\ creator[todo[i + 1]] = "none"
      <4>1. todo[i + 1] \in Pod
        BY <3>1 DEF KInv, Types
      <4>2. 1 \in 1..Len(todo)
        BY <1>2
      <4> QED
        BY <1>2, <3>1, <3>2, <4>1, <4>2 DEF KInv, TodoOK
    <3>4. creator'[todo'[i]] = "none"
      BY <2>1, <3>1, <3>3
    <3>5. ASSUME NEW j \in 1..Len(todo'), todo'[i] = todo'[j] PROVE i = j
      <4>1. i + 1 = j + 1
        BY <3>1, <3>2, <3>5
      <4> QED
        BY <4>1
    <3> QED
      BY <3>4, <3>5
  <2>6. CountOK' /\ EndSound'
    BY <1>1, Stay, CountFrame, EndFrame DEF KInv
  <2>7. PodsOK'
    <3>1. \A q \in Pod : pods[q] # "absent" => creator'[q] = "ok"
      BY <1>3, <2>1 DEF KInv, PodsOK
    <3>2. \A q \in Pod : creator'[q] # "none" => q \in deferred'
      BY <1>1, <1>4, <2>1 DEF KInv, PodsOK
    <3> QED
      BY <1>1, <1>4, <3>1, <3>2 DEF PodsOK, NothingLeft
  <2> QED
    BY <2>2, <2>3, <2>4, <2>5, <2>6, <2>7 DEF KInv
<1>5. CASE err' = "abort" /\ pc' = "delete" /\ UNCHANGED <<todo, deferred, creator>>
  <2>1. Types' /\ PoolOK' /\ SemOK' /\ TodoOK' /\ CountOK' /\ EndSound'
    <3>1. /\ pods' \in [Pod -> PodStates] /\ deferred' \subseteq Pod
          /\ counted' \subseteq said' /\ events' \subseteq said'
          /\ free' \in Nat /\ free' + Watches' = free + Watches
      BY <1>1, <1>5 DEF KInv, Types, Watches
    <3>2. Onwards
      BY <1>1, Stay
    <3> QED
      BY <1>1, <1>5, <3>1, <3>2, Rest
  <2>2. PodsOK'
    BY <1>1, <1>5 DEF KInv, PodsOK, NothingLeft
  <2> QED
    BY <2>1, <2>2 DEF KInv
<1> QED
  BY <1>4, <1>5 DEF Launch, Creators

LEMMA CreateStep ==
    ASSUME KInv, NEW p \in Pod, Running, Create(p)
    PROVE  KInv'
<1>1. /\ creator[p] = "create" /\ pc # "done"
      /\ UNCHANGED <<ctx, keep, pc, err, todo, deferred, said, events, watcher, counters, counted,
                     free, collection>>
  BY DEF Create, Running, runVars, watchVars, outcomeVars, collectVars
<1>2. pods[p] = "absent"
  BY <1>1 DEF KInv, PodsOK
<1>3. /\ creator' \in [Pod -> CreatorStates] /\ pods' \in [Pod -> PodStates]
      /\ \A q \in Pod : q # p => creator'[q] = creator[q] /\ pods'[q] = pods[q]
      /\ \/ creator'[p] = "ok" /\ pods'[p] = "pending"
         \/ creator'[p] = "failed" /\ pods'[p] = pods[p]
  BY DEF Create, KInv, Types, CreatorStates, PodStates
<1>4. Types'
  BY <1>1, <1>3 DEF KInv, Types
<1>5. PoolOK'
  BY <1>1, PoolRun DEF KInv, Types, Watches
<1>6. SemOK'
  <2>1. Creators' \subseteq Creators
    BY <1>3 DEF Creators
  <2> QED
    BY <2>1, SemFrame DEF KInv
<1>7. TodoOK'
  <2>1. \A i \in 1..Len(todo) : todo[i] \in Pod
    BY DEF KInv, Types
  <2>2. \A q \in Pod : creator[q] = "none" => creator'[q] = "none"
    BY <1>1, <1>3
  <2> QED
    BY <1>1, <2>1, <2>2 DEF KInv, TodoOK
<1>8. CountOK' /\ EndSound'
  <2>1. Onwards
    BY <1>2, <1>3 DEF Onwards
  <2> QED
    BY <1>1, <2>1, CountFrame, EndFrame DEF KInv
<1>9. PodsOK'
  <2>1. pc \in {"launch", "wait", "logs", "delete"}
    BY <1>1 DEF KInv, PodsOK, Types
  <2>2. pc \in {"logs", "delete"} => err = "abort"
    BY <1>1 DEF KInv, PodsOK
  <2>3. \A q \in Pod : pods'[q] # "absent" => creator'[q] = "ok"
    BY <1>2, <1>3 DEF KInv, PodsOK
  <2>4. pc \in {"launch", "wait", "logs"} =>
           \A q \in Pod : creator'[q] # "none" => q \in deferred
    BY <1>1, <1>3 DEF KInv, PodsOK
  <2> QED
    BY <1>1, <2>1, <2>2, <2>3, <2>4 DEF PodsOK, NothingLeft
<1> QED
  BY <1>4, <1>5, <1>6, <1>7, <1>8, <1>9 DEF KInv

\* What happens to pods that exist: they are deleted, or go on.
LEMMA PodsChange ==
    ASSUME KInv, pc # "done", pc' = pc, pods' \in [Pod -> PodStates], Onwards,
           \A p \in Pod : pods[p] = "absent" <=> pods'[p] = "absent",
           UNCHANGED <<keep, err, todo, creator, watcher, counters, counted, free, collection>>,
           deferred' \subseteq deferred, pc = "delete" \/ deferred' = deferred,
           undeleted \subseteq undeleted',
           \A p \in deferred : p \notin deferred' =>
              pods'[p] \in {"absent", "gone"} \/ p \in undeleted',
           events' \subseteq said', said \subseteq said'
    PROVE  KInv'
<1>1. Types' /\ PoolOK' /\ SemOK' /\ TodoOK' /\ CountOK' /\ EndSound'
  <2>1. deferred' \subseteq Pod /\ counted' \subseteq said' /\ free' \in Nat
        /\ pc' \in {"push", "prepare", "launch", "wait", "logs", "delete", "done"}
    BY DEF KInv, Types
  <2>2. free' + Watches' = free + Watches
    BY DEF Watches
  <2> QED
    BY <2>1, <2>2, Rest
<1>2. \A p \in Pod : pods'[p] \notin {"absent", "gone"} => pods[p] \notin {"absent", "gone"}
  BY DEF Onwards
<1>3. PodsOK'
  BY <1>2 DEF KInv, PodsOK, NothingLeft
<1> QED
  BY <1>1, <1>3 DEF KInv

LEMMA PodsStep ==
    ASSUME KInv, \/ DeletePod
                 \/ Running /\ TerminateAll
                 \/ Running /\ CtxDone
                 \/ Running /\ \E p \in Pod : PodStep(p)
    PROVE  KInv'
<1>1. pods \in [Pod -> PodStates] /\ events \subseteq said /\ deferred \subseteq Pod
  BY DEF KInv, Types
<1>2. CASE DeletePod
  <2>1. PICK p \in deferred :
           /\ deferred' = deferred \ {p}
           /\ pods' = pods \/ (pods[p] # "absent" /\ pods' = [pods EXCEPT ![p] = "gone"])
           /\ undeleted \subseteq undeleted'
           /\ pods[p] = "absent" \/ pods' = [pods EXCEPT ![p] = "gone"] \/ p \in undeleted'
    BY <1>2 DEF DeletePod
  <2>2. /\ pc = "delete" /\ UNCHANGED <<ctx, keep, pc, err, todo, creator, said, events, watcher,
                                        counters, counted, free, collection>>
    BY <1>2 DEF DeletePod, watchVars, outcomeVars, collectVars
  <2>3. pods' \in [Pod -> PodStates]
    BY <1>1, <2>1 DEF PodStates
  <2>4. /\ \A q \in Pod : q # p => pods'[q] = pods[q]
        /\ pods'[p] = pods[p] \/ (pods[p] # "absent" /\ pods'[p] = "gone")
        /\ pods'[p] \in {"absent", "gone"} \/ p \in undeleted'
    BY <1>1, <2>1
  <2>5. Onwards /\ \A q \in Pod : pods[q] = "absent" <=> pods'[q] = "absent"
    BY <1>1, <2>4 DEF Onwards
  <2>6. \A q \in deferred : q \notin deferred' =>
           pods'[q] \in {"absent", "gone"} \/ q \in undeleted'
    BY <1>1, <2>1, <2>4
  <2> QED
    BY <1>1, <2>1, <2>2, <2>3, <2>5, <2>6, PodsChange
<1>3. CASE Running /\ TerminateAll
  <2>1. /\ pc # "done" /\ UNCHANGED <<ctx, keep, pc, err, todo, deferred, creator, said, events,
                                      undeleted, watcher, counters, counted, free, collection>>
    BY <1>3 DEF TerminateAll, Running, runVars, watchVars, outcomeVars, collectVars
  <2>2. /\ pods' \in [Pod -> PodStates]
        /\ \A p \in Pod : pods'[p] = IF pods[p] = "absent" THEN "absent" ELSE "gone"
    BY <1>3 DEF TerminateAll, PodStates
  <2>3. Onwards /\ \A q \in Pod : pods[q] = "absent" <=> pods'[q] = "absent"
    BY <2>2 DEF Onwards
  <2> QED
    BY <1>1, <2>1, <2>2, <2>3, PodsChange
<1>4. CASE Running /\ CtxDone
  <2>1. /\ pc # "done" /\ ctx' # "live"
        /\ UNCHANGED <<keep, pc, err, todo, deferred, creator, pods, said, undeleted, events,
                       watcher, counters, counted, free, collection>>
    BY <1>4 DEF CtxDone, Running, runVars, podVars, watchVars, outcomeVars, collectVars
  <2> QED
    BY <1>1, <2>1, Stay, PodsChange
<1>5. CASE Running /\ \E p \in Pod : PodStep(p)
  <2>1. PICK p \in Pod : PodStep(p)
    BY <1>5
  <2>2. /\ pc # "done" /\ UNCHANGED <<ctx, keep, pc, err, todo, deferred, creator, undeleted,
                                      watcher, counters, counted, free, collection>>
    BY <1>5, <2>1 DEF PodStep, Running, runVars, watchVars, outcomeVars, collectVars
  <2>3. /\ pods[p] \in {"pending", "running"} /\ pods' \in [Pod -> PodStates]
        /\ pods'[p] \in {"running", "succeeded", "failed"}
        /\ \A q \in Pod : q # p => pods'[q] = pods[q]
    BY <1>1, <2>1 DEF PodStep, PodStates
  <2>4. Onwards /\ \A q \in Pod : pods[q] = "absent" <=> pods'[q] = "absent"
    BY <2>3 DEF Onwards
  <2>5. events' \subseteq said' /\ said \subseteq said'
    BY <1>1, <2>1 DEF PodStep
  <2> QED
    BY <1>1, <2>2, <2>3, <2>4, <2>5, PodsChange
<1> QED
  BY <1>2, <1>3, <1>4, <1>5

\* A step that leaves Run, the creators and the pods alone.
LEMMA PodsFrame ==
    ASSUME PodsOK, UNCHANGED <<ctx, keep, pc, err, deferred, creator, pods, undeleted>>,
           watcher = "none" => watcher' = "none"
    PROVE  PodsOK'
BY DEF PodsOK, NothingLeft

\* The watcher: it takes a client when it begins and gives it back when it ends.
LEMMA WatchStep ==
    ASSUME KInv, \/ WatchSubscribe \/ WatchAcquire \/ WatchPoll \/ WatchTimeout \/ WatchJoin
                 \/ WatchDecide
    PROVE  KInv'
<1>1. /\ UNCHANGED <<ctx, keep, pc, err, todo, deferred, creator, pods, said, undeleted, events,
                     counted, collection>>
      /\ counters' = counters \/ counters' = NoCounts
  BY DEF WatchSubscribe, WatchAcquire, WatchPoll, WatchTimeout, WatchJoin, WatchDecide,
     runVars, podVars, outcomeVars, collectVars
<1>2. watcher # "none" /\ watcher' # "none"
  BY DEF WatchSubscribe, WatchAcquire, WatchPoll, WatchTimeout, WatchJoin, WatchDecide
<1>3. PodsOK'
  BY <1>1, <1>2, PodsFrame DEF KInv
<1>4. free' \in Nat /\ free' + Watches' = free + Watches
  <2>1. free \in Nat
    BY DEF KInv, Types
  <2>2. CASE WatchSubscribe \/ WatchJoin
    BY <2>1, <2>2 DEF WatchSubscribe, WatchJoin, Watches
  <2>3. CASE WatchAcquire
    BY <2>1, <2>3 DEF WatchAcquire, Watches
  <2>4. CASE WatchPoll \/ WatchTimeout
    BY <2>1, <2>4 DEF WatchPoll, WatchTimeout, Watches
  <2>5. CASE WatchDecide
    BY <2>1, <2>5 DEF WatchDecide, Watches
  <2> QED
    BY <2>2, <2>3, <2>4, <2>5
<1>5. CASE ~(WatchDecide /\ AllFinished)
  <2>1. watcher' \in {"join", "ok"} => watcher \in {"join", "ok"}
    BY <1>5 DEF WatchSubscribe, WatchAcquire, WatchPoll, WatchTimeout, WatchJoin, WatchDecide
  <2>2. /\ pods' \in [Pod -> PodStates] /\ deferred' \subseteq Pod
        /\ counted' \subseteq said' /\ events' \subseteq said'
        /\ pc' \in {"push", "prepare", "launch", "wait", "logs", "delete", "done"}
    BY <1>1 DEF KInv, Types
  <2>3. Onwards
    BY <1>1, Stay
  <2>4. Types' /\ PoolOK' /\ SemOK' /\ TodoOK' /\ CountOK' /\ EndSound'
    BY <1>1, <1>4, <2>1, <2>2, <2>3, Rest
  <2> QED
    BY <1>3, <2>4 DEF KInv
<1>6. CASE WatchDecide /\ AllFinished
  <2>1. counters.succeeded # Unread /\ counters.failed # Unread
    BY <1>6 DEF WatchDecide, KInv, Types
  <2>2. \A p \in Pod : pods[p] \in {"succeeded", "failed", "gone"}
    BY <1>6, <2>1, AllFinishedSound DEF KInv
  <2>3. EndSound'
    BY <1>1, <2>2 DEF EndSound
  <2>4. Types'
    <3>1. NoCounts \in [succeeded : Int, failed : Int]
      BY DEF NoCounts, Unread
    <3> QED
      BY <1>1, <1>4, <3>1 DEF KInv, Types
  <2>5. PoolOK' /\ SemOK' /\ TodoOK' /\ CountOK'
    <3>1. SemOK' /\ TodoOK'
      BY <1>1, SemFrame DEF KInv, TodoOK, Creators
    <3>2. CountOK'
      BY <1>1, Stay, CountFrame DEF KInv
    <3> QED
      BY <1>1, <1>4, <3>1, <3>2, PoolRun DEF KInv
  <2> QED
    BY <1>3, <2>3, <2>4, <2>5 DEF KInv
<1> QED
  BY <1>5, <1>6

\* One call counts pods that have ended one way; those the other call counted
\* ended the other way, or are gone.
LEMMA CountStep ==
    ASSUME KInv, NEW phase \in DOMAIN counters, WatchCount(phase)
    PROVE  KInv'
<1>1. /\ UNCHANGED <<ctx, keep, pc, err, todo, deferred, creator, pods, said, undeleted, events, counted,
                     watcher, free, collection>>
  BY DEF WatchCount, runVars, podVars, outcomeVars, collectVars
<1>2. counters \in [succeeded : Int, failed : Int]
  BY DEF KInv, Types
<1>3. phase \in {"succeeded", "failed"}
  BY <1>2
<1> DEFINE now == {p \in Pod : pods[p] = phase}
<1>4. now \in SUBSET Pod /\ Cardinality(now) \in Int
  BY SubsetOfPods
<1>5. PICK n \in {-1, Cardinality(now)} : counters' = [counters EXCEPT ![phase] = n]
  BY DEF WatchCount
<1>6. n \in Int
  BY <1>4, <1>5
<1>7. PICK S \in SUBSET Pod, F \in SUBSET Pod :
         /\ S \cap F = {}
         /\ \A p \in S : Ended(p, "succeeded")
         /\ \A p \in F : Ended(p, "failed")
         /\ counters.succeeded \in {Unread, -1, Cardinality(S)}
         /\ counters.failed \in {Unread, -1, Cardinality(F)}
  BY DEF KInv, CountOK
<1>8. CountOK' /\ counters' \in [succeeded : Int, failed : Int]
  <2>1. CASE phase = "succeeded"
    <3>1. /\ counters' \in [succeeded : Int, failed : Int]
          /\ counters'.succeeded = n /\ counters'.failed = counters.failed
      BY <1>2, <1>5, <1>6, <2>1
    <3>2. now \cap F = {} /\ (\A p \in now : Ended(p, "succeeded")') /\ (\A p \in F : Ended(p, "failed")')
      BY <1>1, <1>7, <2>1 DEF Ended
    <3>3. /\ counters'.succeeded \in {Unread, -1, Cardinality(now)}
          /\ counters'.failed \in {Unread, -1, Cardinality(F)}
      BY <1>5, <1>7, <3>1
    <3> HIDE DEF now
    <3>4. CountOK'
      BY <1>4, <3>2, <3>3 DEF CountOK
    <3> QED
      BY <3>1, <3>4
  <2>2. CASE phase = "failed"
    <3>1. /\ counters' \in [succeeded : Int, failed : Int]
          /\ counters'.failed = n /\ counters'.succeeded = counters.succeeded
      BY <1>2, <1>5, <1>6, <2>2
    <3>2. S \cap now = {} /\ (\A p \in S : Ended(p, "succeeded")') /\ (\A p \in now : Ended(p, "failed")')
      BY <1>1, <1>7, <2>2 DEF Ended
    <3>3. /\ counters'.failed \in {Unread, -1, Cardinality(now)}
          /\ counters'.succeeded \in {Unread, -1, Cardinality(S)}
      BY <1>5, <1>7, <3>1
    <3> HIDE DEF now
    <3>4. CountOK'
      BY <1>4, <3>2, <3>3 DEF CountOK
    <3> QED
      BY <3>1, <3>4
  <2> QED
    BY <1>3, <2>1, <2>2
<1>9. Types'
  BY <1>1, <1>8 DEF KInv, Types
<1>10. PoolOK' /\ SemOK' /\ TodoOK'
  <2>1. SemOK' /\ TodoOK'
    BY <1>1, SemFrame DEF KInv, TodoOK, Creators
  <2>2. free' \in Int /\ free' + Watches' = free + Watches
    BY <1>1 DEF KInv, Types, Watches
  <2> QED
    BY <1>1, <2>1, <2>2, PoolRun DEF KInv
<1>11. EndSound' /\ PodsOK'
  BY <1>1, Stay, EndFrame, PodsFrame DEF KInv
<1> QED
  BY <1>8, <1>9, <1>10, <1>11 DEF KInv

LEMMA CollectStep ==
    ASSUME KInv, Collect
    PROVE  KInv'
<1>1. UNCHANGED <<ctx, keep, pc, err, todo, deferred, creator, pods, said, undeleted, watcher,
                  counters, free, collection>>
  BY DEF Collect, runVars, watchVars, collectVars
<1>2. counted' \subseteq said' /\ events' \subseteq said'
  BY <1>1 DEF Collect, KInv, Types
<1>3. Types' /\ PoolOK' /\ SemOK' /\ TodoOK' /\ CountOK' /\ EndSound'
  <2>1. /\ pods' \in [Pod -> PodStates] /\ deferred' \subseteq Pod
        /\ free' \in Nat /\ free' + Watches' = free + Watches
        /\ pc' \in {"push", "prepare", "launch", "wait", "logs", "delete", "done"}
    BY <1>1 DEF KInv, Types, Watches
  <2>2. Onwards
    BY <1>1, Stay
  <2> QED
    BY <1>1, <1>2, <2>1, <2>2, Rest
<1>4. PodsOK'
  BY <1>1, PodsFrame DEF KInv
<1> QED
  BY <1>3, <1>4 DEF KInv

\* A request to collect outputs gives back what it holds when it ends.
LEMMA CollectingStep ==
    ASSUME KInv, NEW k \in Collections, Collecting(k)
    PROVE  KInv'
<1>1. UNCHANGED <<ctx, keep, pc, err, todo, deferred, creator, pods, said, undeleted, events, watcher,
                  counters, counted>>
  BY DEF Collecting, CollectEnsure, CollectCreate, CollectWait, CollectExec, runVars, podVars,
     watchVars, outcomeVars
<1>2. free \in Nat /\ collection \in [Collections -> CollectStates]
  BY DEF KInv, Types
<1>3. PICK s \in CollectStates :
         /\ collection' = [collection EXCEPT ![k] = s]
         /\ free' + Holds(s) = free + Holds(collection[k]) /\ free' \in Nat
  <2>1. CASE CollectEnsure(k)
    <3>1. CASE outputs = "absent"
      <4>1. /\ collection' = [collection EXCEPT ![k] = "create"] /\ "create" \in CollectStates
            /\ collection[k] = "ensure" /\ free > 0 /\ free' = free - 1
        BY <2>1, <3>1 DEF CollectEnsure, CollectStates
      <4>2. free' + Holds("create") = free + Holds(collection[k]) /\ free' \in Nat
        BY <1>2, <4>1 DEF Holds
      <4> QED
        BY <4>1, <4>2
    <3>2. CASE outputs # "absent"
      <4>1. /\ collection' = [collection EXCEPT ![k] = "exec"] /\ "exec" \in CollectStates
            /\ collection[k] = "ensure" /\ free' = free
        BY <2>1, <3>2 DEF CollectEnsure, CollectStates
      <4>2. free' + Holds("exec") = free + Holds(collection[k]) /\ free' \in Nat
        BY <1>2, <4>1 DEF Holds
      <4> QED
        BY <4>1, <4>2
    <3> QED
      BY <3>1, <3>2
  <2>2. CASE CollectCreate(k)
    <3>1. CASE outputs = "absent"
      <4>1. /\ collection' = [collection EXCEPT ![k] = "wait"] /\ "wait" \in CollectStates
            /\ collection[k] = "create" /\ free' = free
        BY <2>2, <3>1 DEF CollectCreate, CollectStates
      <4>2. free' + Holds("wait") = free + Holds(collection[k]) /\ free' \in Nat
        BY <1>2, <4>1 DEF Holds
      <4> QED
        BY <4>1, <4>2
    <3>2. CASE outputs # "absent"
      <4>1. /\ collection' = [collection EXCEPT ![k] = "failed"] /\ "failed" \in CollectStates
            /\ collection[k] = "create" /\ free' = free + 1
        BY <2>2, <3>2 DEF CollectCreate, CollectStates
      <4>2. free' + Holds("failed") = free + Holds(collection[k]) /\ free' \in Nat
        BY <1>2, <4>1 DEF Holds
      <4> QED
        BY <4>1, <4>2
    <3> QED
      BY <3>1, <3>2
  <2>3. CASE CollectWait(k)
    <3>1. CASE collection[k] = "wait"
      <4>1. /\ collection' = [collection EXCEPT ![k] = "waiting"] /\ "waiting" \in CollectStates
            /\ free > 0 /\ free' = free - 1
        BY <2>3, <3>1 DEF CollectWait, CollectStates
      <4>2. free' + Holds("waiting") = free + Holds(collection[k]) /\ free' \in Nat
        BY <1>2, <3>1, <4>1 DEF Holds
      <4> QED
        BY <4>1, <4>2
    <3>2. CASE collection[k] = "waiting"
      <4>1. /\ collection' = [collection EXCEPT ![k] = "exec"] /\ "exec" \in CollectStates
            /\ free' = free + 2
        BY <2>3, <3>2 DEF CollectWait, CollectStates
      <4>2. free' + Holds("exec") = free + Holds(collection[k]) /\ free' \in Nat
        BY <1>2, <3>2, <4>1 DEF Holds
      <4> QED
        BY <4>1, <4>2
    <3> QED
      BY <2>3, <3>1, <3>2 DEF CollectWait
  <2>4. CASE CollectExec(k)
    <3>1. PICK s \in {"done", "failed"} : collection' = [collection EXCEPT ![k] = s]
      BY <2>4 DEF CollectExec
    <3>2. collection[k] = "exec" /\ free' = free /\ s \in CollectStates
      BY <2>4, <3>1 DEF CollectExec, CollectStates
    <3>3. free' + Holds(s) = free + Holds(collection[k]) /\ free' \in Nat
      BY <1>2, <3>1, <3>2 DEF Holds
    <3> QED
      BY <3>1, <3>2, <3>3
  <2> QED
    BY <2>1, <2>2, <2>3, <2>4 DEF Collecting
<1>4. Types'
  BY <1>1, <1>2, <1>3 DEF KInv, Types
<1>5. PoolOK'
  <2>1. free' \in Int
    BY <1>3
  <2> QED
    BY <1>1, <1>3, <2>1, PoolCollect, Zenon DEF KInv
<1>6. SemOK' /\ TodoOK'
  BY <1>1, SemFrame DEF KInv, TodoOK, Creators
<1>7. CountOK' /\ EndSound' /\ PodsOK'
  BY <1>1, Stay, CountFrame, EndFrame, PodsFrame DEF KInv
<1> QED
  BY <1>4, <1>5, <1>6, <1>7 DEF KInv

LEMMA StutterStep ==
    ASSUME KInv, OutputsPodRuns \/ UNCHANGED vars
    PROVE  KInv'
<1>1. UNCHANGED <<ctx, keep, pc, err, todo, deferred, creator, pods, said, undeleted, events, watcher,
                  counters, counted, free, collection>>
  BY DEF OutputsPodRuns, vars, runVars, podVars, watchVars, outcomeVars, collectVars
<1>2. Types' /\ PoolOK' /\ SemOK' /\ TodoOK' /\ CountOK' /\ EndSound'
  <2>1. /\ pods' \in [Pod -> PodStates] /\ deferred' \subseteq Pod
        /\ counted' \subseteq said' /\ events' \subseteq said'
        /\ free' \in Nat /\ free' + Watches' = free + Watches
        /\ pc' \in {"push", "prepare", "launch", "wait", "logs", "delete", "done"}
    BY <1>1 DEF KInv, Types, Watches
  <2>2. Onwards
    BY <1>1, Stay
  <2> QED
    BY <1>1, <2>1, <2>2, Rest
<1>3. PodsOK'
  BY <1>1, PodsFrame DEF KInv
<1> QED
  BY <1>2, <1>3 DEF KInv

-----------------------------------------------------------------------------
LEMMA InitKInv == Init => KInv
<1> SUFFICES ASSUME Init PROVE KInv
  OBVIOUS
<1>1. /\ todo = InOrder /\ deferred = {} /\ said = {} /\ events = {} /\ counted = {}
      /\ watcher = "none" /\ counters = NoCounts /\ free = Workers - Elsewhere
      /\ pc \in {"push", "done"}
      /\ creator \in [Pod -> CreatorStates] /\ pods \in [Pod -> PodStates]
      /\ \A p \in Pod : creator[p] = "none" /\ pods[p] = "absent"
  BY DEF Init, CreatorStates, PodStates
<1>2. /\ collection \in [Collections -> CollectStates]
      /\ \A k \in Collections : collection[k] \in {"done", "ensure"}
  BY DEF Init, CollectStates
<1>3. Types
  <2>1. NoCounts \in [succeeded : Int, failed : Int]
    BY DEF NoCounts, Unread
  <2>2. free \in Nat
    BY <1>1, PoolAssumption
  <2> QED
    BY <1>1, <1>2, <2>1, <2>2, InOrderPods DEF Types
<1>4. PoolOK
  <2>1. OneEach = {} /\ TwoEach = {} /\ Watches = 0
    BY <1>1, <1>2 DEF OneEach, TwoEach, Watches
  <2>2. Holding = 0
    BY <2>1, HoldingIs, FS_EmptySet
  <2> QED
    BY <1>1, <2>2, PoolAssumption DEF PoolOK
<1>5. SemOK
  <2>1. Creators = {}
    BY <1>1 DEF Creators
  <2> QED
    BY <2>1, FS_EmptySet, PoolAssumption DEF SemOK
<1>6. TodoOK
  <2>1. \A i \in 1..Len(todo) : todo[i] \in Pod
    BY <1>1, InOrderPods
  <2> QED
    BY <1>1, <2>1, InOrderPods DEF TodoOK
<1>7. CountOK
  <2>1. {} \in SUBSET Pod /\ counters.succeeded = Unread /\ counters.failed = Unread
    BY <1>1 DEF NoCounts
  <2> QED
    BY <2>1 DEF CountOK
<1>8. EndSound /\ PodsOK
  BY <1>1 DEF EndSound, PodsOK, NothingLeft
<1> QED
  BY <1>3, <1>4, <1>5, <1>6, <1>7, <1>8 DEF KInv

LEMMA NextKInv == KInv /\ [Next]_vars => KInv'
<1> SUFFICES ASSUME KInv, [Next]_vars PROVE KInv'
  OBVIOUS
<1>1. CASE Main
  BY <1>1, RunStep, LaunchStep, PodsStep DEF Main
<1>2. CASE Running /\ Watching
  BY <1>2, WatchStep, CountStep DEF Watching
<1>3. CASE Running /\ Creating
  BY <1>3, CreateStep DEF Creating
<1>4. CASE Running /\ (WatchTimeout \/ Collect)
  BY <1>4, WatchStep, CollectStep
<1> QED
  BY <1>1, <1>2, <1>3, <1>4, PodsStep, CollectingStep, StutterStep DEF Next

\* The inductive invariant of a run and the pool: clients are conserved, the
\* watcher's counts are of different pods that have ended, and as Run moves on
\* what it created is to be deleted.
THEOREM ClusterInvariance == Spec => []KInv
<1>1. Spec => Init /\ [][Next]_vars
  BY PTL DEF Spec
<1> QED
  BY <1>1, InitKInv, NextKInv, PTL

\* Every client is in the pool or held by someone who will release it, and no
\* more pods are created at a time than the semaphore admits (client_pool.go).
THEOREM ClientsAreConserved == Spec => []TypeOK
<1>1. KInv => TypeOK
  BY DEF KInv, Types, PoolOK, SemOK, Creators, TypeOK, PodStates
<1> QED
  BY <1>1, ClusterInvariance, PTL

\* The watcher ends a run only when every instance has finished, though it counts
\* the phases in calls of their own, some of which may fail (watchRunPods).
THEOREM RunsEndWhenFinished == Spec => []EndSound
<1>1. KInv => EndSound
  BY DEF KInv
<1> QED
  BY <1>1, ClusterInvariance, PTL

\* A run that was not aborted halfway leaves no pod behind but those whose deletion
\* it asked for and the cluster refused (Run and its deferred deletions).
THEOREM RunsLeaveNoPod == Spec => []NothingLeft
<1>1. KInv => NothingLeft
  BY DEF KInv, PodsOK
<1> QED
  BY <1>1, ClusterInvariance, PTL
=============================================================================
