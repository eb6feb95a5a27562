---------------------------- MODULE InfraProofs ----------------------------
(***************************************************************************)
(* Proofs about the infrastructure the local runners and the docker:go     *)
(* builder share, for any number of requests, any services and whichever   *)
(* calls to Docker fail.                                                   *)
(***************************************************************************)
EXTENDS Infra, SequenceTheorems, TLAPS

NoRequest == [op |-> "none", on |-> "none", fix |-> FALSE]
Pcs == {"idle", "lock", "item", "listAll", "delete", "stuck", "done"}
Stages == {"list", "inspect", "image", "create", "start", "confirm"}

Rec == [req : Requests \cup {NoRequest}, pc : Pcs, i : Nat, ph : {"check", "fix"},
        st : Stages, saw : Nat, made : BOOLEAN, checksOK : BOOLEAN,
        aborted : BOOLEAN, fixesOK : BOOLEAN,
        victims : SUBSET (Containers \X Nat), err : {"none", "error", "conflict"},
        lost : SUBSET Containers, overlap : BOOLEAN, up : BOOLEAN]

CtrStates == {"absent", "created", "running"}

Types ==
    /\ ctr \in [Containers -> CtrStates] /\ gen \in [Containers -> Nat]
    /\ nets \in [{"control", "build"} -> Nat]
    /\ dirs \in SUBSET {"local:docker", "local:exec"}
    /\ lock \in [Locks -> Thread \cup {NoOne}]
    /\ th \in [Thread -> Rec]

\* A lock is held by the request that works under it, and by no other.
LockOK ==
    \A l \in Locks, t \in Thread :
        lock[l] = t <=> th[t].pc = "item" /\ th[t].req.on = l

Active(r) == r.pc \notin {"idle", "done"}

\* Two healthchecks of different runners that are under way have met.
OverlapOK ==
    \A t, u \in Thread :
        /\ Active(th[t]) /\ Active(th[u])
        /\ th[t].req.op = "health" /\ th[u].req.op = "health"
        /\ th[t].req.on # th[u].req.on
        => th[t].overlap

\* The request has, so far, nothing to report but success.
Promising(r) ==
    \/ r.req.op = "health" /\ r.checksOK
    \/ r.req.op = "health" /\ r.req.fix /\ ~r.aborted /\ r.fixesOK
    \/ r.req.op = "proxy" /\ r.err = "none"

\* What an item of the list stands for is there, or went down behind the back of
\* the request.
ItemUp(on, x, c, n, d, g) ==
    CASE x = "dir" -> on \in d
      [] x \in {"control", "build"} -> n[x] > 0
      [] x \in Containers -> c[x] = "running" \/ x \in g
      [] OTHER -> TRUE

ItemOf(r) == Items(r.req.on)[r.i]

\* Where a request is.
PlaceOK(r) ==
    /\ r.pc # "idle" => r.req \in Requests
    /\ r.pc \in {"lock", "item"} => r.req.op # "terminate"
    /\ r.pc \in {"listAll", "delete", "stuck"} => r.req.op = "terminate"
    /\ r.pc = "lock" => r.i = 1 /\ r.st = "list"
    /\ r.pc = "item" =>
          /\ r.i \in 1..Len(Items(r.req.on))
          /\ r.req.op = "proxy" => r.ph = "fix"
          /\ r.req.op = "health" /\ r.ph = "fix" => ~r.checksOK

\* The items behind a promising request are up, and stay up.
SettledOK(r, c, n, d) ==
    r.pc = "item" /\ Promising(r) =>
        \A k \in 1..(r.i - 1) : ItemUp(r.req.on, Items(r.req.on)[k], c, n, d, r.lost)

\* The container a fixer has started runs.
ConfirmOK(r, c) ==
    /\ r.pc = "item" /\ r.ph = "fix" /\ r.st = "confirm" /\ ItemOf(r) \in Containers
    => c[ItemOf(r)] = "running" \/ ItemOf(r) \in r.lost

\* The name a fixer is about to create is free, or was taken by the healthcheck
\* of the other runner.
NameOK(r, c) ==
    /\ r.pc = "item" /\ r.ph = "fix" /\ r.st \in {"image", "create"}
    /\ ItemOf(r) \in Containers /\ c[ItemOf(r)] # "absent"
    => r.overlap /\ r.req.op = "health"

ToldOK(r) ==
    /\ r.pc = "done" /\ r.req.op # "terminate" /\ Promising(r) => r.up
    /\ r.err = "conflict" => r.overlap /\ r.req.op = "health"

RequestOK(r, c, n, d) ==
    PlaceOK(r) /\ SettledOK(r, c, n, d) /\ ConfirmOK(r, c) /\ NameOK(r, c) /\ ToldOK(r)

IInv ==
    /\ Types /\ LockOK /\ OverlapOK
    /\ \A t \in Thread : RequestOK(th[t], ctr, nets, dirs)

-----------------------------------------------------------------------------
(* The lists of checks *)

\* What is on the list of a runner, or of the go proxy.
LEMMA ItemsFacts ==
    ASSUME NEW on \in Locks
    PROVE  /\ Len(Items(on)) \in Nat /\ Len(Items(on)) >= 1
           /\ DOMAIN Items(on) = 1..Len(Items(on))
           /\ \A k \in 1..Len(Items(on)) :
                 /\ Items(on)[k] \in {"dir", "port", "control", "build"} \cup Containers
                 /\ Items(on)[k] = "sidecar" => on = "local:docker"
                 /\ Items(on)[k] = "goproxy" => on = "docker:go"
                 /\ on = "docker:go" => Items(on)[k] \in {"build", "goproxy"}
<1> DEFINE S == STRING \cup {"dir", "port", "control", "sidecar"}
<1> DEFINE names == {"dir", "port", "control", "build"} \cup Containers
<1>0. Services \in Seq(S)
    BY InfraAssumption, SeqMonotonic
<1>1. /\ Services \in Seq(S) /\ Len(Services) \in Nat
      /\ DOMAIN Services = 1..Len(Services)
      /\ \A k \in 1..Len(Services) :
            Services[k] \in Containers /\ Services[k] # "sidecar" /\ Services[k] # "goproxy"
    BY <1>0, InfraAssumption DEF Containers
<1>2. CASE on = "local:docker"
    <2> DEFINE a == <<"dir", "control">>
               b == a \o Services
               l == b \o <<"sidecar">>
    <2>1. a \in Seq(S) /\ Len(a) = 2 /\ a[1] = "dir" /\ a[2] = "control"
        OBVIOUS
    <2>2. /\ b \in Seq(S) /\ Len(b) = 2 + Len(Services)
          /\ \A k \in 1..(2 + Len(Services)) : b[k] = IF k <= 2 THEN a[k] ELSE Services[k - 2]
        <3> HIDE DEF a, S
        <3>1. /\ b \in Seq(S) /\ Len(b) = Len(a) + Len(Services)
              /\ \A k \in 1..(Len(a) + Len(Services)) :
                    b[k] = IF k <= Len(a) THEN a[k] ELSE Services[k - Len(a)]
            BY <2>1, <1>1, ConcatProperties, Zenon DEF b
        <3> HIDE DEF b
        <3> QED BY <2>1, <3>1
    <2>3. <<"sidecar">> \in Seq(S) /\ Len(<<"sidecar">>) = 1 /\ <<"sidecar">>[1] = "sidecar"
        OBVIOUS
    <2>4. /\ l \in Seq(S) /\ Len(l) = 3 + Len(Services)
          /\ \A k \in 1..(3 + Len(Services)) :
                l[k] = IF k <= 2 + Len(Services) THEN b[k] ELSE <<"sidecar">>[k - (2 + Len(Services))]
        <3> HIDE DEF b, S
        <3> QED BY <2>2, <2>3, <1>1, ConcatProperties DEF l
    <2>5. Items(on) = l
        BY <1>2 DEF Items
    <2> HIDE DEF a, b, l, S
    <2>6. ASSUME NEW k \in 1..Len(l)
          PROVE  l[k] \in {"dir", "control", "sidecar"} \cup {Services[j] : j \in 1..Len(Services)}
        <3>1. CASE k <= 2
            BY <3>1, <2>1, <2>2, <2>4, <1>1
        <3>2. CASE k > 2 /\ k <= 2 + Len(Services)
            BY <3>2, <2>2, <2>4, <1>1
        <3>3. CASE k > 2 + Len(Services)
            BY <3>3, <2>3, <2>4, <1>1
        <3> QED BY <3>1, <3>2, <3>3, <2>4, <1>1
    <2>7. \A k \in 1..Len(l) : l[k] \in names /\ l[k] # "goproxy"
        BY <2>6, <1>1 DEF Containers
    <2> QED BY <2>4, <2>5, <2>7, <1>1, <1>2
<1>3. CASE on = "local:exec"
    <2> DEFINE a == <<"port", "dir", "control">>
               b == a \o Services
    <2>1. a \in Seq(S) /\ Len(a) = 3 /\ a[1] = "port" /\ a[2] = "dir" /\ a[3] = "control"
        OBVIOUS
    <2>2. /\ b \in Seq(S) /\ Len(b) = 3 + Len(Services)
          /\ \A k \in 1..(3 + Len(Services)) : b[k] = IF k <= 3 THEN a[k] ELSE Services[k - 3]
        <3> HIDE DEF a, S
        <3>1. /\ b \in Seq(S) /\ Len(b) = Len(a) + Len(Services)
              /\ \A k \in 1..(Len(a) + Len(Services)) :
                    b[k] = IF k <= Len(a) THEN a[k] ELSE Services[k - Len(a)]
            BY <2>1, <1>1, ConcatProperties, Zenon DEF b
        <3> HIDE DEF b
        <3> QED BY <2>1, <3>1
    <2>3. Items(on) = b
        BY <1>3 DEF Items
    <2> HIDE DEF a, b, S
    <2>4. ASSUME NEW k \in 1..Len(b)
          PROVE  b[k] \in {"port", "dir", "control"} \cup {Services[j] : j \in 1..Len(Services)}
        <3>1. CASE k <= 3
            BY <3>1, <2>1, <2>2, <1>1
        <3>2. CASE k > 3
            BY <3>2, <2>2, <1>1
        <3> QED BY <3>1, <3>2, <2>2, <1>1
    <2>5. \A k \in 1..Len(b) : b[k] \in names /\ b[k] # "goproxy" /\ b[k] # "sidecar"
        BY <2>4, <1>1 DEF Containers
    <2> QED BY <2>2, <2>3, <2>5, <1>1, <1>3
<1>4. CASE on = "docker:go"
    <2>1. Items(on) = <<"build", "goproxy">>
        BY <1>4 DEF Items
    <2> QED BY <2>1, <1>4 DEF Containers
<1> QED BY <1>2, <1>3, <1>4 DEF Locks

\* Directories, the port and networks are no containers.
LEMMA NotContainers ==
    \A x \in Containers : x \notin {"dir", "port", "control", "build"}
BY InfraAssumption DEF Containers

\* Two locks under which the same container is created are those of the runners.
LEMMA SharedItem ==
    ASSUME NEW on1 \in Locks, NEW on2 \in Locks, on1 # on2,
           NEW k1 \in 1..Len(Items(on1)), NEW k2 \in 1..Len(Items(on2)),
           Items(on1)[k1] = Items(on2)[k2], Items(on1)[k1] \in Containers
    PROVE  on1 # "docker:go" /\ on2 # "docker:go"
<1>1. Items(on1)[k1] # "build"
    BY NotContainers
<1>2. ASSUME on1 = "docker:go" PROVE FALSE
    BY <1>1, <1>2, ItemsFacts
<1>3. ASSUME on2 = "docker:go" PROVE FALSE
    BY <1>1, <1>3, ItemsFacts
<1> QED BY <1>2, <1>3

LEMMA UpOfItems ==
    ASSUME NEW on \in Locks, NEW c, NEW n, NEW d, NEW g,
           \A k \in 1..Len(Items(on)) : ItemUp(on, Items(on)[k], c, n, d, g)
    PROVE  Up(on, c, n, d, g)
BY ItemsFacts DEF Up, ItemUp

LEMMA UpIsBoolean ==
    ASSUME NEW on \in Locks, NEW c, NEW n, NEW d, NEW g
    PROVE  Up(on, c, n, d, g) \in BOOLEAN
BY DEF Up

LEMMA RequestFacts ==
    ASSUME NEW r \in Rec, PlaceOK(r), r.pc \in {"lock", "item"}
    PROVE  /\ r.req \in Requests /\ r.req.on \in Locks /\ r.req.op \in {"health", "proxy"}
           /\ r.req.op = "health" => r.req.on # "docker:go"
           /\ r.req.op = "proxy" => r.req.on = "docker:go"
           /\ r.req.fix \in BOOLEAN
BY InfraAssumption DEF PlaceOK, Locks

-----------------------------------------------------------------------------
(* What the steps of others leave true of a request *)

\* Nothing that was up goes down.
Grows(c, n, d, c2, n2, d2) ==
    /\ \A x \in Containers : c[x] = "running" => c2[x] = "running"
    /\ \A x \in {"control", "build"} : n[x] > 0 => n2[x] > 0
    /\ d \subseteq d2

LEMMA ItemStaysUp ==
    ASSUME NEW on, NEW x, NEW c, NEW n, NEW d, NEW g, NEW c2, NEW n2, NEW d2,
           Grows(c, n, d, c2, n2, d2), ItemUp(on, x, c, n, d, g)
    PROVE  ItemUp(on, x, c2, n2, d2, g)
<1>1. CASE x = "dir"
    BY <1>1 DEF ItemUp, Grows
<1>2. CASE x \in {"control", "build"}
    BY <1>2 DEF ItemUp, Grows
<1>3. CASE x \notin {"dir", "control", "build"}
    BY <1>3 DEF ItemUp, Grows
<1> QED BY <1>1, <1>2, <1>3

LEMMA SettledStays ==
    ASSUME NEW r, NEW c, NEW n, NEW d, NEW c2, NEW n2, NEW d2,
           Grows(c, n, d, c2, n2, d2), SettledOK(r, c, n, d)
    PROVE  SettledOK(r, c2, n2, d2)
BY ItemStaysUp DEF SettledOK

LEMMA ConfirmStays ==
    ASSUME NEW r, NEW c, NEW n, NEW d, NEW c2, NEW n2, NEW d2,
           Grows(c, n, d, c2, n2, d2), ConfirmOK(r, c)
    PROVE  ConfirmOK(r, c2)
BY DEF Grows, ConfirmOK

\* A request that returns, and one that goes on to its next item.
Returned(r, c, n, d) ==
    [r EXCEPT !.pc = "done", !.up = Up(r.req.on, c, n, d, r.lost),
              !.lost = {}, !.i = 1, !.ph = "check", !.st = "list", !.made = FALSE, !.saw = 0]

LEMMA ReturnOK ==
    ASSUME NEW r \in Rec, NEW c, NEW n, NEW d, r.pc = "item", PlaceOK(r), ToldOK(r),
           SettledOK(r, c, n, d), ~More(r),
           Promising(r) => ItemUp(r.req.on, ItemOf(r), c, n, d, r.lost),
           NEW s, s = Returned(r, c, n, d)
    PROVE  s \in Rec /\ s.pc = "done" /\ s.req = r.req /\ s.overlap = r.overlap
           /\ RequestOK(s, c, n, d)
<1>1. /\ r.req \in Requests /\ r.req.on \in Locks /\ r.req.op \in {"health", "proxy"}
    BY RequestFacts
<1>2. Up(r.req.on, c, n, d, r.lost) \in BOOLEAN
    BY <1>1, UpIsBoolean
<1>3. s \in Rec
    BY <1>2 DEF Returned, Rec, Pcs, Stages
<1>4. /\ s.pc = "done" /\ s.req = r.req /\ s.overlap = r.overlap /\ s.err = r.err
      /\ s.checksOK = r.checksOK /\ s.aborted = r.aborted /\ s.fixesOK = r.fixesOK
      /\ s.up = Up(r.req.on, c, n, d, r.lost)
    BY DEF Returned, Rec
<1>5. ASSUME Promising(r) PROVE Up(r.req.on, c, n, d, r.lost)
    <2>1. r.i \in 1..Len(Items(r.req.on)) /\ Len(Items(r.req.on)) \in Nat
        BY <1>1, ItemsFacts DEF PlaceOK
    <2>2. r.req.op = "proxy" => r.err = "none"
        BY <1>5 DEF Promising
    <2>3. r.i = Len(Items(r.req.on))
        BY <2>1, <2>2 DEF More
    <2>4. \A k \in 1..(r.i - 1) : ItemUp(r.req.on, Items(r.req.on)[k], c, n, d, r.lost)
        BY <1>5 DEF SettledOK
    <2>5. ItemUp(r.req.on, Items(r.req.on)[r.i], c, n, d, r.lost)
        BY <1>5 DEF ItemOf
    <2>6. \A k \in 1..Len(Items(r.req.on)) : ItemUp(r.req.on, Items(r.req.on)[k], c, n, d, r.lost)
        BY <2>1, <2>3, <2>4, <2>5
    <2> QED BY <2>6, <1>1, UpOfItems
<1>6. ToldOK(s)
    <2>1. Promising(s) <=> Promising(r)
        BY <1>4 DEF Promising
    <2> QED BY <1>4, <1>5, <2>1 DEF ToldOK
<1>7. PlaceOK(s)
    BY <1>1, <1>4 DEF PlaceOK
<1> QED BY <1>3, <1>4, <1>6, <1>7 DEF RequestOK, SettledOK, ConfirmOK, NameOK

LEMMA AdvanceOK ==
    ASSUME NEW r \in Rec, NEW c, NEW n, NEW d, r.pc = "item", PlaceOK(r), ToldOK(r),
           SettledOK(r, c, n, d), More(r),
           Promising(r) => ItemUp(r.req.on, ItemOf(r), c, n, d, r.lost),
           NEW s, s = Advance(r)
    PROVE  s \in Rec /\ s.pc = "item" /\ s.req = r.req /\ s.overlap = r.overlap
           /\ RequestOK(s, c, n, d)
<1>1. /\ r.req \in Requests /\ r.req.on \in Locks /\ r.req.op \in {"health", "proxy"}
    BY RequestFacts
<1>2. r.i \in 1..Len(Items(r.req.on)) /\ Len(Items(r.req.on)) \in Nat /\ r.i < Len(Items(r.req.on))
    BY <1>1, ItemsFacts DEF PlaceOK, More
<1>3. s \in Rec
    <2>1. r.i + 1 \in Nat
        BY <1>2
    <2>2. (IF r.req.op = "proxy" THEN "fix" ELSE "check") \in {"check", "fix"}
        OBVIOUS
    <2> QED BY <2>1, <2>2 DEF Advance, Rec, Pcs, Stages
<1>4. /\ s.pc = "item" /\ s.req = r.req /\ s.overlap = r.overlap /\ s.err = r.err
      /\ s.checksOK = r.checksOK /\ s.aborted = r.aborted /\ s.fixesOK = r.fixesOK
      /\ s.lost = r.lost /\ s.up = r.up /\ s.i = r.i + 1 /\ s.st = "list"
      /\ s.ph = IF r.req.op = "proxy" THEN "fix" ELSE "check"
    BY DEF Advance, Rec
<1>5. SettledOK(s, c, n, d)
    <2>1. Promising(s) <=> Promising(r)
        BY <1>4 DEF Promising
    <2>2. SUFFICES ASSUME Promising(r), NEW k \in 1..r.i
                   PROVE  ItemUp(r.req.on, Items(r.req.on)[k], c, n, d, r.lost)
        BY <2>1, <1>2, <1>4 DEF SettledOK
    <2>3. CASE k = r.i
        BY <2>2, <2>3 DEF ItemOf
    <2>4. CASE k # r.i
        <3>1. k \in 1..(r.i - 1)
            BY <2>4, <1>2
        <3> QED BY <2>2, <3>1 DEF SettledOK
    <2> QED BY <2>3, <2>4
<1>6. PlaceOK(s)
    BY <1>1, <1>2, <1>4 DEF PlaceOK
<1>7. ToldOK(s)
    BY <1>4 DEF ToldOK
<1> QED BY <1>3, <1>4, <1>5, <1>6, <1>7 DEF RequestOK, ConfirmOK, NameOK

-----------------------------------------------------------------------------
(* The steps of a request that holds its lock *)

WorldTypes ==
    /\ ctr \in [Containers -> CtrStates] /\ gen \in [Containers -> Nat]
    /\ nets \in [{"control", "build"} -> Nat]
    /\ dirs \in SUBSET {"local:docker", "local:exec"}

LEMMA ItemStep ==
    ASSUME IInv, NEW t \in Thread, th[t].pc = "item", NEW r \in Rec,
           th' = [th EXCEPT ![t] = r], r.pc \in {"item", "done"},
           r.req = th[t].req, r.overlap = th[t].overlap,
           r.pc = "item" => lock' = lock,
           r.pc = "done" => lock' = [l \in Locks |-> IF lock[l] = t THEN NoOne ELSE lock[l]],
           WorldTypes', Grows(ctr, nets, dirs, ctr', nets', dirs'),
           RequestOK(r, ctr', nets', dirs'),
           \A u \in Thread \ {t} : NameOK(th[u], ctr')
    PROVE  IInv'
<1>1. th \in [Thread -> Rec] /\ lock \in [Locks -> Thread \cup {NoOne}]
    BY DEF IInv, Types
<1>2. th'[t] = r /\ \A u \in Thread \ {t} : th'[u] = th[u]
    BY <1>1
<1>3. Types'
    <2>1. th' \in [Thread -> Rec]
        BY <1>1
    <2>2. lock' \in [Locks -> Thread \cup {NoOne}]
        BY <1>1
    <2> QED BY <2>1, <2>2 DEF Types, WorldTypes
<1>4. LockOK'
    <2> SUFFICES ASSUME NEW l \in Locks, NEW u \in Thread
                 PROVE  lock'[l] = u <=> th'[u].pc = "item" /\ th'[u].req.on = l
        BY DEF LockOK
    <2>1. lock[l] = u <=> th[u].pc = "item" /\ th[u].req.on = l
        BY DEF IInv, LockOK
    <2>2. lock[l] = t <=> th[t].req.on = l
        BY DEF IInv, LockOK
    <2>3. CASE r.pc = "item"
        BY <2>1, <2>3, <1>2
    <2>4. CASE r.pc = "done"
        <3>1. lock'[l] = IF lock[l] = t THEN NoOne ELSE lock[l]
            BY <2>4
        <3>2. NoOne \notin Thread
            BY InfraAssumption
        <3>3. CASE u = t
            BY <3>1, <3>2, <3>3, <2>4, <1>2
        <3>4. CASE u # t
            BY <3>1, <3>2, <3>4, <2>1, <1>2
        <3> QED BY <3>3, <3>4
    <2> QED BY <2>3, <2>4
<1>5. OverlapOK'
    <2> SUFFICES ASSUME NEW u \in Thread, NEW w \in Thread,
                        Active(th'[u]), Active(th'[w]),
                        th'[u].req.op = "health", th'[w].req.op = "health",
                        th'[u].req.on # th'[w].req.on
                 PROVE  th'[u].overlap
        BY DEF OverlapOK, Active
    <2>1. \A x \in Thread : /\ th'[x].req = th[x].req /\ th'[x].overlap = th[x].overlap
                            /\ Active(th'[x]) => Active(th[x])
        BY <1>2 DEF Active
    <2> QED BY <2>1 DEF IInv, OverlapOK
<1>6. ASSUME NEW u \in Thread PROVE RequestOK(th'[u], ctr', nets', dirs')
    <2>1. CASE u = t
        BY <2>1, <1>2
    <2>2. CASE u # t
        <3>1. RequestOK(th[u], ctr, nets, dirs)
            BY DEF IInv
        <3>2. SettledOK(th[u], ctr', nets', dirs')
            BY <3>1, SettledStays DEF RequestOK
        <3>3. ConfirmOK(th[u], ctr')
            BY <3>1, ConfirmStays DEF RequestOK
        <3>4. NameOK(th[u], ctr')
            BY <2>2
        <3>5. RequestOK(th[u], ctr', nets', dirs')
            BY <3>1, <3>2, <3>3, <3>4 DEF RequestOK
        <3> QED BY <3>5, <2>2, <1>2
    <2> QED BY <2>1, <2>2
<1>7. (\A u \in Thread : RequestOK(th[u], ctr, nets, dirs))'
    BY <1>6
<1> QED BY <1>3, <1>4, <1>5, <1>7 DEF IInv

\* A step that leaves Docker and the file system alone.
LEMMA QuietWorld ==
    ASSUME IInv, UNCHANGED World, NEW t \in Thread
    PROVE  /\ WorldTypes' /\ Grows(ctr, nets, dirs, ctr', nets', dirs')
           /\ \A u \in Thread \ {t} : NameOK(th[u], ctr')
<1>1. ctr' = ctr /\ gen' = gen /\ nets' = nets /\ dirs' = dirs
    BY DEF World
<1>2. WorldTypes'
    BY <1>1 DEF IInv, Types, WorldTypes
<1>3. Grows(ctr, nets, dirs, ctr', nets', dirs')
    BY <1>1 DEF Grows
<1>4. \A u \in Thread : NameOK(th[u], ctr)
    BY DEF IInv, RequestOK
<1> QED BY <1>1, <1>2, <1>3, <1>4

LEMMA NextItemStep ==
    ASSUME IInv, NEW t \in Thread, th[t].pc = "item", NEW r \in Rec, NextItem(t, r),
           r.pc = "item", r.req = th[t].req, r.overlap = th[t].overlap,
           WorldTypes', Grows(ctr, nets, dirs, ctr', nets', dirs'),
           \A u \in Thread \ {t} : NameOK(th[u], ctr'),
           PlaceOK(r), ToldOK(r), SettledOK(r, ctr, nets, dirs),
           Promising(r) => ItemUp(r.req.on, ItemOf(r), ctr', nets', dirs', r.lost)
    PROVE  IInv'
<1>1. SettledOK(r, ctr', nets', dirs')
    BY SettledStays
<1>2. CASE More(r)
    <2>1. PICK s : s = Advance(r)
        OBVIOUS
    <2>2. s \in Rec /\ s.pc = "item" /\ s.req = r.req /\ s.overlap = r.overlap
          /\ RequestOK(s, ctr', nets', dirs')
        BY <1>1, <1>2, <2>1, AdvanceOK
    <2>3. th' = [th EXCEPT ![t] = s] /\ lock' = lock
        BY <1>2, <2>1 DEF NextItem
    <2> QED BY <2>2, <2>3, ItemStep
<1>3. CASE ~More(r)
    <2>1. th' = [th EXCEPT ![t] = Return(r)]
          /\ lock' = [l \in Locks |-> IF lock[l] = t THEN NoOne ELSE lock[l]]
        BY <1>3 DEF NextItem
    <2>2. PICK s : s = Returned(r, ctr', nets', dirs')
        OBVIOUS
    <2>3. s \in Rec /\ s.pc = "done" /\ s.req = r.req /\ s.overlap = r.overlap
          /\ RequestOK(s, ctr', nets', dirs')
        BY <1>1, <1>3, <2>2, ReturnOK
    <2>4. th' = [th EXCEPT ![t] = s]
        BY <2>1, <2>2 DEF Return, Returned
    <2> QED BY <2>1, <2>3, <2>4, ItemStep
<1> QED BY <1>2, <1>3

LEMMA OfThread ==
    ASSUME IInv, NEW t \in Thread
    PROVE  /\ th[t] \in Rec /\ RequestOK(th[t], ctr, nets, dirs)
           /\ th \in [Thread -> Rec]
BY DEF IInv, Types

\* The record of a request after its checker has answered.
Checked(q, status) ==
    [q EXCEPT !.checksOK = @ /\ status = "ok", !.aborted = @ \/ status = "aborted"]

LEMMA CheckedRecord ==
    ASSUME NEW q \in Rec, NEW status \in {"ok", "failed", "aborted"}, NEW r,
           r = Checked(q, status)
    PROVE  /\ r \in Rec /\ r.pc = q.pc /\ r.req = q.req /\ r.i = q.i /\ r.ph = q.ph
           /\ r.st = q.st /\ r.fixesOK = q.fixesOK /\ r.err = q.err
           /\ r.lost = q.lost /\ r.overlap = q.overlap /\ r.up = q.up
           /\ r.checksOK = (q.checksOK /\ status = "ok")
           /\ r.aborted = (q.aborted \/ status = "aborted")
<1>1. (q.checksOK /\ status = "ok") \in BOOLEAN /\ (q.aborted \/ status = "aborted") \in BOOLEAN
    OBVIOUS
<1>2. PICK a \in BOOLEAN, b \in BOOLEAN :
         a = (q.checksOK /\ status = "ok") /\ b = (q.aborted \/ status = "aborted")
    BY <1>1
<1>3. r = [q EXCEPT !.checksOK = a, !.aborted = b]
    BY <1>2 DEF Checked
<1>4. r \in Rec
    BY <1>3 DEF Rec
<1>5. /\ r.pc = q.pc /\ r.req = q.req /\ r.i = q.i /\ r.ph = q.ph
      /\ r.st = q.st /\ r.fixesOK = q.fixesOK /\ r.err = q.err
      /\ r.lost = q.lost /\ r.overlap = q.overlap /\ r.up = q.up
      /\ r.checksOK = a /\ r.aborted = b
    BY <1>3 DEF Rec
<1> QED BY <1>2, <1>4, <1>5

\* ... and after its fixer has.
AfterFix(q, why) ==
    [q EXCEPT !.fixesOK = @ /\ why = "none",
              !.err = IF why = "none" \/ @ = "conflict" THEN @ ELSE why]

LEMMA FixedRecord ==
    ASSUME NEW q \in Rec, NEW why \in {"none", "error", "conflict"}, NEW r,
           r = AfterFix(q, why)
    PROVE  /\ r \in Rec /\ r.pc = q.pc /\ r.req = q.req /\ r.i = q.i /\ r.ph = q.ph
           /\ r.st = q.st /\ r.checksOK = q.checksOK /\ r.aborted = q.aborted
           /\ r.lost = q.lost /\ r.overlap = q.overlap /\ r.up = q.up
           /\ r.fixesOK = (q.fixesOK /\ why = "none")
           /\ r.err = IF why = "none" \/ q.err = "conflict" THEN q.err ELSE why
<1>0. q.err \in {"none", "error", "conflict"} /\ q.fixesOK \in BOOLEAN
    BY DEF Rec
<1>1. PICK a \in BOOLEAN, b \in {"none", "error", "conflict"} :
         /\ a = (q.fixesOK /\ why = "none")
         /\ b = IF why = "none" \/ q.err = "conflict" THEN q.err ELSE why
    BY <1>0
<1>2. r = [q EXCEPT !.fixesOK = a, !.err = b]
    BY <1>1 DEF AfterFix
<1>3. r \in Rec
    BY <1>2 DEF Rec
<1>4. /\ r.pc = q.pc /\ r.req = q.req /\ r.i = q.i /\ r.ph = q.ph
      /\ r.st = q.st /\ r.checksOK = q.checksOK /\ r.aborted = q.aborted
      /\ r.lost = q.lost /\ r.overlap = q.overlap /\ r.up = q.up
      /\ r.fixesOK = a /\ r.err = b
    BY <1>2 DEF Rec
<1> QED BY <1>1, <1>3, <1>4

\* The checker of an item has answered: an item is passed over only if it is up,
\* or the request has something to report.
LEMMA VerdictStep ==
    ASSUME IInv, NEW t \in Thread, th[t].pc = "item", th[t].ph = "check", UNCHANGED World,
           NEW status \in {"ok", "failed", "aborted"}, Verdict(t, status),
           status = "ok" => ItemUp(th[t].req.on, ItemOf(th[t]), ctr, nets, dirs, th[t].lost)
    PROVE  IInv'
<1>1. PICK q \in Rec : q = th[t] /\ RequestOK(q, ctr, nets, dirs)
    BY OfThread
<1>2. PICK r : r = Checked(q, status)
    OBVIOUS
<1>3. /\ r \in Rec /\ r.pc = q.pc /\ r.req = q.req /\ r.i = q.i /\ r.ph = q.ph
      /\ r.st = q.st /\ r.fixesOK = q.fixesOK /\ r.err = q.err
      /\ r.lost = q.lost /\ r.overlap = q.overlap /\ r.up = q.up
      /\ r.checksOK = (q.checksOK /\ status = "ok")
      /\ r.aborted = (q.aborted \/ status = "aborted")
    BY <1>2, CheckedRecord
<1>4. q.pc = "item" /\ q.ph = "check" /\ PlaceOK(q) /\ ToldOK(q) /\ SettledOK(q, ctr, nets, dirs)
    BY <1>1 DEF RequestOK
<1>5. q.req.op = "health"
    BY <1>4, RequestFacts DEF PlaceOK
<1>6. Promising(r) => Promising(q)
    BY <1>3, <1>5 DEF Promising
<1>7. /\ WorldTypes' /\ Grows(ctr, nets, dirs, ctr', nets', dirs')
      /\ \A u \in Thread \ {t} : NameOK(th[u], ctr')
    BY QuietWorld
<1>8. ctr' = ctr /\ nets' = nets /\ dirs' = dirs
    BY DEF World
<1>9. CASE status = "failed" /\ q.req.fix
    <2>1. PICK s : s = [r EXCEPT !.ph = "fix", !.st = "list", !.saw = 0]
        OBVIOUS
    <2>2. th' = [th EXCEPT ![t] = s] /\ lock' = lock
        BY <1>1, <1>2, <1>9, <2>1 DEF Verdict, Checked
    <2>3. s \in Rec
        BY <1>3, <2>1 DEF Rec, Stages
    <2>4. /\ s.pc = "item" /\ s.req = q.req /\ s.i = q.i /\ s.ph = "fix"
          /\ s.st = "list" /\ s.fixesOK = r.fixesOK /\ s.err = q.err
          /\ s.lost = q.lost /\ s.overlap = q.overlap /\ s.up = q.up
          /\ s.checksOK = r.checksOK /\ s.aborted = r.aborted
        BY <1>3, <1>4, <2>1 DEF Rec
    <2>5. Promising(s) <=> Promising(r)
        BY <1>3, <2>4 DEF Promising
    <2>6. SettledOK(s, ctr, nets, dirs)
        BY <2>4, <2>5, <1>4, <1>6 DEF SettledOK
    <2>7. PlaceOK(s)
        BY <1>3, <1>4, <1>9, <2>4 DEF PlaceOK
    <2>8. ToldOK(s) /\ ConfirmOK(s, ctr) /\ NameOK(s, ctr)
        BY <1>4, <2>4 DEF ToldOK, ConfirmOK, NameOK
    <2>9. RequestOK(s, ctr', nets', dirs')
        BY <2>6, <2>7, <2>8, <1>8 DEF RequestOK
    <2> QED BY <2>2, <2>3, <2>4, <2>9, <1>1, <1>7, ItemStep
<1>10. CASE ~(status = "failed" /\ q.req.fix)
    <2>1. NextItem(t, r)
        BY <1>1, <1>2, <1>10 DEF Verdict, Checked
    <2>2. PlaceOK(r)
        BY <1>3, <1>4 DEF PlaceOK
    <2>3. ToldOK(r)
        BY <1>3, <1>4 DEF ToldOK
    <2>4. SettledOK(r, ctr, nets, dirs)
        BY <1>3, <1>4, <1>6 DEF SettledOK
    <2>5. Promising(r) => status = "ok"
        BY <1>3, <1>5, <1>10 DEF Promising
    <2>6. ItemOf(r) = ItemOf(q)
        BY <1>3 DEF ItemOf
    <2>7. Promising(r) => ItemUp(r.req.on, ItemOf(r), ctr', nets', dirs', r.lost)
        BY <2>5, <2>6, <1>1, <1>3, <1>8
    <2> QED BY <2>1, <2>2, <2>3, <2>4, <2>7, <1>1, <1>3, <1>4, <1>7, NextItemStep
<1> QED BY <1>9, <1>10

\* The fixer of an item has answered.
LEMMA FixedStep ==
    ASSUME IInv, NEW t \in Thread, th[t].pc = "item", th[t].ph = "fix",
           NEW why \in {"none", "error", "conflict"}, Fixed(t, why),
           WorldTypes', Grows(ctr, nets, dirs, ctr', nets', dirs'),
           \A u \in Thread \ {t} : NameOK(th[u], ctr'),
           why = "none" =>
               ItemUp(th[t].req.on, ItemOf(th[t]), ctr', nets', dirs', th[t].lost),
           why = "conflict" => th[t].overlap /\ th[t].req.op = "health"
    PROVE  IInv'
<1>1. PICK q \in Rec : q = th[t] /\ RequestOK(q, ctr, nets, dirs)
    BY OfThread
<1>2. PICK r : r = AfterFix(q, why)
    OBVIOUS
<1>3. /\ r \in Rec /\ r.pc = q.pc /\ r.req = q.req /\ r.i = q.i /\ r.ph = q.ph
      /\ r.st = q.st /\ r.checksOK = q.checksOK /\ r.aborted = q.aborted
      /\ r.lost = q.lost /\ r.overlap = q.overlap /\ r.up = q.up
      /\ r.fixesOK = (q.fixesOK /\ why = "none")
      /\ r.err = IF why = "none" \/ q.err = "conflict" THEN q.err ELSE why
    BY <1>2, FixedRecord
<1>4. q.pc = "item" /\ q.ph = "fix" /\ PlaceOK(q) /\ ToldOK(q) /\ SettledOK(q, ctr, nets, dirs)
    BY <1>1 DEF RequestOK
<1>5. q.req.op \in {"health", "proxy"} /\ (q.req.op = "health" => ~q.checksOK)
    BY <1>4, RequestFacts DEF PlaceOK
<1>6. Promising(r) => Promising(q) /\ why = "none"
    BY <1>3, <1>5 DEF Promising
<1>7. NextItem(t, r)
    BY <1>1, <1>2 DEF Fixed, AfterFix
<1>8. PlaceOK(r)
    BY <1>3, <1>4 DEF PlaceOK
<1>9. ToldOK(r)
    BY <1>1, <1>3, <1>4 DEF ToldOK
<1>10. SettledOK(r, ctr, nets, dirs)
    BY <1>3, <1>4, <1>6 DEF SettledOK
<1>11. ItemOf(r) = ItemOf(q)
    BY <1>3 DEF ItemOf
<1>12. Promising(r) => ItemUp(r.req.on, ItemOf(r), ctr', nets', dirs', r.lost)
    BY <1>1, <1>3, <1>6, <1>11
<1> QED BY <1>1, <1>3, <1>4, <1>7, <1>8, <1>9, <1>10, <1>12, NextItemStep

\* The fixer goes on to its next call.
Staged(q, st, saw, made) == [q EXCEPT !.st = st, !.saw = saw, !.made = made]

LEMMA StageStep ==
    ASSUME IInv, NEW t \in Thread, th[t].pc = "item", NEW q \in Rec, q = th[t],
           NEW st \in Stages, NEW saw \in Nat, NEW made \in BOOLEAN,
           th' = [th EXCEPT ![t] = Staged(q, st, saw, made)],
           lock' = lock,
           WorldTypes', Grows(ctr, nets, dirs, ctr', nets', dirs'),
           \A u \in Thread \ {t} : NameOK(th[u], ctr'),
           st = "confirm" /\ ItemOf(q) \in Containers => ctr'[ItemOf(q)] = "running",
           (st \in {"image", "create"} /\ ItemOf(q) \in Containers /\ ctr'[ItemOf(q)] # "absent")
               => (q.overlap /\ q.req.op = "health")
    PROVE  IInv'
<1>1. PICK r : r = Staged(q, st, saw, made)
    OBVIOUS
<1>2. r \in Rec
    BY <1>1 DEF Staged, Rec
<1>3. /\ r.pc = q.pc /\ r.req = q.req /\ r.i = q.i /\ r.ph = q.ph /\ r.st = st
      /\ r.checksOK = q.checksOK /\ r.aborted = q.aborted /\ r.fixesOK = q.fixesOK
      /\ r.err = q.err /\ r.lost = q.lost /\ r.overlap = q.overlap /\ r.up = q.up
    BY <1>1 DEF Staged, Rec
<1>4. PlaceOK(q) /\ ToldOK(q) /\ SettledOK(q, ctr', nets', dirs')
    BY OfThread, SettledStays DEF RequestOK
<1>5. (Promising(r) <=> Promising(q)) /\ ItemOf(r) = ItemOf(q)
    BY <1>3 DEF Promising, ItemOf
<1>6. SettledOK(r, ctr', nets', dirs')
    BY <1>3, <1>4, <1>5 DEF SettledOK
<1>7. PlaceOK(r)
    BY <1>3, <1>4 DEF PlaceOK
<1>8. ToldOK(r)
    BY <1>3, <1>4, <1>5 DEF ToldOK
<1>9. ConfirmOK(r, ctr') /\ NameOK(r, ctr')
    BY <1>3, <1>5 DEF ConfirmOK, NameOK
<1>10. RequestOK(r, ctr', nets', dirs')
    BY <1>6, <1>7, <1>8, <1>9 DEF RequestOK
<1>11. th' = [th EXCEPT ![t] = r]
    BY <1>1
<1>12. r.pc = "item" /\ r.req = th[t].req /\ r.overlap = th[t].overlap
    BY <1>3
<1> QED BY <1>2, <1>10, <1>11, <1>12, ItemStep

LEMMA ContainerUp ==
    ASSUME NEW on, NEW x \in Containers, NEW c, NEW n, NEW d, NEW g,
           c[x] = "running" \/ x \in g
    PROVE  ItemUp(on, x, c, n, d, g)
BY NotContainers DEF ItemUp

LEMMA StageOnly ==
    ASSUME NEW q \in Rec, NEW st \in Stages, NEW saw \in Nat
    PROVE  /\ [q EXCEPT !.st = st] = Staged(q, st, q.saw, q.made)
           /\ [q EXCEPT !.st = st, !.saw = saw] = Staged(q, st, saw, q.made)
           /\ q.saw \in Nat /\ q.made \in BOOLEAN
BY DEF Staged, Rec

LEMMA ToStep ==
    ASSUME IInv, NEW t \in Thread, th[t].pc = "item", NEW st \in Stages, To(t, st),
           WorldTypes', Grows(ctr, nets, dirs, ctr', nets', dirs'),
           \A u \in Thread \ {t} : NameOK(th[u], ctr'),
           st = "confirm" /\ Item(t) \in Containers => ctr'[Item(t)] = "running",
           (st \in {"image", "create"} /\ Item(t) \in Containers /\ ctr'[Item(t)] # "absent")
               => (th[t].overlap /\ th[t].req.op = "health")
    PROVE  IInv'
<1>1. PICK q \in Rec : q = th[t]
    BY OfThread
<1>2. Item(t) = ItemOf(q)
    BY <1>1 DEF Item, ItemOf
<1>3. /\ [q EXCEPT !.st = st] = Staged(q, st, q.saw, q.made)
      /\ q.saw \in Nat /\ q.made \in BOOLEAN
    BY StageOnly
<1>4. th' = [th EXCEPT ![t] = [q EXCEPT !.st = st]] /\ lock' = lock
    BY <1>1 DEF To
<1>5. th' = [th EXCEPT ![t] = Staged(q, st, q.saw, q.made)]
    BY <1>3, <1>4
<1>6. st = "confirm" /\ ItemOf(q) \in Containers => ctr'[ItemOf(q)] = "running"
    BY <1>2
<1>7. (st \in {"image", "create"} /\ ItemOf(q) \in Containers /\ ctr'[ItemOf(q)] # "absent")
          => (q.overlap /\ q.req.op = "health")
    BY <1>1, <1>2
<1>8. lock' = lock
    BY <1>4
<1> QED BY <1>1, <1>3, <1>5, <1>6, <1>7, <1>8, StageStep

LEMMA CallFailsKeeps ==
    ASSUME IInv, NEW t \in Thread, CallFails(t)
    PROVE  IInv'
<1>1. th[t].pc = "item" /\ UNCHANGED World /\ th[t].ph \in {"check", "fix"}
    BY OfThread DEF CallFails, Rec
<1>2. /\ WorldTypes' /\ Grows(ctr, nets, dirs, ctr', nets', dirs')
      /\ \A u \in Thread \ {t} : NameOK(th[u], ctr')
    BY <1>1, QuietWorld
<1>3. CASE th[t].ph = "check"
    <2>1. Verdict(t, "aborted")
        BY <1>3 DEF CallFails
    <2> QED BY <1>1, <1>3, <2>1, VerdictStep
<1>4. CASE th[t].ph = "fix"
    <2>1. Fixed(t, "error")
        BY <1>4 DEF CallFails
    <2> QED BY <1>1, <1>2, <1>4, <2>1, FixedStep
<1> QED BY <1>1, <1>3, <1>4

LEMMA CheckSimpleKeeps ==
    ASSUME IInv, NEW t \in Thread, CheckSimple(t)
    PROVE  IInv'
<1> DEFINE ok == CASE Item(t) = "dir" -> th[t].req.on \in dirs
                   [] Item(t) = "control" -> nets["control"] > 0
                   [] Item(t) = "port" ->
                        ~portBusy \/ ("redis" \in Containers /\ ctr["redis"] = "running")
<1>1. /\ th[t].pc = "item" /\ th[t].ph = "check" /\ UNCHANGED World
      /\ Item(t) \in {"dir", "control", "port"} /\ Verdict(t, IF ok THEN "ok" ELSE "failed")
    BY DEF CheckSimple, At
<1>2. Item(t) = ItemOf(th[t])
    BY DEF Item, ItemOf
<1>3. CASE ok
    <2>1. Verdict(t, "ok")
        BY <1>1, <1>3
    <2>2. ItemUp(th[t].req.on, Item(t), ctr, nets, dirs, th[t].lost)
        <3>1. CASE Item(t) = "dir"
            BY <3>1, <1>3, NotContainers DEF ItemUp
        <3>2. CASE Item(t) = "control"
            BY <3>2, <1>3, NotContainers DEF ItemUp
        <3>3. CASE Item(t) = "port"
            BY <3>3, NotContainers DEF ItemUp
        <3> QED BY <1>1, <3>1, <3>2, <3>3
    <2> HIDE DEF ok
    <2> QED BY <1>1, <1>2, <2>1, <2>2, VerdictStep
<1>4. CASE ~ok
    <2>1. Verdict(t, "failed")
        BY <1>1, <1>4
    <2> HIDE DEF ok
    <2> QED BY <1>1, <2>1, VerdictStep
<1> QED BY <1>3, <1>4

LEMMA FixSimpleKeeps ==
    ASSUME IInv, NEW t \in Thread, FixSimple(t)
    PROVE  IInv'
<1>1. /\ th[t].pc = "item" /\ th[t].ph = "fix" /\ Item(t) \in {"dir", "port"}
      /\ dirs' = (IF Item(t) = "dir" THEN dirs \cup {th[t].req.on} ELSE dirs)
      /\ ctr' = ctr /\ gen' = gen /\ nets' = nets
      /\ Fixed(t, IF Item(t) = "dir" THEN "none" ELSE "error")
    BY DEF FixSimple, At
<1>2. PICK q \in Rec : q = th[t] /\ PlaceOK(q)
    BY OfThread DEF RequestOK
<1>3. Item(t) = ItemOf(q)
    BY <1>2 DEF Item, ItemOf
<1>4. q.req.on \in Locks /\ q.i \in 1..Len(Items(q.req.on))
    BY <1>1, <1>2, RequestFacts DEF PlaceOK
<1>5. q.req.on \in {"local:docker", "local:exec"}
    BY <1>1, <1>3, <1>4, ItemsFacts DEF ItemOf, Locks
<1>6. WorldTypes'
    BY <1>1, <1>2, <1>5 DEF IInv, Types, WorldTypes
<1>7. Grows(ctr, nets, dirs, ctr', nets', dirs')
    BY <1>1 DEF Grows
<1>8. \A u \in Thread \ {t} : NameOK(th[u], ctr')
    BY <1>1 DEF IInv, RequestOK
<1>9. CASE Item(t) = "dir"
    <2>1. Fixed(t, "none")
        BY <1>1, <1>9
    <2>2. ItemUp(th[t].req.on, ItemOf(th[t]), ctr', nets', dirs', th[t].lost)
        BY <1>1, <1>2, <1>3, <1>9, NotContainers DEF ItemUp
    <2> QED BY <1>1, <1>6, <1>7, <1>8, <2>1, <2>2, FixedStep
<1>10. CASE Item(t) # "dir"
    <2>1. Fixed(t, "error")
        BY <1>1, <1>10
    <2> QED BY <1>1, <1>6, <1>7, <1>8, <2>1, FixedStep
<1> QED BY <1>9, <1>10

LEMMA FixNetworkKeeps ==
    ASSUME IInv, NEW t \in Thread, FixNetwork(t)
    PROVE  IInv'
<1>1. th[t].pc = "item" /\ th[t].ph = "fix" /\ Item(t) \in {"control", "build"}
    BY DEF FixNetwork, At
<1>2. Item(t) = ItemOf(th[t]) /\ Item(t) \notin Containers
    BY <1>1, NotContainers DEF Item, ItemOf
<1>3. CASE nets[Item(t)] > 0 /\ UNCHANGED World /\ Fixed(t, "none")
    <2>1. /\ WorldTypes' /\ Grows(ctr, nets, dirs, ctr', nets', dirs')
          /\ \A u \in Thread \ {t} : NameOK(th[u], ctr')
        BY <1>3, QuietWorld
    <2>2. nets' = nets
        BY <1>3 DEF World
    <2>3. ItemUp(th[t].req.on, ItemOf(th[t]), ctr', nets', dirs', th[t].lost)
        BY <1>1, <1>2, <1>3, <2>2 DEF ItemUp
    <2> QED BY <1>1, <1>3, <2>1, <2>3, FixedStep
<1>4. CASE /\ th' = [th EXCEPT ![t].st = "create"]
           /\ UNCHANGED <<ctr, gen, nets, dirs, portBusy, lock>>
    <2>1. UNCHANGED World /\ To(t, "create")
        BY <1>4 DEF World, To
    <2>2. /\ WorldTypes' /\ Grows(ctr, nets, dirs, ctr', nets', dirs')
          /\ \A u \in Thread \ {t} : NameOK(th[u], ctr')
        BY <2>1, QuietWorld
    <2>3. "create" \in Stages
        BY DEF Stages
    <2> QED BY <1>1, <1>2, <2>1, <2>2, <2>3, ToStep
<1>5. CASE /\ nets' = [nets EXCEPT ![Item(t)] = @ + 1]
           /\ UNCHANGED <<ctr, gen, dirs, portBusy>> /\ Fixed(t, "none")
    <2>1. nets \in [{"control", "build"} -> Nat]
        BY DEF IInv, Types
    <2>2. PICK x \in {"control", "build"} : x = Item(t)
        BY <1>1
    <2>3. nets' \in [{"control", "build"} -> Nat] /\ nets'[x] > 0
          /\ \A y \in {"control", "build"} : nets[y] > 0 => nets'[y] > 0
        BY <1>5, <2>1, <2>2
    <2>4. WorldTypes'
        BY <1>5, <2>3 DEF IInv, Types, WorldTypes
    <2>5. Grows(ctr, nets, dirs, ctr', nets', dirs')
        BY <1>5, <2>3 DEF Grows
    <2>6. \A u \in Thread \ {t} : NameOK(th[u], ctr')
        BY <1>5 DEF IInv, RequestOK
    <2>7. ItemUp(th[t].req.on, ItemOf(th[t]), ctr', nets', dirs', th[t].lost)
        BY <1>1, <1>2, <2>2, <2>3 DEF ItemUp
    <2> QED BY <1>1, <1>5, <2>4, <2>5, <2>6, <2>7, FixedStep
<1> QED BY <1>3, <1>4, <1>5 DEF FixNetwork

LEMMA AtContainer ==
    ASSUME NEW t \in Thread, NEW ph, At(t, ph, Containers)
    PROVE  /\ th[t].pc = "item" /\ th[t].ph = ph /\ Item(t) \in Containers
           /\ Item(t) = ItemOf(th[t])
BY DEF At, Item, ItemOf

LEMMA ListContainerKeeps ==
    ASSUME IInv, NEW t \in Thread, ListContainer(t)
    PROVE  IInv'
<1>1. PICK ph \in {"check", "fix"} : At(t, ph, Containers)
    BY DEF ListContainer
<1>2. /\ th[t].pc = "item" /\ th[t].ph = ph /\ Item(t) \in Containers
      /\ Item(t) = ItemOf(th[t]) /\ UNCHANGED World
    BY <1>1, AtContainer DEF ListContainer
<1>3. /\ WorldTypes' /\ Grows(ctr, nets, dirs, ctr', nets', dirs')
      /\ \A u \in Thread \ {t} : NameOK(th[u], ctr')
    BY <1>2, QuietWorld
<1>4. CASE /\ th' = [th EXCEPT ![t].st = "inspect", ![t].saw = gen[Item(t)]]
           /\ UNCHANGED lock
    <2>1. PICK q \in Rec : q = th[t]
        BY OfThread
    <2>2. PICK g \in Nat : g = gen[Item(t)]
        BY <1>2 DEF IInv, Types
    <2>3. /\ [q EXCEPT !.st = "inspect", !.saw = g] = Staged(q, "inspect", g, q.made)
          /\ q.made \in BOOLEAN /\ "inspect" \in Stages
        BY StageOnly DEF Stages
    <2>4. th' = [th EXCEPT ![t] = [q EXCEPT !.st = "inspect", !.saw = g]] /\ lock' = lock
        BY <1>4, <2>1, <2>2, OfThread
    <2>5. th' = [th EXCEPT ![t] = Staged(q, "inspect", g, q.made)]
        BY <2>3, <2>4
    <2>6. lock' = lock
        BY <1>4
    <2> QED BY <1>2, <1>3, <2>1, <2>2, <2>3, <2>5, <2>6, StageStep
<1>5. CASE th[t].ph = "check" /\ Verdict(t, "failed")
    BY <1>2, <1>5, VerdictStep
<1>6. CASE ctr[Item(t)] = "absent" /\ th[t].ph = "fix" /\ To(t, "image")
    <2>1. ctr'[Item(t)] = "absent" /\ "image" \in Stages
        BY <1>2, <1>6 DEF World, Stages
    <2> QED BY <1>2, <1>3, <1>6, <2>1, ToStep
<1> QED BY <1>4, <1>5, <1>6 DEF ListContainer

LEMMA InspectContainerKeeps ==
    ASSUME IInv, NEW t \in Thread, InspectContainer(t)
    PROVE  IInv'
<1>1. PICK ph \in {"check", "fix"} : At(t, ph, Containers)
    BY DEF InspectContainer
<1>2. /\ th[t].pc = "item" /\ th[t].ph = ph /\ Item(t) \in Containers
      /\ Item(t) = ItemOf(th[t]) /\ UNCHANGED World
    BY <1>1, AtContainer DEF InspectContainer
<1>3. /\ WorldTypes' /\ Grows(ctr, nets, dirs, ctr', nets', dirs')
      /\ \A u \in Thread \ {t} : NameOK(th[u], ctr')
    BY <1>2, QuietWorld
<1>4. ctr' = ctr
    BY <1>2 DEF World
<1>5. CASE th[t].ph = "check" /\ Verdict(t, "aborted")
    BY <1>2, <1>5, VerdictStep
<1>6. CASE th[t].ph = "fix" /\ Fixed(t, "error")
    BY <1>2, <1>3, <1>6, FixedStep
<1>7. CASE /\ th[t].ph = "check"
           /\ Verdict(t, IF ctr[Item(t)] = "running" THEN "ok" ELSE "failed")
    <2>1. CASE ctr[Item(t)] = "running"
        <3>1. Verdict(t, "ok")
            BY <1>7, <2>1
        <3>2. ItemUp(th[t].req.on, ItemOf(th[t]), ctr, nets, dirs, th[t].lost)
            BY <1>2, <2>1, ContainerUp
        <3> QED BY <1>2, <1>7, <3>1, <3>2, VerdictStep
    <2>2. CASE ctr[Item(t)] # "running"
        <3>1. Verdict(t, "failed")
            BY <1>7, <2>2
        <3> QED BY <1>2, <1>7, <3>1, VerdictStep
    <2> QED BY <2>1, <2>2
<1>8. CASE th[t].ph = "fix" /\ ctr[Item(t)] = "running" /\ Fixed(t, "none")
    <2>1. ItemUp(th[t].req.on, ItemOf(th[t]), ctr', nets', dirs', th[t].lost)
        BY <1>2, <1>4, <1>8, ContainerUp
    <2> QED BY <1>2, <1>3, <1>8, <2>1, FixedStep
<1>9. CASE To(t, "start")
    <2>1. "start" \in Stages
        BY DEF Stages
    <2> QED BY <1>2, <1>3, <1>9, <2>1, ToStep
<1> QED BY <1>5, <1>6, <1>7, <1>8, <1>9 DEF InspectContainer

LEMMA FindOrPullImageKeeps ==
    ASSUME IInv, NEW t \in Thread, FindOrPullImage(t)
    PROVE  IInv'
<1>1. /\ th[t].pc = "item" /\ th[t].ph = "fix" /\ Item(t) \in Containers
      /\ Item(t) = ItemOf(th[t]) /\ th[t].st = "image" /\ UNCHANGED World /\ To(t, "create")
    BY AtContainer DEF FindOrPullImage
<1>2. /\ WorldTypes' /\ Grows(ctr, nets, dirs, ctr', nets', dirs')
      /\ \A u \in Thread \ {t} : NameOK(th[u], ctr')
    BY <1>1, QuietWorld
<1>3. ctr' = ctr /\ "create" \in Stages
    BY <1>1 DEF World, Stages
<1>4. NameOK(th[t], ctr)
    BY OfThread DEF RequestOK
<1>5. ctr'[Item(t)] # "absent" => th[t].overlap /\ th[t].req.op = "health"
    BY <1>1, <1>3, <1>4 DEF NameOK
<1> QED BY <1>1, <1>2, <1>3, <1>5, ToStep

\* The name a fixer takes was wanted by another one only if the two are
\* healthchecks of different runners.
LEMMA NameTaken ==
    ASSUME IInv, NEW t \in Thread, NEW u \in Thread \ {t},
           th[t].pc = "item", th[u].pc = "item",
           ItemOf(th[t]) = ItemOf(th[u]), ItemOf(th[t]) \in Containers
    PROVE  th[u].overlap /\ th[u].req.op = "health"
<1>1. PICK q \in Rec, r \in Rec : q = th[t] /\ r = th[u] /\ PlaceOK(q) /\ PlaceOK(r)
    BY OfThread DEF RequestOK
<1>2. /\ q.req.on \in Locks /\ q.req.op \in {"health", "proxy"}
      /\ q.req.op = "proxy" => q.req.on = "docker:go"
    BY <1>1, RequestFacts
<1>3. /\ r.req.on \in Locks /\ r.req.op \in {"health", "proxy"}
      /\ r.req.op = "proxy" => r.req.on = "docker:go"
    BY <1>1, RequestFacts
<1>4. q.req.on # r.req.on
    BY <1>1, <1>2 DEF IInv, LockOK
<1>5. q.i \in 1..Len(Items(q.req.on)) /\ r.i \in 1..Len(Items(r.req.on))
    BY <1>1 DEF PlaceOK
<1>6. q.req.on # "docker:go" /\ r.req.on # "docker:go"
    BY <1>1, <1>2, <1>3, <1>4, <1>5, SharedItem DEF ItemOf
<1>7. q.req.op = "health" /\ r.req.op = "health"
    BY <1>2, <1>3, <1>6
<1>8. Active(q) /\ Active(r)
    BY <1>1 DEF Active
<1> QED BY <1>1, <1>4, <1>7, <1>8 DEF IInv, OverlapOK

LEMMA CreateContainerKeeps ==
    ASSUME IInv, NEW t \in Thread, CreateContainer(t)
    PROVE  IInv'
<1>1. /\ th[t].pc = "item" /\ th[t].ph = "fix" /\ Item(t) \in Containers
      /\ Item(t) = ItemOf(th[t]) /\ th[t].st = "create"
      /\ nets' = nets /\ dirs' = dirs /\ portBusy' = portBusy
    BY AtContainer DEF CreateContainer
<1>2. ctr \in [Containers -> CtrStates] /\ gen \in [Containers -> Nat]
    BY DEF IInv, Types
<1>3. CASE /\ ctr[Item(t)] = "absent" /\ ctr' = [ctr EXCEPT ![Item(t)] = "created"]
           /\ gen' = [gen EXCEPT ![Item(t)] = @ + 1]
           /\ th' = [th EXCEPT ![t].st = "start", ![t].saw = gen'[Item(t)], ![t].made = TRUE]
           /\ UNCHANGED lock
    <2>1. PICK q \in Rec : q = th[t]
        BY OfThread
    <2>2. PICK x \in Containers : x = Item(t)
        BY <1>1
    <2>3. /\ ctr' \in [Containers -> CtrStates] /\ ctr'[x] = "created"
          /\ \A y \in Containers \ {x} : ctr'[y] = ctr[y]
        BY <1>2, <1>3, <2>2 DEF CtrStates
    <2>4. gen' \in [Containers -> Nat]
        BY <1>2, <1>3, <2>2
    <2>5. WorldTypes'
        BY <1>1, <2>3, <2>4 DEF IInv, Types, WorldTypes
    <2>6. Grows(ctr, nets, dirs, ctr', nets', dirs')
        BY <1>1, <1>3, <2>2, <2>3 DEF Grows
    <2>7. ASSUME NEW u \in Thread \ {t} PROVE NameOK(th[u], ctr')
        <3>1. NameOK(th[u], ctr)
            BY DEF IInv, RequestOK
        <3>2. SUFFICES ASSUME th[u].pc = "item", th[u].ph = "fix",
                              th[u].st \in {"image", "create"},
                              ItemOf(th[u]) \in Containers, ctr'[ItemOf(th[u])] # "absent"
                       PROVE  th[u].overlap /\ th[u].req.op = "health"
            BY DEF NameOK
        <3>3. CASE ItemOf(th[u]) = x
            BY <1>1, <2>2, <3>2, <3>3, NameTaken
        <3>4. CASE ItemOf(th[u]) # x
            BY <2>3, <3>1, <3>2, <3>4 DEF NameOK
        <3> QED BY <3>3, <3>4
    <2>8. PICK g \in Nat : g = gen'[Item(t)]
        BY <2>2, <2>4
    <2>9. th' = [th EXCEPT ![t] = Staged(q, "start", g, TRUE)] /\ lock' = lock
        <3>1. th' = [th EXCEPT ![t].st = "start", ![t].saw = g, ![t].made = TRUE]
            BY <1>3, <2>8
        <3>2. th' = [th EXCEPT ![t] = [q EXCEPT !.st = "start", !.saw = g, !.made = TRUE]]
            BY <3>1, <2>1, OfThread
        <3> QED BY <1>3, <3>2 DEF Staged
    <2>10. "start" \in Stages
        BY DEF Stages
    <2> QED BY <1>1, <2>1, <2>5, <2>6, <2>7, <2>9, <2>10, StageStep
<1>4. CASE ctr[Item(t)] # "absent" /\ UNCHANGED <<ctr, gen>> /\ Fixed(t, "conflict")
    <2>1. UNCHANGED World
        BY <1>1, <1>4 DEF World
    <2>2. /\ WorldTypes' /\ Grows(ctr, nets, dirs, ctr', nets', dirs')
          /\ \A u \in Thread \ {t} : NameOK(th[u], ctr')
        BY <2>1, QuietWorld
    <2>3. NameOK(th[t], ctr)
        BY OfThread DEF RequestOK
    <2>4. th[t].overlap /\ th[t].req.op = "health"
        BY <1>1, <1>4, <2>3 DEF NameOK
    <2> QED BY <1>1, <1>4, <2>2, <2>4, FixedStep
<1> QED BY <1>3, <1>4 DEF CreateContainer

LEMMA StartContainerKeeps ==
    ASSUME IInv, NEW t \in Thread, StartContainer(t)
    PROVE  IInv'
<1>1. /\ th[t].pc = "item" /\ th[t].ph = "fix" /\ Item(t) \in Containers
      /\ Item(t) = ItemOf(th[t])
      /\ gen' = gen /\ nets' = nets /\ dirs' = dirs /\ portBusy' = portBusy
    BY AtContainer DEF StartContainer
<1>2. ctr \in [Containers -> CtrStates]
    BY DEF IInv, Types
<1>3. CASE Same(t) /\ ctr' = [ctr EXCEPT ![Item(t)] = "running"] /\ To(t, "confirm")
    <2>1. PICK x \in Containers : x = Item(t)
        BY <1>1
    <2>2. /\ ctr' \in [Containers -> CtrStates] /\ ctr'[x] = "running" /\ ctr[x] # "absent"
          /\ \A y \in Containers \ {x} : ctr'[y] = ctr[y]
        BY <1>2, <1>3, <2>1 DEF CtrStates, Same
    <2>3. WorldTypes'
        BY <1>1, <2>2 DEF IInv, Types, WorldTypes
    <2>4. Grows(ctr, nets, dirs, ctr', nets', dirs')
        BY <1>1, <2>2 DEF Grows
    <2>5. ASSUME NEW u \in Thread \ {t} PROVE NameOK(th[u], ctr')
        <3>1. NameOK(th[u], ctr)
            BY DEF IInv, RequestOK
        <3> QED BY <2>2, <3>1 DEF NameOK
    <2>6. "confirm" \in Stages
        BY DEF Stages
    <2> QED BY <1>1, <1>3, <2>1, <2>2, <2>3, <2>4, <2>5, <2>6, ToStep
<1>4. CASE UNCHANGED ctr /\ Fixed(t, "error")
    <2>1. UNCHANGED World
        BY <1>1, <1>4 DEF World
    <2>2. /\ WorldTypes' /\ Grows(ctr, nets, dirs, ctr', nets', dirs')
          /\ \A u \in Thread \ {t} : NameOK(th[u], ctr')
        BY <2>1, QuietWorld
    <2> QED BY <1>1, <1>4, <2>2, FixedStep
<1> QED BY <1>3, <1>4 DEF StartContainer

LEMMA ConfirmContainerKeeps ==
    ASSUME IInv, NEW t \in Thread, ConfirmContainer(t)
    PROVE  IInv'
<1>1. /\ th[t].pc = "item" /\ th[t].ph = "fix" /\ Item(t) \in Containers
      /\ Item(t) = ItemOf(th[t]) /\ th[t].st = "confirm" /\ UNCHANGED World
    BY AtContainer DEF ConfirmContainer
<1>2. /\ WorldTypes' /\ Grows(ctr, nets, dirs, ctr', nets', dirs')
      /\ \A u \in Thread \ {t} : NameOK(th[u], ctr')
    BY <1>1, QuietWorld
<1>3. PICK why \in {"none", "error", "conflict"} : why # "conflict" /\ Fixed(t, why)
    <2>1. CASE Same(t) \/ ~th[t].made
        BY <2>1 DEF ConfirmContainer
    <2>2. CASE ~(Same(t) \/ ~th[t].made)
        BY <2>2 DEF ConfirmContainer
    <2> QED BY <2>1, <2>2
<1>4. ConfirmOK(th[t], ctr) /\ ctr' = ctr
    BY <1>1, OfThread DEF RequestOK, World
<1>5. ctr'[ItemOf(th[t])] = "running" \/ ItemOf(th[t]) \in th[t].lost
    BY <1>1, <1>4 DEF ConfirmOK
<1>6. ItemUp(th[t].req.on, ItemOf(th[t]), ctr', nets', dirs', th[t].lost)
    BY <1>1, <1>5, ContainerUp
<1> QED BY <1>1, <1>2, <1>3, <1>6, FixedStep

-----------------------------------------------------------------------------
(* Requests come, take their lock and terminate containers *)

LEMMA IdleRecord ==
    /\ Idle \in Rec /\ Idle.pc = "idle" /\ Idle.err = "none"
    /\ \A c, n, d : RequestOK(Idle, c, n, d)
<1>1. Idle \in Rec
    BY DEF Idle, Rec, Pcs, Stages, NoRequest
<1>2. Idle.pc = "idle" /\ Idle.err = "none"
    BY DEF Idle
<1> QED BY <1>1, <1>2 DEF RequestOK, PlaceOK, SettledOK, ConfirmOK, NameOK, ToldOK

LEMMA OverlapMark ==
    ASSUME NEW q \in Rec, NEW c, NEW n, NEW d, RequestOK(q, c, n, d), q.pc # "idle",
           q.req.op = "health", NEW r, r = [q EXCEPT !.overlap = TRUE]
    PROVE  r \in Rec /\ r.pc = q.pc /\ r.req = q.req /\ r.overlap /\ RequestOK(r, c, n, d)
<1>1. r \in Rec
    BY DEF Rec
<1>2. /\ r.pc = q.pc /\ r.req = q.req /\ r.i = q.i /\ r.ph = q.ph /\ r.st = q.st
      /\ r.checksOK = q.checksOK /\ r.aborted = q.aborted /\ r.fixesOK = q.fixesOK
      /\ r.err = q.err /\ r.lost = q.lost /\ r.overlap = TRUE /\ r.up = q.up
    BY DEF Rec
<1>3. (Promising(r) <=> Promising(q)) /\ ItemOf(r) = ItemOf(q)
    BY <1>2 DEF Promising, ItemOf
<1>4. PlaceOK(r)
    BY <1>2 DEF RequestOK, PlaceOK
<1>5. SettledOK(r, c, n, d)
    BY <1>2, <1>3 DEF RequestOK, SettledOK
<1>6. ConfirmOK(r, c) /\ NameOK(r, c)
    BY <1>2, <1>3 DEF RequestOK, ConfirmOK, NameOK
<1>7. ToldOK(r)
    BY <1>2, <1>3 DEF RequestOK, ToldOK
<1> QED BY <1>1, <1>2, <1>4, <1>5, <1>6, <1>7 DEF RequestOK

\* One container goes down, or nothing happens to it.
Stops(c, c2, z) ==
    /\ c2[z] # "absent" => c[z] # "absent"
    /\ \A y \in Containers \ {z} : c2[y] = c[y]

LEMMA ItemOrLost ==
    ASSUME NEW on, NEW x, NEW z \in Containers, NEW c, NEW n, NEW d, NEW g, NEW c2,
           Stops(c, c2, z), ItemUp(on, x, c, n, d, g), NEW g2, g \subseteq g2,
           x = z => z \in g2
    PROVE  ItemUp(on, x, c2, n, d, g2)
<1>1. CASE x = "dir"
    BY <1>1, NotContainers DEF ItemUp
<1>2. CASE x \in {"control", "build"}
    BY <1>2, NotContainers DEF ItemUp
<1>3. CASE x \notin {"dir", "control", "build"}
    BY <1>3 DEF ItemUp, Stops
<1> QED BY <1>1, <1>2, <1>3

\* A container that goes down behind the back of a request is one of those it
\* has lost; the others are as they were.
LEMMA LosingOK ==
    ASSUME NEW q \in Rec, NEW c, NEW n, NEW d, NEW c2, RequestOK(q, c, n, d),
           NEW z \in Containers, Stops(c, c2, z), NEW r, r = Losing(q, z)
    PROVE  r \in Rec /\ r.pc = q.pc /\ r.req = q.req /\ r.overlap = q.overlap
           /\ RequestOK(r, c2, n, d)
<1>1. PICK g \in SUBSET Containers :
         g = IF q.pc = "item" /\ z \in Seen(q) THEN q.lost \cup {z} ELSE q.lost
    BY DEF Rec
<1>2. r = [q EXCEPT !.lost = g]
    BY <1>1 DEF Losing, Rec
<1>3. r \in Rec
    BY <1>2 DEF Rec
<1>4. /\ r.pc = q.pc /\ r.req = q.req /\ r.i = q.i /\ r.ph = q.ph /\ r.st = q.st
      /\ r.checksOK = q.checksOK /\ r.aborted = q.aborted /\ r.fixesOK = q.fixesOK
      /\ r.err = q.err /\ r.lost = g /\ r.overlap = q.overlap /\ r.up = q.up
    BY <1>2 DEF Rec
<1>5. (Promising(r) <=> Promising(q)) /\ ItemOf(r) = ItemOf(q)
    BY <1>4 DEF Promising, ItemOf
<1>6. q.lost \subseteq g /\ (q.pc = "item" /\ z \in Seen(q) => z \in g)
    BY <1>1
<1>7. PlaceOK(r)
    BY <1>4 DEF RequestOK, PlaceOK
<1>8. SettledOK(r, c2, n, d)
    <2>1. SUFFICES ASSUME q.pc = "item", Promising(q), NEW k \in 1..(q.i - 1)
                   PROVE  ItemUp(q.req.on, Items(q.req.on)[k], c2, n, d, g)
        BY <1>4, <1>5 DEF SettledOK
    <2>2. PICK x : x = Items(q.req.on)[k]
        OBVIOUS
    <2>3. ItemUp(q.req.on, x, c, n, d, q.lost)
        BY <2>1, <2>2 DEF RequestOK, SettledOK
    <2>4. x = z => z \in g
        BY <1>6, <2>1, <2>2 DEF Seen
    <2>5. ItemUp(q.req.on, x, c2, n, d, g)
        BY <1>6, <2>3, <2>4, ItemOrLost
    <2> QED BY <2>2, <2>5
<1>9. ConfirmOK(r, c2)
    <2>1. SUFFICES ASSUME q.pc = "item", q.ph = "fix", q.st = "confirm",
                          ItemOf(q) \in Containers
                   PROVE  c2[ItemOf(q)] = "running" \/ ItemOf(q) \in g
        BY <1>4, <1>5 DEF ConfirmOK
    <2>2. c[ItemOf(q)] = "running" \/ ItemOf(q) \in q.lost
        BY <2>1 DEF RequestOK, ConfirmOK
    <2>3. CASE ItemOf(q) = z
        <3>1. z \in Seen(q)
            BY <2>1, <2>3 DEF Seen, ItemOf
        <3> QED BY <1>6, <2>1, <2>3, <3>1
    <2>4. CASE ItemOf(q) # z
        BY <1>6, <2>1, <2>2, <2>4 DEF Stops
    <2> QED BY <2>3, <2>4
<1>10. NameOK(r, c2)
    <2>1. SUFFICES ASSUME q.pc = "item", q.ph = "fix", q.st \in {"image", "create"},
                          ItemOf(q) \in Containers, c2[ItemOf(q)] # "absent"
                   PROVE  q.overlap /\ q.req.op = "health"
        BY <1>4, <1>5 DEF NameOK
    <2>2. c[ItemOf(q)] # "absent"
        BY <2>1 DEF Stops
    <2> QED BY <2>1, <2>2 DEF RequestOK, NameOK
<1>11. ToldOK(r)
    BY <1>4, <1>5 DEF RequestOK, ToldOK
<1> QED BY <1>3, <1>4, <1>7, <1>8, <1>9, <1>10, <1>11 DEF RequestOK

LEMMA InitKeeps == Init => IInv
<1> SUFFICES ASSUME Init PROVE IInv
    OBVIOUS
<1>1. th = [t \in Thread |-> Idle] /\ lock = [l \in Locks |-> NoOne]
    BY DEF Init
<1>2. \A t \in Thread : th[t] = Idle
    BY <1>1
<1>3. Types
    <2>1. th \in [Thread -> Rec]
        BY <1>1, IdleRecord
    <2>2. lock \in [Locks -> Thread \cup {NoOne}] /\ gen \in [Containers -> Nat]
        BY <1>1 DEF Init
    <2>3. ctr \in [Containers -> CtrStates]
        BY DEF Init, CtrStates
    <2>4. nets \in [{"control", "build"} -> Nat]
        <3>1. PICK k \in {0, 1} : nets = [n \in {"control", "build"} |-> k]
            BY DEF Init
        <3> QED BY <3>1
    <2>5. dirs \in SUBSET {"local:docker", "local:exec"}
        BY DEF Init
    <2> QED BY <2>1, <2>2, <2>3, <2>4, <2>5 DEF Types
<1>4. LockOK
    BY <1>1, <1>2, IdleRecord, InfraAssumption DEF LockOK
<1>5. OverlapOK
    BY <1>2, IdleRecord DEF OverlapOK, Active
<1>6. \A t \in Thread : RequestOK(th[t], ctr, nets, dirs)
    BY <1>2, IdleRecord
<1> QED BY <1>3, <1>4, <1>5, <1>6 DEF IInv

LEMMA BeginKeeps ==
    ASSUME IInv, NEW t \in Thread, NEW b \in Requests, Begin(t, b)
    PROVE  IInv'
<1> DEFINE others == {u \in Thread : /\ th[u].pc \notin {"idle", "done"}
                                     /\ th[u].req.op = "health" /\ b.op = "health"
                                     /\ th[u].req.on # b.on}
           new == [Idle EXCEPT !.req = b, !.overlap = others # {},
                      !.pc = IF b.op = "terminate" THEN "listAll" ELSE "lock"]
<1>1. /\ th[t].pc = "idle" /\ ctr' = ctr /\ gen' = gen /\ nets' = nets /\ dirs' = dirs
      /\ lock' = lock
      /\ th' = [u \in Thread |-> IF u = t THEN new
                                 ELSE IF u \in others THEN [th[u] EXCEPT !.overlap = TRUE]
                                 ELSE th[u]]
    BY DEF Begin
<1>2. PICK r : r = new
    OBVIOUS
<1>3. PICK met \in BOOLEAN, pc \in Pcs :
         /\ met = (others # {}) /\ pc = IF b.op = "terminate" THEN "listAll" ELSE "lock"
    <2>1. (others # {}) \in BOOLEAN
        OBVIOUS
    <2>2. (IF b.op = "terminate" THEN "listAll" ELSE "lock") \in Pcs
        BY DEF Pcs
    <2> QED BY <2>1, <2>2
<1>4. r = [Idle EXCEPT !.req = b, !.overlap = met, !.pc = pc]
    BY <1>2, <1>3
<1>5. r \in Rec
    BY <1>4, IdleRecord DEF Rec
<1>6. /\ r.req = b /\ r.overlap = met /\ r.pc = pc /\ r.i = 1 /\ r.st = "list"
      /\ r.err = "none" /\ pc \in {"listAll", "lock"} /\ (pc = "lock" <=> b.op # "terminate")
    BY <1>3, <1>4 DEF Idle
<1>7. RequestOK(r, ctr, nets, dirs)
    BY <1>6 DEF RequestOK, PlaceOK, SettledOK, ConfirmOK, NameOK, ToldOK
<1>8. th'[t] = r
    BY <1>1, <1>2
<1>9. ASSUME NEW u \in Thread \ {t}
      PROVE  /\ th'[u] \in Rec /\ RequestOK(th'[u], ctr, nets, dirs)
             /\ th'[u].pc = th[u].pc /\ th'[u].req = th[u].req
             /\ th[u].overlap => th'[u].overlap
             /\ u \in others => th'[u].overlap
    <2>1. th[u] \in Rec /\ RequestOK(th[u], ctr, nets, dirs)
        BY OfThread
    <2>2. CASE u \in others
        <3>1. th'[u] = [th[u] EXCEPT !.overlap = TRUE]
            BY <1>1, <2>2
        <3>2. th[u].pc # "idle" /\ th[u].req.op = "health"
            BY <2>2
        <3> HIDE DEF others, new
        <3> QED BY <2>1, <3>1, <3>2, OverlapMark
    <2>3. CASE u \notin others
        <3>1. th'[u] = th[u]
            BY <1>1, <2>3
        <3> HIDE DEF others, new
        <3> QED BY <2>1, <2>3, <3>1
    <2> QED BY <2>2, <2>3
<1>10. \A u \in Thread : th'[u] \in Rec /\ RequestOK(th'[u], ctr, nets, dirs)
    BY <1>5, <1>7, <1>8, <1>9
<1>11. Types'
    <2>1. th' = [u \in Thread |-> th'[u]]
        BY <1>1
    <2>2. th' \in [Thread -> Rec]
        BY <1>10, <2>1
    <2> QED BY <1>1, <2>2 DEF IInv, Types
<1>12. LockOK'
    <2> SUFFICES ASSUME NEW l \in Locks, NEW u \in Thread
                 PROVE  lock'[l] = u <=> th'[u].pc = "item" /\ th'[u].req.on = l
        BY DEF LockOK
    <2>1. lock[l] = u <=> th[u].pc = "item" /\ th[u].req.on = l
        BY DEF IInv, LockOK
    <2>2. CASE u = t
        BY <1>1, <1>6, <1>8, <2>1, <2>2
    <2>3. CASE u # t
        BY <1>1, <1>9, <2>1, <2>3
    <2> QED BY <2>2, <2>3
<1>13. OverlapOK'
    <2> SUFFICES ASSUME NEW u \in Thread, NEW w \in Thread,
                        Active(th'[u]), Active(th'[w]),
                        th'[u].req.op = "health", th'[w].req.op = "health",
                        th'[u].req.on # th'[w].req.on
                 PROVE  th'[u].overlap
        BY DEF OverlapOK, Active
    <2>1. CASE u = t
        <3>1. w \in Thread \ {t}
            BY <2>1
        <3>2. w \in others
            BY <2>1, <3>1, <1>6, <1>8, <1>9 DEF Active
        <3>3. met
            BY <1>3, <3>2
        <3> QED BY <2>1, <3>3, <1>6, <1>8
    <2>2. CASE u # t /\ w = t
        <3>1. u \in others
            BY <2>2, <1>6, <1>8, <1>9 DEF Active
        <3> QED BY <2>2, <3>1, <1>9
    <2>3. CASE u # t /\ w # t
        <3>1. th[u].overlap
            BY <2>3, <1>9 DEF IInv, OverlapOK, Active
        <3> QED BY <2>3, <3>1, <1>9
    <2> QED BY <2>1, <2>2, <2>3
<1>14. (\A u \in Thread : RequestOK(th[u], ctr, nets, dirs))'
    BY <1>1, <1>10
<1> QED BY <1>11, <1>12, <1>13, <1>14 DEF IInv

LEMMA AcquireKeeps ==
    ASSUME IInv, NEW t \in Thread, Acquire(t)
    PROVE  IInv'
<1>1. /\ th[t].pc = "lock" /\ lock[th[t].req.on] = NoOne
      /\ lock' = [lock EXCEPT ![th[t].req.on] = t]
      /\ th' = [th EXCEPT ![t].pc = "item",
                          ![t].ph = IF th[t].req.op = "proxy" THEN "fix" ELSE "check"]
      /\ ctr' = ctr /\ gen' = gen /\ nets' = nets /\ dirs' = dirs
    BY DEF Acquire
<1>2. PICK q \in Rec : q = th[t] /\ RequestOK(q, ctr, nets, dirs)
    BY OfThread
<1>3. q.req \in Requests /\ q.req.on \in Locks /\ q.req.op \in {"health", "proxy"}
    BY <1>1, <1>2, RequestFacts DEF RequestOK
<1>4. PICK p \in {"check", "fix"} : p = IF q.req.op = "proxy" THEN "fix" ELSE "check"
    OBVIOUS
<1>5. PICK r : r = [q EXCEPT !.pc = "item", !.ph = p]
    OBVIOUS
<1>6. th \in [Thread -> Rec] /\ lock \in [Locks -> Thread \cup {NoOne}]
    BY DEF IInv, Types
<1>7. th' = [th EXCEPT ![t] = r]
    BY <1>1, <1>2, <1>4, <1>5, <1>6
<1>8. r \in Rec
    BY <1>5 DEF Rec, Pcs
<1>9. /\ r.pc = "item" /\ r.req = q.req /\ r.i = q.i /\ r.ph = p /\ r.st = q.st
      /\ r.err = q.err /\ r.overlap = q.overlap
    BY <1>5 DEF Rec
<1>10. q.i = 1 /\ q.st = "list" /\ ToldOK(q) /\ q.req.op # "terminate"
    BY <1>1, <1>2 DEF RequestOK, PlaceOK
<1>11. RequestOK(r, ctr, nets, dirs)
    <2>1. 1 \in 1..Len(Items(q.req.on))
        BY <1>3, ItemsFacts
    <2>2. PlaceOK(r)
        BY <1>3, <1>4, <1>9, <1>10, <2>1 DEF PlaceOK
    <2>3. SettledOK(r, ctr, nets, dirs)
        <3>1. 1..(r.i - 1) = {}
            BY <1>9, <1>10
        <3> QED BY <3>1 DEF SettledOK
    <2>4. ConfirmOK(r, ctr) /\ NameOK(r, ctr) /\ ToldOK(r)
        BY <1>9, <1>10 DEF ConfirmOK, NameOK, ToldOK
    <2> QED BY <2>2, <2>3, <2>4 DEF RequestOK
<1>12. th'[t] = r /\ \A u \in Thread \ {t} : th'[u] = th[u]
    BY <1>6, <1>7
<1>13. Types'
    <2>1. th' \in [Thread -> Rec]
        BY <1>6, <1>7, <1>8
    <2>2. lock' \in [Locks -> Thread \cup {NoOne}]
        BY <1>1, <1>6
    <2> QED BY <1>1, <2>1, <2>2 DEF IInv, Types
<1>14. LockOK'
    <2> SUFFICES ASSUME NEW l \in Locks, NEW u \in Thread
                 PROVE  lock'[l] = u <=> th'[u].pc = "item" /\ th'[u].req.on = l
        BY DEF LockOK
    <2>1. lock[l] = u <=> th[u].pc = "item" /\ th[u].req.on = l
        BY DEF IInv, LockOK
    <2>2. lock'[l] = IF l = q.req.on THEN t ELSE lock[l]
        BY <1>1, <1>2, <1>6
    <2>3. NoOne \notin Thread
        BY InfraAssumption
    <2>4. CASE u = t
        BY <1>1, <1>2, <1>9, <1>12, <2>1, <2>2, <2>4
    <2>5. CASE u # t
        <3>1. th'[u] = th[u] /\ lock[q.req.on] = NoOne
            BY <1>1, <1>2, <1>12, <2>5
        <3>2. CASE l = q.req.on
            BY <2>1, <2>2, <2>3, <2>5, <3>1, <3>2
        <3>3. CASE l # q.req.on
            BY <2>1, <2>2, <3>1, <3>3
        <3> QED BY <3>2, <3>3
    <2> QED BY <2>4, <2>5
<1>15. OverlapOK'
    <2> SUFFICES ASSUME NEW u \in Thread, NEW w \in Thread,
                        Active(th'[u]), Active(th'[w]),
                        th'[u].req.op = "health", th'[w].req.op = "health",
                        th'[u].req.on # th'[w].req.on
                 PROVE  th'[u].overlap
        BY DEF OverlapOK, Active
    <2>1. \A x \in Thread : /\ th'[x].req = th[x].req /\ th'[x].overlap = th[x].overlap
                            /\ Active(th'[x]) => Active(th[x])
        BY <1>1, <1>2, <1>9, <1>12 DEF Active
    <2> QED BY <2>1 DEF IInv, OverlapOK
<1>16. \A u \in Thread : RequestOK(th'[u], ctr, nets, dirs)
    BY <1>11, <1>12 DEF IInv
<1>17. (\A u \in Thread : RequestOK(th[u], ctr, nets, dirs))'
    BY <1>1, <1>16
<1> QED BY <1>13, <1>14, <1>15, <1>17 DEF IInv

\* Requests keep their place while containers go down.
LEMMA DownStep ==
    ASSUME IInv, th' \in [Thread -> Rec], gen' = gen, nets' = nets, dirs' = dirs, lock' = lock,
           ctr' \in [Containers -> CtrStates],
           \A u \in Thread :
               /\ RequestOK(th'[u], ctr', nets', dirs')
               /\ th'[u].req = th[u].req /\ th'[u].overlap = th[u].overlap
               /\ th'[u].pc = "item" <=> th[u].pc = "item"
               /\ Active(th'[u]) => Active(th[u])
    PROVE  IInv'
<1>1. Types'
    BY DEF IInv, Types
<1>2. LockOK'
    BY DEF IInv, LockOK
<1>3. OverlapOK'
    <2> SUFFICES ASSUME NEW u \in Thread, NEW w \in Thread,
                        Active(th'[u]), Active(th'[w]),
                        th'[u].req.op = "health", th'[w].req.op = "health",
                        th'[u].req.on # th'[w].req.on
                 PROVE  th'[u].overlap
        BY DEF OverlapOK, Active
    <2> QED BY DEF IInv, OverlapOK
<1>4. (\A u \in Thread : RequestOK(th[u], ctr, nets, dirs))'
    OBVIOUS
<1> QED BY <1>1, <1>2, <1>3, <1>4 DEF IInv

\* A container exits.
LEMMA ExitKeeps ==
    ASSUME IInv, NEW z \in Containers, Exit(z)
    PROVE  IInv'
<1>1. /\ ctr[z] = "running" /\ ctr' = [ctr EXCEPT ![z] = "created"]
      /\ th' = [t \in Thread |-> Losing(th[t], z)]
      /\ gen' = gen /\ nets' = nets /\ dirs' = dirs /\ lock' = lock
    BY DEF Exit
<1>2. ctr \in [Containers -> CtrStates]
    BY DEF IInv, Types
<1>3. ctr' \in [Containers -> CtrStates] /\ Stops(ctr, ctr', z)
    BY <1>1, <1>2 DEF CtrStates, Stops
<1>4. ASSUME NEW u \in Thread
      PROVE  /\ th'[u] \in Rec /\ RequestOK(th'[u], ctr', nets', dirs')
             /\ th'[u].pc = th[u].pc /\ th'[u].req = th[u].req /\ th'[u].overlap = th[u].overlap
    <2>1. th'[u] = Losing(th[u], z)
        BY <1>1
    <2>2. th[u] \in Rec /\ RequestOK(th[u], ctr, nets, dirs)
        BY OfThread
    <2>3. /\ th'[u] \in Rec /\ RequestOK(th'[u], ctr', nets, dirs)
          /\ th'[u].pc = th[u].pc /\ th'[u].req = th[u].req /\ th'[u].overlap = th[u].overlap
        BY <1>3, <2>1, <2>2, LosingOK
    <2> QED BY <1>1, <2>3
<1>5. th' \in [Thread -> Rec]
    <2>1. th' = [u \in Thread |-> th'[u]]
        BY <1>1
    <2> QED BY <1>4, <2>1
<1>6. \A u \in Thread : Active(th'[u]) => Active(th[u])
    BY <1>4 DEF Active
<1> QED BY <1>1, <1>3, <1>4, <1>5, <1>6, DownStep

\* A step of TerminateAll: the request itself, what it does to the others, and
\* a container that disappears.
LEMMA TerminateStep ==
    ASSUME IInv, NEW t \in Thread, th[t].pc \in {"listAll", "delete"},
           NEW r \in Rec, r.pc \in {"delete", "stuck", "done"}, r.req = th[t].req,
           r.err # "conflict", r.overlap = th[t].overlap,
           th' \in [Thread -> Rec], th'[t] = r, gen' = gen, nets' = nets, dirs' = dirs, lock' = lock,
           ctr' \in [Containers -> CtrStates],
           \A u \in Thread \ {t} :
               \/ th'[u] = th[u] /\ ctr' = ctr
               \/ \E z \in Containers : th'[u] = Losing(th[u], z) /\ Stops(ctr, ctr', z)
    PROVE  IInv'
<1>1. th[t] \in Rec /\ RequestOK(th[t], ctr, nets, dirs)
    BY OfThread
<1>2. RequestOK(r, ctr', nets', dirs')
    <2>1. r.req \in Requests /\ r.req.op = "terminate"
        BY <1>1 DEF RequestOK, PlaceOK
    <2> QED BY <2>1 DEF RequestOK, PlaceOK, SettledOK, ConfirmOK, NameOK, ToldOK
<1>3. ASSUME NEW u \in Thread \ {t}
      PROVE  /\ RequestOK(th'[u], ctr', nets', dirs')
             /\ th'[u].pc = th[u].pc /\ th'[u].req = th[u].req /\ th'[u].overlap = th[u].overlap
    <2>1. th[u] \in Rec /\ RequestOK(th[u], ctr, nets, dirs)
        BY OfThread
    <2>2. CASE th'[u] = th[u] /\ ctr' = ctr
        BY <2>1, <2>2
    <2>3. ASSUME NEW z \in Containers, th'[u] = Losing(th[u], z), Stops(ctr, ctr', z)
          PROVE  /\ RequestOK(th'[u], ctr', nets', dirs')
                 /\ th'[u].pc = th[u].pc /\ th'[u].req = th[u].req
                 /\ th'[u].overlap = th[u].overlap
        BY <2>1, <2>3, LosingOK
    <2> QED BY <2>2, <2>3
<1>4. \A u \in Thread : /\ RequestOK(th'[u], ctr', nets', dirs')
                        /\ th'[u].req = th[u].req /\ th'[u].overlap = th[u].overlap
                        /\ th'[u].pc = "item" <=> th[u].pc = "item"
                        /\ Active(th'[u]) => Active(th[u])
    BY <1>2, <1>3 DEF Active
<1> QED BY <1>4, DownStep

LEMMA TerminatorErr ==
    ASSUME IInv, NEW t \in Thread, th[t].pc \in {"listAll", "delete"}
    PROVE  th[t].err # "conflict"
BY OfThread DEF RequestOK, PlaceOK, ToldOK

LEMMA ListAllKeeps ==
    ASSUME IInv, NEW t \in Thread, ListAll(t)
    PROVE  IInv'
<1>1. /\ th[t].pc = "listAll" /\ ctr' = ctr /\ gen' = gen /\ nets' = nets /\ dirs' = dirs
      /\ lock' = lock
    BY DEF ListAll
<1>2. PICK q \in Rec : q = th[t] /\ q.err # "conflict"
    BY <1>1, OfThread, TerminatorErr
<1>3. ctr \in [Containers -> CtrStates] /\ gen \in [Containers -> Nat] /\ th \in [Thread -> Rec]
    BY DEF IInv, Types
<1>4. CASE th' = [th EXCEPT ![t].pc = "delete", ![t].victims =
                    {<<n, gen[n]>> : n \in {m \in Terminated : ctr[m] = "running"}}]
    <2>1. {<<n, gen[n]>> : n \in {m \in Terminated : ctr[m] = "running"}}
             \in SUBSET (Containers \X Nat)
        BY <1>3, InfraAssumption
    <2>2. PICK V \in SUBSET (Containers \X Nat) :
             V = {<<n, gen[n]>> : n \in {m \in Terminated : ctr[m] = "running"}}
        BY <2>1
    <2>3. PICK r : r = [q EXCEPT !.pc = "delete", !.victims = V]
        OBVIOUS
    <2>4. r \in Rec
        BY <2>3 DEF Rec, Pcs
    <2>5. r.pc = "delete" /\ r.req = q.req /\ r.err = q.err /\ r.overlap = q.overlap
        BY <2>3 DEF Rec
    <2>6. th' = [th EXCEPT ![t] = r]
        BY <1>2, <1>3, <1>4, <2>2, <2>3
    <2>7. th' \in [Thread -> Rec] /\ th'[t] = r /\ \A u \in Thread \ {t} : th'[u] = th[u]
        BY <1>3, <2>4, <2>6
    <2> QED BY <1>1, <1>2, <1>3, <2>4, <2>5, <2>7, TerminateStep
<1>5. CASE th' = [th EXCEPT ![t].pc = "done", ![t].err = "error"]
    <2>3. PICK r : r = [q EXCEPT !.pc = "done", !.err = "error"]
        OBVIOUS
    <2>4. r \in Rec
        BY <2>3 DEF Rec, Pcs
    <2>5. r.pc = "done" /\ r.req = q.req /\ r.err = "error" /\ r.overlap = q.overlap
        BY <2>3 DEF Rec
    <2>6. th' = [th EXCEPT ![t] = r]
        BY <1>2, <1>3, <1>5, <2>3
    <2>7. th' \in [Thread -> Rec] /\ th'[t] = r /\ \A u \in Thread \ {t} : th'[u] = th[u]
        BY <1>3, <2>4, <2>6
    <2> QED BY <1>1, <1>2, <1>3, <2>4, <2>5, <2>7, TerminateStep
<1> QED BY <1>4, <1>5 DEF ListAll

LEMMA DeleteEndKeeps ==
    ASSUME IInv, NEW t \in Thread, DeleteEnd(t)
    PROVE  IInv'
<1>1. /\ th[t].pc = "delete" /\ ctr' = ctr /\ gen' = gen /\ nets' = nets /\ dirs' = dirs
      /\ lock' = lock
      /\ th' = [th EXCEPT ![t].pc = IF th[t].err = "none" THEN "done" ELSE "stuck"]
    BY DEF DeleteEnd
<1>2. PICK q \in Rec : q = th[t] /\ q.err # "conflict"
    BY <1>1, OfThread, TerminatorErr
<1>3. ctr \in [Containers -> CtrStates] /\ th \in [Thread -> Rec]
    BY DEF IInv, Types
<1>4. PICK p \in {"done", "stuck"} : p = IF q.err = "none" THEN "done" ELSE "stuck"
    OBVIOUS
<1>5. PICK r : r = [q EXCEPT !.pc = p]
    OBVIOUS
<1>6. r \in Rec
    BY <1>5 DEF Rec, Pcs
<1>7. r.pc = p /\ r.req = q.req /\ r.err = q.err /\ r.overlap = q.overlap
    BY <1>5 DEF Rec
<1>8. th' = [th EXCEPT ![t] = r]
    BY <1>1, <1>2, <1>3, <1>4, <1>5
<1>9. th' \in [Thread -> Rec] /\ th'[t] = r /\ \A u \in Thread \ {t} : th'[u] = th[u]
    BY <1>3, <1>6, <1>8
<1> QED BY <1>1, <1>2, <1>3, <1>4, <1>6, <1>7, <1>9, TerminateStep

LEMMA DeleteKeeps ==
    ASSUME IInv, NEW t \in Thread, NEW v, Delete(t, v)
    PROVE  IInv'
<1> DEFINE there == ctr[v[1]] # "absent" /\ gen[v[1]] = v[2]
           T == [th EXCEPT ![t].victims = @ \ {v},
                           ![t].err = IF there THEN @ ELSE "error"]
<1>1. /\ th[t].pc = "delete" /\ v \in th[t].victims
      /\ gen' = gen /\ nets' = nets /\ dirs' = dirs /\ lock' = lock
      /\ ctr' = (IF there THEN [ctr EXCEPT ![v[1]] = "absent"] ELSE ctr)
      /\ th' = IF there THEN [u \in Thread |-> Losing(T[u], v[1])] ELSE T
    BY DEF Delete
<1>2. PICK q \in Rec : q = th[t] /\ q.err # "conflict"
    BY <1>1, OfThread, TerminatorErr
<1>3. ctr \in [Containers -> CtrStates] /\ th \in [Thread -> Rec]
    BY DEF IInv, Types
<1>4. v[1] \in Containers /\ q.victims \in SUBSET (Containers \X Nat)
      /\ q.err \in {"none", "error", "conflict"}
    BY <1>1, <1>2 DEF Rec
<1>5. PICK e \in {"none", "error"} : e = IF there THEN q.err ELSE "error"
    BY <1>2, <1>4
<1>6. PICK V \in SUBSET (Containers \X Nat) : V = q.victims \ {v}
    BY <1>4
<1>7. PICK r : r = [q EXCEPT !.victims = V, !.err = e]
    OBVIOUS
<1>8. r \in Rec
    BY <1>7 DEF Rec
<1>9. r.pc = q.pc /\ r.req = q.req /\ r.err = e /\ r.overlap = q.overlap
    BY <1>7 DEF Rec
<1>10. T = [th EXCEPT ![t] = r]
    BY <1>2, <1>3, <1>5, <1>6, <1>7
<1>11. T \in [Thread -> Rec] /\ T[t] = r /\ \A u \in Thread \ {t} : T[u] = th[u]
    BY <1>3, <1>8, <1>10
<1>12. ctr' \in [Containers -> CtrStates]
       /\ Stops(ctr, ctr', v[1])
    <2>1. CASE there
        <3>1. ctr' = [ctr EXCEPT ![v[1]] = "absent"]
            BY <1>1, <2>1
        <3> HIDE DEF there, T
        <3> QED BY <1>3, <1>4, <3>1 DEF CtrStates, Stops
    <2>2. CASE ~there
        <3>1. ctr' = ctr
            BY <1>1, <2>2
        <3> HIDE DEF there, T
        <3> QED BY <1>3, <3>1 DEF Stops
    <2> QED BY <2>1, <2>2
<1> HIDE DEF T
<1>13. CASE there
    <2>1. th' = [u \in Thread |-> Losing(T[u], v[1])]
        BY <1>1, <1>13
    <2>2. th'[t] = r
        BY <1>1, <1>2, <1>9, <1>11, <2>1 DEF Losing
    <2>3. ASSUME NEW u \in Thread \ {t}
          PROVE  th'[u] = Losing(th[u], v[1]) /\ th'[u] \in Rec
        <3>1. th'[u] = Losing(th[u], v[1])
            BY <1>11, <2>1
        <3>2. th[u] \in Rec /\ RequestOK(th[u], ctr, nets, dirs)
            BY OfThread
        <3> HIDE DEF there
        <3> QED BY <1>4, <1>12, <3>1, <3>2, LosingOK
    <2>4. th' \in [Thread -> Rec]
        <3>1. th' = [u \in Thread |-> th'[u]]
            BY <2>1
        <3> QED BY <1>8, <2>2, <2>3, <3>1
    <2> QED BY <1>1, <1>2, <1>4, <1>5, <1>8, <1>9, <1>12, <2>2, <2>3, <2>4, TerminateStep
<1>14. CASE ~there
    <2>1. th' = T /\ ctr' = ctr
        BY <1>1, <1>14
    <2> QED BY <1>1, <1>2, <1>5, <1>8, <1>9, <1>11, <1>12, <2>1, TerminateStep
<1> QED BY <1>13, <1>14

-----------------------------------------------------------------------------
LEMMA StutterKeeps ==
    ASSUME IInv, UNCHANGED vars
    PROVE  IInv'
BY DEF IInv, vars, Types, LockOK, OverlapOK, Active

LEMMA NextKeeps ==
    ASSUME IInv, [Next]_vars
    PROVE  IInv'
<1>1. CASE UNCHANGED vars
    BY <1>1, StutterKeeps
<1>2. ASSUME NEW t \in Thread, NEW b \in Requests, Begin(t, b) PROVE IInv'
    BY <1>2, BeginKeeps
<1>3. ASSUME NEW t \in Thread, Step(t) PROVE IInv'
    <2>1. CASE Acquire(t)            BY <2>1, AcquireKeeps
    <2>2. CASE CallFails(t)          BY <2>2, CallFailsKeeps
    <2>3. CASE CheckSimple(t)        BY <2>3, CheckSimpleKeeps
    <2>4. CASE FixSimple(t)          BY <2>4, FixSimpleKeeps
    <2>5. CASE FixNetwork(t)         BY <2>5, FixNetworkKeeps
    <2>6. CASE ListContainer(t)      BY <2>6, ListContainerKeeps
    <2>7. CASE InspectContainer(t)   BY <2>7, InspectContainerKeeps
    <2>8. CASE FindOrPullImage(t)    BY <2>8, FindOrPullImageKeeps
    <2>9. CASE CreateContainer(t)    BY <2>9, CreateContainerKeeps
    <2>10. CASE StartContainer(t)    BY <2>10, StartContainerKeeps
    <2>11. CASE ConfirmContainer(t)  BY <2>11, ConfirmContainerKeeps
    <2>12. CASE ListAll(t)           BY <2>12, ListAllKeeps
    <2>13. CASE DeleteEnd(t)         BY <2>13, DeleteEndKeeps
    <2>14. ASSUME NEW v \in th[t].victims, Delete(t, v) PROVE IInv'
        BY <2>14, DeleteKeeps
    <2> QED BY <1>3, <2>1, <2>2, <2>3, <2>4, <2>5, <2>6, <2>7, <2>8, <2>9, <2>10,
               <2>11, <2>12, <2>13, <2>14 DEF Step
<1>4. ASSUME NEW z \in Containers, Exit(z) PROVE IInv'
    BY <1>4, ExitKeeps
<1> QED BY <1>1, <1>2, <1>3, <1>4 DEF Next

\* Whatever requests arrive and whichever calls to Docker fail, the inductive
\* invariant holds: a lock is held by the request that works under it, what a
\* promising request has passed over is up, but for containers that went down
\* since (Helper.RunChecks, setupGoProxy), and a name that is about to be created is
\* free or was taken by the healthcheck of the other runner.
THEOREM InfraInvariance == Spec => []IInv
<1>1. Init => IInv
    BY InitKeeps
<1>2. IInv /\ [Next]_vars => IInv'
    BY NextKeeps
<1> QED BY <1>1, <1>2, PTL DEF Spec

\* Every container, every lock and every request is in one of its states, and a
\* lock is held exactly by the request that works on its items.
THEOREM InfraTypes == Spec => []TypeOK
<1>1. IInv => TypeOK
    <2> SUFFICES ASSUME IInv PROVE TypeOK
        OBVIOUS
    <2>1. \A t \in Thread : th[t].pc \in Pcs /\ th[t].err \in {"none", "error", "conflict"}
        BY OfThread DEF Rec
    <2> QED BY <2>1 DEF IInv, Types, LockOK, TypeOK, CtrStates, Pcs
<1> QED BY <1>1, InfraInvariance, PTL

\* A healthcheck that reports success, with or without fixes, and a build that is
\* handed the address of the go proxy find every network and directory on their
\* list there and every container running at that moment, for any number of
\* requests of any kind that run at the same time and whenever containers exit or
\* are terminated, except the containers that went down after this request had
\* found or started them running (Helper.RunChecks, EnsureContainerStarted).
THEOREM ReadyTheorem == Spec => []ReadyWhenTold
<1>1. IInv => ReadyWhenTold
    BY DEF IInv, RequestOK, ToldOK, Promising, ReadyWhenTold
<1> QED BY <1>1, InfraInvariance, PTL

\* A fixer finds the name of its container taken only if a healthcheck of the
\* other local runner was under way at the same time: requests under one lock,
\* the go proxy and terminate never get in its way.
THEOREM ConflictTheorem == Spec => []ConflictNeedsOverlap
<1>1. IInv => ConflictNeedsOverlap
    BY DEF IInv, RequestOK, ToldOK, ConflictNeedsOverlap
<1> QED BY <1>1, InfraInvariance, PTL

=============================================================================
