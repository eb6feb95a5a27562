--------------------------- MODULE SidecarProofs ---------------------------
(***************************************************************************)
(* Proofs about the sidecar: Watch loses no container, the barrier opens   *)
(* only when every network is set up, and a callback state is signalled    *)
(* only for a configuration that is in force.  For any number of           *)
(* containers, any configurations, and any number of crashes.              *)
(***************************************************************************)
EXTENDS Sidecar, FiniteSetTheorems, TLAPS

Idle(c) == worker[c] \in {"none", "init", "ended"}

\* No event of d comes after the i-th.
LastOf(d, i) == \A j \in 1..Len(events) : j > i => events[j].container # d

\* What Watch has not read yet leads from managers to the running containers:
\* the last event of each container says whether it runs.
WatchOK ==
    /\ watch \in {"down", "draining"} => events = <<>>
    /\ watch \in {"down", "list"} => managers = {}
    /\ \A d \in Containers : \A i \in 1..Len(events) :
          events[i].container = d /\ LastOf(d, i) =>
             (events[i].status = "start" <=> docker[d] = "running")
    /\ watch \in {"events", "stopping"} =>
          \A d \in Containers :
             LastOf(d, 0) => (d \in managers <=> docker[d] = "running")

\* No worker outlives its entry, unless Watch waits for it.
WorkersHaveEntries ==
    \A c \in Containers : Alive(c) => c \in managers \/ watch = "stopping"

\* What a worker knows of the data link is so.  Only a worker of the k8s
\* reactor that replaces one that died may find a link it does not know of, and
\* then it does not get past connecting.
LinkOK(c) ==
    /\ ~Idle(c) => kernel[c].control # "open"
    /\ ~Idle(c) /\ active[c].on =>
          kernel[c].up /\ kernel[c].qdisc /\ active[c].ip = kernel[c].ip
    /\ ~Idle(c) /\ worker[c] # "register" /\ kernel[c].up /\ ~active[c].on =>
          reactor = "k8s" /\ taken[c] = 0 /\ worker[c] \in {"disconnect", "connect"}
    /\ worker[c] = "register" => ~active[c].on

\* What the worker has done of the configuration it is applying.
ConfigOK(c) ==
    LET f == Current(c) IN
    /\ reactor = "docker" /\ worker[c] \in {"disconnect", "connect", "register", "shape"} =>
          kernel[c].ext = (f.policy = "allow")
    /\ worker[c] = "connect" =>
          f.enable /\ (active[c].on => f.ip \in {AnyIP, kernel[c].ip})
    /\ worker[c] \in {"register", "shape"} =>
          f.enable /\ kernel[c].up /\ f.ip \in {AnyIP, kernel[c].ip}
    /\ worker[c] = "routing" /\ reactor = "k8s" =>
          /\ f.enable /\ kernel[c].up /\ f.ip \in {AnyIP, kernel[c].ip}
          /\ kernel[c].shape = f.shape /\ kernel[c].filter = f.filter
    /\ worker[c] \in {"signal", "ack"} => Reflects(c, f)
    /\ worker[c] = "signal" => taken[c] = 0
    /\ worker[c] = "ack" => taken[c] > 0

\* The worker of c will signal on "network-initialized" if nothing fails.
Signalling(c) ==
    /\ worker[c] \in {"routing", "disconnect", "connect", "register", "shape", "signal"}
    /\ taken[c] = 0
    /\ ~(worker[c] \in {"disconnect", "connect"} /\ ~active[c].on /\ kernel[c].up)

\* c is set up, and will not be counted again.
Settled(c) == Ready(c) /\ ~Signalling(c)

\* Until the barrier opens no more have signalled than are settled, and no
\* instance has published; from then on all that have not are settled.
BarrierOK ==
    /\ ~BarrierOpen => /\ netInit <= Cardinality({c \in Containers : Settled(c)})
                       /\ \A c \in Containers : pub[c] = <<>>
    /\ BarrierOpen => \A c \in Containers : pub[c] = <<>> => Settled(c)

WorkerOK(c) == LinkOK(c) /\ ConfigOK(c)

SInv ==
    /\ TypeOK
    /\ WatchOK
    /\ WorkersHaveEntries
    /\ \A c \in Containers : WorkerOK(c)
    /\ BarrierOK

-----------------------------------------------------------------------------
(***************************************************************************)
(* A step of one worker.                                                   *)
(***************************************************************************)
KernelRec == [up : BOOLEAN, ip : IPs, qdisc : BOOLEAN, shape : Shapes,
              filter : {"accept", "drop", "reject"}, ext : BOOLEAN,
              control : {"open", "restricted", "cut"}]
LinkRec == [on : BOOLEAN, ip : IPs]

\* What a step of the worker of c leaves alone.
Local(c) ==
    /\ UNCHANGED <<reactor, docker, pub, watch, events, managers>>
    /\ kernel' \in [Containers -> KernelRec] /\ active' \in [Containers -> LinkRec]
    /\ worker' \in [Containers -> WorkerStates] /\ taken' \in [Containers -> Nat]
    /\ \A d \in Containers : d # c =>
          /\ kernel'[d] = kernel[d] /\ active'[d] = active[d]
          /\ worker'[d] = worker[d] /\ taken'[d] = taken[d]

\* What it achieves: c keeps its invariant and is counted at most once.
WorkerStep(c) ==
    /\ Local(c) /\ Alive(c) /\ TypeOK' /\ WorkerOK(c)'
    /\ pub[c] = <<>> /\ Settled(c) => Settled(c)'
    /\ netInit' = netInit \/ (netInit' = netInit + 1 /\ ~Settled(c) /\ Settled(c)')

LEMMA CurrentType ==
    ASSUME TypeOK, NEW c \in Containers
    PROVE  /\ Current(c).enable \in BOOLEAN /\ Current(c).policy \in {"allow", "deny"}
           /\ Current(c).filter \in {"accept", "drop", "reject"}
           /\ Current(c).ip \in IPs /\ Current(c).shape \in Shapes
<1>1. CASE taken[c] = 0
  BY <1>1 DEF Current, Default, IPs, Shapes
<1>2. CASE taken[c] # 0
  <2>1. pub[c] \in Seq(Configs) /\ taken[c] \in 1..Len(pub[c])
    BY <1>2 DEF TypeOK
  <2>2. pub[c][taken[c]] \in Configs
    BY <2>1
  <2> QED
    BY <1>2, <2>2, ConfigsAssumption DEF Current, IPs, Shapes
<1> QED
  BY <1>1, <1>2

LEMMA DefaultFirst ==
    ASSUME NEW c \in Containers, taken[c] = 0
    PROVE  /\ Current(c).enable /\ Current(c).ip = AnyIP /\ Current(c).shape = "none"
           /\ Current(c).policy = "deny" /\ Current(c).filter = "accept"
BY DEF Current, Default

LEMMA NothingTaken ==
    ASSUME TypeOK, NEW c \in Containers, pub[c] = <<>>
    PROVE  taken[c] = 0
BY DEF TypeOK

LEMMA CurrentFrame ==
    ASSUME NEW c \in Containers, taken'[c] = taken[c], pub'[c] = pub[c]
    PROVE  Current(c)' = Current(c)
BY DEF Current, Default

LEMMA LocalType ==
    ASSUME TypeOK, NEW c \in Containers, Local(c),
           taken'[c] <= Len(pub[c]), netInit' \in Nat, acked' \in [Containers -> Nat]
    PROVE  TypeOK'
<1>1. \A d \in Containers : taken'[d] <= Len(pub'[d])
  BY DEF Local, TypeOK
<1> QED
  BY <1>1 DEF Local, TypeOK, KernelRec, LinkRec

\* Nothing is known of a worker that has not begun or has ended.
LEMMA IdleOK ==
    ASSUME NEW c \in Containers, Idle(c)'
    PROVE  WorkerOK(c)' /\ ~Signalling(c)'
BY DEF Idle, WorkerOK, LinkOK, ConfigOK, Signalling

LEMMA WorkerFailsStep ==
    ASSUME SInv, NEW c \in Containers, WorkerFails(c)
    PROVE  WorkerStep(c)
<1>1. Alive(c) /\ Idle(c)' /\ taken'[c] = 0 /\ UNCHANGED <<netInit, acked, kernel>>
  BY DEF WorkerFails, SInv, TypeOK, Idle, syncVars
<1>2. NoLink \in LinkRec
  BY DEF NoLink, LinkRec, IPs
<1>3. Local(c)
  BY <1>2 DEF WorkerFails, SInv, TypeOK, Local, envVars, watchVars, KernelRec, LinkRec,
     WorkerStates
<1>4. TypeOK'
  <2>1. Len(pub[c]) \in Nat
    BY DEF SInv, TypeOK
  <2>2. taken'[c] <= Len(pub[c]) /\ netInit' \in Nat /\ acked' \in [Containers -> Nat]
    BY <1>1, <2>1 DEF SInv, TypeOK
  <2> QED
    BY <1>3, <2>2, LocalType DEF SInv
<1>5. Ready(c) => Ready(c)'
  BY <1>1 DEF Ready
<1> QED
  BY <1>1, <1>3, <1>4, <1>5, IdleOK DEF WorkerStep, Settled

LEMMA RoutingStep ==
    ASSUME SInv, NEW c \in Containers, ConfigRouting(c)
    PROVE  WorkerStep(c)
<1> DEFINE f == Current(c)
<1>1. /\ worker[c] = "routing" /\ UNCHANGED <<reactor, netInit, acked, active, taken, pub>>
      /\ worker'[c] = IF reactor = "docker" THEN "disconnect" ELSE Applied(c)
  BY DEF ConfigRouting, SInv, TypeOK, syncVars, envVars
<1>2. /\ kernel'[c] \in KernelRec /\ kernel'[c].ext = (f.policy = "allow")
      /\ kernel'[c].up = kernel[c].up /\ kernel'[c].ip = kernel[c].ip
      /\ kernel'[c].qdisc = kernel[c].qdisc /\ kernel'[c].shape = kernel[c].shape
      /\ kernel'[c].filter = kernel[c].filter /\ kernel'[c].control = kernel[c].control
  BY DEF ConfigRouting, SInv, TypeOK, Routed, KernelRec
<1>3. Local(c)
  BY <1>2 DEF ConfigRouting, SInv, TypeOK, Local, envVars, watchVars, KernelRec, LinkRec,
     WorkerStates, Applied
<1>4. TypeOK'
  BY <1>1, <1>3, LocalType DEF SInv, TypeOK
<1>5. f' = f
  BY <1>1, CurrentFrame
<1>6. LinkOK(c)'
  BY <1>1, <1>2 DEF SInv, WorkerOK, LinkOK, Idle, Applied
<1>7. ConfigOK(c)'
  <2>1. CASE reactor = "docker"
    BY <1>1, <1>2, <1>5, <2>1 DEF ConfigOK
  <2>2. CASE reactor = "k8s"
    <3>1. /\ f.enable /\ kernel[c].up /\ f.ip \in {AnyIP, kernel[c].ip}
          /\ kernel[c].shape = f.shape /\ kernel[c].filter = f.filter
      BY <1>1, <2>2 DEF SInv, WorkerOK, ConfigOK
    <3> HIDE DEF f
    <3>2. kernel'[c].up = f.enable
      BY <1>2, <3>1, CurrentType DEF SInv, TypeOK, f
    <3>3. Reflects(c, f)'
      BY <1>2, <1>5, <3>1, <3>2 DEF Reflects
    <3>4. \/ worker'[c] = "signal" /\ taken'[c] = 0
          \/ worker'[c] = "ack" /\ taken'[c] > 0
      BY <1>1, <2>2 DEF Applied, SInv, TypeOK
    <3> QED
      BY <1>1, <2>2, <3>3, <3>4 DEF ConfigOK, f
  <2> QED
    BY <2>1, <2>2 DEF SInv, TypeOK
<1>8. Settled(c) /\ taken[c] = 0 => FALSE
  BY <1>1 DEF Settled, Signalling
<1> QED
  BY <1>1, <1>3, <1>4, <1>6, <1>7, <1>8, NothingTaken DEF WorkerStep, WorkerOK, Alive, SInv

LEMMA Unplugged ==
    ASSUME NEW k \in KernelRec
    PROVE  LET u == [k EXCEPT !.up = FALSE, !.qdisc = FALSE] IN
           /\ u \in KernelRec /\ u.up = FALSE /\ u.qdisc = FALSE
           /\ u.ext = k.ext /\ u.control = k.control
<1> DEFINE u == [k EXCEPT !.up = FALSE, !.qdisc = FALSE]
<1>1. u.up = FALSE /\ u.qdisc = FALSE
  BY DEF KernelRec
<1>2. u.ext = k.ext /\ u.control = k.control
  BY DEF KernelRec
<1>3. u \in KernelRec
  BY DEF KernelRec
<1> QED
  BY <1>1, <1>2, <1>3

LEMMA DisconnectStep ==
    ASSUME SInv, NEW c \in Containers, ConfigDisconnect(c)
    PROVE  WorkerStep(c)
<1> DEFINE f == Current(c)
<1>1. /\ worker[c] = "disconnect" /\ UNCHANGED <<reactor, netInit, acked, taken, pub>>
      /\ worker'[c] = IF f.enable THEN "connect" ELSE Applied(c)
  BY DEF ConfigDisconnect, SInv, TypeOK, syncVars, envVars
<1>2. f' = f
  BY <1>1, CurrentFrame
<1>3. taken[c] = 0 => f.enable /\ ~Disconnects(active[c], f)
  BY DefaultFirst DEF Disconnects
<1>4. ~f.enable => worker'[c] = "ack" /\ taken'[c] > 0
  BY <1>1, <1>3 DEF Applied, SInv, TypeOK
<1>5. CASE Disconnects(active[c], f)
  <2>1. /\ kernel'[c] \in KernelRec /\ kernel'[c].up = FALSE /\ kernel'[c].qdisc = FALSE
        /\ kernel'[c].ext = kernel[c].ext /\ kernel'[c].control = kernel[c].control
    <3>1. kernel' = [kernel EXCEPT ![c].up = FALSE, ![c].qdisc = FALSE]
      BY <1>5 DEF ConfigDisconnect
    <3>2. kernel \in [Containers -> KernelRec]
      BY DEF SInv, TypeOK, KernelRec
    <3>3. kernel'[c] = [kernel[c] EXCEPT !.up = FALSE, !.qdisc = FALSE]
      BY <3>1, <3>2
    <3> QED
      BY <3>2, <3>3, Unplugged
  <2>2. active'[c] = NoLink /\ NoLink \in LinkRec /\ ~NoLink.on
    BY <1>5 DEF ConfigDisconnect, SInv, TypeOK, LinkRec, NoLink, IPs
  <2>3. Local(c)
    BY <1>5, <2>1, <2>2 DEF ConfigDisconnect, SInv, TypeOK, Local, envVars, watchVars,
       KernelRec, LinkRec, WorkerStates, Applied
  <2>4. LinkOK(c)'
    BY <1>1, <1>4, <2>1, <2>2 DEF SInv, WorkerOK, LinkOK, Idle
  <2>5. ~f.enable => Reflects(c, f)'
    BY <1>2, <2>1, CurrentType DEF Reflects, SInv
  <2>6. ConfigOK(c)'
    BY <1>1, <1>2, <1>4, <2>1, <2>2, <2>5 DEF SInv, WorkerOK, ConfigOK
  <2> QED
    BY <1>1, <1>3, <1>5, <2>3, <2>4, <2>6, LocalType, NothingTaken
       DEF WorkerStep, WorkerOK, Alive, SInv, TypeOK
<1>6. CASE ~Disconnects(active[c], f)
  <2>1. UNCHANGED <<kernel, active>>
    BY <1>6 DEF ConfigDisconnect
  <2>2. Local(c)
    BY <2>1 DEF ConfigDisconnect, SInv, TypeOK, Local, envVars, watchVars,
       KernelRec, LinkRec, WorkerStates, Applied
  <2>3. ~f.enable => ~active[c].on /\ ~kernel[c].up
    BY <1>1, <1>3, <1>6 DEF Disconnects, SInv, WorkerOK, LinkOK, Idle
  <2>4. active[c].on => f.ip \in {AnyIP, kernel[c].ip}
    BY <1>1, <1>6 DEF Disconnects, SInv, WorkerOK, LinkOK, Idle
  <2>5. LinkOK(c)'
    BY <1>1, <1>4, <2>1, <2>3 DEF SInv, WorkerOK, LinkOK, Idle
  <2>6. ~f.enable => Reflects(c, f)'
    BY <1>2, <2>1, <2>3, CurrentType DEF Reflects, SInv, TypeOK
  <2>7. ConfigOK(c)'
    BY <1>1, <1>2, <1>4, <2>1, <2>4, <2>6 DEF SInv, WorkerOK, ConfigOK
  <2>8. taken[c] = 0 /\ Settled(c) => Settled(c)'
    BY <1>1, <1>3, <2>1 DEF Settled, Ready, Signalling
  <2> QED
    BY <1>1, <2>2, <2>5, <2>7, <2>8, LocalType, NothingTaken
       DEF WorkerStep, WorkerOK, Alive, SInv, TypeOK
<1> QED
  BY <1>5, <1>6

LEMMA ConnectStep ==
    ASSUME SInv, NEW c \in Containers, ConfigConnect(c)
    PROVE  WorkerStep(c)
<1> DEFINE f == Current(c)
<1>1. worker[c] = "connect" /\ UNCHANGED <<reactor, netInit, acked, taken, pub>>
  BY DEF ConfigConnect, syncVars, envVars
<1>2. f' = f
  BY <1>1, CurrentFrame
<1>3. /\ f.enable /\ (active[c].on => f.ip \in {AnyIP, kernel[c].ip})
      /\ reactor = "docker" => kernel[c].ext = (f.policy = "allow")
  BY <1>1 DEF SInv, WorkerOK, ConfigOK
<1>4. CASE active[c].on
  <2>1. UNCHANGED <<kernel, active>> /\ worker' = [worker EXCEPT ![c] = "shape"]
    BY <1>4 DEF ConfigConnect
  <2>2. Local(c)
    BY <2>1 DEF ConfigConnect, SInv, TypeOK, Local, envVars, watchVars,
       KernelRec, LinkRec, WorkerStates
  <2>3. worker'[c] = "shape"
    BY <2>1 DEF SInv, TypeOK
  <2>4. LinkOK(c)' /\ kernel[c].up
    BY <1>1, <1>4, <2>1, <2>3 DEF SInv, WorkerOK, LinkOK, Idle
  <2>5. ConfigOK(c)'
    BY <1>1, <1>2, <1>3, <1>4, <2>1, <2>3, <2>4 DEF ConfigOK
  <2>6. taken[c] = 0 => ~Settled(c)
    BY <1>1, <1>4 DEF Settled, Signalling
  <2> QED
    BY <1>1, <2>2, <2>4, <2>5, <2>6, LocalType, NothingTaken
       DEF WorkerStep, WorkerOK, Alive, SInv, TypeOK
<1>5. CASE ~active[c].on /\ ~kernel[c].up
  <2>1. UNCHANGED active /\ worker' = [worker EXCEPT ![c] = "register"]
    BY <1>5 DEF ConfigConnect
  <2>2. /\ kernel'[c] \in KernelRec /\ kernel'[c].up /\ kernel'[c].ip = f.ip
        /\ kernel'[c].control = kernel[c].control
        /\ reactor = "docker" => kernel'[c].ext = kernel[c].ext
    <3>1. kernel' = [kernel EXCEPT ![c] = Plugged(kernel[c], f)]
      BY <1>5 DEF ConfigConnect
    <3>2. kernel \in [Containers -> KernelRec] /\ kernel[c] \in KernelRec
      BY DEF SInv, TypeOK, KernelRec
    <3>3. f.ip \in IPs
      BY CurrentType DEF SInv
    <3> HIDE DEF f
    <3>4. kernel'[c] = Plugged(kernel[c], f)
      BY <3>1, <3>2
    <3> QED
      BY <3>2, <3>3, <3>4 DEF KernelRec, Plugged
  <2>3. Local(c)
    <3>1. kernel' = [kernel EXCEPT ![c] = kernel'[c]]
      BY <1>5 DEF ConfigConnect, SInv, TypeOK
    <3> QED
      BY <2>1, <2>2, <3>1 DEF ConfigConnect, SInv, TypeOK, Local, envVars, watchVars,
         KernelRec, LinkRec, WorkerStates
  <2>4. worker'[c] = "register"
    BY <2>1 DEF SInv, TypeOK
  <2>5. LinkOK(c)'
    BY <1>1, <1>5, <2>1, <2>2, <2>4 DEF SInv, WorkerOK, LinkOK, Idle
  <2>6. ConfigOK(c)'
    BY <1>1, <1>2, <1>3, <2>2, <2>4 DEF ConfigOK
  <2>7. ~Settled(c)
    BY <1>5 DEF Settled, Ready
  <2> QED
    BY <1>1, <2>3, <2>5, <2>6, <2>7, LocalType DEF WorkerStep, WorkerOK, Alive, SInv, TypeOK
<1>6. CASE ~active[c].on /\ kernel[c].up
  <2>1. UNCHANGED <<kernel, active>> /\ worker' = [worker EXCEPT ![c] = "ended"]
    BY <1>6 DEF ConfigConnect
  <2>2. Local(c)
    BY <2>1 DEF ConfigConnect, SInv, TypeOK, Local, envVars, watchVars,
       KernelRec, LinkRec, WorkerStates
  <2>3. Idle(c)'
    BY <2>1 DEF SInv, TypeOK, Idle
  <2>4. Ready(c) => Ready(c)'
    BY <2>1 DEF Ready
  <2> QED
    BY <1>1, <2>2, <2>3, <2>4, IdleOK, LocalType
       DEF WorkerStep, Settled, Alive, SInv, TypeOK
<1> QED
  BY <1>4, <1>5, <1>6

LEMMA RegisterStep ==
    ASSUME SInv, NEW c \in Containers, ConfigRegister(c)
    PROVE  WorkerStep(c)
<1> DEFINE f == Current(c)
<1>1. /\ worker[c] = "register" /\ UNCHANGED <<reactor, netInit, acked, taken, pub>>
      /\ worker'[c] = "shape"
  BY DEF ConfigRegister, syncVars, envVars, SInv, TypeOK
<1>2. f' = f
  BY <1>1, CurrentFrame
<1>3. /\ kernel \in [Containers -> KernelRec] /\ kernel[c] \in KernelRec
      /\ kernel' = [kernel EXCEPT ![c] = Initialized(kernel[c])]
  BY DEF SInv, TypeOK, KernelRec, ConfigRegister
<1>4. /\ kernel'[c] \in KernelRec /\ kernel'[c].qdisc
      /\ kernel'[c].up = kernel[c].up /\ kernel'[c].ip = kernel[c].ip
      /\ kernel'[c].ext = kernel[c].ext /\ kernel'[c].control = kernel[c].control
  BY <1>3 DEF KernelRec, Initialized, Shapes
<1>5. /\ active'[c] = Entry(kernel[c]) /\ Entry(kernel[c]) \in LinkRec
      /\ Entry(kernel[c]).on /\ Entry(kernel[c]).ip = kernel[c].ip
  BY <1>3 DEF ConfigRegister, SInv, TypeOK, Entry, LinkRec, KernelRec
<1>6. Local(c)
  BY <1>3, <1>4, <1>5 DEF ConfigRegister, SInv, TypeOK, Local, envVars, watchVars,
     KernelRec, LinkRec, WorkerStates
<1>7. f.enable /\ kernel[c].up /\ f.ip \in {AnyIP, kernel[c].ip}
  BY <1>1 DEF SInv, WorkerOK, ConfigOK
<1>8. LinkOK(c)'
  BY <1>1, <1>4, <1>5, <1>7 DEF SInv, WorkerOK, LinkOK, Idle
<1>9. ConfigOK(c)'
  BY <1>1, <1>2, <1>4, <1>7 DEF SInv, WorkerOK, ConfigOK
<1>10. taken[c] = 0 => ~Settled(c)
  BY <1>1 DEF Settled, Signalling
<1> QED
  BY <1>1, <1>6, <1>8, <1>9, <1>10, LocalType, NothingTaken
     DEF WorkerStep, WorkerOK, Alive, SInv, TypeOK

LEMMA ShapeStep ==
    ASSUME SInv, NEW c \in Containers, ConfigShape(c)
    PROVE  WorkerStep(c)
<1> DEFINE f == Current(c)
<1>1. /\ worker[c] = "shape" /\ UNCHANGED <<reactor, netInit, acked, taken, pub, active>>
      /\ worker'[c] = IF reactor = "docker" THEN Applied(c) ELSE "routing"
  BY DEF ConfigShape, syncVars, envVars, SInv, TypeOK
<1>2. f' = f
  BY <1>1, CurrentFrame
<1>3. /\ kernel \in [Containers -> KernelRec] /\ kernel[c] \in KernelRec
      /\ kernel' = [kernel EXCEPT ![c] = Ruled(Shaped(kernel[c], f.shape), f.filter)]
  BY DEF SInv, TypeOK, KernelRec, ConfigShape
<1>4. /\ kernel'[c] \in KernelRec /\ kernel'[c].qdisc = kernel[c].qdisc
      /\ kernel'[c].up = kernel[c].up /\ kernel'[c].ip = kernel[c].ip
      /\ kernel'[c].ext = kernel[c].ext /\ kernel'[c].control = kernel[c].control
      /\ kernel'[c].shape = f.shape /\ kernel'[c].filter = f.filter
  <2>1. f.shape \in Shapes /\ f.filter \in {"accept", "drop", "reject"}
    BY CurrentType DEF SInv
  <2> HIDE DEF f
  <2> QED
    BY <1>3, <2>1 DEF KernelRec, Ruled, Shaped
<1>5. Local(c)
  BY <1>3, <1>4 DEF ConfigShape, SInv, TypeOK, Local, envVars, watchVars,
     KernelRec, LinkRec, WorkerStates, Applied
<1>6. /\ f.enable /\ kernel[c].up /\ f.ip \in {AnyIP, kernel[c].ip}
      /\ reactor = "docker" => kernel[c].ext = (f.policy = "allow")
  BY <1>1 DEF SInv, WorkerOK, ConfigOK
<1>7. LinkOK(c)'
  BY <1>1, <1>4 DEF SInv, WorkerOK, LinkOK, Idle, Applied
<1>8. kernel'[c].up = f.enable
  BY <1>4, <1>6, CurrentType DEF SInv, KernelRec
<1>9. reactor = "docker" => Reflects(c, f)'
  BY <1>2, <1>4, <1>6, <1>8 DEF Reflects
<1>10. reactor = "docker" => \/ worker'[c] = "signal" /\ taken'[c] = 0
                             \/ worker'[c] = "ack" /\ taken'[c] > 0
  BY <1>1 DEF Applied, SInv, TypeOK
<1>11. ConfigOK(c)'
  BY <1>1, <1>2, <1>4, <1>6, <1>9, <1>10 DEF ConfigOK
<1>12. taken[c] = 0 => ~Settled(c)
  BY <1>1 DEF Settled, Signalling
<1> QED
  BY <1>1, <1>5, <1>7, <1>11, <1>12, LocalType, NothingTaken
     DEF WorkerStep, WorkerOK, Alive, SInv, TypeOK

\* The signal settles an instance that was not: its network is set up, because
\* the default configuration is in force.
LEMMA SignalStep ==
    ASSUME SInv, NEW c \in Containers, WorkerSignal(c)
    PROVE  WorkerStep(c)
<1>1. /\ worker[c] = "signal" /\ UNCHANGED <<reactor, acked, taken, pub, active, kernel>>
      /\ worker'[c] = "barrier" /\ netInit' = netInit + 1
  BY DEF WorkerSignal, envVars, SInv, TypeOK
<1>2. taken[c] = 0 /\ Reflects(c, Current(c))
  BY <1>1 DEF SInv, WorkerOK, ConfigOK
<1>3. kernel[c].up /\ ~kernel[c].ext
  BY <1>2, DefaultFirst DEF Reflects, SInv, TypeOK
<1>4. active[c].on /\ kernel[c].qdisc /\ kernel[c].control # "open"
  BY <1>1, <1>3 DEF SInv, WorkerOK, LinkOK, Idle
<1>5. Local(c)
  BY DEF WorkerSignal, SInv, TypeOK, Local, envVars, watchVars,
     KernelRec, LinkRec, WorkerStates
<1>6. LinkOK(c)' /\ ConfigOK(c)'
  BY <1>1, <1>3, <1>4 DEF SInv, WorkerOK, LinkOK, Idle, ConfigOK
<1>7. ~Settled(c) /\ Settled(c)'
  BY <1>1, <1>2, <1>3, <1>4 DEF Settled, Ready, Signalling
<1>8. TypeOK'
  <2>1. netInit' \in Nat /\ taken'[c] <= Len(pub[c]) /\ acked' \in [Containers -> Nat]
    BY <1>1 DEF SInv, TypeOK
  <2> QED
    BY <1>5, <2>1, LocalType DEF SInv
<1> QED
  BY <1>1, <1>5, <1>6, <1>7, <1>8 DEF WorkerStep, WorkerOK, Alive

\* Passing the barrier, or acknowledging a configuration.
LEMMA LoopStep ==
    ASSUME SInv, NEW c \in Containers, WorkerPass(c) \/ WorkerAck(c)
    PROVE  WorkerStep(c)
<1>1. /\ worker[c] \in {"barrier", "ack"} /\ worker'[c] = "loop"
      /\ UNCHANGED <<reactor, netInit, taken, pub, active, kernel>>
  BY DEF WorkerPass, WorkerAck, envVars, syncVars, SInv, TypeOK
<1>2. acked' \in [Containers -> Nat]
  BY DEF WorkerPass, WorkerAck, syncVars, SInv, TypeOK
<1>3. Local(c)
  BY DEF WorkerPass, WorkerAck, SInv, TypeOK, Local, envVars, watchVars,
     KernelRec, LinkRec, WorkerStates
<1>4. LinkOK(c)' /\ ConfigOK(c)'
  BY <1>1 DEF SInv, WorkerOK, LinkOK, Idle, ConfigOK
<1>5. Settled(c) => Settled(c)'
  BY <1>1 DEF Settled, Ready, Signalling
<1> QED
  BY <1>1, <1>2, <1>3, <1>4, <1>5, LocalType DEF WorkerStep, WorkerOK, Alive, SInv, TypeOK

LEMMA ReceiveStep ==
    ASSUME SInv, NEW c \in Containers, WorkerReceive(c)
    PROVE  WorkerStep(c)
<1>1. /\ worker[c] = "loop" /\ worker'[c] = FirstStep /\ taken[c] < Len(pub[c])
      /\ UNCHANGED <<reactor, netInit, acked, pub, active, kernel>>
      /\ taken'[c] = taken[c] + 1
  BY DEF WorkerReceive, envVars, syncVars, SInv, TypeOK
<1>2. taken[c] \in Nat /\ Len(pub[c]) \in Nat /\ pub[c] # <<>>
  BY <1>1 DEF SInv, TypeOK
<1>3. taken'[c] \in Nat /\ taken'[c] <= Len(pub[c])
  BY <1>1, <1>2
<1>4. Local(c)
  BY <1>3 DEF WorkerReceive, SInv, TypeOK, Local, envVars, watchVars,
     KernelRec, LinkRec, WorkerStates, FirstStep
<1>5. LinkOK(c)'
  BY <1>1 DEF SInv, WorkerOK, LinkOK, Idle, FirstStep
<1>6. ConfigOK(c)'
  BY <1>1 DEF ConfigOK, FirstStep
<1> QED
  BY <1>1, <1>2, <1>3, <1>4, <1>5, <1>6, LocalType
     DEF WorkerStep, WorkerOK, Alive, SInv, TypeOK

\* A worker that begins finds a network nobody has set up, and restricts it; or
\* it finds one that is, and then it fails at once (docker) or will fail when it
\* connects (k8s).
LEMMA InitStep ==
    ASSUME SInv, NEW c \in Containers, WorkerInit(c)
    PROVE  WorkerStep(c)
<1>1. /\ worker[c] = "init" /\ taken'[c] = 0 /\ taken' \in [Containers -> Nat]
      /\ \A d \in Containers : d # c => taken'[d] = taken[d]
      /\ UNCHANGED <<reactor, netInit, acked, docker, pub, watch, events, managers>>
  BY DEF WorkerInit, envVars, syncVars, watchVars, SInv, TypeOK
<1>2. taken'[c] <= Len(pub[c]) /\ netInit' \in Nat /\ acked' \in [Containers -> Nat]
  <2>1. Len(pub[c]) \in Nat
    BY DEF SInv, TypeOK
  <2> QED
    BY <1>1, <2>1 DEF SInv, TypeOK
<1>3. /\ kernel \in [Containers -> KernelRec] /\ kernel[c] \in KernelRec
      /\ active \in [Containers -> LinkRec] /\ worker \in [Containers -> WorkerStates]
  BY DEF SInv, TypeOK, KernelRec, LinkRec
<1>4. CASE worker' = [worker EXCEPT ![c] = "ended"] /\ UNCHANGED <<kernel, active>>
  <2>1. Idle(c)'
    BY <1>3, <1>4 DEF Idle
  <2>2. Local(c)
    BY <1>1, <1>3, <1>4 DEF Local, WorkerStates
  <2>3. Ready(c) => Ready(c)'
    BY <1>4 DEF Ready
  <2>4. TypeOK'
    BY <1>2, <2>2, LocalType DEF SInv
  <2> QED
    BY <1>1, <2>1, <2>2, <2>3, <2>4, IdleOK DEF WorkerStep, Settled, Alive
<1>5. CASE /\ reactor = "docker" /\ ~kernel[c].qdisc /\ kernel[c].control = "open"
           /\ active' = [active EXCEPT ![c] = [on |-> kernel[c].up, ip |-> kernel[c].ip]]
           /\ kernel' = [kernel EXCEPT ![c].qdisc = kernel[c].up,
                                       ![c].control = "restricted"]
           /\ worker' = [worker EXCEPT ![c] = FirstStep]
  <2>1. worker'[c] = "routing"
    BY <1>3, <1>5 DEF FirstStep
  <2>2. /\ active'[c] \in LinkRec /\ active'[c].on = kernel[c].up
        /\ active'[c].ip = kernel[c].ip
    BY <1>3, <1>5 DEF LinkRec, KernelRec
  <2>3. kernel'[c] = [kernel[c] EXCEPT !.qdisc = kernel[c].up, !.control = "restricted"]
    BY <1>3, <1>5
  <2>4. /\ kernel'[c].up = kernel[c].up /\ kernel'[c].ip = kernel[c].ip
        /\ kernel'[c].qdisc = kernel[c].up /\ kernel'[c].control = "restricted"
    BY <1>3, <2>3 DEF KernelRec
  <2>5. kernel'[c] \in KernelRec
    BY <1>3, <2>3 DEF KernelRec
  <2>6. Local(c)
    BY <1>1, <1>3, <1>5, <2>2, <2>5 DEF Local, WorkerStates, FirstStep
  <2>7. LinkOK(c)'
    BY <2>1, <2>2, <2>4 DEF LinkOK, Idle
  <2>8. ConfigOK(c)'
    BY <1>1, <1>5, <2>1 DEF ConfigOK
  <2>9. ~Settled(c)
    BY <1>5 DEF Settled, Ready
  <2>10. TypeOK'
    BY <1>2, <2>6, LocalType DEF SInv
  <2> QED
    BY <1>1, <2>6, <2>7, <2>8, <2>9, <2>10 DEF WorkerStep, WorkerOK, Alive
<1>6. CASE reactor = "k8s" /\ InitK8s(c)
  <2>1. worker'[c] = "disconnect"
    BY <1>3, <1>6 DEF FirstStep, InitK8s
  <2>2. active'[c] = NoLink /\ NoLink \in LinkRec /\ ~NoLink.on
    BY <1>3, <1>6 DEF LinkRec, NoLink, InitK8s, IPs
  <2>3. kernel'[c] = [kernel[c] EXCEPT !.control = RestrictControl(kernel[c].control)]
    BY <1>3, <1>6 DEF InitK8s
  <2>4. /\ kernel'[c].up = kernel[c].up /\ kernel'[c].qdisc = kernel[c].qdisc
        /\ kernel'[c].ext = kernel[c].ext /\ kernel'[c].control # "open"
    BY <1>3, <2>3 DEF KernelRec, RestrictControl
  <2>5. kernel'[c] \in KernelRec
    BY <1>3, <2>3 DEF KernelRec, RestrictControl
  <2>6. Local(c)
    BY <1>1, <1>3, <1>6, <2>2, <2>5 DEF Local, WorkerStates, FirstStep, InitK8s
  <2>7. LinkOK(c)'
    BY <1>1, <1>6, <2>1, <2>2, <2>4 DEF LinkOK, Idle
  <2>8. ConfigOK(c)'
    BY <1>1, <1>6, <2>1 DEF ConfigOK
  <2>9. Settled(c) => Settled(c)'
    BY <2>1, <2>2, <2>4 DEF Settled, Ready, Signalling
  <2>10. TypeOK'
    BY <1>2, <2>6, LocalType DEF SInv
  <2> QED
    BY <1>1, <2>6, <2>7, <2>8, <2>9, <2>10 DEF WorkerStep, WorkerOK, Alive
<1> QED
  BY <1>4, <1>5, <1>6 DEF WorkerInit, InitDocker, KernelRec

-----------------------------------------------------------------------------
(***************************************************************************)
(* The barrier.                                                            *)
(***************************************************************************)
\* What a step must do for the barrier: nobody who has published nothing gets
\* unsettled, who is counted gets settled, and nobody publishes before it opens.
LEMMA BarrierStep ==
    ASSUME BarrierOK, netInit \in Nat, netInit' \in Nat,
           \A c \in Containers : pub'[c] = <<>> => pub[c] = <<>>,
           \A c \in Containers : pub[c] = <<>> /\ Settled(c) => Settled(c)',
           ~BarrierOpen => UNCHANGED pub,
           \/ netInit' = netInit
           \/ /\ netInit' = netInit + 1
              /\ \E c \in Containers : ~Settled(c) /\ Settled(c)'
    PROVE  BarrierOK'
<1> DEFINE S == {c \in Containers : Settled(c)}
           N == Cardinality(Containers)
<1>1. N \in Nat /\ (BarrierOpen <=> netInit >= N) /\ (BarrierOpen' <=> netInit' >= N)
  BY ContainersAssumption, FS_CardinalityType DEF BarrierOpen
<1>2. CASE BarrierOpen
  <2>1. BarrierOpen'
    BY <1>1, <1>2
  <2> QED
    BY <1>2, <2>1 DEF BarrierOK
<1>3. CASE ~BarrierOpen
  <2>1. /\ netInit <= Cardinality(S) /\ \A c \in Containers : pub[c] = <<>>
        /\ \A c \in Containers : pub'[c] = <<>>
    BY <1>3 DEF BarrierOK
  <2>2. S \subseteq S' /\ S \subseteq Containers /\ S' \subseteq Containers
    BY <2>1
  <2>3. IsFiniteSet(S) /\ IsFiniteSet(S')
    BY <2>2, ContainersAssumption, FS_Subset
  <2>4. /\ Cardinality(S) \in Nat /\ Cardinality(S') \in Nat
        /\ Cardinality(S) <= Cardinality(S') /\ Cardinality(S') <= N
        /\ Cardinality(S') = N => S' = Containers
    BY <2>2, <2>3, ContainersAssumption, FS_Subset, FS_CardinalityType
  <2>5. netInit' <= Cardinality(S')
    <3>1. CASE netInit' = netInit
      BY <2>1, <2>4, <3>1
    <3>2. CASE /\ netInit' = netInit + 1
               /\ \E c \in Containers : ~Settled(c) /\ Settled(c)'
      <4>1. S # S'
        BY <3>2
      <4>2. Cardinality(S) < Cardinality(S')
        BY <2>2, <2>3, <2>4, <4>1, FS_Subset
      <4> QED
        BY <2>1, <2>4, <3>2, <4>2
    <3> QED
      BY <3>1, <3>2
  <2>6. CASE BarrierOpen'
    <3>1. Cardinality(S') = N
      BY <1>1, <2>4, <2>5, <2>6
    <3>2. \A c \in Containers : Settled(c)'
      BY <2>4, <3>1
    <3> QED
      BY <2>6, <3>2 DEF BarrierOK
  <2>7. CASE ~BarrierOpen'
    BY <2>1, <2>5, <2>7 DEF BarrierOK
  <2> QED
    BY <2>6, <2>7
<1> QED
  BY <1>2, <1>3

-----------------------------------------------------------------------------
(***************************************************************************)
(* Every step keeps the invariant.                                         *)
(***************************************************************************)
LEMMA WorkerFrame ==
    ASSUME NEW c \in Containers, reactor' = reactor, kernel'[c] = kernel[c],
           active'[c] = active[c], worker'[c] = worker[c], taken'[c] = taken[c],
           Current(c)' = Current(c)
    PROVE  /\ WorkerOK(c) => WorkerOK(c)'
           /\ Settled(c) => Settled(c)'
<1>1. LinkOK(c) => LinkOK(c)'
  BY DEF LinkOK, Idle
<1>2. ConfigOK(c) => ConfigOK(c)'
  BY DEF ConfigOK, Reflects
<1> QED
  BY <1>1, <1>2 DEF WorkerOK, Settled, Ready, Signalling

LEMMA WatchFrame ==
    ASSUME WatchOK, UNCHANGED <<docker, watch, events, managers>>
    PROVE  WatchOK'
BY DEF WatchOK, LastOf

LEMMA OneWorker ==
    ASSUME SInv, NEW c \in Containers, WorkerStep(c)
    PROVE  SInv'
<1>1. TypeOK' /\ Local(c) /\ netInit \in Nat /\ netInit' \in Nat
  BY DEF WorkerStep, SInv, TypeOK
<1>2. \A d \in Containers : d # c => WorkerOK(d)' /\ (Settled(d) => Settled(d)')
  <2> SUFFICES ASSUME NEW d \in Containers, d # c
               PROVE  WorkerOK(d)' /\ (Settled(d) => Settled(d)')
    OBVIOUS
  <2>1. /\ reactor' = reactor /\ kernel'[d] = kernel[d] /\ active'[d] = active[d]
        /\ worker'[d] = worker[d] /\ taken'[d] = taken[d] /\ pub'[d] = pub[d]
    BY <1>1 DEF Local
  <2>2. Current(d)' = Current(d)
    BY <2>1, CurrentFrame
  <2> QED
    BY <2>1, <2>2, WorkerFrame DEF SInv
<1>3. \A d \in Containers : WorkerOK(d)' /\ (pub[d] = <<>> /\ Settled(d) => Settled(d)')
  BY <1>2 DEF WorkerStep
<1>4. WatchOK'
  BY <1>1, WatchFrame DEF Local, SInv
<1>5. WorkersHaveEntries'
  BY <1>1 DEF Local, WorkerStep, WorkersHaveEntries, Alive, SInv
<1>6. BarrierOK'
  <2>1. pub' = pub
    BY <1>1 DEF Local
  <2>2. \/ netInit' = netInit
        \/ /\ netInit' = netInit + 1
           /\ \E d \in Containers : ~Settled(d) /\ Settled(d)'
    BY DEF WorkerStep
  <2> QED
    BY <1>1, <1>3, <2>1, <2>2, BarrierStep DEF SInv
<1> QED
  BY <1>1, <1>3, <1>4, <1>5, <1>6 DEF SInv

\* A step that starts, forgets or leaves alone each worker, and no network.
LEMMA Forgotten ==
    ASSUME SInv, UNCHANGED <<reactor, kernel, netInit, pub>>,
           \A c \in Containers :
              \/ Idle(c)'
              \/ active'[c] = active[c] /\ worker'[c] = worker[c] /\ taken'[c] = taken[c]
    PROVE  (\A c \in Containers : WorkerOK(c)') /\ BarrierOK'
<1>1. ASSUME NEW c \in Containers
      PROVE  WorkerOK(c)' /\ (Settled(c) => Settled(c)')
  <2>1. CASE Idle(c)'
    <3>1. Ready(c) => Ready(c)'
      BY DEF Ready
    <3> QED
      BY <2>1, <3>1, IdleOK DEF Settled
  <2>2. CASE active'[c] = active[c] /\ worker'[c] = worker[c] /\ taken'[c] = taken[c]
    <3>1. Current(c)' = Current(c)
      BY <2>2, CurrentFrame
    <3> QED
      BY <2>2, <3>1, WorkerFrame DEF SInv
  <2> QED
    BY <2>1, <2>2
<1>2. netInit \in Nat /\ netInit' \in Nat
  BY DEF SInv, TypeOK
<1> QED
  BY <1>1, <1>2, BarrierStep DEF SInv

\* Types are kept by a step of Watch.
LEMMA WatchType ==
    ASSUME TypeOK, UNCHANGED <<reactor, docker, kernel, pub, netInit, acked>>,
           watch' \in {"down", "list", "events", "stopping", "draining"},
           events' \in Seq([status : {"start", "die", "destroy"}, container : Containers]),
           managers' \subseteq Containers, worker' \in [Containers -> WorkerStates],
           \/ UNCHANGED <<active, taken>>
           \/ /\ active' = [c \in Containers |-> NoLink]
              /\ taken' = [c \in Containers |-> 0]
    PROVE  TypeOK'
<1>1. active' \in [Containers -> [on : BOOLEAN, ip : IPs]]
  <2>1. NoLink \in [on : BOOLEAN, ip : IPs]
    BY DEF NoLink, IPs
  <2>2. active \in [Containers -> [on : BOOLEAN, ip : IPs]]
    BY DEF TypeOK
  <2> QED
    BY <2>1, <2>2
<1>2. \A c \in Containers : Len(pub[c]) \in Nat
  BY DEF TypeOK
<1>3. taken' \in [Containers -> Nat] /\ \A c \in Containers : taken'[c] <= Len(pub[c])
  BY <1>2 DEF TypeOK
<1> QED
  BY <1>1, <1>3 DEF TypeOK

LEMMA WatchBeginStep ==
    ASSUME SInv, WatchBegin
    PROVE  SInv'
<1>1. /\ watch = "down" /\ watch' = "list"
      /\ UNCHANGED <<reactor, docker, pub, kernel, events, managers, worker, active, taken,
                     netInit, acked>>
  BY DEF WatchBegin, envVars, workVars, syncVars
<1>2. TypeOK'
  BY <1>1, WatchType DEF SInv, TypeOK
<1>3. WatchOK'
  BY <1>1 DEF SInv, WatchOK, LastOf
<1>4. WorkersHaveEntries'
  BY <1>1 DEF SInv, WorkersHaveEntries, Alive
<1> QED
  BY <1>1, <1>2, <1>3, <1>4, Forgotten DEF SInv

\* Entries and workers for cs: none of those that get one had one running.
LEMMA StartWorkersStep ==
    ASSUME SInv, NEW cs \in SUBSET Containers, StartWorkers(cs), watch # "stopping",
           UNCHANGED <<reactor, docker, pub, kernel, active, taken, netInit, acked>>,
           watch' = "events",
           events' \in Seq([status : {"start", "die", "destroy"}, container : Containers])
    PROVE  /\ TypeOK' /\ WorkersHaveEntries' /\ (\A c \in Containers : WorkerOK(c)')
           /\ BarrierOK' /\ managers' = managers \cup cs
<1>1. /\ managers' = managers \cup cs
      /\ \A c \in Containers : worker'[c] = IF c \in cs \ managers THEN "init" ELSE worker[c]
  BY DEF StartWorkers
<1>2. worker' \in [Containers -> WorkerStates]
  BY DEF StartWorkers, SInv, TypeOK, WorkerStates
<1>3. TypeOK'
  BY <1>1, <1>2, WatchType DEF SInv, TypeOK
<1>4. WorkersHaveEntries'
  BY <1>1 DEF SInv, WorkersHaveEntries, Alive
<1> QED
  BY <1>1, <1>3, <1>4, Forgotten DEF Idle

LEMMA WatchListStep ==
    ASSUME SInv, WatchList
    PROVE  SInv'
<1> DEFINE cs == {c \in Containers : docker[c] = "running"}
<1>1. /\ watch = "list" /\ watch' = "events" /\ StartWorkers(cs)
      /\ UNCHANGED <<reactor, docker, pub, kernel, events, active, taken, netInit, acked>>
  BY DEF WatchList, envVars, syncVars
<1>2. /\ TypeOK' /\ WorkersHaveEntries' /\ (\A c \in Containers : WorkerOK(c)')
      /\ BarrierOK' /\ managers' = managers \cup cs
  <2>1. events' \in Seq([status : {"start", "die", "destroy"}, container : Containers])
    BY <1>1 DEF SInv, TypeOK
  <2> HIDE DEF cs
  <2>2. cs \in SUBSET Containers
    BY DEF cs
  <2> QED
    BY <1>1, <2>1, <2>2, StartWorkersStep
<1>3. managers' = cs
  BY <1>1, <1>2 DEF SInv, WatchOK
<1>4. WatchOK'
  BY <1>1, <1>3 DEF SInv, WatchOK, LastOf
<1> QED
  BY <1>2, <1>4 DEF SInv

\* The next event is read: the ones that are left, and which is the last of whom.
LEMMA EventRead ==
    ASSUME TypeOK, events # <<>>, events' = Tail(events)
    PROVE  /\ events' \in Seq([status : {"start", "die", "destroy"}, container : Containers])
           /\ Head(events) = events[1] /\ Len(events) \in Nat /\ 1 \in 1..Len(events)
           /\ events[1].container \in Containers
           /\ events[1].status \in {"start", "die", "destroy"}
           /\ \A i \in 1..Len(events') : i + 1 \in 1..Len(events) /\ events'[i] = events[i + 1]
           /\ \A d, i : i \in 0..Len(events') /\ LastOf(d, i)' => LastOf(d, i + 1)
<1> DEFINE E == [status : {"start", "die", "destroy"}, container : Containers]
<1>1. events \in Seq(E)
  BY DEF TypeOK
<1> HIDE DEF E
<1>2. /\ Len(events) \in Nat /\ Len(events) >= 1 /\ Head(events) = events[1]
      /\ events' \in Seq(E) /\ Len(events') = Len(events) - 1
      /\ \A i \in 1..Len(events') : events'[i] = events[i + 1]
  BY <1>1
<1>3. events[1] \in E
  BY <1>1, <1>2
<1>4. ASSUME NEW d, NEW i \in 0..Len(events'), LastOf(d, i)'
      PROVE  LastOf(d, i + 1)
  <2> SUFFICES ASSUME NEW j \in 1..Len(events), j > i + 1
               PROVE  events[j].container # d
    BY DEF LastOf
  <2>1. j - 1 \in 1..Len(events') /\ j - 1 > i /\ (j - 1) + 1 = j
    BY <1>2
  <2>2. events'[j - 1].container # d
    BY <1>4, <2>1 DEF LastOf
  <2>3. events'[j - 1] = events[(j - 1) + 1]
    BY <1>2, <2>1
  <2> QED
    BY <2>1, <2>2, <2>3
<1> QED
  BY <1>2, <1>3, <1>4 DEF E

LEMMA WatchEventStep ==
    ASSUME SInv, WatchEvent
    PROVE  SInv'
<1> DEFINE c == events[1].container
<1>1. /\ watch = "events" /\ events # <<>> /\ events' = Tail(events) /\ TypeOK
      /\ UNCHANGED <<reactor, docker, pub, kernel, active, taken, netInit, acked>>
  BY DEF WatchEvent, envVars, syncVars, SInv
<1>2. /\ events' \in Seq([status : {"start", "die", "destroy"}, container : Containers])
      /\ Head(events) = events[1] /\ Len(events) \in Nat /\ 1 \in 1..Len(events)
      /\ c \in Containers /\ events[1].status \in {"start", "die", "destroy"}
      /\ \A i \in 1..Len(events') : i + 1 \in 1..Len(events) /\ events'[i] = events[i + 1]
      /\ \A d, i : i \in 0..Len(events') /\ LastOf(d, i)' => LastOf(d, i + 1)
  BY <1>1, EventRead
<1>3. /\ \A d \in Containers : \A i \in 1..Len(events) :
            events[i].container = d /\ LastOf(d, i) =>
               (events[i].status = "start" <=> docker[d] = "running")
      /\ \A d \in Containers :
             LastOf(d, 0) => (d \in managers <=> docker[d] = "running")
  BY <1>1 DEF SInv, WatchOK
<1>4. \A d \in Containers : \A i \in 1..Len(events') :
         events'[i].container = d /\ LastOf(d, i)' =>
            (events'[i].status = "start" <=> docker'[d] = "running")
  <2> SUFFICES ASSUME NEW d \in Containers, NEW i \in 1..Len(events'),
                      events'[i].container = d, LastOf(d, i)'
               PROVE  events'[i].status = "start" <=> docker'[d] = "running"
    OBVIOUS
  <2>1. i + 1 \in 1..Len(events) /\ events'[i] = events[i + 1]
    BY <1>2
  <2>2. Len(events') \in Nat /\ i \in 0..Len(events')
    BY <1>2
  <2>3. LastOf(d, i + 1)
    BY <1>2, <2>2
  <2> QED
    BY <1>1, <1>3, <2>1, <2>3
<1>5. \A d \in Containers : LastOf(d, 0)' =>
         \/ d # c /\ (d \in managers <=> docker'[d] = "running")
         \/ d = c /\ (events[1].status = "start" <=> docker'[d] = "running")
  <2> SUFFICES ASSUME NEW d \in Containers, LastOf(d, 0)'
               PROVE  \/ d # c /\ (d \in managers <=> docker'[d] = "running")
                      \/ d = c /\ (events[1].status = "start" <=> docker'[d] = "running")
    OBVIOUS
  <2>1. LastOf(d, 1)
    <3>1. Len(events') \in Nat /\ 0 \in 0..Len(events') /\ 0 + 1 = 1
      BY <1>2
    <3> QED
      BY <1>2, <3>1
  <2>2. CASE d = c
    BY <1>1, <1>2, <1>3, <2>1, <2>2
  <2>3. CASE d # c
    <3>1. LastOf(d, 0)
      BY <1>2, <2>1, <2>3 DEF LastOf
    <3> QED
      BY <1>1, <1>3, <2>3, <3>1
  <2> QED
    BY <2>2, <2>3
<1> HIDE DEF c
<1>6. CASE /\ events[1].status = "start" /\ StartWorkers({c}) /\ watch' = watch
  <2>1. /\ TypeOK' /\ WorkersHaveEntries' /\ (\A d \in Containers : WorkerOK(d)')
        /\ BarrierOK' /\ managers' = managers \cup {c}
    <3>1. {c} \in SUBSET Containers
      BY <1>2
    <3> QED
      BY <1>1, <1>2, <1>6, <3>1, StartWorkersStep
  <2>2. WatchOK'
    BY <1>1, <1>4, <1>5, <1>6, <2>1 DEF WatchOK
  <2> QED
    BY <2>1, <2>2 DEF SInv
<1>7. CASE /\ events[1].status \in {"die", "destroy"} /\ managers' = managers \ {c}
           /\ watch' = (IF c \in managers THEN "stopping" ELSE "events")
           /\ worker' = worker
  <2>1. TypeOK'
    <3>1. /\ managers' \subseteq Containers /\ worker' \in [Containers -> WorkerStates]
          /\ watch' \in {"stopping", "events"}
      BY <1>1, <1>7 DEF TypeOK
    <3> QED
      BY <1>1, <1>2, <3>1, WatchType
  <2>2. WatchOK'
    BY <1>1, <1>4, <1>5, <1>7 DEF WatchOK
  <2>3. WorkersHaveEntries'
    BY <1>1, <1>7 DEF SInv, WorkersHaveEntries, Alive
  <2> QED
    BY <1>1, <1>7, <2>1, <2>2, <2>3, Forgotten DEF SInv
<1> QED
  BY <1>2, <1>6, <1>7 DEF WatchEvent, c

LEMMA WatchStoppedStep ==
    ASSUME SInv, WatchStopped
    PROVE  SInv'
<1>1. /\ watch = "stopping" /\ watch' = "events"
      /\ \A c \in Containers : worker'[c] = IF c \in managers THEN worker[c] ELSE "none"
      /\ UNCHANGED <<reactor, docker, pub, kernel, events, managers, active, taken, netInit,
                     acked>>
  BY DEF WatchStopped, envVars, syncVars
<1>2. worker' \in [Containers -> WorkerStates]
  BY DEF WatchStopped, SInv, TypeOK, WorkerStates
<1>3. TypeOK'
  BY <1>1, <1>2, WatchType DEF SInv, TypeOK
<1>4. WatchOK'
  BY <1>1 DEF SInv, WatchOK, LastOf
<1>5. WorkersHaveEntries'
  BY <1>1 DEF WorkersHaveEntries, Alive
<1>6. \A c \in Containers :
         \/ Idle(c)'
         \/ active'[c] = active[c] /\ worker'[c] = worker[c] /\ taken'[c] = taken[c]
  BY <1>1 DEF Idle
<1> QED
  BY <1>1, <1>3, <1>4, <1>5, <1>6, Forgotten DEF SInv

LEMMA WatchErrorStep ==
    ASSUME SInv, WatchError
    PROVE  SInv'
<1>1. /\ watch \in {"list", "events"} /\ watch' = "draining" /\ events' = <<>>
      /\ UNCHANGED <<reactor, docker, pub, kernel, managers, worker, active, taken, netInit,
                     acked>>
  BY DEF WatchError, envVars, syncVars, workVars
<1>2. TypeOK'
  BY <1>1, WatchType DEF SInv, TypeOK
<1>3. WatchOK'
  BY <1>1 DEF WatchOK
<1>4. WorkersHaveEntries'
  BY <1>1 DEF SInv, WorkersHaveEntries, Alive
<1> QED
  BY <1>1, <1>2, <1>3, <1>4, Forgotten DEF SInv

\* The process ends, by itself or not.
LEMMA DownStep ==
    ASSUME SInv, WatchReturn \/ Crash
    PROVE  SInv'
<1>1. Down /\ UNCHANGED <<reactor, docker, pub, kernel, netInit, acked>>
  BY DEF WatchReturn, Crash, envVars, syncVars
<1>2. worker' \in [Containers -> WorkerStates] /\ \A c \in Containers : worker'[c] = "none"
  BY <1>1 DEF Down, WorkerStates
<1>3. TypeOK'
  BY <1>1, <1>2, WatchType DEF SInv, Down
<1>4. WatchOK'
  BY <1>1 DEF WatchOK, Down
<1>5. WorkersHaveEntries'
  BY <1>2 DEF WorkersHaveEntries, Alive
<1>6. \A c \in Containers : Idle(c)'
  BY <1>2 DEF Idle
<1> QED
  BY <1>1, <1>3, <1>4, <1>5, <1>6, Forgotten DEF SInv

\* Docker notes an event, if someone listens: the last one of its container.
LEMMA HappensStep ==
    ASSUME SInv, NEW c \in Containers, NEW from, NEW to, NEW status, Happens(c, from, to, status),
           to \in {"running", "exited", "removed"},
           status \in {"start", "die", "destroy"}, status = "start" <=> to = "running"
    PROVE  SInv'
<1> DEFINE E == [status : {"start", "die", "destroy"}, container : Containers]
           e == [status |-> status, container |-> c]
<1>1. UNCHANGED <<reactor, pub, kernel, watch, managers, worker, active, taken, netInit, acked>>
  BY DEF Happens, workVars, syncVars
<1>2. /\ docker' \in [Containers -> {"created", "running", "exited", "removed"}]
      /\ docker'[c] = to /\ \A d \in Containers : d # c => docker'[d] = docker[d]
  BY DEF Happens, SInv, TypeOK
<1>3. events \in Seq(E) /\ e \in E /\ e.status = status /\ e.container = c
  BY DEF SInv, TypeOK
<1>4. events' = IF watch \in {"down", "draining"} THEN events ELSE Append(events, e)
  BY DEF Happens
<1> HIDE DEF E, e
<1>5. CASE watch \in {"down", "draining"}
  <2>1. events' = <<>>
    BY <1>4, <1>5 DEF SInv, WatchOK
  <2>2. WatchOK'
    BY <1>1, <1>5, <2>1 DEF SInv, WatchOK
  <2> QED
    <3>1. TypeOK'
      BY <1>1, <1>2, <1>3, <1>4, <1>5 DEF SInv, TypeOK
    <3>2. WorkersHaveEntries'
      BY <1>1 DEF SInv, WorkersHaveEntries, Alive
    <3> QED
      BY <1>1, <2>2, <3>1, <3>2, Forgotten DEF SInv
<1>6. CASE watch \notin {"down", "draining"}
  <2>1. /\ Len(events) \in Nat /\ Len(events') = Len(events) + 1 /\ events' \in Seq(E)
        /\ events'[Len(events) + 1] = e
        /\ \A i \in 1..Len(events) : events'[i] = events[i]
    BY <1>3, <1>4, <1>6
  <2>2. ASSUME NEW d \in Containers, NEW i \in 0..Len(events), LastOf(d, i)'
        PROVE  d # c /\ LastOf(d, i)
    <3>1. Len(events) + 1 \in 1..Len(events') /\ Len(events) + 1 > i
      BY <2>1
    <3>2. d # c
      BY <1>3, <2>1, <2>2, <3>1 DEF LastOf
    <3>3. \A j \in 1..Len(events) : j \in 1..Len(events')
      BY <2>1
    <3>4. LastOf(d, i)
      BY <2>1, <2>2, <3>3 DEF LastOf
    <3> QED
      BY <3>2, <3>4
  <2>3. \A d \in Containers : \A i \in 1..Len(events') :
           events'[i].container = d /\ LastOf(d, i)' =>
              (events'[i].status = "start" <=> docker'[d] = "running")
    <3> SUFFICES ASSUME NEW d \in Containers, NEW i \in 1..Len(events'),
                        events'[i].container = d, LastOf(d, i)'
                 PROVE  events'[i].status = "start" <=> docker'[d] = "running"
      OBVIOUS
    <3>1. CASE i = Len(events) + 1
      BY <1>2, <1>3, <2>1, <3>1
    <3>2. CASE i # Len(events) + 1
      <4>1. i \in 1..Len(events) /\ i \in 0..Len(events)
        BY <2>1, <3>2
      <4>2. d # c /\ LastOf(d, i)
        BY <2>2, <4>1
      <4> QED
        BY <1>2, <2>1, <4>1, <4>2 DEF SInv, WatchOK
    <3> QED
      BY <3>1, <3>2
  <2>4. \A d \in Containers : LastOf(d, 0)' => d # c /\ LastOf(d, 0)
    <3>1. 0 \in 0..Len(events)
      BY <2>1
    <3> QED
      BY <2>2, <3>1
  <2>5. WatchOK'
    BY <1>1, <1>2, <1>6, <2>3, <2>4 DEF SInv, WatchOK
  <2>6. TypeOK'
    BY <1>1, <1>2, <2>1 DEF SInv, TypeOK, E
  <2>7. WorkersHaveEntries'
    BY <1>1 DEF SInv, WorkersHaveEntries, Alive
  <2> QED
    BY <1>1, <2>5, <2>6, <2>7, Forgotten DEF SInv
<1> QED
  BY <1>5, <1>6

\* An instance that publishes leaves the configuration being applied alone.
LEMMA PublishStep ==
    ASSUME SInv, NEW c \in Containers, Publish(c)
    PROVE  SInv'
<1>1. /\ BarrierOpen
      /\ UNCHANGED <<reactor, docker, kernel, watch, events, managers, worker, active, taken,
                     netInit, acked>>
  BY DEF Publish, watchVars, workVars, syncVars
<1>2. PICK f \in Configs : pub' = [pub EXCEPT ![c] = Append(pub[c], f)]
  BY DEF Publish
<1>3. /\ pub \in [Containers -> Seq(Configs)] /\ pub[c] \in Seq(Configs)
      /\ pub'[c] = Append(pub[c], f) /\ pub' \in [Containers -> Seq(Configs)]
      /\ \A d \in Containers : d # c => pub'[d] = pub[d]
  BY <1>2 DEF SInv, TypeOK
<1>4. /\ pub'[c] # <<>> /\ Len(pub'[c]) = Len(pub[c]) + 1 /\ Len(pub[c]) \in Nat
      /\ \A i \in 1..Len(pub[c]) : pub'[c][i] = pub[c][i]
  BY <1>3
<1>5. taken \in [Containers -> Nat] /\ \A d \in Containers : taken[d] <= Len(pub[d])
  BY DEF SInv, TypeOK
<1>6. \A d \in Containers : taken'[d] <= Len(pub'[d])
  <2> SUFFICES ASSUME NEW d \in Containers PROVE taken[d] <= Len(pub'[d])
    BY <1>1
  <2>1. CASE d = c
    BY <1>4, <1>5, <2>1
  <2>2. CASE d # c
    BY <1>3, <1>5, <2>2
  <2> QED
    BY <2>1, <2>2
<1>7. TypeOK'
  BY <1>1, <1>3, <1>6 DEF SInv, TypeOK
<1>8. ASSUME NEW d \in Containers
      PROVE  WorkerOK(d)' /\ (Settled(d) => Settled(d)')
  <2>1. Current(d)' = Current(d)
    <3>1. CASE d = c
      <4>1. taken[c] # 0 => taken[c] \in 1..Len(pub[c])
        BY <1>4, <1>5
      <4> QED
        BY <1>1, <1>4, <3>1, <4>1 DEF Current, Default
    <3>2. CASE d # c
      BY <1>1, <1>3, <3>2, CurrentFrame
    <3> QED
      BY <3>1, <3>2
  <2> QED
    BY <1>1, <2>1, WorkerFrame DEF SInv
<1>9. WatchOK' /\ WorkersHaveEntries'
  BY <1>1, WatchFrame DEF SInv, WorkersHaveEntries, Alive
<1>10. BarrierOK'
  <2>1. netInit \in Nat /\ netInit' \in Nat /\ netInit' = netInit
    BY <1>1 DEF SInv, TypeOK
  <2>2. \A d \in Containers : pub'[d] = <<>> => pub[d] = <<>>
    BY <1>3, <1>4
  <2> QED
    BY <1>1, <1>8, <2>1, <2>2, BarrierStep DEF SInv
<1> QED
  BY <1>7, <1>8, <1>9, <1>10 DEF SInv

LEMMA InitSInv == Init => SInv
<1> SUFFICES ASSUME Init PROVE SInv
  OBVIOUS
<1>1. /\ watch = "down" /\ events = <<>> /\ managers = {} /\ netInit = 0
      /\ reactor \in {"docker", "k8s"}
      /\ \A c \in Containers : worker[c] = "none" /\ pub[c] = <<>> /\ taken[c] = 0
  BY ReactorsAssumption DEF Init
<1>2. TypeOK
  <2>1. kernel \in [Containers ->
                     [up : BOOLEAN, ip : IPs, qdisc : BOOLEAN, shape : Shapes,
                      filter : {"accept", "drop", "reject"}, ext : BOOLEAN,
                      control : {"open", "restricted", "cut"}]]
    BY DEF Init, IPs, Shapes
  <2>2. active \in [Containers -> [on : BOOLEAN, ip : IPs]]
    BY DEF Init, NoLink, IPs
  <2>3. /\ docker \in [Containers -> {"created", "running", "exited", "removed"}]
        /\ worker \in [Containers -> WorkerStates]
        /\ taken \in [Containers -> Nat] /\ acked \in [Containers -> Nat]
    BY DEF Init, WorkerStates
  <2>4. pub \in [Containers -> Seq(Configs)] /\ \A c \in Containers : taken[c] <= Len(pub[c])
    BY DEF Init
  <2> QED
    BY <1>1, <2>1, <2>2, <2>3, <2>4 DEF TypeOK
<1>3. WatchOK /\ WorkersHaveEntries
  BY <1>1 DEF WatchOK, WorkersHaveEntries, Alive
<1>4. \A c \in Containers : WorkerOK(c)
  BY <1>1 DEF WorkerOK, LinkOK, ConfigOK, Idle
<1>5. BarrierOK
  <2> DEFINE S == {c \in Containers : Settled(c)}
  <2>1. IsFiniteSet(S) /\ Cardinality(S) \in Nat
    BY ContainersAssumption, FS_Subset, FS_CardinalityType
  <2>2. BarrierOpen => Containers = {}
    <3>1. Cardinality(Containers) \in Nat
      BY ContainersAssumption, FS_CardinalityType
    <3>2. BarrierOpen => Cardinality(Containers) = 0
      BY <1>1, <3>1 DEF BarrierOpen
    <3> QED
      BY <3>2, ContainersAssumption, FS_EmptySet
  <2> QED
    BY <1>1, <2>1, <2>2 DEF BarrierOK
<1> QED
  BY <1>2, <1>3, <1>4, <1>5 DEF SInv

LEMMA NextSInv == SInv /\ [Next]_vars => SInv'
<1> SUFFICES ASSUME SInv, [Next]_vars PROVE SInv'
  OBVIOUS
<1>1. CASE UNCHANGED vars
  <2>1. UNCHANGED <<reactor, docker, pub, kernel, watch, events, managers, worker, active,
                    taken, netInit, acked>>
    BY <1>1 DEF vars, envVars, watchVars, workVars, syncVars
  <2>2. TypeOK'
    BY <2>1 DEF SInv, TypeOK
  <2>3. WatchOK' /\ WorkersHaveEntries'
    BY <2>1, WatchFrame DEF SInv, WorkersHaveEntries, Alive
  <2> QED
    BY <2>1, <2>2, <2>3, Forgotten DEF SInv
<1>2. CASE Watching \/ WatchError \/ Crash
  BY <1>2, WatchBeginStep, WatchListStep, WatchEventStep, WatchStoppedStep, WatchErrorStep,
     DownStep DEF Watching
<1>3. ASSUME NEW c \in Containers, Working(c) \/ WorkerFails(c)
      PROVE  SInv'
  <2>1. WorkerStep(c)
    BY <1>3, InitStep, RoutingStep, DisconnectStep, ConnectStep, RegisterStep, ShapeStep,
       SignalStep, LoopStep, ReceiveStep, WorkerFailsStep DEF Working
  <2> QED
    BY <2>1, OneWorker
<1>4. ASSUME NEW c \in Containers, ContainerStart(c) \/ ContainerDie(c) \/ ContainerRemove(c)
      PROVE  SInv'
  BY <1>4, HappensStep DEF ContainerStart, ContainerDie, ContainerRemove
<1> QED
  BY <1>1, <1>2, <1>3, <1>4, PublishStep DEF Next

\* The inductive invariant of the sidecar: Watch's events lead to the running
\* containers, each worker knows its data link and has done what its position
\* says, and signals do not outnumber the instances that are set up.
THEOREM SidecarInvariance == Spec => []SInv
<1>1. Spec => Init /\ [][Next]_vars
  BY PTL DEF Spec
<1> QED
  BY <1>1, InitSInv, NextSInv, PTL

\* Watch misses no container, and no worker outlives the entry of its container
\* (pkg/docker/manager.go), for any number of containers, errors and crashes.
THEOREM WatchMissesNothing == Spec => []WatchComplete
<1>1. SInv => WatchComplete
  BY DEF SInv, WatchOK, WorkersHaveEntries, WatchComplete, LastOf, TypeOK
<1> QED
  BY <1>1, SidecarInvariance, PTL

\* The barrier opens only when the network of every instance is set up, for any
\* number of instances, failures and restarts (pkg/sidecar/sidecar_handler.go).
THEOREM BarrierIsSound == Spec => []BarrierSound
<1>1. SInv => BarrierSound
  BY DEF SInv, BarrierOK, BarrierSound, Settled
<1> QED
  BY <1>1, SidecarInvariance, PTL

\* A callback state is signalled only for a configuration that is in force, also
\* by a restarted worker (docker_network.go, k8s_network.go, sidecar_handler.go).
THEOREM AcksAreInForce == Spec => AckedInForce
<1> DEFINE A == \A c \in Containers : acked'[c] # acked[c] => Reflects(c, pub[c][taken[c]])
<1>1. Spec => Init /\ [][Next]_vars
  BY PTL DEF Spec
<1>2. SInv /\ [Next]_vars => [A]_vars
  <2> SUFFICES ASSUME SInv, [Next]_vars, NEW c \in Containers, acked'[c] # acked[c]
               PROVE  Reflects(c, pub[c][taken[c]])
    OBVIOUS
  <2>1. WorkerAck(c)
    <3>1. acked \in [Containers -> Nat]
      BY DEF SInv, TypeOK
    <3>2. \E d \in Containers : WorkerAck(d)
      BY DEF Next, vars, Watching, Working, WatchBegin, WatchList, WatchEvent, WatchStopped,
         WatchReturn, WatchError, Crash, WorkerFails, Publish, ContainerStart, ContainerDie,
         ContainerRemove, Happens, WorkerInit, ConfigRouting, ConfigDisconnect, ConfigConnect,
         ConfigRegister, ConfigShape, WorkerSignal, WorkerPass, WorkerReceive, syncVars
    <3> QED
      BY <3>1, <3>2 DEF WorkerAck
  <2>2. worker[c] = "ack"
    BY <2>1 DEF WorkerAck
  <2>3. Reflects(c, Current(c)) /\ taken[c] > 0
    BY <2>2 DEF SInv, WorkerOK, ConfigOK
  <2> QED
    BY <2>3 DEF Current, SInv, TypeOK
<1>3. Spec => [][A]_vars
  BY <1>1, <1>2, SidecarInvariance, PTL
<1> QED
  BY <1>3 DEF AckedInForce
=============================================================================
