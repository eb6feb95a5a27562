------------------------------ MODULE Prepare ------------------------------
(***************************************************************************)
(* From a composition to the input of a runner.                            *)
(*                                                                         *)
(* The client validates the composition and says which groups to build;    *)
(* the engine prepares them against the manifest, builds every distinct    *)
(* build key once, in parallel jobs, maps the artifacts back to groups,    *)
(* prepares the run and hands the runner its input.  A build task is       *)
(* prepared twice, by the client and by the engine, and its artifacts may  *)
(* be written back and used by a run.                                      *)
(*                                                                         *)
(* Groups are pointers: preparing changes the one composition there is.    *)
(* The empty string stands for an absent builder, artifact or target.      *)
(* Percentages are integers out of 100, multiplied as floating point       *)
(* numbers.  A job that builds with docker:go shares the cache image of    *)
(* the plan with its siblings.                                             *)
(***************************************************************************)
EXTENDS Integers, Sequences, FiniteSets, SequencesExt

CONSTANTS
    Compositions,   \* the compositions a user may submit
    Manifest,       \* builders, runners, instance limits and parameters
    EnvBuilders,    \* envcfg.Builders: configuration by builder
    HalvesDown,     \* the <<percentage, total>> whose product, a number and a half,
                    \* is just below that as a float64 (58% of 25, 57% of 50)
    Images,         \* the IDs of what is built: as many as there are builds
    BuildFaults     \* whether calls of a builder may fail

\* The engine knows the builders of the manifest.
ASSUME ManifestAssumption ==
    /\ DOMAIN EnvBuilders = DOMAIN Manifest.builders
    /\ DOMAIN Manifest.builders \subseteq
          {"docker:go", "exec:go", "docker:node", "docker:generic"}
    /\ Manifest.min \in Nat /\ Manifest.max \in Nat
    /\ BuildFaults \in BOOLEAN

GlobalFields == {"builder", "config", "hasBuild", "deps", "selectors", "hasRun",
                 "artifact", "params", "runner", "total"}
GroupFields == {"id", "builder", "config", "deps", "selectors", "artifact", "params",
                "count", "pct"}

IsSequence(s) == s \in Seq(ToSet(s))

\* The fields of Global and Group; the ID of an image is no artifact a user has
\* written down.
ASSUME CompositionAssumption ==
    /\ "" \notin Images
    /\ \A c \in Compositions :
          /\ DOMAIN c = {"global", "groups"} /\ IsSequence(c.groups)
          /\ DOMAIN c.global = GlobalFields /\ c.global.total \in Nat
          /\ IsSequence(c.global.deps) /\ c.global.artifact \notin Images
          /\ \A i \in DOMAIN c.groups :
                /\ DOMAIN c.groups[i] = GroupFields
                /\ c.groups[i].count \in Nat /\ c.groups[i].pct \in Nat
                /\ IsSequence(c.groups[i].deps) /\ c.groups[i].artifact \notin Images

VARIABLES
    orig,       \* the composition as it was written (history)
    comp,       \* the composition, shared through its group pointers
    kind,       \* "build" or "run": the task
    ignore,     \* --ignore-artifacts
    pc,         \* where the request or the task is
    pick,       \* BuildGroups: the indices of the groups to build
    jobs,       \* the build jobs, one per build key
    cache,      \* whether the plan's go build cache image is tagged
    content,    \* what each artifact was built from (history)
    input       \* the groups of the run input

vars == <<orig, comp, kind, ignore, pc, pick, jobs, cache, content, input>>

Idx == DOMAIN comp.groups
Over == {"run", "built", "failed", "rejected"}

-----------------------------------------------------------------------------
(* Preparing a composition *)

\* What is set counts, and what is not has its default.
WithDefaults(own, defaults) ==
    [k \in DOMAIN own \cup DOMAIN defaults |->
        IF k \in DOMAIN own THEN own[k] ELSE defaults[k]]

\* The elements of a finite set of numbers, in ascending order.
Sorted(S) == [p \in 1..Cardinality(S) |->
                CHOOSE i \in S : Cardinality({k \in S : k <= i}) = p]

\* Dependencies.AsMap: the last entry of a module counts.
AsMap(d) ==
    [m \in {d[i].mod : i \in DOMAIN d} |->
        LET j == CHOOSE i \in DOMAIN d :
                    d[i].mod = m /\ \A k \in DOMAIN d : d[k].mod = m => k <= i
        IN  d[j]]

\* Mutant: a default is added although the module is already there.
ApplyDefaultsTwice(d, defaults) ==
    IF d = <<>> THEN defaults
    ELSE d \o [i \in DOMAIN defaults |-> [defaults[i] EXCEPT !.target = ""]]

\* Missing modules are appended, in map order and without their target.
ApplyDefaults(d, defaults) ==
    LET missing == {m \in DOMAIN AsMap(defaults) : m \notin DOMAIN AsMap(d)}
        new == {[mod |-> m, target |-> "", ver |-> AsMap(defaults)[m].ver] :
                    m \in missing}
    IN  IF d = <<>> THEN defaults ELSE d \o SetToSeq(new)

\* What PrepareForBuild makes of the global build configuration.
GlobalConfig(g) ==
    IF g.builder \in DOMAIN Manifest.builders
    THEN WithDefaults(g.config, Manifest.builders[g.builder]) ELSE g.config

\* The loops of PrepareForBuild over one group.
PrepareGroup(grp, g) ==
    [grp EXCEPT
        !.deps = IF g.hasBuild THEN ApplyDefaults(@, g.deps) ELSE @,
        !.selectors = IF g.hasBuild /\ @ = <<>> THEN g.selectors ELSE @,
        !.config = WithDefaults(@, GlobalConfig(g)),
        !.builder = IF @ = "" THEN g.builder ELSE @]

\* PrepareForBuild on the groups S.  The returned Composition shares them with
\* the receiver, and its BuildConfig map too, if there was one.
PrepareForBuild(c, S) ==
    [global |-> [c.global EXCEPT !.config = IF @ = <<>> THEN @ ELSE GlobalConfig(c.global)],
     groups |-> [i \in DOMAIN c.groups |->
                    IF i \in S THEN PrepareGroup(c.groups[i], c.global)
                    ELSE c.groups[i]]]

\* The errors of PrepareForBuild: a builder the manifest does not have.
BuildersSupported(c, S) ==
    /\ DOMAIN Manifest.builders # {}
    /\ \A i \in S : PrepareGroup(c.groups[i], c.global).builder \in DOMAIN Manifest.builders

\* Groups.Validate
ValidGroups(c, S) ==
    /\ \A i, j \in S : c.groups[i].id = c.groups[j].id => i = j
    /\ \A i \in S : c.groups[i].builder # "" \/ c.global.builder # ""

\* calculatedInstanceCnt: the count, else the share of the total, rounded to the
\* nearest; a half is rounded up unless the float64 product fell below it.
InstanceCount(c, i) ==
    LET pct == c.groups[i].pct
        total == c.global.total
        half == IF <<pct, total>> \in HalvesDown THEN 99 ELSE 100
    IN  IF c.groups[i].count # 0 THEN c.groups[i].count
        ELSE (2 * pct * total + half) \div 200

\* ValidateForRun.  The struct validation does not dive into the groups, so
\* ValidateInstances is not reached; required fields are given.
ValidForRun(c) ==
    /\ c.global.total > 0
    /\ SumFunction([i \in DOMAIN c.groups |-> InstanceCount(c, i)]) = c.global.total
    /\ ValidGroups(c, DOMAIN c.groups)

ListBuilders(c) ==
    {IF c.groups[i].builder = "" THEN c.global.builder ELSE c.groups[i].builder :
        i \in DOMAIN c.groups}

\* The runners in the order of their names, and the builders each goes with.
Runners == <<"cluster:k8s", "cluster:swarm", "local:docker", "local:exec">>
CompatibleBuilders(r) ==
    CASE r = "cluster:k8s" -> {"docker:go", "docker:generic"}
      [] r = "cluster:swarm" -> {"docker:go"}
      [] r = "local:docker" -> {"docker:go", "docker:node", "docker:generic"}
      [] r = "local:exec" -> {"exec:go"}

Rank(r) == CHOOSE i \in DOMAIN Runners : Runners[i] = r

\* sort.SearchStrings is compared with the length only: any runner whose name
\* does not sort after all the supported ones is accepted.
RunnerAccepted(r) == \E s \in DOMAIN Manifest.runners : Rank(s) >= Rank(r)

\* The errors of PrepareForRun.
RunSupported(c) ==
    /\ RunnerAccepted(c.global.runner)
    /\ c.global.total \in Manifest.min..Manifest.max

\* Mutant: the test case's defaults come before the global ones.
PrepareForRunCaseFirst(c) ==
    [c EXCEPT !.groups = [i \in DOMAIN c.groups |->
        [c.groups[i] EXCEPT
            !.artifact = IF c.global.hasRun /\ @ = "" THEN c.global.artifact ELSE @,
            !.params = WithDefaults(WithDefaults(@, Manifest.params),
                            IF c.global.hasRun THEN c.global.params ELSE <<>>)]]]

\* PrepareForRun: global run defaults, then test case defaults, fill what is
\* missing in each group.
PrepareForRun(c) ==
    [c EXCEPT !.groups = [i \in DOMAIN c.groups |->
        [c.groups[i] EXCEPT
            !.artifact = IF c.global.hasRun /\ @ = "" THEN c.global.artifact ELSE @,
            !.params = WithDefaults(IF c.global.hasRun THEN WithDefaults(@, c.global.params)
                                    ELSE @, Manifest.params)]]]

\* Mutant: the key forgets the configuration.
BuildKeyWithoutConfig(grp) ==
    [builder |-> grp.builder,
     selectors |-> ToBag(grp.selectors),
     deps |-> [m \in DOMAIN AsMap(grp.deps) |-> AsMap(grp.deps)[m].ver]]

\* The versions a list of dependencies has for a module, in its order.
VersionsOf(d, m) ==
    LET at == Sorted({k \in DOMAIN d : d[k].mod = m}) IN [p \in DOMAIN at |-> d[at[p]].ver]

\* Group.BuildKey and Build.BuildKey: the selectors sorted, the dependencies
\* sorted by module (a stable sort) with their versions.
BuildKey(grp) ==
    [builder |-> grp.builder,
     config |-> grp.config,
     selectors |-> ToBag(grp.selectors),
     deps |-> [m \in DOMAIN AsMap(grp.deps) |-> VersionsOf(grp.deps, m)]]

-----------------------------------------------------------------------------
(* The request and the task *)

Init ==
    /\ comp \in Compositions
    /\ orig = comp
    /\ kind \in {"build", "run"}
    /\ ignore \in BOOLEAN
    /\ kind = "build" => ~ignore
    /\ pc = "client"
    /\ pick = <<>>
    /\ jobs = <<>>
    /\ cache \in BOOLEAN
    /\ content = <<>>
    /\ input = <<>>

Go(to) == pc' = to

\* testground build: validate the file, prepare it, send it.
ClientBuild ==
    /\ pc = "client" /\ kind = "build"
    /\ LET ok == ValidGroups(comp, Idx) IN
       /\ comp' = IF ok THEN PrepareForBuild(comp, Idx) ELSE comp
       /\ Go(IF ok /\ BuildersSupported(comp, Idx) THEN "doBuild" ELSE "rejected")
    /\ pick' = [i \in Idx |-> i]
    /\ UNCHANGED <<orig, kind, ignore, jobs, cache, content, input>>

\* testground run: validate the file; build the groups without an artifact.
ClientRun ==
    /\ pc = "client" /\ kind = "run"
    /\ pick' = Sorted({i \in Idx : comp.groups[i].artifact = "" \/ ignore})
    /\ Go(IF ValidForRun(comp) THEN "queue" ELSE "rejected")
    /\ UNCHANGED <<orig, comp, kind, ignore, jobs, cache, content, input>>

\* Engine.QueueRun: every builder used must suit the runner.
QueueRun ==
    /\ pc = "queue"
    /\ Go(IF ListBuilders(comp) \subseteq CompatibleBuilders(comp.global.runner)
          THEN IF pick = <<>> THEN "prepareRun" ELSE "doBuild"
          ELSE "rejected")
    /\ UNCHANGED <<orig, comp, kind, ignore, pick, jobs, cache, content, input>>

\* The unique build keys with their positions in pick, in map order; the
\* sources are copied once per key, or used as they are if there is one key.
Jobs(c) ==
    LET keyOf(p) == BuildKey(c.groups[pick[p]])
        keys == SetToSeq({keyOf(p) : p \in DOMAIN pick})
    IN  [j \in DOMAIN keys |->
            [at |-> {p \in DOMAIN pick : keyOf(p) = keys[j]},
             src |-> IF Len(keys) = 1 THEN 0 ELSE j,
             pc |-> "setup", base |-> "default"]]

\* Engine.doBuild up to the jobs.  The builders are all known to the engine and
\* none of them has a healthcheck.
DoBuild ==
    /\ pc = "doBuild"
    /\ LET S == ToSet(pick)
           c == PrepareForBuild(comp, S) IN
       /\ comp' = c
       /\ \/ /\ BuildersSupported(comp, S) /\ ValidGroups(c, S)
             /\ jobs' = Jobs(c)
             /\ Go("jobs")
          \/ /\ ~(BuildersSupported(comp, S) /\ ValidGroups(c, S)) \/ BuildFaults
             /\ Go("failed")
             /\ UNCHANGED jobs
    /\ UNCHANGED <<orig, kind, ignore, pick, cache, content, input>>

-----------------------------------------------------------------------------
(* A build job *)

\* Every group of a job has the job's key; the first one is built.
GroupOf(j) == comp.groups[pick[Min(jobs[j].at)]]

\* The environment's configuration of a builder gives way to the group's.
Made(grp, tags, replace) ==
    [builder |-> grp.builder,
     config |-> WithDefaults(grp.config, EnvBuilders[grp.builder]),
     tags |-> tags,
     replace |-> replace]

\* What each builder makes of a group.  The go builders apply the selectors as
\* tags and the dependencies as replace directives, docker:go with the module
\* itself for a missing target; the others build the sources as they are.
DockerGo(grp) ==
    LET deps == AsMap(grp.deps) IN
    Made(grp, ToSet(grp.selectors),
         [m \in DOMAIN deps |->
            [target |-> IF deps[m].target = "" THEN m ELSE deps[m].target,
             ver |-> deps[m].ver]])

ExecGo(grp) ==
    LET deps == AsMap(grp.deps) IN
    Made(grp, ToSet(grp.selectors),
         [m \in DOMAIN deps |-> [target |-> deps[m].target, ver |-> deps[m].ver]])

DockerNode(grp) == Made(grp, {}, <<>>)

DockerGeneric(grp) == Made(grp, {}, <<>>)

Content(grp) ==
    CASE grp.builder = "docker:go" -> DockerGo(grp)
      [] grp.builder = "exec:go" -> ExecGo(grp)
      [] grp.builder = "docker:node" -> DockerNode(grp)
      [] grp.builder = "docker:generic" -> DockerGeneric(grp)

UsesCache(grp) == /\ grp.builder = "docker:go"
                  /\ "cache" \in DOMAIN Content(grp).config

JobAt(j, at) == pc = "jobs" /\ jobs[j].pc = at
JobTo(j, to) == jobs' = [jobs EXCEPT ![j].pc = to]
JobRest == UNCHANGED <<orig, comp, kind, ignore, pc, pick, input>>

\* exec:go writes a dependency without a target as "-replace=mod=@version",
\* which go mod edit refuses.
Refused(grp) ==
    /\ grp.builder = "exec:go"
    /\ \E m \in DOMAIN AsMap(grp.deps) : AsMap(grp.deps)[m].target = ""

\* Proxy, Dockerfile and go.mod.
JobSetup(j) ==
    /\ JobAt(j, "setup")
    /\ \/ /\ ~Refused(GroupOf(j))
          /\ JobTo(j, IF UsesCache(GroupOf(j)) THEN "cache" ELSE "build")
       \/ /\ Refused(GroupOf(j)) \/ BuildFaults
          /\ JobTo(j, "failed")
    /\ JobRest /\ UNCHANGED <<cache, content>>

\* hasBuildCacheImage: the base of the build is the cache image if there is one.
JobFindCache(j) ==
    /\ JobAt(j, "cache")
    /\ \/ jobs' = [jobs EXCEPT ![j].base = IF cache THEN "cache" ELSE "default",
                               ![j].pc = "build"]
       \/ BuildFaults /\ JobTo(j, "failed")
    /\ JobRest /\ UNCHANGED <<cache, content>>

\* docker build or go build; it fails if its base image is gone.
JobBuild(j) ==
    /\ JobAt(j, "build")
    /\ \/ /\ jobs[j].base = "cache" => cache
          /\ JobTo(j, IF UsesCache(GroupOf(j)) /\ jobs[j].base = "default"
                      THEN "untag" ELSE "image")
       \/ /\ BuildFaults \/ (jobs[j].base = "cache" /\ ~cache)
          /\ JobTo(j, "failed")
    /\ JobRest /\ UNCHANGED <<cache, content>>

\* updateBuildCacheImage removes the old tag, then sets the new one; an error
\* is a warning.
JobUntag(j) ==
    /\ JobAt(j, "untag")
    /\ \/ cache' = FALSE /\ JobTo(j, "tag")
       \/ BuildFaults /\ UNCHANGED cache /\ JobTo(j, "image")
    /\ JobRest /\ UNCHANGED content

JobTag(j) ==
    /\ JobAt(j, "tag")
    /\ cache' = TRUE \/ (BuildFaults /\ UNCHANGED cache)
    /\ JobTo(j, "image")
    /\ JobRest /\ UNCHANGED content

\* The image is found and tagged: every group of the job gets the artifact.
JobImage(j) ==
    /\ JobAt(j, "image")
    /\ \/ LET art == CHOOSE a \in Images : a \notin DOMAIN content IN
          /\ ~(Images \subseteq DOMAIN content)
          /\ jobs' = [jobs EXCEPT ![j].pc = "done", ![j].base = art]
          /\ content' = [a \in DOMAIN content \cup {art} |->
                            IF a = art THEN Content(GroupOf(j)) ELSE content[a]]
       \/ BuildFaults /\ JobTo(j, "failed") /\ UNCHANGED content
    /\ JobRest /\ UNCHANGED cache

\* ress[p]: the artifact of the job that position p of pick belongs to.
Result(p) == jobs[CHOOSE j \in DOMAIN jobs : p \in jobs[j].at].base

\* Every job has an artifact.
JobsSucceeded == \A j \in DOMAIN jobs : jobs[j].pc = "done"

JobsEnded == \A j \in DOMAIN jobs : jobs[j].pc \in {"done", "failed"}

\* errgrp.Wait; then doRun, or the client of a build task, gives each group
\* that was built its artifact.
BuildWait ==
    /\ pc = "jobs" /\ JobsEnded
    /\ \/ /\ JobsSucceeded
          /\ comp' = [comp EXCEPT !.groups = [i \in Idx |->
                [comp.groups[i] EXCEPT !.artifact =
                    IF \E p \in DOMAIN pick : pick[p] = i
                    THEN Result(CHOOSE p \in DOMAIN pick : pick[p] = i) ELSE @]]]
          /\ Go(IF kind = "run" THEN "prepareRun" ELSE "built")
       \/ ~JobsSucceeded /\ Go("failed") /\ UNCHANGED comp
    /\ UNCHANGED <<orig, kind, ignore, pick, jobs, cache, content, input>>

\* --write-artifacts: the composition that was built is run later.
RunBuilt ==
    /\ pc = "built"
    /\ kind' = "run" /\ ignore' \in BOOLEAN /\ Go("client")
    /\ jobs' = <<>>
    /\ UNCHANGED <<orig, comp, pick, cache, content, input>>

\* The rest of doRun: prepare, validate, healthcheck, run input.
DoRun ==
    /\ pc = "prepareRun"
    /\ LET c == PrepareForRun(comp) IN
       \/ /\ RunSupported(comp) /\ ValidForRun(c)
          /\ comp' = c
          /\ input' = [i \in DOMAIN c.groups |->
                [id |-> c.groups[i].id, instances |-> InstanceCount(c, i),
                 artifact |-> c.groups[i].artifact, params |-> c.groups[i].params]]
          /\ Go("run")
       \/ /\ Go("failed") /\ UNCHANGED <<comp, input>>
    /\ UNCHANGED <<orig, kind, ignore, pick, jobs, cache, content>>

\* DoBuildPurge for docker:go: a client has the cache image removed, whatever
\* jobs are building from it.  The other builders have nothing to purge.
Purge ==
    /\ cache
    /\ cache' = FALSE
    /\ UNCHANGED <<orig, comp, kind, ignore, pc, pick, jobs, content, input>>

JobStep(j) == \/ JobSetup(j) \/ JobFindCache(j) \/ JobBuild(j)
              \/ JobUntag(j) \/ JobTag(j) \/ JobImage(j)

Engine == ClientRun \/ ClientBuild \/ QueueRun \/ DoBuild \/ BuildWait \/ DoRun

Next == \/ Engine
        \/ RunBuilt
        \/ Purge
        \/ \E j \in DOMAIN jobs : JobStep(j)

Spec == Init /\ [][Next]_vars

-----------------------------------------------------------------------------
\* Where the request is, jobs that cover positions of pick, and artifacts that come
\* from a build or from the composition (BuildInput and RunGroup in pkg/api).
TypeOK ==
    /\ pc \in Over \cup {"client", "queue", "doBuild", "jobs", "prepareRun"}
    /\ kind \in {"build", "run"} /\ ignore \in BOOLEAN /\ cache \in BOOLEAN
    /\ DOMAIN comp.groups = DOMAIN orig.groups
    /\ \A p \in DOMAIN pick : pick[p] \in Idx
    /\ \A j \in DOMAIN jobs :
          /\ jobs[j].at # {} /\ jobs[j].at \subseteq DOMAIN pick
          /\ jobs[j].pc \in {"setup", "cache", "build", "untag", "tag", "image",
                             "done", "failed"}
    /\ \A i \in Idx : comp.groups[i].artifact \in
            DOMAIN content \cup {"", orig.groups[i].artifact, orig.global.artifact}

\* What the user asked of the build of group i: its own settings, then the
\* global ones, then the manifest's for the global builder, then the
\* environment's.
Wanted(i) ==
    LET g == orig.groups[i]
        gl == orig.global
        own == AsMap(g.deps)
        def == IF gl.hasBuild THEN AsMap(gl.deps) ELSE <<>>
        deps == WithDefaults(own, def)
    IN  Content([g EXCEPT
            !.builder = IF @ = "" THEN gl.builder ELSE @,
            !.config = WithDefaults(WithDefaults(@, gl.config),
                IF gl.builder \in DOMAIN Manifest.builders
                THEN Manifest.builders[gl.builder] ELSE <<>>),
            !.selectors = IF @ = <<>> /\ gl.hasBuild THEN gl.selectors ELSE @,
            !.deps = SetToSeq({deps[m] : m \in DOMAIN deps})])

ForgetTargets(c) == [c EXCEPT !.replace = [m \in DOMAIN c.replace |-> c.replace[m].ver]]

\* Every group runs the artifact it asked for: an artifact built for this run,
\* or for the build it was written back from, was made with the builder, the
\* configuration, the tags and the versions that the composition, the manifest
\* and the environment give to that group, whichever groups shared the build
\* and however the jobs interleaved; any other artifact is the group's own.  No
\* group is left without one: what a build gives to the positions of BuildGroups
\* reaches every group that had none.
ArtifactFits ==
    pc = "run" => \A i \in Idx :
        IF input[i].artifact \in DOMAIN content
        THEN ForgetTargets(content[input[i].artifact]) = ForgetTargets(Wanted(i))
        ELSE input[i].artifact = orig.groups[i].artifact /\ input[i].artifact # ""

\* A share of the total, rounded to the nearest integer (a half either way).
Rounds(n, g) == LET off == 100 * n - g.pct * orig.global.total
                IN  -50 <= off /\ off <= 50

\* The runner is told what the user wrote, however often the composition was
\* prepared on the way: as many instances as the total, which is within the limits
\* of the test case, in each group its count or its share; and an instance sees its
\* group's value of a parameter, else the global one, else the test case's.
InputFits ==
    pc = "run" =>
        /\ SumFunction([i \in Idx |-> input[i].instances]) = orig.global.total
        /\ orig.global.total \in Manifest.min..Manifest.max
        /\ \A i \in Idx :
            LET g == orig.groups[i]
                gl == IF orig.global.hasRun THEN orig.global.params ELSE <<>>
            IN  /\ IF g.count # 0 THEN input[i].instances = g.count
                   ELSE Rounds(input[i].instances, g)
                /\ \A k \in DOMAIN g.params \cup DOMAIN gl \cup DOMAIN Manifest.params :
                      input[i].params[k] =
                        IF k \in DOMAIN g.params THEN g.params[k]
                        ELSE IF k \in DOMAIN gl THEN gl[k] ELSE Manifest.params[k]

\* Preparing what has been prepared changes nothing: the client and the engine
\* both prepare, and a composition written back is prepared again.
PrepareOnce ==
    pc = "run" =>
        /\ PrepareForRun(comp) = comp
        /\ LET S == {i \in Idx : input[i].artifact \in DOMAIN content}
               c == PrepareForBuild(comp, S)
           IN  \A i \in S : BuildKey(c.groups[i]) = BuildKey(comp.groups[i])

=============================================================================
