----------------------------- MODULE MCPrepare -----------------------------
(***************************************************************************)
(* Prepare for TLC: a manifest, an environment and the compositions.       *)
(***************************************************************************)
EXTENDS Prepare

Dep(m, t, v) == [mod |-> m, target |-> t, ver |-> v]

MCManifest ==
    [builders |-> ("docker:go" :> ("cache" :> "on")) @@ ("docker:node" :> <<>>)
                  @@ ("docker:generic" :> <<>>) @@ ("exec:go" :> <<>>),
     runners |-> ("local:docker" :> <<>>) @@ ("local:exec" :> <<>>),
     min |-> 1, max |-> 25, params |-> ("p" :> "case") @@ ("q" :> "case")]

MCEnvBuilders ==
    ("docker:go" :> ("base" :> "env")) @@ ("docker:node" :> ("base" :> "env"))
    @@ ("docker:generic" :> <<>>) @@ ("exec:go" :> <<>>)

Group(b, cfg, deps, sel, art, par, n, pct) ==
    [id |-> "?", builder |-> b, config |-> cfg, deps |-> deps, selectors |-> sel,
     artifact |-> art, params |-> par, count |-> n, pct |-> pct]

Global(b, r, total, hb, hr) ==
    [builder |-> b, config |-> IF hb THEN "base" :> "global" ELSE <<>>,
     hasBuild |-> hb, deps |-> <<Dep("m", "fork", "v1"), Dep("n", "", "v1")>>,
     selectors |-> <<"s">>, hasRun |-> hr, artifact |-> IF hr THEN "common" ELSE "",
     params |-> "p" :> "global", runner |-> r, total |-> total]

Comp(g, groups) ==
    [global |-> g,
     groups |-> [i \in DOMAIN groups |-> [groups[i] EXCEPT !.id = <<"a", "b", "c">>[i]]]]

\* Groups that differ in one build setting at a time.
BuildGroups ==
    {Group(b, cfg, d, s, "", <<>>, 1, 0) :
        b \in {"", "docker:node"}, cfg \in {<<>>, "base" :> "own"},
        d \in {<<>>, <<Dep("m", "", "v2")>>}, s \in {<<>>, <<"t", "s">>}}
    \cup {Group("", <<>>, <<>>, <<"s", "t">>, "", <<>>, 1, 0),
          Group("", <<>>, <<Dep("m", "x", "v2")>>, <<>>, "", <<>>, 1, 0),
          Group("exec:go", <<>>, <<Dep("m", "x", "v2")>>, <<>>, "", <<>>, 1, 0),
          Group("docker:generic", <<>>, <<>>, <<"t">>, "", <<>>, 1, 0),
          Group("python", <<>>, <<>>, <<>>, "", <<>>, 1, 0)}

\* Groups that differ in what a run looks at.
RunGroups ==
    {Group("", <<>>, <<>>, <<>>, a, par, n[1], n[2]) :
        a \in {"", "pre"}, par \in {<<>>, ("p" :> "own") @@ ("r" :> "own")},
        n \in {<<1, 0>>, <<0, 50>>, <<2, 0>>, <<0, 17>>, <<0, 0>>}}

\* Halves that float64 arithmetic rounds down.
MCHalvesDown == {<<58, 25>>, <<29, 50>>, <<57, 50>>}

\* Groups that are shares only: 58% and 42% of 25 are 14 and 11, two halves.
Shares == {Group("", <<>>, <<>>, <<>>, "pre", <<>>, 0, pct) : pct \in {42, 50, 58}}

\* Three groups with three different build keys.
ThreeKeys == <<Group("", <<>>, <<>>, <<>>, "", <<>>, 1, 0),
               Group("", <<>>, <<>>, <<"s", "t">>, "", <<>>, 1, 0),
               Group("", <<>>, <<Dep("m", "", "v2")>>, <<>>, "", <<>>, 1, 0)>>

MCCompositions ==
    {Comp(Global("docker:go", "local:docker", 2, TRUE, FALSE), <<x, y>>) :
        x \in BuildGroups,
        y \in {g \in BuildGroups : g.builder # "docker:node" \/ g.deps # <<>>}}
    \cup {Comp(Global("docker:go", "local:docker", 2, FALSE, FALSE), <<x, ThreeKeys[1]>>) :
        x \in BuildGroups}
    \cup {Comp(Global("docker:go", "local:docker", 3, TRUE, TRUE), ThreeKeys)}
    \cup {Comp(Global("docker:go", "local:docker", t, FALSE, hr), <<x, y>>) :
        t \in {2, 3, 26}, hr \in BOOLEAN, x \in RunGroups,
        y \in {g \in RunGroups : g.artifact = ""}}
    \cup {Comp(Global("docker:go", "local:docker", 25, FALSE, FALSE), <<x, y>>) :
        x \in Shares, y \in Shares}
    \cup {Comp(Global("docker:go", "cluster:k8s", 2, FALSE, TRUE), <<x, x>>) :
        x \in RunGroups}
    \cup {Comp(Global(b, "local:exec", 1, TRUE, FALSE), <<x>>) :
        b \in {"exec:go", ""}, x \in BuildGroups}
    \cup {[Comp(Global("docker:go", "local:docker", 2, TRUE, FALSE), <<x, x>>)
             EXCEPT !.groups[2].id = "a"] : x \in BuildGroups}
=============================================================================
