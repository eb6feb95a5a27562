---------------------------- MODULE MCDockerRun ----------------------------
(***************************************************************************)
(* DockerRun for TLC: the configurations a composition can ask for.        *)
(***************************************************************************)
EXTENDS DockerRun

\* In the foreground; unstarted; in the background and kept afterwards.
Configs ==
    {[keep |-> FALSE, unstarted |-> FALSE, background |-> FALSE],
     [keep |-> FALSE, unstarted |-> TRUE, background |-> FALSE],
     [keep |-> TRUE, unstarted |-> FALSE, background |-> TRUE]}

OneContainer == {<<1, 1>>}
=============================================================================
