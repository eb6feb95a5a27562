------------------------------ MODULE MCClient ------------------------------
(***************************************************************************)
(* Client for TLC: the commands a user may give.                           *)
(***************************************************************************)
EXTENDS Client

\* A run that builds nothing, one that does and waits, one that collects, and a
\* build.
MCOptions ==
    {[type |-> "run", wait |-> FALSE, collect |-> FALSE, parts |-> 1],
     [type |-> "run", wait |-> TRUE, collect |-> FALSE, parts |-> 3],
     [type |-> "run", wait |-> TRUE, collect |-> TRUE, parts |-> 2],
     [type |-> "build", wait |-> TRUE, collect |-> FALSE, parts |-> 2]}
=============================================================================
