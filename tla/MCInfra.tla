------------------------------ MODULE MCInfra ------------------------------
(***************************************************************************)
(* Infra for TLC: one service, and a request of each kind.                 *)
(***************************************************************************)
EXTENDS Infra

MCServices == <<"redis">>

MCFound == {{}, Containers}

MCRequests ==
    {[op |-> "health", on |-> "local:docker", fix |-> TRUE],
     [op |-> "health", on |-> "local:exec", fix |-> TRUE],
     [op |-> "proxy", on |-> "docker:go", fix |-> TRUE],
     [op |-> "terminate", on |-> "local:docker", fix |-> FALSE]}
=============================================================================
