----------------------------- MODULE MCSidecar -----------------------------
(***************************************************************************)
(* Sidecar for TLC.                                                        *)
(***************************************************************************)
EXTENDS Sidecar

\* Change everything; disable.
MCConfigs ==
    {[enable |-> TRUE, ip |-> "ip1", shape |-> "slow", policy |-> "allow",
      filter |-> "drop"],
     [enable |-> FALSE, ip |-> AnyIP, shape |-> "none", policy |-> "deny",
      filter |-> "accept"]}
=============================================================================
