---------------------------- MODULE MCProbePool ----------------------------
(***************************************************************************)
(* A chain that declares one endpoint twice, and whose state file still    *)
(* has an entry for an endpoint that is gone from the registry.            *)
(***************************************************************************)
EXTENDS ProbePool

MCKey == {"k1", "k2", "gone"}
MCDeclared == <<"k1", "k2", "k1">>
=============================================================================
