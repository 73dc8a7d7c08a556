----------------------------- MODULE MCWorkflow -----------------------------
(***************************************************************************)
(* Two runs that may propose the same edit of one chain.json.              *)
(***************************************************************************)
EXTENDS Workflow, TLC

MCFile   == {"chain.json"}
MCTarget == {"endpoints"}
MCFileOf == [t \in MCTarget |-> "chain.json"]
MCOrder  == <<"endpoints">>
RunSymmetry == Permutations(Run)
=============================================================================
