---------------------------- MODULE MCHashFlow ----------------------------
(***************************************************************************)
(* Three chains under a cap of one and a cooldown of three daily runs: the *)
(* smallest numbers with which the runs within a cooldown have a place for *)
(* every chain, and none to spare.                                         *)
(*                                                                         *)
(* An asset list is right or wrong.  The wrong one has the base of its     *)
(* second asset, which is right, copied into its first, whose traces hold  *)
(* two paths and end in one without; its units repeat the base.            *)
(***************************************************************************)
EXTENDS HashFlow

MCDenom == {"ibc/P", "ibc/Q", "native"}
MCIBC == {"ibc/P", "ibc/Q"}
MCPath == {"p", "q"}
MCHash == [p |-> "ibc/P", q |-> "ibc/Q"]

MCOrder == <<"a", "b", "c">>

AssetP(base) == [base |-> base, traces |-> <<"q", "p", None>>, units |-> <<base, "native">>]
AssetQ == [base |-> "ibc/Q", traces |-> <<"q">>, units |-> <<"ibc/Q">>]

MCDrafts == {<<AssetP("ibc/P"), AssetQ>>, <<AssetP("ibc/Q"), AssetQ>>}
=============================================================================
