--------------------------- MODULE MCChainDeath ---------------------------
(***************************************************************************)
(* A small registry for TLC.  Chain "x" has three core endpoints, run by   *)
(* two operators, whose other endpoints are on chain "y"; y declares no    *)
(* core endpoint and is never judged.                                      *)
(***************************************************************************)
EXTENDS ChainDeath

MCChain == {"x", "y"}
MCOrder == <<"x", "y">>

SharedEndpoint == {"x_rpc1", "x_rpc2", "x_rest", "y_grpc", "y_wss"}
SharedChainOf == [e \in SharedEndpoint |-> IF e \in {"y_grpc", "y_wss"} THEN "y" ELSE "x"]
SharedCheckOf == [e \in SharedEndpoint |->
  CASE e \in {"x_rpc1", "x_rpc2"} -> "rpc"
    [] e = "x_rest" -> "rest"
    [] e = "y_grpc" -> "grpc"
    [] e = "y_wss" -> "wss"]
SharedDomainOf == [e \in SharedEndpoint |->
  IF e \in {"x_rpc1", "x_rest", "y_grpc"} THEN "one" ELSE "two"]
=============================================================================
