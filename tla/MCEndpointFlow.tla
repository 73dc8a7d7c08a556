-------------------------- MODULE MCEndpointFlow --------------------------
(***************************************************************************)
(* Two small registries for TLC.  The first has one chain that declares    *)
(* one address under two checks, as gateways do; the second has two chains *)
(* with an endpoint each, so that a cap of one makes them compete.         *)
(***************************************************************************)
EXTENDS EndpointFlow, TLC

CONSTANTS rpc, rest   \* model values: the two keys of either registry

GatewayChain == {"a"}
GatewayKey == {rpc, rest}
GatewayChainOf == [k \in GatewayKey |-> "a"]
GatewayAddressOf == [k \in GatewayKey |-> "one"]
GatewayOrder == <<"a">>

\* Nothing tells the two keys of the gateway apart.
GatewaySymmetry == Permutations(GatewayKey)

PairChain == {"a", "b"}
PairKey == {rpc, rest}
PairChainOf == [k \in PairKey |-> IF k = rpc THEN "a" ELSE "b"]
PairAddressOf == [k \in PairKey |-> k]
PairOrder == <<"a", "b">>

\* A run reads the registry when it starts and GitHub while it opens pull
\* requests; what the maintainers do in between commutes with its steps, so
\* that TLC may wait for one of these moments.
MaintainersWhenSeen == registry' # registry \/ prs' # prs => pc \in {"idle", "open"}

\* EndpointFlow's Removed is what EditChainJSON comes to, on apis objects that
\* list two addresses in several categories, with duplicates, and next to them a
\* list the sentinel does not probe.
Edit == INSTANCE ChainEdit

AddressLists == UNION {[1..n -> {"x", "y"}] : n \in 0..3}

SampleApis ==
  {("rpc" :> rpcs @@ "rest" :> rests @@ "grpc-web" :> <<"x", "y">> @@ "grpc" :> <<"y">>
    @@ "evm-http-jsonrpc" :> evms @@ "wss" :> <<>> @@ "graphql" :> <<"x">>) :
     rpcs \in AddressLists, rests \in {<<>>, <<"x", "y", "x">>}, evms \in {<<>>, <<"x">>}}

ASSUME EditIsExact == Edit!RemovalExact(SampleApis)
=============================================================================
