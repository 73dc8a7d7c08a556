----------------------------- MODULE ChainEdit -----------------------------
(***************************************************************************)
(* The removal of dead endpoints from the lists of chain.json              *)
(* (EditChainJSON of internal/github/pr.go).  Module EndpointFlow takes it *)
(* for a set difference on the chain's keys.  The code instead relates a   *)
(* key's check to a list by four tables in three packages, and deletes     *)
(* index by index from a list that shrinks; RemovalExact says that both    *)
(* come to the same.                                                       *)
(***************************************************************************)
EXTENDS Naturals, Sequences, SequencesExt

EndpointType == {"rpc", "rest", "grpcweb", "grpc", "evm", "wss"}

\* The list of chain.json an endpoint type is read from (the tags of chainJSON
\* and the fields LoadChains and buildJobs copy them through).
ListOf ==
  [rpc |-> "rpc", rest |-> "rest", grpcweb |-> "grpc-web", grpc |-> "grpc",
   evm |-> "evm-http-jsonrpc", wss |-> "wss"]

\* livenessCheckName.
LivenessCheckName ==
  [rpc |-> "rpc_liveness", rest |-> "rest_liveness", grpcweb |-> "grpc_web_liveness",
   grpc |-> "grpc_liveness", evm |-> "evm_liveness", wss |-> "wss_liveness"]

\* The endpoint types buildJobs probes on a chain of the given chain_type.
Probed(chainType) ==
  CASE chainType = "cosmos" -> EndpointType
    [] chainType = "eip155" -> {"evm"}
    [] OTHER -> {}

\* The state keys of buildJobs' jobs: (check, address), duplicates once.
JobKeys(chainType, apis) ==
  UNION {{<<LivenessCheckName[t], a>> : a \in ToSet(apis[ListOf[t]])} : t \in Probed(chainType)}

\* checkCategory: the list a check's endpoints are deleted from.
CheckCategory ==
  [rpc_liveness |-> "rpc", rest_liveness |-> "rest", grpc_liveness |-> "grpc",
   grpc_web_liveness |-> "grpc-web", evm_liveness |-> "evm-http-jsonrpc", wss_liveness |-> "wss"]

\* The indices of a list that EditChainJSON collects: it skips a check it does
\* not know.
ToDelete(cat, list, dead) ==
  {i \in DOMAIN list :
     \E k \in dead :
       k[1] \in DOMAIN CheckCategory /\ CheckCategory[k[1]] = cat /\ k[2] = list[i]}

\* One DeleteBytes per index, the highest index first.
DeleteIndices(list, set) ==
  LET left[i \in 1..(Len(list) + 1)] ==   \* what is left after the indices from i on
        IF i > Len(list) THEN list
        ELSE IF i \in set THEN RemoveAt(left[i + 1], i) ELSE left[i + 1]
  IN  left[1]

\* EditChainJSON; without anything to delete there is no edit.
EditChainJSON(apis, dead) ==
  [edited |-> \E cat \in DOMAIN apis : ToDelete(cat, apis[cat], dead) # {},
   apis   |-> [cat \in DOMAIN apis |->
                 DeleteIndices(apis[cat], ToDelete(cat, apis[cat], dead))]]

-----------------------------------------------------------------------------

\* new is old without the entries of some indices; the others keep their order.
Without(new, old, gone) ==
  \E at \in [DOMAIN new -> DOMAIN old \ gone] :
    /\ \A m, n \in DOMAIN new : m < n => at[m] < at[n]
    /\ \A i \in DOMAIN old \ gone : \E n \in DOMAIN new : at[n] = i
    /\ \A n \in DOMAIN new : new[n] = old[at[n]]

\* For each of the given apis objects and any set of its jobs' keys, the edit
\* deletes from each list exactly the entries whose probes were flagged,
\* duplicates included, and keeps the others in order, so that the jobs of the
\* edited chain are those that were not flagged (EditChainJSON, buildJobs).
RemovalExact(samples) ==
  \A apis \in samples, chainType \in {"cosmos", "eip155", "other"} :
    \A dead \in SUBSET JobKeys(chainType, apis) :
      LET new == EditChainJSON(apis, dead)
      IN  /\ new.edited <=> dead # {}
          /\ JobKeys(chainType, new.apis) = JobKeys(chainType, apis) \ dead
          /\ \A t \in EndpointType :
               LET list == apis[ListOf[t]]
               IN  Without(new.apis[ListOf[t]], list,
                           {i \in DOMAIN list : <<LivenessCheckName[t], list[i]>> \in dead})
          /\ \A cat \in DOMAIN apis \ {ListOf[t] : t \in EndpointType} :
               new.apis[cat] = apis[cat]
=============================================================================
