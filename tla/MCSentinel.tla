---------------------------- MODULE MCSentinel ----------------------------
(***************************************************************************)
(* SNfaults: two chains, and runs over both or over the first alone.  One  *)
(* failure flags an endpoint and two runs mature a death streak, so that   *)
(* the first chain has open fixes by the time it is proposed as killed.    *)
(***************************************************************************)
EXTENDS Sentinel

MCOrder == <<"a", "b">>
MCFilters == {{"a", "b"}, {"a"}}
MCCap == [status |-> 1, endpoint |-> 1, hash |-> 1]

MCListed ==
  [c \in {"a", "b"} |-> [live |-> TRUE, declared |-> c = "a", wrong |-> TRUE]]

\* The maintainers act between the runs, and close pull requests while a run posts
\* its notices; at other times a run looks at a pull request once, and at the
\* registry when it starts.
MaintainersWhenSeen ==
  /\ registry' # registry => pc = "idle"
  /\ prs' # prs /\ prs' \subseteq prs => pc \in {"idle", "noticeEndpoint", "noticeHash"}

\* TLC follows a run that lost something to its end and no further; runs on top
\* of lost state are for EndpointFlow and ChainDeath.
NothingLostSoFar == lost = {} \/ pc # "idle"
=============================================================================
