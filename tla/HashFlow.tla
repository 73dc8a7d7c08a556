----------------------------- MODULE HashFlow -----------------------------
(***************************************************************************)
(* The hash-fix flow of the sentinel over unboundedly many runs            *)
(* (cmd/sentinel/hashpr.go): check the asset list of every chain of the    *)
(* checkout, and open one pull request per chain with mismatches, in the   *)
(* fixed order of the chains, under the run's cap and each chain's         *)
(* cooldown.  The question is progress: can a chain whose list stays wrong *)
(* be passed over for ever, because chains before it use up every run's    *)
(* cap?  The endpoint flow and the status flow have the same loop.         *)
(*                                                                         *)
(* Time is only what the cooldown reads of it: the age of each chain's     *)
(* last hash-fix pull request.  Runs here have a token and are not         *)
(* previews, and each ends; module Sentinel has the other kinds, the       *)
(* killed runs and the failing writes.                                     *)
(***************************************************************************)
EXTENDS HashRepair

CONSTANTS
  Chain,       \* chain names
  Order,       \* the chains, in the order registry.LoadChains returns them
  MaxHashPRs,  \* --max-hash-prs
  Cooldown,    \* --pr-cooldown-days, in ticks
  Drafts,      \* the asset lists contributors write
  MaxGap,      \* the schedule: at most this many ticks between two runs
  Dying        \* the chains that runs may find dead and then leave alone

ASSUME HashFlowAssumption ==
  /\ IsFiniteSet(Chain)
  /\ Order \in Seq(Chain)
  /\ \A c \in Chain : \E i \in DOMAIN Order : Order[i] = c
  /\ \A i, j \in DOMAIN Order : Order[i] = Order[j] => i = j
  /\ MaxHashPRs \in Nat
  /\ Cooldown \in Nat \ {0}
  /\ MaxGap \in Nat \ {0}
  /\ Dying \subseteq Chain
  /\ \A file \in Drafts : file \in Seq(Asset)

VARIABLES
  files,      \* the asset list of each chain on the base branch
  prs,        \* open hash-fix pull requests
  age,        \* state: ticks since LastHashPROpenedAt, Cooldown when as many
              \* or more, or when there was none
  pc,         \* "idle" between runs, "loop" in maybeOpenHashPRs
  checkout,   \* the asset lists of the run's clone of the registry
  exclude,    \* the chains that look dead this run
  next,       \* index into Order of the chain the loop looks at
  opened      \* pull requests the loop has counted

vars == <<files, prs, age, pc, checkout, exclude, next, opened>>

File == Seq(Asset)

\* content: the asset list the branch commits.
PullRequest == [chain : Chain, content : File]

TypeOK ==
  /\ files \in [Chain -> File]
  /\ prs \subseteq PullRequest
  /\ age \in [Chain -> 0..Cooldown]
  /\ pc \in {"idle", "loop"}
  /\ checkout \in [Chain -> File]
  /\ exclude \subseteq Dying
  /\ next \in 1..Len(Order) + 1
  /\ opened \in 0..MaxHashPRs

Init ==
  /\ files \in [Chain -> Drafts]
  /\ prs = {}
  /\ age = [c \in Chain |-> Cooldown]
  /\ pc = "idle"
  /\ checkout = files
  /\ exclude = {}
  /\ next = 1
  /\ opened = 0

-----------------------------------------------------------------------------
(* The run.  An operator named Mutant... is a slip the code could contain,  *)
(* in the place of the definition that follows it.                          *)

\* main up to maybeOpenHashPRs: clone the registry, load the state, probe.
StartRun ==
  /\ pc = "idle"
  /\ pc' = "loop"
  /\ \E gap \in 1..MaxGap :
       age' = [c \in Chain |-> IF age[c] + gap >= Cooldown THEN Cooldown ELSE age[c] + gap]
  /\ checkout' = files
  /\ exclude' \in SUBSET Dying
  /\ next' = 1
  /\ opened' = 0
  /\ UNCHANGED <<files, prs>>

Looking(c) ==
  /\ pc = "loop"
  /\ next \in DOMAIN Order
  /\ c = Order[next]

\* The chain is not excluded and its list has mismatches.
ToFix(c) == c \notin exclude /\ Mismatches(checkout[c]) # {}

InCooldown(c) == age[c] < Cooldown

\* Client.HasOpenPR for the chain's title.
HasOpenPR(c) == \E p \in prs : p.chain = c

Skip(c) ==
  /\ Looking(c)
  /\ ~ToFix(c)
  /\ next' = next + 1
  /\ UNCHANGED <<files, prs, age, pc, checkout, exclude, opened>>

MutantCapOffByOne(c) == Looking(c) /\ ToFix(c) /\ opened <= MaxHashPRs

\* The loop gets to tryOpenHashPR.
Trying(c) == Looking(c) /\ ToFix(c) /\ opened < MaxHashPRs

\* tryOpenHashPR returns false: the cooldown runs, a pull request is open, or a
\* call of OpenHashPR fails.  The chain loses its turn and uses none of the cap.
NoPR(c) ==
  /\ Trying(c)
  /\ next' = next + 1
  /\ UNCHANGED <<files, prs, age, pc, checkout, exclude, opened>>

\* OpenHashPR gets its pull request.  The edit is made to the clone's file,
\* which may have changed on the base branch since.
CreatePR(c) ==
  /\ Trying(c)
  /\ ~InCooldown(c)
  /\ ~HasOpenPR(c)
  /\ LET content == EditAssetListJSON(checkout[c], Mismatches(checkout[c]))
     IN  /\ content # None
         /\ prs' = prs \cup {[chain |-> c, content |-> content]}

MutantNoStamp(c) ==
  /\ CreatePR(c)
  /\ opened' = opened + 1
  /\ next' = next + 1
  /\ UNCHANGED <<files, age, pc, checkout, exclude>>

\* The chain is stamped and counted.
OpenPR(c) ==
  /\ CreatePR(c)
  /\ age' = [age EXCEPT ![c] = 0]
  /\ opened' = opened + 1
  /\ next' = next + 1
  /\ UNCHANGED <<files, pc, checkout, exclude>>

\* The loop is over, or it breaks off at a chain to fix because of the cap; the
\* state is saved.
EndRun ==
  /\ pc = "loop"
  /\ \/ next > Len(Order)
     \/ \E c \in Chain : Looking(c) /\ ToFix(c) /\ opened >= MaxHashPRs
  /\ pc' = "idle"
  /\ checkout' = files
  /\ exclude' = {}
  /\ next' = 1
  /\ opened' = 0
  /\ UNCHANGED <<files, prs, age>>

-----------------------------------------------------------------------------
(* The maintainers.                                                         *)

\* A merge leaves the asset list as the pull request proposes it; if the list
\* has changed since, a conflict is settled so, or the pull request is closed.
MergePR(p) ==
  /\ p \in prs
  /\ prs' = prs \ {p}
  /\ files' = [files EXCEPT ![p.chain] = p.content]
  /\ UNCHANGED <<age, pc, checkout, exclude, next, opened>>

ClosePR(p) ==
  /\ p \in prs
  /\ prs' = prs \ {p}
  /\ UNCHANGED <<files, age, pc, checkout, exclude, next, opened>>

\* A contributor rewrites a chain's asset list, rightly or wrongly.
Rewrite(c, file) ==
  /\ file # files[c]
  /\ files' = [files EXCEPT ![c] = file]
  /\ UNCHANGED <<prs, age, pc, checkout, exclude, next, opened>>

-----------------------------------------------------------------------------

Process ==
  \/ StartRun
  \/ \E c \in Chain : Skip(c) \/ NoPR(c) \/ OpenPR(c)
  \/ EndRun

Maintainer ==
  \/ \E p \in prs : MergePR(p) \/ ClosePR(p)
  \/ \E c \in Chain, file \in Drafts : Rewrite(c, file)

Next == Process \/ Maintainer

\* The schedule starts runs and a run goes on to its end; a chain whose turn
\* comes again and again is not refused by GitHub every time.  Nothing makes
\* the maintainers act.
Fairness ==
  /\ WF_vars(Process)
  /\ \A c \in Chain : SF_vars(OpenPR(c))

Spec == Init /\ [][Next]_vars /\ Fairness

-----------------------------------------------------------------------------
(* Properties.                                                              *)

\* The runs within one cooldown have a place for every chain.
EnoughPlaces == MaxHashPRs * (((Cooldown - 1) \div MaxGap) + 1) >= Cardinality(Chain)

ToServe(c) == Mismatches(files[c]) # {} /\ c \notin exclude

\* No chain is starved: one whose list stays wrong, and which does not look
\* dead, has an open pull request again and again, whatever the chains before it
\* do and the maintainers merge, close or rewrite - provided that the runs within
\* one cooldown can open a pull request for every chain.
Served ==
  EnoughPlaces =>
    \A c \in Chain : <>[]ToServe(c) => []<>(\E p \in prs : p.chain = c)

\* A hash-fix pull request repairs the list it was made from and touches nothing
\* else, also when the wrong base of one asset is the right base of another ("a
\* wrong hash can collide with another asset's correct base",
\* internal/github/pr.go:301).
FixIsRight == [][\A p \in prs' \ prs : Repairs(checkout[p.chain], p.content)]_vars
=============================================================================
