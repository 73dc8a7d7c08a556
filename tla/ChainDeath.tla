---------------------------- MODULE ChainDeath ----------------------------
(***************************************************************************)
(* Chain-death detection and the status-flip pull requests it leads to,    *)
(* over many runs (cmd/sentinel/chaindeath.go).  A run judges every chain  *)
(* of its checkout from one set of probe results, moves the chain's death  *)
(* streak, saves it, and proposes to mark as killed the chains that looked *)
(* dead for MinRuns judged runs, at most MaxStatusPRs of them.             *)
(*                                                                         *)
(* A probe result is reduced to what the judgement reads of it:            *)
(*   skip     rate limited (Result.Skipped)                                *)
(*   dead     failed, with a class that blames the endpoint                *)
(*   noroute  failed, with a class that blames the prober (dns_failure,    *)
(*            vantage_no_route)                                            *)
(*   live     passed; of an RPC also: synced, its block fresh or untimed   *)
(*   stale    an RPC passed, synced, its block older than --chain-death-   *)
(*            stale-after                                                  *)
(*   syncing  an RPC passed and is catching up                             *)
(***************************************************************************)
EXTENDS Naturals, Sequences, FiniteSets

CONSTANTS
  Chain,          \* chain names
  Endpoint,       \* (check, address) pairs of all chains
  ChainOf,        \* [Endpoint -> Chain]
  CheckOf,        \* [Endpoint -> Check]
  DomainOf,       \* [Endpoint -> registrable domain], report.EndpointDomain
  Order,          \* the chains sorted by name
  MinRuns,        \* --chain-death-min-runs
  VantageWarnPct, \* report.VantageWarnPct
  Cooldown,       \* --pr-cooldown-days, in ticks of the model's clock
  MaxStatusPRs,   \* --max-status-prs
  Faults,         \* the faults the environment may inject
  MaxGap,         \* bound: the longest time between two runs
  MaxTime         \* bound: the clock stops here, and no run starts after it

Check == {"rpc", "rest", "evm", "grpc", "grpc_web", "wss"}

ASSUME DeathAssumption ==
  /\ ChainOf \in [Endpoint -> Chain]
  /\ CheckOf \in [Endpoint -> Check]
  /\ DOMAIN DomainOf = Endpoint
  /\ Order \in Seq(Chain)
  /\ \A i, j \in 1..Len(Order) : Order[i] = Order[j] => i = j
  /\ MinRuns \in Nat \ {0}
  /\ VantageWarnPct \in Nat
  /\ Cooldown \in Nat
  /\ MaxStatusPRs \in Nat
  /\ Faults \subseteq {"crash", "save", "label"}
  /\ MaxGap \in Nat
  /\ MaxTime \in Nat

VARIABLES
  status,     \* status field of each chain.json in the registry
  prs,        \* open status pull requests on GitHub
  disk,       \* state files: the death fields of state.ChainState
  pc,         \* what the current run is doing, "idle" between runs
  now,        \* time of the current (or the last) run
  mode,       \* "dry" when the current run was started with --dry-run
  loaded,     \* the chains the checkout lists as live
  mem,        \* stateMap
  looksDead,  \* chains that look dead this run
  candidates, \* of those judged, the ones whose streak is mature
  next,       \* index into Order of the candidate maybeOpenStatusPRs looks at
  opened      \* pull requests maybeOpenStatusPRs has counted

(***************************************************************************)
(* History variables: they observe the runs and never guide them.  A dry   *)
(* run is a preview and leaves no history.                                 *)
(*   truth    what really was judged and opened, in the form of disk       *)
(*   serving  of looksDead, the chains with a synced RPC on a fresh block  *)
(*   lost     chains whose state file misses something that happened       *)
(***************************************************************************)
VARIABLES truth, serving, lost

githubVars  == <<status, prs>>
runVars     == <<now, mode, loaded>>
verdictVars == <<looksDead, candidates, serving>>
vars == <<githubVars, disk, pc, runVars, mem, verdictVars, next, opened, truth, lost>>

Answer == {"skip", "dead", "noroute", "live", "stale", "syncing"}
Passed == {"live", "stale", "syncing"}
Failed == {"dead", "noroute"}

\* ChainDeadStreak, ChainDeadFirstTime and LastStatusPROpenedAt; 0 is the zero time.
DeathState == [streak : Nat, first : Nat, last : Nat]
Fresh == [streak |-> 0, first |-> 0, last |-> 0]

PullRequest == [chain : Chain, at : Nat, label : BOOLEAN]

TypeOK ==
  /\ status \in [Chain -> {"live", "killed"}]
  /\ prs \subseteq PullRequest
  /\ disk \in [Chain -> DeathState]
  /\ pc \in {"idle", "detect", "save", "flows", "final", "done"}
  /\ now \in Nat
  /\ mode \in {"normal", "dry"}
  /\ loaded \subseteq Chain
  /\ mem \in [Chain -> DeathState]
  /\ looksDead \subseteq Chain
  /\ candidates \subseteq Chain
  /\ next \in Nat \ {0}
  /\ opened \in Nat
  /\ truth \in [Chain -> DeathState]
  /\ serving \subseteq Chain
  /\ lost \subseteq Chain

Init ==
  /\ status = [c \in Chain |-> "live"]
  /\ prs = {}
  /\ disk = [c \in Chain |-> Fresh]
  /\ pc = "idle"
  /\ now = 0
  /\ mode = "normal"
  /\ loaded = {}
  /\ mem = [c \in Chain |-> Fresh]
  /\ looksDead = {}
  /\ candidates = {}
  /\ next = 1
  /\ opened = 0
  /\ truth = [c \in Chain |-> Fresh]
  /\ serving = {}
  /\ lost = {}

-----------------------------------------------------------------------------
(* The judgement of one run's results.  An operator named Mutant... is a    *)
(* slip the code could contain, in the place of the definition that follows *)
(* it; the mutants of PROJECT.json use them to show that the properties     *)
(* notice.                                                                  *)

\* What the checks can answer: only an RPC reports a block time.
Results(chains) ==
  LET probed == {e \in Endpoint : ChainOf[e] \in chains}
  IN  {res \in [probed -> Answer] :
         \A e \in probed : CheckOf[e] # "rpc" => res[e] \notin {"stale", "syncing"}}

IsCore(e) == CheckOf[e] \in {"rpc", "rest", "evm"}

\* The endpoints of a chain that gave one of the answers.
Which(res, c, answers) == {e \in DOMAIN res : ChainOf[e] = c /\ res[e] \in answers}

Core(res, c, answers) == {e \in Which(res, c, answers) : IsCore(e)}

Domains(endpoints) == {DomainOf[e] : e \in endpoints}

\* vantageSuspect: too many of the failures blame the prober.
VantageSuspect(res) ==
  LET failed  == {e \in DOMAIN res : res[e] \in Failed}
      suspect == {e \in failed : res[e] = "noroute"}
  IN  /\ failed # {}
      /\ 100 * Cardinality(suspect) >= VantageWarnPct * Cardinality(failed)

\* domainLive: a domain counts as live wherever one of its endpoints passed.
LiveDomains(res) == Domains({e \in DOMAIN res : res[e] \in Passed})

DeadDomains(res, c) == Domains(Which(res, c, Failed))

\* minWithdrawnOperators, adapted to the size of the chain, never below 2.
Needed(domains) ==
  LET n == Cardinality(domains)
  IN  IF n >= 3 THEN 3 ELSE 2

\* chainLooksDead, first signature: nothing of the chain's core is live, while
\* enough of its operators are.
Unreachable(res, c) ==
  /\ Core(res, c, Passed) = {}
  /\ Cardinality(DeadDomains(res, c) \cap LiveDomains(res)) >= Needed(DeadDomains(res, c))

MutantAnyStale(res, c) ==
  \E e \in Which(res, c, {"live", "stale"}) : CheckOf[e] = "rpc" /\ res[e] = "stale"

\* Second signature: every RPC that answers and is synced is stuck.
Halted(res, c) ==
  LET answering == {e \in Which(res, c, {"live", "stale"}) : CheckOf[e] = "rpc"}
  IN  answering # {} /\ \A e \in answering : res[e] = "stale"

ChainLooksDead(res, c) == Unreachable(res, c) \/ Halted(res, c)

\* The chains whose streak moves: none on a suspect run, and only those with
\* a core check that was not rate limited.
Judged(res) ==
  IF VantageSuspect(res) THEN {}
  ELSE {c \in Chain : Core(res, c, Passed \cup Failed) # {}}

MutantRestamp(s) == [streak |-> s.streak + 1, first |-> now, last |-> s.last]

Advance(s) ==
  [streak |-> s.streak + 1, first |-> IF s.streak = 0 THEN now ELSE s.first, last |-> s.last]

MutantDecay(s) == [streak |-> s.streak - 1, first |-> 0, last |-> s.last]

Reset(s) == [streak |-> 0, first |-> 0, last |-> s.last]

\* What runChainDeathDetection concludes from the results of a run over some
\* chains, and what the history keeps of them.
Verdict(chains, res) ==
  LET judged == Judged(res)
      dying  == {c \in judged : ChainLooksDead(res, c)}
  IN  [chains  |-> chains,
       judged  |-> judged,
       dying   |-> dying,
       serving |-> {c \in dying : \E e \in Which(res, c, {"live"}) : CheckOf[e] = "rpc"}]

\* Everything the results of a run can lead to.
Verdicts == UNION {{Verdict(chains, res) : res \in Results(chains)} : chains \in SUBSET Chain}

-----------------------------------------------------------------------------
(* One run, step by step.                                                   *)

StartRun ==
  /\ pc = "idle"
  /\ \E t \in (now + 1)..(now + MaxGap) : t <= MaxTime /\ now' = t
  /\ mode' \in {"normal", "dry"}
  /\ pc' = "detect"
  /\ loaded' = {c \in Chain : status[c] = "live"}
  /\ mem' = [c \in Chain |-> IF c \in loaded' THEN disk[c] ELSE Fresh]
  /\ UNCHANGED <<githubVars, disk, verdictVars, next, opened, truth, lost>>

\* collectResults and runChainDeathDetection.
Detect ==
  /\ pc = "detect"
  /\ \E v \in Verdicts :
       /\ v.chains = loaded
       /\ looksDead' = v.dying
       /\ mem' = [c \in Chain |->
                    IF c \notin v.judged THEN mem[c]
                    ELSE IF c \in v.dying THEN Advance(mem[c]) ELSE Reset(mem[c])]
       /\ candidates' = {c \in v.judged : mem'[c].streak >= MinRuns}
       /\ serving' = v.serving
       /\ truth' = [c \in Chain |->
            IF mode = "dry" \/ c \notin v.judged THEN truth[c]
            ELSE [streak |-> IF c \in v.dying THEN truth[c].streak + 1 ELSE 0,
                  first  |-> IF c \notin v.dying THEN 0
                             ELSE IF truth[c].streak = 0 THEN now ELSE truth[c].first,
                  last   |-> truth[c].last]]
  /\ pc' = IF mode = "dry" THEN "flows" ELSE "save"
  /\ UNCHANGED <<githubVars, disk, runVars, next, opened, lost>>

\* saveStateMap: one file per loaded chain; a file that cannot be written is
\* logged and skipped.  A run killed half way is a partial save and a Crash.
SaveStateMap ==
  /\ pc \in {"save", "final"}
  /\ \E ok \in IF "save" \in Faults THEN SUBSET loaded ELSE {loaded} :
       disk' = [c \in Chain |-> IF c \in ok THEN mem[c] ELSE disk[c]]
  /\ pc' = IF pc = "save" THEN "flows" ELSE "done"
  /\ UNCHANGED <<githubVars, runVars, mem, verdictVars, next, opened, truth, lost>>

MutantShortCooldown(c) ==
  Cooldown > 0 /\ mem[c].last # 0 /\ now - mem[c].last < Cooldown - 1

InCooldown(c) ==
  /\ Cooldown > 0
  /\ mem[c].last # 0
  /\ now - mem[c].last < Cooldown

\* The loop of maybeOpenStatusPRs is under its cap and has a chain left.
Looking(c) ==
  /\ pc = "flows"
  /\ candidates # {}
  /\ opened < MaxStatusPRs
  /\ next \in 1..Len(Order)
  /\ c = Order[next]

\* Not a candidate, or its cooldown has not run out.
SkipChain(c) ==
  /\ Looking(c)
  /\ c \notin candidates \/ InCooldown(c)
  /\ next' = next + 1
  /\ UNCHANGED <<githubVars, disk, pc, runVars, mem, verdictVars, opened, truth, lost>>

\* Dry run: the pull request is only printed, but it counts.
PrintPR(c) ==
  /\ Looking(c)
  /\ c \in candidates /\ ~InCooldown(c)
  /\ mode = "dry"
  /\ next' = next + 1
  /\ opened' = opened + 1
  /\ UNCHANGED <<githubVars, disk, pc, runVars, mem, verdictVars, truth, lost>>

Opening(c) ==
  /\ Looking(c)
  /\ c \in candidates /\ ~InCooldown(c)
  /\ mode # "dry"

\* OpenStatusPR finds an open pull request, or fails before CreatePR.
NoPR(c) ==
  /\ Opening(c)
  /\ next' = next + 1
  /\ UNCHANGED <<githubVars, disk, pc, runVars, mem, verdictVars, opened, truth, lost>>

HasOpenPR(c) == \E p \in prs : p.chain = c /\ p.label

CreatePR(c, labelled) ==
  /\ Opening(c)
  /\ ~HasOpenPR(c)
  /\ prs' = prs \cup {[chain |-> c, at |-> now, label |-> labelled]}
  /\ truth' = [truth EXCEPT ![c].last = now]
  /\ next' = next + 1
  /\ UNCHANGED <<status, disk, pc, runVars, verdictVars>>

\* OpenStatusPR succeeds: the loop counts it and stamps the chain.
OpenStatusPR(c) ==
  /\ CreatePR(c, TRUE)
  /\ opened' = opened + 1
  /\ mem' = [mem EXCEPT ![c].last = now]
  /\ UNCHANGED lost

\* AddLabels fails after CreatePR: the pull request is open, the loop sees an
\* error.
OpenUnlabelledPR(c) ==
  /\ "label" \in Faults
  /\ CreatePR(c, FALSE)
  /\ lost' = lost \cup {c}
  /\ UNCHANGED <<opened, mem>>

\* The loop ends and the second save begins.
EndLoop ==
  /\ pc = "flows"
  /\ candidates # {}
  /\ opened >= MaxStatusPRs \/ next > Len(Order)
  /\ pc' = IF mode = "dry" THEN "done" ELSE "final"
  /\ UNCHANGED <<githubVars, disk, runVars, mem, verdictVars, next, opened, truth, lost>>

\* The process is gone and its memory with it.
Exit ==
  /\ pc' = "idle"
  /\ mode' = "normal"
  /\ loaded' = {}
  /\ mem' = [c \in Chain |-> Fresh]
  /\ looksDead' = {}
  /\ candidates' = {}
  /\ serving' = {}
  /\ next' = 1
  /\ opened' = 0
  /\ lost' = IF mode = "dry" THEN lost ELSE lost \cup {c \in loaded : mem[c] # disk[c]}
  /\ UNCHANGED <<githubVars, disk, now, truth>>

Finish ==
  /\ pc = "done" \/ (pc = "flows" /\ candidates = {})
  /\ Exit

Crash ==
  /\ "crash" \in Faults
  /\ pc # "idle"
  /\ Exit

-----------------------------------------------------------------------------
(* The maintainers of the registry.                                         *)

MergePR(p) ==
  /\ p \in prs
  /\ prs' = prs \ {p}
  /\ status' = [status EXCEPT ![p.chain] = "killed"]
  /\ UNCHANGED <<disk, pc, runVars, mem, verdictVars, next, opened, truth, lost>>

ClosePR(p) ==
  /\ p \in prs
  /\ prs' = prs \ {p}
  /\ UNCHANGED <<status, disk, pc, runVars, mem, verdictVars, next, opened, truth, lost>>

Revive(c) ==
  /\ status[c] = "killed"
  /\ status' = [status EXCEPT ![c] = "live"]
  /\ UNCHANGED <<prs, disk, pc, runVars, mem, verdictVars, next, opened, truth, lost>>

-----------------------------------------------------------------------------

Process ==
  \/ StartRun
  \/ Detect
  \/ SaveStateMap
  \/ \E c \in Chain :
       SkipChain(c) \/ PrintPR(c) \/ NoPR(c) \/ OpenStatusPR(c) \/ OpenUnlabelledPR(c)
  \/ EndLoop
  \/ Finish
  \/ Crash

Maintainer ==
  \/ \E p \in prs : MergePR(p) \/ ClosePR(p)
  \/ \E c \in Chain : Revive(c)

Next == Process \/ Maintainer

Spec == Init /\ [][Next]_vars

-----------------------------------------------------------------------------
(* Properties.                                                              *)

NewPRs == prs' \ prs

\* A status pull request is opened only for a chain that this very run, on a
\* healthy vantage, found dead, that served no fresh block to any of its RPC
\* probes, and that, if none of its state was lost, looked dead in MinRuns
\* judged runs in a row.
StatusFlipJustified ==
  [][\A p \in NewPRs :
       /\ p.chain \in looksDead \ serving
       /\ p.chain \notin lost => truth[p.chain].streak >= MinRuns]_vars

\* A pull request for a chain follows the last one by at least the cooldown,
\* unless the chain's state was lost.
StatusCooldownRespected ==
  [][\A p \in NewPRs :
       \/ p.chain \in lost
       \/ truth[p.chain].last = 0
       \/ now >= truth[p.chain].last + Cooldown]_vars

\* Between runs the file of a chain that lost nothing holds exactly the length
\* of its death streak, when the streak began, and its last pull request.
SavedStateExact == pc = "idle" => \A c \in Chain \ lost : disk[c] = truth[c]

\* README: a chain that looks dead, "from the very first run of its streak",
\* is excluded from endpoint-removal and hash-fix pull requests; looksDead is
\* what those flows exclude.
StreakExcluded ==
  pc \in {"flows", "final", "done"} =>
    \A c \in loaded : mem[c].streak > 0 => c \in looksDead

=============================================================================
