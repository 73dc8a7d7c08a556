--------------------------- MODULE EndpointFlow ---------------------------
(***************************************************************************)
(* The endpoint-removal flow of the sentinel, over many runs of the        *)
(* workflow: load the state files, probe every declared endpoint, update   *)
(* and prune the failure streaks, save them, re-probe what is flagged,     *)
(* open at most one removal pull request per chain within the run's cap,   *)
(* and save again (cmd/sentinel/main.go, cmd/sentinel/prflow.go,           *)
(* internal/state/state.go).                                               *)
(*                                                                         *)
(* One sentinel process runs at a time.  Around it, maintainers merge or   *)
(* close its pull requests and edit the registry at any moment, a run may  *)
(* be killed between any two steps, saving a chain's file may fail, and    *)
(* GitHub may create a pull request and then refuse to label it.           *)
(***************************************************************************)
EXTENDS Naturals, Sequences, FiniteSets

CONSTANTS
  Chain,          \* chain names
  Key,            \* liveness keys, state.EndpointKey: a (check, address) pair
  ChainOf,        \* [Key -> Chain], the chain that declares the endpoint
  AddressOf,      \* [Key -> address]: several keys of a chain may share one
  Order,          \* the chains, in the order registry.LoadChains returns them
  MinFailures,    \* --min-failures
  Cooldown,       \* --pr-cooldown-days, in ticks of the model's clock
  MaxEndpointPRs, \* --max-endpoint-prs
  Edits,          \* the edits maintainers make to the registry by hand
  Faults,         \* the faults the environment may inject, from FaultKind
  MaxTime         \* bound: the clock stops here, and no run starts after it

FaultKind == {"crash", "save", "label"}

ASSUME FlowAssumption ==
  /\ ChainOf \in [Key -> Chain]
  /\ Order \in Seq(Chain)
  /\ \A i, j \in 1..Len(Order) : Order[i] = Order[j] => i = j
  /\ MinFailures \in Nat \ {0}
  /\ Cooldown \in Nat
  /\ MaxEndpointPRs \in Nat
  /\ Edits \subseteq {"declare", "undeclare"}
  /\ Faults \subseteq FaultKind
  /\ MaxTime \in Nat

ASSUME FiniteAssumption == IsFiniteSet(Chain)

VARIABLES
  registry,   \* the keys declared in the registry
  prs,        \* open removal pull requests on GitHub
  dStreak,    \* state files: ConsecutiveFailures per key
  dLastPR,    \* state files: LastPROpenedAt per chain, 0 for the zero time
  pc,         \* what the current run is doing, "idle" between runs
  now,        \* time of the current (or the last) run
  mode,       \* "dry" when the current run was started with --dry-run
  jobs,       \* the keys the run's checkout declares
  streak,     \* stateMap: ConsecutiveFailures per key
  lastPR,     \* stateMap: LastPROpenedAt per chain
  unsaved,    \* chains saveStateMap has still to write
  exclude,    \* the chains that look dead this run
  dead,       \* flagged keys that did not pass the preflight
  next,       \* index into Order of the chain openPRs looks at
  opened      \* pull requests openPRs has counted

(***************************************************************************)
(* History variables: they observe the runs and never guide them.  A dry   *)
(* run is a preview and leaves no history.                                 *)
(*   fails       main-probe failures of a key since its last pass, or      *)
(*               since a run last found it undeclared                      *)
(*   lastOpened  when a pull request for the chain really was opened       *)
(*   answered    the answers of a key in this run, main probe and preflight *)
(*   lost        chains whose state file misses something that happened    *)
(***************************************************************************)
VARIABLES fails, lastOpened, answered, lost

githubVars  == <<registry, prs>>
diskVars    == <<dStreak, dLastPR>>
memVars     == <<mode, jobs, streak, lastPR, exclude, dead>>
historyVars == <<fails, lastOpened, answered, lost>>
vars == <<githubVars, diskVars, pc, now, memVars, unsaved, next, opened, historyVars>>

Answer == {"pass", "fail", "skip"}   \* "skip": rate limited, Result.Skipped

\* edit: the entries EditChainJSON deleted, which the body lists; removes and
\* restores: what the diff against the base branch takes out and puts in.
PullRequest == [chain : Chain, edit : SUBSET Key, removes : SUBSET Key,
                restores : SUBSET Key, at : Nat, label : BOOLEAN]

KeysOf(c) == {k \in Key : ChainOf[k] = c}

Zero == [k \in Key |-> 0]

Unasked == [k \in Key |-> {}]

TypeOK ==
  /\ registry \subseteq Key
  /\ prs \subseteq PullRequest
  /\ dStreak \in [Key -> Nat]
  /\ dLastPR \in [Chain -> Nat]
  /\ pc \in {"idle", "probe", "save", "open", "final"}
  /\ now \in Nat
  /\ mode \in {"normal", "dry"}
  /\ jobs \subseteq Key
  /\ streak \in [Key -> Nat]
  /\ lastPR \in [Chain -> Nat]
  /\ unsaved \subseteq Chain
  /\ exclude \subseteq Chain
  /\ dead \subseteq Key
  /\ next \in Nat \ {0}
  /\ opened \in Nat
  /\ fails \in [Key -> Nat]
  /\ lastOpened \in [Chain -> Nat]
  /\ answered \in [Key -> SUBSET Answer]
  /\ lost \subseteq Chain

Init ==
  /\ registry \in SUBSET Key
  /\ prs = {}
  /\ dStreak = Zero
  /\ dLastPR = [c \in Chain |-> 0]
  /\ pc = "idle"
  /\ now = 0
  /\ mode = "normal"
  /\ jobs = {}
  /\ streak = Zero
  /\ lastPR = [c \in Chain |-> 0]
  /\ unsaved = {}
  /\ exclude = {}
  /\ dead = {}
  /\ next = 1
  /\ opened = 0
  /\ fails = Zero
  /\ lastOpened = [c \in Chain |-> 0]
  /\ answered = Unasked
  /\ lost = {}

-----------------------------------------------------------------------------
(* Update, Prune and the other functions of the code a step is made of.  An *)
(* operator named Mutant... is a slip the code could contain, in the place  *)
(* of the definition that follows it; the mutants of PROJECT.json use them  *)
(* to show that the properties notice.                                      *)

MutantDecay(n, answer) ==
  CASE answer = "pass" -> n - 1 [] answer = "fail" -> n + 1 [] answer = "skip" -> n

MutantSkipFails(n, answer) == IF answer = "pass" THEN 0 ELSE n + 1

\* ChainState.Update: a pass ends the streak, a failure extends it; updateState
\* never hands it a skipped result.
Update(n, answer) ==
  CASE answer = "pass" -> 0
    [] answer = "fail" -> n + 1
    [] answer = "skip" -> n

MutantNoPrune(s, active, ans) ==
  [k \in Key |-> IF k \in active THEN Update(s[k], ans[k]) ELSE s[k]]

\* updateState: Update for every result, then Prune of the keys no job has.
\* A pruned entry and one with a zero streak are the same to the flow.
UpdateAndPrune(s, active, ans) ==
  [k \in Key |-> IF k \in active THEN Update(s[k], ans[k]) ELSE 0]

\* collectFlagged, after maybeOpenPRs has deleted the excluded chains.
Flagged == {k \in Key : streak[k] >= MinFailures /\ ChainOf[k] \notin exclude}

MutantPassedByAddress(ans) ==
  {k \in DOMAIN ans : \E j \in DOMAIN ans : ans[j] = "pass" /\ AddressOf[j] = AddressOf[k]}

\* preflight: the pairs that passed, keyed by (check, address).
Passed(ans) == {k \in DOMAIN ans : ans[k] = "pass"}

\* applyPreflightResults.
ApplyPreflight(s, passed) == [k \in Key |-> IF k \in passed THEN 0 ELSE s[k]]

MutantShortCooldown(c) ==
  Cooldown > 0 /\ lastPR[c] # 0 /\ now - lastPR[c] < Cooldown - 1

\* tryOpenChainPR.
InCooldown(c) ==
  /\ Cooldown > 0
  /\ lastPR[c] # 0
  /\ now - lastPR[c] < Cooldown

MutantOpenThisRun(c) == \E p \in prs : p.chain = c /\ p.label /\ p.at = now

\* Client.HasOpenPR searches for open pull requests that carry the label.
HasOpenPR(c) == \E p \in prs : p.chain = c /\ p.label

\* EditChainJSON: the entries of the checkout it deletes, pair by pair.
Removed(c, D) == {k \in jobs \cap KeysOf(c) : k \in D}

\* OpenChainPR commits the edited file of the checkout on top of the base
\* branch as it is by then.
PR(c, labelled) ==
  LET edit == Removed(c, dead)
      file == (jobs \cap KeysOf(c)) \ edit
      base == registry \cap KeysOf(c)
  IN  [chain |-> c, edit |-> edit, removes |-> base \ file, restores |-> file \ base,
       at |-> now, label |-> labelled]

\* What the chain's state file does not say of the run so far.
Unwritten(c) ==
  \/ lastPR[c] # dLastPR[c]
  \/ \E k \in KeysOf(c) : streak[k] # dStreak[k]

-----------------------------------------------------------------------------
(* One run, step by step.                                                   *)

\* main up to runWorkers: check out the registry, loadStateMap.
StartRun ==
  /\ pc = "idle"
  /\ \E t \in (now + 1)..MaxTime : now' = t
  /\ mode' \in {"normal", "dry"}
  /\ pc' = "probe"
  /\ jobs' = registry
  /\ streak' = dStreak
  /\ lastPR' = dLastPR
  /\ UNCHANGED <<githubVars, diskVars, unsaved, exclude, dead, next, opened, historyVars>>

\* collectResults, updateState and runChainDeathDetection, which only here
\* decides the chains to leave alone; the first saveStateMap comes next.
ProbeAndUpdate ==
  /\ pc = "probe"
  /\ \E ans \in [jobs -> Answer], ex \in SUBSET Chain :
       /\ streak' = UpdateAndPrune(streak, jobs, ans)
       /\ exclude' = ex
       /\ fails' = [k \in Key |->
                      IF mode = "dry" THEN fails[k]
                      ELSE IF k \notin jobs \/ ans[k] = "pass" THEN 0
                      ELSE IF ans[k] = "fail" THEN fails[k] + 1 ELSE fails[k]]
       /\ answered' = [k \in Key |-> IF k \in jobs THEN {ans[k]} ELSE {}]
  /\ unsaved' = IF mode = "dry" THEN {} ELSE Chain
  /\ pc' = "save"
  /\ UNCHANGED <<githubVars, diskVars, now, mode, jobs, lastPR, dead, next, opened, lastOpened,
                 lost>>

\* saveStateMap writes one file per chain, in the order Go ranges over a map.
SaveChain(c) ==
  /\ pc \in {"save", "final"}
  /\ c \in unsaved
  /\ unsaved' = unsaved \ {c}
  /\ dStreak' = [k \in Key |-> IF ChainOf[k] = c THEN streak[k] ELSE dStreak[k]]
  /\ dLastPR' = [dLastPR EXCEPT ![c] = lastPR[c]]
  /\ UNCHANGED <<githubVars, pc, now, memVars, next, opened, historyVars>>

\* A failed state.Save is logged and the loop goes on.
SaveFails(c) ==
  /\ "save" \in Faults
  /\ pc \in {"save", "final"}
  /\ c \in unsaved
  /\ unsaved' = unsaved \ {c}
  /\ UNCHANGED <<githubVars, diskVars, pc, now, memVars, next, opened, historyVars>>

\* maybeOpenPRs up to openPRs: collect, preflight, apply what passed.
Preflight ==
  /\ pc = "save"
  /\ unsaved = {}
  /\ Flagged # {}
  /\ \E ans \in [Flagged -> Answer] :
       /\ streak' = ApplyPreflight(streak, Passed(ans))
       /\ dead' = Flagged \ Passed(ans)
       /\ fails' = [k \in Key |->
                      IF k \in Flagged /\ ans[k] = "pass" /\ mode # "dry" THEN 0 ELSE fails[k]]
       /\ answered' = [k \in Key |->
                         IF k \in Flagged THEN answered[k] \cup {ans[k]} ELSE answered[k]]
  /\ pc' = "open"
  /\ next' = 1
  /\ opened' = 0
  /\ UNCHANGED <<githubVars, diskVars, now, mode, jobs, lastPR, unsaved, exclude, lastOpened,
                 lost>>

MutantCapOffByOne(c) ==
  /\ pc = "open"
  /\ opened <= MaxEndpointPRs
  /\ next \in 1..Len(Order)
  /\ c = Order[next]

\* The loop of openPRs has a chain left and is under the cap.
Looking(c) ==
  /\ pc = "open"
  /\ opened < MaxEndpointPRs
  /\ next \in 1..Len(Order)
  /\ c = Order[next]

\* Nothing dead on this chain, or its cooldown has not run out.
SkipChain(c) ==
  /\ Looking(c)
  /\ dead \cap KeysOf(c) = {} \/ InCooldown(c)
  /\ next' = next + 1
  /\ UNCHANGED <<githubVars, diskVars, pc, now, memVars, unsaved, opened, historyVars>>

\* Dry run: the pull request is only printed, but it counts.
PrintPR(c) ==
  /\ Looking(c)
  /\ dead \cap KeysOf(c) # {}
  /\ ~InCooldown(c)
  /\ mode = "dry"
  /\ next' = next + 1
  /\ opened' = opened + 1
  /\ UNCHANGED <<githubVars, diskVars, pc, now, memVars, unsaved, historyVars>>

MutantDryOpens(c) ==
  Looking(c) /\ dead \cap KeysOf(c) # {} /\ ~InCooldown(c)

\* tryOpenChainPR gets past its cooldown and calls OpenChainPR.
Opening(c) ==
  /\ Looking(c)
  /\ dead \cap KeysOf(c) # {}
  /\ ~InCooldown(c)
  /\ mode # "dry"

\* OpenChainPR returns no URL (a pull request is open, or there is nothing to
\* delete), or some call before CreatePR fails: both cost the chain its turn.
NoPR(c) ==
  /\ Opening(c)
  /\ next' = next + 1
  /\ UNCHANGED <<githubVars, diskVars, pc, now, memVars, unsaved, opened, historyVars>>

\* GitHub accepts the pull request.
CreatePR(c, labelled) ==
  /\ Opening(c)
  /\ ~HasOpenPR(c)
  /\ Removed(c, dead) # {}
  /\ prs' = prs \cup {PR(c, labelled)}
  /\ lastOpened' = [lastOpened EXCEPT ![c] = now]
  /\ next' = next + 1
  /\ UNCHANGED <<registry, diskVars, pc, now, mode, jobs, streak, exclude, dead, unsaved,
                 fails, answered>>

\* OpenChainPR succeeds; openPRs counts it and stamps the chain.
OpenPR(c) ==
  /\ CreatePR(c, TRUE)
  /\ opened' = opened + 1
  /\ lastPR' = [lastPR EXCEPT ![c] = now]
  /\ UNCHANGED lost

\* AddLabels fails after CreatePR succeeded: OpenChainPR returns an error, so
\* the pull request is open and the run neither counts nor stamps it.
OpenUnlabelledPR(c) ==
  /\ "label" \in Faults
  /\ CreatePR(c, FALSE)
  /\ lost' = lost \cup {c}
  /\ UNCHANGED <<opened, lastPR>>

MutantNoSecondSave ==
  /\ pc = "open"
  /\ opened >= MaxEndpointPRs \/ next > Len(Order)
  /\ pc' = "final"
  /\ UNCHANGED <<githubVars, diskVars, now, memVars, unsaved, next, opened, historyVars>>

\* openPRs returns and the second saveStateMap begins.
EndLoop ==
  /\ pc = "open"
  /\ opened >= MaxEndpointPRs \/ next > Len(Order)
  /\ pc' = "final"
  /\ unsaved' = IF mode = "dry" THEN {} ELSE Chain
  /\ UNCHANGED <<githubVars, diskVars, now, memVars, next, opened, historyVars>>

\* The process is gone and its memory with it.
Exit ==
  /\ pc' = "idle"
  /\ mode' = "normal"
  /\ jobs' = {}
  /\ streak' = Zero
  /\ lastPR' = [c \in Chain |-> 0]
  /\ unsaved' = {}
  /\ exclude' = {}
  /\ dead' = {}
  /\ next' = 1
  /\ opened' = 0
  /\ answered' = Unasked
  /\ lost' = IF mode = "dry" THEN lost ELSE lost \cup {c \in Chain : Unwritten(c)}
  /\ UNCHANGED <<githubVars, diskVars, now, fails, lastOpened>>

\* main returns: there was nothing to propose, or the second save is over.
Finish ==
  /\ \/ pc = "save" /\ Flagged = {}
     \/ pc = "final"
  /\ unsaved = {}
  /\ Exit

\* The job is cancelled, or main exits early (emitReport calls os.Exit(1)).
Crash ==
  /\ "crash" \in Faults
  /\ pc # "idle"
  /\ Exit

-----------------------------------------------------------------------------
(* The maintainers of the registry.                                         *)

MergePR(p) ==
  /\ p \in prs
  /\ prs' = prs \ {p}
  /\ registry' = (registry \ p.removes) \cup p.restores
  /\ UNCHANGED <<diskVars, pc, now, memVars, unsaved, next, opened, historyVars>>

ClosePR(p) ==
  /\ p \in prs
  /\ prs' = prs \ {p}
  /\ UNCHANGED <<registry, diskVars, pc, now, memVars, unsaved, next, opened, historyVars>>

Declare(k) ==
  /\ "declare" \in Edits
  /\ k \notin registry
  /\ registry' = registry \cup {k}
  /\ UNCHANGED <<prs, diskVars, pc, now, memVars, unsaved, next, opened, historyVars>>

Undeclare(k) ==
  /\ "undeclare" \in Edits
  /\ k \in registry
  /\ registry' = registry \ {k}
  /\ UNCHANGED <<prs, diskVars, pc, now, memVars, unsaved, next, opened, historyVars>>

-----------------------------------------------------------------------------

Process ==
  \/ StartRun
  \/ ProbeAndUpdate
  \/ \E c \in Chain : SaveChain(c) \/ SaveFails(c)
  \/ Preflight
  \/ \E c \in Chain :
       SkipChain(c) \/ PrintPR(c) \/ NoPR(c) \/ OpenPR(c) \/ OpenUnlabelledPR(c)
  \/ EndLoop
  \/ Finish
  \/ Crash

Maintainer ==
  \/ \E p \in prs : MergePR(p) \/ ClosePR(p)
  \/ \E k \in Key : Declare(k) \/ Undeclare(k)

Next == Process \/ Maintainer

Spec == Init /\ [][Next]_vars

-----------------------------------------------------------------------------
(* Properties.                                                              *)

NewPRs == prs' \ prs

\* Every entry a removal pull request lists was declared by its own chain in
\* the run's checkout, on a chain the run did not find dying; it was not seen
\* alive by this run's probes, the preflight included; and, as long as no
\* state of the chain was lost, it failed MinFailures main probes since it
\* last passed or was last declared (README: "Any successful probe resets that
\* endpoint's streak to zero").
JustifiedRemoval ==
  [][\A p \in NewPRs : \A k \in p.edit :
       /\ k \in jobs
       /\ ChainOf[k] = p.chain
       /\ p.chain \notin exclude
       /\ "pass" \notin answered[k]
       /\ p.chain \notin lost => fails[k] >= MinFailures]_vars

\* A live endpoint does not shield a dead one: the pull request of a chain that
\* lost nothing lists every endpoint that failed MinFailures main probes and was
\* not seen alive, also one that shares its address with an endpoint that was.
NoShielding ==
  [][\A p \in NewPRs : \A k \in KeysOf(p.chain) :
       p.chain \notin lost /\ fails[k] >= MinFailures /\ "pass" \notin answered[k] => k \in p.edit]_vars

\* Between two pull requests for one chain lies the cooldown, merged or closed
\* as the first may be, unless the chain's state was lost.
CooldownRespected ==
  [][\A p \in NewPRs :
       \/ p.chain \in lost
       \/ lastOpened[p.chain] = 0
       \/ now >= lastOpened[p.chain] + Cooldown]_vars

\* Between runs the state file of a chain that lost nothing says exactly what
\* was measured and what was opened.
SavedStateExact ==
  pc = "idle" =>
    \A c \in Chain \ lost :
      /\ dLastPR[c] = lastOpened[c]
      /\ \A k \in KeysOf(c) : dStreak[k] = fails[k]

\* Only a killed run, a failed save or a failed label loses state.
NothingLost == Faults = {} => lost = {}

\* One open pull request per chain (OpenChainPR's duplicate check).
OnePRPerChain == \A p, q \in prs : p.chain = q.chain => p = q

\* The chains the current (or the last) run opened a pull request for.
OpenedNow == {c \in Chain : lastOpened[c] = now /\ now > 0}

\* A run opens no more pull requests than the cap allows (README: "Maximum new
\* endpoint-removal PRs opened per run").
RunCap == Cardinality(OpenedNow) <= MaxEndpointPRs

\* A dry run leaves the state files and GitHub as they are.
DryRunWritesNothing == [][mode = "dry" => UNCHANGED diskVars /\ prs' \subseteq prs]_vars

\* README and internal/checks/check.go: a rate-limited endpoint "can never
\* drive a removal PR".
RateLimitedNeverProposed ==
  [][\A p \in NewPRs : \A k \in p.edit : answered[k] # {"skip"}]_vars

\* internal/github/pr.go: the edit "surgically removes the dead (category,
\* address) pairs"; merging the pull request removes these entries and no other,
\* and brings none back.
DiffIsTheEdit ==
  [][\A p \in NewPRs : p.removes \subseteq p.edit /\ p.restores = {}]_vars

=============================================================================
