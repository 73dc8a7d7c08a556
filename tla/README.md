# chain-registry-sentinel in TLA+

The sentinel probes every endpoint that the Cosmos chain registry declares, keeps a
failure streak per endpoint and a death streak per chain in files on a git branch, and
opens pull requests against the registry: to remove endpoints that stayed dead, to mark a
chain as killed, to correct IBC denom hashes. It runs unattended on a schedule, its
mistakes are published under its operators' names, and most of what can go wrong takes
several runs, a crash between two steps or somebody else's edit at the wrong moment. These
modules model that, TLC checks them on small instances, and TLAPS proves what matters most
for every instance.

## 1. Inventory of the system

| Component | Source | State it keeps | Operations | Interacts with |
|---|---|---|---|---|
| Action entrypoint | `.docker/entrypoint.sh` | state branch, state directory | restore, run, commit-tree, push | the sentinel (exit code, files), git |
| Command, run order | `cmd/sentinel/main.go` | `stateMap` | load, probe, update, prune, save, report, flows | everything below |
| State files | `internal/state` | one file per chain: streaks, death streak, three cooldown stamps | `Load`, `Update`, `Prune`, `Save` | main, the flows |
| Registry | `internal/registry` | checkout of the registry | `LoadChains`, `LoadAssetList` | main, the edits |
| Job list and pool | `cmd/sentinel/probe.go` | job and result channels, workers | `buildJobs`, `runWorkers`, `collectResults` | probes, `updateState`, `preflight` |
| Probes | `internal/checks` | none across probes | six probes, liveness and chain-ID verdicts, `Classify` | the pool |
| Endpoint flow | `cmd/sentinel/prflow.go` | flagged keys, preflight passes, PR count | `collectFlagged`, `preflight`, `openPRs` | pool, state, GitHub |
| Chain death | `cmd/sentinel/chaindeath.go` | verdicts, candidates | `runChainDeathDetection`, `maybeOpenStatusPRs` | state, GitHub; hands `looksDead` to the other flows |
| Hash flow | `cmd/sentinel/hashpr.go`, `internal/checks/ibc_hash.go`, `internal/registry/assetlist.go` | cooldown stamp | `runHashChecks`, `maybeOpenHashPRs` | registry, GitHub |
| GitHub | `internal/github` | branches, commits, pull requests, labels | one call each; three `Open...PR` sequences | the flows |
| Reports | `internal/report`, `summary.go` | JSONL records | build, write, render | main (`os.Exit` when writing fails) |

What makes each of them correct, and what is hard about it:

* **Endpoint flow and state files.** A removal rests on `min-failures` failures in a row
  and on a preflight, across runs that crash, fail to save, or are dry; state is saved
  twice per run, and a pull request exists on GitHub before it exists in a file.
* **Chain death.** A status flip rests on a streak of judged runs; a run may judge nothing
  (suspect vantage), and the verdict is about the relation between chains.
* **Pool.** Results arrive in any order; two channels have to be closed exactly once and
  late enough; the registry has duplicates.
* **Probes.** A verdict needs the right transport and the right query; one failure shows
  at several layers, and the class must name the innermost.
* **Hash flow.** The check and the edit read the same file in two ways and must agree on
  every asset; the loop must not starve the last chains under its cap.
* **Whole runs.** Three flows take turns over one state map that each of them saves whole,
  some runs load a part of the chains only, and two flows must keep off what the first is
  after.
* **GitHub calls.** Search, read, create, commit and label are separate calls of separate
  runs; any of them can fail, also after it took effect.
* **Entrypoint.** Two runs may restore the same state and push one after the other.

`PROJECT.json` lists every component with its status, and under `hazards` every such
danger at the line where it bites, with the properties that would notice.

## 2. Modules

```
 Workflow          runs of the action, git and GitHub calls     (several runs at once)
   Sentinel        the three flows of a run, run after run      (one run at a time)
     ChainDeath    detection and the status flow
     EndpointFlow  the endpoint flow          ChainEdit         (the edit of chain.json)
     HashFlow      the hash-fix flow          HashRepair        (the edit of assetlist.json)
       ProbePool   implements  ProbeVerdict                     (one run, its goroutines)
         EndpointProbe                                          (one probe, its requests)
```

The levels cut the system where its granularity changes; each level takes what the level
below decides as a free choice. `Workflow` lets a run want any set of pull requests, which
the modules of the flows narrow down; `Sentinel` takes the verdict on a chain as an input,
which `ChainDeath` computes, and gives a chain one endpoint, where `EndpointFlow` has many;
the flows let each probe answer anything, which `EndpointProbe` explains; and `ProbePool`
shows that treating a run's probing as one step, as `EndpointFlow` does in `ProbeAndUpdate`
and `Preflight`, is what the goroutines amount to. `ChainEdit` and `HashRepair` are
functions: the first justifies `EndpointFlow` in taking an edit for a set difference, the
second is what `HashFlow` commits. Nothing is assumed at a level that the level below would
not allow.

The theorems about a module `M` and their proofs are in `MProofs`; `SentinelProofs`,
`EndpointFlowProofs`, `ChainDeathProofs`, `HashFlowProofs` (with the theorem about
`HashRepair`), `ChainEditProofs`, `ProbePoolProofs`, `WorkflowProofs` and
`EndpointProbeProofs` exist. In every module an
operator named `Mutant...` is not part of the specification: it is the
definition below it with a plausible slip, and each property is shown to notice one.
History variables are declared apart and never appear in a guard.

### EndpointFlow

Variables are the registry, open pull requests, the two fields of the state files that
guide the flow (`dStreak`, `dLastPR`) and the memory of one process (`streak`, `lastPR`,
`jobs`, `exclude`, `dead`, `next`, `opened`). A run is

| Action | Code |
|---|---|
| `StartRun` | `main` up to the probes: `loadFilteredChains`, `loadStateMap` |
| `ProbeAndUpdate` | `collectResults`, `updateState` (`Update` then `Prune`), the verdict of chain death as a free set `exclude` |
| `SaveChain`, `SaveFails` | one round of the loop in `saveStateMap`; its order is that of a Go map |
| `Preflight` | `collectFlagged`, `preflight`, `applyPreflightResults` |
| `SkipChain`, `PrintPR`, `NoPR`, `OpenPR`, `OpenUnlabelledPR` | the ways one round of `openPRs` ends |
| `EndLoop`, `Finish` | cap reached or chains exhausted; the second save; return |
| `Crash` | a cancelled job, or `emitReport` calling `os.Exit` |

Maintainers merge, close, declare and undeclare between any two steps. History: `fails`
(what the probes of an endpoint really said), `lastOpened`, `answered`, and `lost`, the
chains whose file misses something that happened. `lost` is set where memory is dropped
with `Unwritten` changes and where labelling failed; the properties that speak of streaks
and cooldowns excuse exactly these chains, and `NothingLost` says that nothing else gets in.

### ChainDeath

A probe result is reduced to what the judgement reads (`Answer`). `Detect` is the whole of
`runChainDeathDetection`: vantage check, facts, both signatures with the adaptive
number of witnesses (`Needed`), streak advance or reset; then the save, the capped loop of
`maybeOpenStatusPRs`, the second save. `truth` repeats the death fields without ever being
lost; `serving` remembers a fact about a verdict for the properties.

### Sentinel

One process goes `StartRun`, `Measure`, `SaveStateMap`, then per flow `Enter...`, a loop,
`EndLoop` and `SaveStateMap` again, as `main` and `openPRFlows` do; `PassFlow` is a flow
that has nothing to do or no token.

| Action | Code |
|---|---|
| `StartRun` | `loadFilteredChains`, `LoadChains`, `loadStateMap` |
| `Measure` | `runWorkers` to `runChainDeathDetection` for each chain: streak of its endpoint, verdict, death streak |
| `SaveStateMap` | the four calls of `saveStateMap`; any of its files may fail |
| `EnterStatus`, `EnterEndpoint`, `EnterHash` | `maybeOpenStatusPRs`, `maybeOpenPRs` with its preflight, `maybeOpenHashPRs`, up to the loop |
| `Skip`, `PrintPR`, `NoPR` | the rounds of the loop that open nothing |
| `CreatePR` | the round that opens: the calls up to and with `CreatePR` |
| `AddLabels`, `LabelFails` | labelling; where it fails the flow returns an error and the loop goes on |
| `Notice`, `NoticeFails` | one title of `notifySuperseded`, after a status pull request: search and comment; a failure is logged and dropped |
| `CountPR` | the flow returns the pull request, which is stamped and counted |
| `Crash`, `Finish` | the process ends, with or without having saved, also between two of these calls |

`truth` is what was measured and opened, kept apart from the process; `made` the labelled
pull requests of the current run; `lost` the chains whose file misses something; `unheard`
the fixes whose own notice failed or was cut off.

### HashFlow and HashRepair

`HashRepair` has the two readings of an asset list, `LoadAssetList` with
`CheckDenomHashes`, and `EditAssetListJSON`, for any set of denominations and any hash
function. `HashFlow` loops over the chains as `maybeOpenHashPRs` does, over unboundedly
many runs: instead of a clock it keeps the age of each chain's last pull request up to the
cooldown, so that the state is finite and liveness can be checked. Its runs always save;
those that do not are `Sentinel`'s.

### ChainEdit

`buildJobs`' way from a list of `chain.json` to check names, and `EditChainJSON`'s way back
and its deletions by index, highest first. `RemovalExact` is evaluated by TLC, as the
assumption `EditIsExact` of `MCEndpointFlow`: on every list of up to three entries over two
addresses, duplicates included, next to samples of the other lists that share the addresses,
for every set of flagged keys; `EveryEditIsExact` proves it for all lists.

### ProbePool and ProbeVerdict

Every goroutine of `runWorkers` is there: workers (`Take`, `Probe`, `Send`, `Leave`), the
closer (`Close`), the main goroutine that collects, folds, prunes, and runs the pool again
over what is flagged. `Those` is the loop that appends some elements in order: the dedup of
`buildJobs`, the filter of `preflight`. `ProbeVerdict` states the promise in two steps: every declared key
gets one answer, and every flagged key a second. `VerdictSpec` is the refinement.

### EndpointProbe

`Parse`, `Request` (canary or fallback query) and `Deadline` over every kind of endpoint,
address form and `World`: what the network does, what transport listens, what each query
is answered. Errors are sets of marks, the things `Classify` tests for; `Layers` is the
order of those tests, the first of which that holds gives the class. Per layer one class stands for its siblings (one TLS error, one
gateway status). It has no constants, so the module is checked as it is.

### Workflow

Each API call of `OpenChainPR`, `OpenHashPR` and `OpenStatusPR` (which make the same calls
in the same order) is an action, each git command of the entrypoint too, and any number of
runs overlap, since the workflow of the README has a schedule and a manual trigger and no
concurrency group. A state tree is the set of events it accounts for. `knows` is what a
clone has of the state branch: a push needs its parent. `CallFails`, `AnswerLost`,
`FetchFails`, `UnpackFails`, `PushRejected`, `PushFails`, `ExitFatal` and `Cancel` are the
faults.

## 3. Runs

Run `R` is `tlc -config R.cfg` on the module given.

| Run | Module | States | Checks |
|---|---|---|---|
| EFfaults | MCEndpointFlow | 1.6 M | `TypeOK SavedStateExact JustifiedRemoval NoShielding CooldownRespected DryRunWritesNothing` |
| EFreliable | MCEndpointFlow | 1.0 M | `NothingLost OnePRPerChain RunCap` |
| CDfaults | MCChainDeath | 0.2 M | `TypeOK SavedStateExact StatusFlipJustified StatusCooldownRespected` |
| PPpool | MCProbePool | 0.2 M | `TypeOK OneResultEach SendsAreSafe Terminates VerdictSpec` |
| WFfaults | MCWorkflow | 0.6 M | `TypeOK GreenIsRemembered OnePRPerTarget NothingDropped BranchesAreOwn` |
| EPprobe | EndpointProbe | 53 k | `TypeOK VerdictIsTrue StructuralIsTrue VantageBlamed ThrottledIsSkipped ChainIDIsKnown Answers` |
| HFlive | MCHashFlow | 83 k | `TypeOK FixIsRight Served` |
| SNfaults | MCSentinel | 1.2 M | `TypeOK SavedStateExact FlowCaps SupersededNoticed RightFlow FlowCooldown` |

Four more runs end in a counterexample, each to one sentence of the documentation or a
comment (section 6).

Bounds, and why they are enough:

* *EFfaults*: one chain, two keys on one address (the only way keys can be confused),
  streak length 2 and cooldown 2 so that "one short" and "exactly" both occur, time 4: two
  runs mature a streak, a third opens, a fourth meets the cooldown or a lost state.
  `Undeclare` is left to the other runs, since merging a pull request undeclares as well.
  The keys are interchangeable, hence the symmetry.
* *EFreliable*: two chains and a cap of 1 so that the cap bites, no faults, since these
  three properties are about runs that go well.
* Registry edits and merges commute with all steps that neither read the registry nor
  GitHub, so the action constraint `MaintainersWhenSeen` only lets them happen when the
  run is between processes or opening pull requests.
* *CDfaults*: two operators, the least that can testify (`Needed` is never below 2), one
  judged chain with two RPC endpoints and a REST endpoint, and a second chain as the
  "elsewhere". A vantage threshold of 60 % of five probes makes runs of both kinds. Time 6
  and gaps of at most 2 allow two matured streaks and a cooldown between them.
* *PPpool*: two workers, three declarations with a duplicate, one state entry that is no
  longer declared. A second pool runs with one or two workers.
* *WFfaults*: two runs on one target is the least that races; faults of one run act on
  the other. Versions of a file are bounded by 3: two edits are enough to make every read
  stale. Runs are interchangeable.
* *EPprobe*: exhaustive over its finite inputs.
* *HFlive*: three chains, a cap of 1 and a cooldown of three daily runs. `EnoughPlaces`
  says `MaxHashPRs * (((Cooldown - 1) div MaxGap) + 1) >= Cardinality(Chain)`, the places
  of the runs within one cooldown; here both sides are 3, and with a cooldown of 2 TLC finds
  the third chain starved. One chain may be excluded as dying at any run. One asset list is
  right; in the other the first asset has copied the second one's base.
* *SNfaults*: two chains, one of which declares no endpoint, two filters, caps of 1,
  three runs. One failure flags an endpoint and two dead runs mature a chain, so that in
  three runs fixes of both kinds are open when the status flow comes, a chain is revived or
  fixed again, and a cooldown of two binds and ends. Runs are killed at any step, saves
  fail, labels are refused, notices fail. Two constraints, both for size:
  `MaintainersWhenSeen` (a run reads the registry once, and GitHub only when it opens a
  pull request; while it posts notices, pull requests may be closed), and
  `NothingLostSoFar`, which follows a run that lost something to its end and no further; runs
  on top of lost state are EFfaults' and CDfaults'. A second status pull request over a fix
  that already has a notice needs a fourth run; that case rests on the proof, which needs
  neither constraint nor bound.

`CHECK_DEADLOCK FALSE` is set where the clock bound or the set of runs ends the behaviour;
PPpool and EPprobe have explicit final steps instead.

**Fairness** is assumed in four specifications only. In `ProbePool` weak fairness of each
worker, the closer and the main goroutine: the Go scheduler runs what can run. In
`EndpointProbe` weak fairness of the next step: time passes, and a deadline that is set
strikes (that it is set for every wait is what `Answers` tests). `ProbeVerdict` inherits
both. In `HashFlow` weak fairness of the process (the schedule starts runs and a run goes on
to its end) and strong fairness of `OpenPR(c)`: a chain whose turn comes again and again is
not refused by GitHub each time, for `NoPR` is also what a failing call looks like. Nothing
is assumed of the maintainers, who may close every pull request or never look at one. The other modules state safety only and assume none: a schedule that is turned off,
or a maintainer who never answers, is a behaviour like any other.

## 4. What the properties say

*EndpointFlow*
* `JustifiedRemoval`: what a pull request lists is the chain's, was in the checkout, was
  not seen alive in this run, and failed `MinFailures` main probes in a row.
* `NoShielding`: conversely nothing that qualifies is left out, whatever lives on the same
  address.
* `SavedStateExact`: between runs a file says exactly what happened.
* `CooldownRespected`, `RunCap`, `OnePRPerChain`, `DryRunWritesNothing`, `NothingLost`.

*ChainDeath*
* `StatusFlipJustified`: a status pull request rests on a verdict of the same run, on no
  fresh block anywhere, and on `MinRuns` such verdicts in a row.
* `SavedStateExact`, `StatusCooldownRespected`.

*ProbePool*: `SendsAreSafe` (no send on a closed channel, no full buffer), `OneResultEach`,
`Terminates`, and the refinement `VerdictSpec`.

*Workflow*
* `NothingDropped`: no push drops what the state branch accounts for. What protects it is
  not the parent, read just before the push, but that `git commit-tree` refuses a parent
  the clone does not have; a full clone whose fetch failed has it, and is the exception.
* `GreenIsRemembered`: a run that ends green and had no failed call has its probing and
  its pull requests in the branch for good.
* `OnePRPerTarget`: two labelled pull requests for one target need overlapping runs.
* `BranchesAreOwn`: a branch is edited only by the commit of the run that created it, and
  only once, also where two runs are about to commit to branches of one name.

*HashFlow*
* `Served`: a chain whose list stays wrong and which does not look dead has an open pull
  request again and again. It rests on the stamp: a chain that had its turn leaves its place
  to the others for a cooldown.
* `FixIsRight`: a pull request leaves nothing for the check to find, no right asset touched
  and no denom unit forgotten.

*Sentinel*
* `SavedStateExact`: here about flows that overwrite each other's stamps, runs over some
  chains only, and a failed save that a later one of the same run makes up for.
* `RightFlow`: no fix for a chain found dying in the run, no status pull request without a
  verdict of the run and a full streak.
* `FlowCooldown`, `FlowCaps`: each flow has its own stamp and its own count; a pull request
  that could not be labelled is not counted.
* `SupersededNoticed`: the last comment on an open fix points to the newer open status pull
  request of its chain, unless that comment is still to come, or a call of just this notice
  failed, or the run was killed before it. A failure to tell one fix excuses no other. Fixes
  and status pull requests without the label are invisible to the search.

*EndpointProbe*
* `VerdictIsTrue`: a pass means the endpoint serves, and one that serves in time passes.
* `StructuralIsTrue`, `VantageBlamed`: structural classes never stem from the prober's own
  trouble, and the classes chain-death detection reads as the prober's trouble always do.
* `ThrottledIsSkipped`, `ChainIDIsKnown`, `Answers`.

## 5. What is proved

The `...Proofs` modules prove, for every registry, cap, cooldown, clock bound and set of
faults that satisfies the named assumptions of the modules (`FlowAssumption`,
`FiniteAssumption`, `DeathAssumption`, `RepairAssumption`, `HashFlowAssumption`,
`SentinelAssumption`, `PoolAssumption`, `WorkflowAssumption`), the theorems listed in
`PROJECT.json`:

* every safety property of EFfaults, EFreliable and CDfaults, in `EndpointFlowProofs` and
  `ChainDeathProofs`. `OneOpenPR` and `CapKept` assume `"label" \notin Faults`, without
  which the property is false (run EFlabel);
* every property of SNfaults, in `SentinelProofs`, without that run's constraints;
* every property of WFfaults, in `WorkflowProofs`: for any number of runs, in any overlap,
  any list of targets and every fault;
* the invariants of PPpool, in `ProbePoolProofs`, for any declarations and any number of
  workers; and `PoolImplementsVerdict`, the safety part of the refinement `VerdictSpec`;
* the invariants of EPprobe, in `EndpointProbeProofs`. TLC visits all of that module's
  states; what the proofs add is the reason, layer by layer and request by request;
* in `HashFlowProofs` `EveryRepairIsRight`: the edit repairs every asset list, for every
  hash function; and from it `FixIsRight` and the types of HFlive;
* `EveryEditIsExact` in `ChainEditProofs`: `RemovalExact` for lists of any length and
  content.

So every invariant and every action property of the passing runs is a theorem. `PoolAssumption`
wants `Concurrency` and `MinFailures` positive. The code does not check the flags: with a
concurrency of zero nothing is probed and the run is green, with zero failures everything
is flagged; both are listed as hazards.

*The flows.* `SavedStateExact` speaks of the moment between two runs, and is not inductive:
in the middle of a run the files lag behind. The invariant `IInv` says where the truth is at
each stage of a run instead: in the file when nothing runs, in the memory once the state is
loaded, and from then on wherever `Unwritten` does not hold; a process that ends hands each
chain back to its file or to `lost`. The action properties follow from `IInv` and the one
step that opens a pull request. `CapKept` counts with `IsFiniteSet(Chain)`, adding at most
one chain per counted pull request.

*Whole runs.* `Recorded` is the same idea for three flows: the truth about a loaded chain of
a real run is in the state map, about any other in its file; while a pull request is opened
and not yet counted the map lacks its stamp (`Memory`). `TodoRight` carries the verdict
from the detection to the loops (which flow may look at which chain), `Stamped` keeps stamps
out of the future, without which a cooldown test on times proves nothing, and `WhoOpens`
says that only `CreatePR` changes a recorded stamp, of its own flow and chain. `SupersededNoticed`
needs `WordInv` to be inductive: a chain has at most one labelled pull request per flow
(`OneLabelled`), none while a new one waits for its label (`NoneLabelledYet`), and during
the notices the labelled status pull request is this run's (`LabelledNow`); so a fix is
told of the one status pull request there is, is `Pending`, or is `unheard`.
`RunsKeepTheCaps` has an invariant of its own, `Counted`: in a loop `opened` is at least the
number of the flow's pull requests but for the one being posted, and later flows have none.

*Hash repairs.* An asset that the check finds has one entry in the map of fixes, because
both readings take the same last path (`SamePath`) and the expected base is a function of
the path (`FixesAre`); an asset that it does not find has none. With one lemma per asset
(`AssetRepaired`) the theorem follows index by index.

*Edits.* The deletions go from the end of the list to its beginning, and `LeftFrom` says
what is left half-way: the entries below the index have not moved, and of those from it on
the ones to delete are gone, in order (`LeftNext`). `TablesAgree` leads from a check back to
the list its jobs came from, so that what is collected there are the flagged entries
(`Collected`). Together they give what `EndpointFlow` relies on: the edited chain's jobs are
the old ones without the flagged ones.

*Overlapping runs.* Three invariants, one per theme, over the types. The state branch:
`TipRestored`, a run whose restore did not slip has in its tree everything that is in the
last commit its clone knows; git takes a push only on top of the tip, so the pushed tree
holds what the tip held, and nothing is dropped. `MadeIsKept` follows a pull request from
the call that makes it into the tree and from there into the branch. Branches:
`OwnUntilPull`, between its creation and its pull request a branch belongs to the run that
will commit to it, because names are unique (`OneBranchPerName`) and a branch is only
deleted along with its pull request (`PullHasBranch`). Pull requests: `PullsAreBehind`, a
run has left a target for good when it has opened its pull request, so that two of them
are from two runs, and `SearchedOrMet`, a run only gets past the search beside a labelled
pull request whose run it overlaps.

*The pool.* A worker `Owes` the results its job has not brought yet. Of every job that was
taken, each result has arrived or is owed by the one worker that has the job, and never
both (`WorkersApart`, `ArrivedOnce`, `NoneLost`). From this come both halves of
`SendsAreSafe`: who owes has not gone, so the channel is open (`ClosedLast`); and what has
arrived, seen as pairs of a job and a check, is a proper part of the `2 * Len(jobs)` slots
of the buffer while something is owed (`RoomToSend`, an injection and a count). When nobody
owes anything the results are complete, which is `OneResultEach`. The refinement adds how
far the results are folded in (`FoldedOnce`): the steps of the goroutines are stutters, and
`PruneAndFlag` and `Drained` are the two steps of `ProbeVerdict`.

*Probes.* `Cascade` turns `Classify`, a search through layers, into the chain of tests that
the code is, and the class of every error a probe can meet follows. An error is judged when
it comes back: its class is `Honest` about the world, whichever world it is. The rest is
about gRPC's two modes. `Handle` is taken apart by where the probe goes (`Moves`): it
passes, falls back, goes on to the second mode, or fails. `OnTheWay` says that before the
deadline the transport that is spoken is never given up; `Blamed` and `Throttled` that an
error kept from the first mode does not hide what the second one would have said. These
three are what the properties, which speak of the end, need of the way there.

*Induction.* The library's induction theorems are out of reach (they take an operator as a
parameter), but two facts need none of them: that a finite set of numbers has a greatest
element (`MaxOfIndices`, `MaxOfNumbers`) and that a set of numbers has a least
(`LeastPosition`, `LeastOf`) are proved from well-founded orders. A minimal counterexample
then does the work of an induction, as in `LeftExists`, which shows that the recursive
function inside `DeleteIndices` is defined at all, and in `DeletesExactly`.

Only model-checked: liveness under fairness (`Terminates`, `Answers`, `Served`, and the fair
part of `VerdictSpec`), which the prover cannot treat, and the four counterexamples of
section 6. No module uses a RECURSIVE operator. Sequences that the code builds by filtering
(`Those` in `ProbePool`, `Lists` in `Workflow`) and the first of a sequence of tests
(`Classify`) are defined by positions, not by recursion, so that they can be proved about.

## 6. Where code and documentation disagree

| Run | The documentation | The code |
|---|---|---|
| EFlabel | an open PR blocks duplicates (README:212, 229) | labelling is a later call; when it fails, the PR is invisible to the search and unknown to the cooldown (`pr.go:265`) |
| EFstale | the edit removes the dead pairs only (`pr.go:61`) | the file of the checkout is committed on a base branch that moved on (`pr.go:240`) |
| EFratelimit | a rate-limited endpoint can never drive a removal PR (`check.go:86`, README:413, PROBES:23) | a skip leaves the streak as it is and the preflight drops it, so an endpoint throttled in the whole run is proposed on an old streak (`prflow.go:122`) |
| CDexclusion | a chain is excluded from the very first run of its streak (README:259) | not in a run with a suspect vantage (`chaindeath.go:180`) |

Noticed while modelling, without a run of their own: the operators who witness that a chain
is abandoned are to be "demonstrably alive on other chains" (README:246), but the same
chain's gRPC and WebSocket endpoints count as well (`chaindeath.go:147`); a body that does
not decode is to be `bad_json` (`classify_fixture_test.go:93`), but over HTTP the status 200
that came with it is tested first and makes it `http_other` (`http.go:83`,
`classify.go:152`); a 429 in the second gRPC mode is hidden
by the error kept from the first, or by the canary's (`ThrottledIsSkipped` names the first
case); a rejected or failed push turns a step red although the sentinel ran (README:221);
the comment on superseded fixes is promised without exception (README:262), but one that
failed or was cut off is never posted later, for the next run finds the status pull request
open and returns first (`pr.go:553`, `pr.go:611`);
a fetch that fails for any reason is taken for a missing branch.

## 7. Not modelled

Report rendering, JSONL records and the offline mode (text in, text out, nothing decided);
pull request bodies; the formatting that JSON edits preserve; flag parsing; CI, image and
audit script. Runs without `--state-path`, which probe and report and open nothing. Of the
state file, the first-failure time and evidence texts, and unreadable files, at which a run
ends, or starts those chains afresh under `--reset-state`. A label that GitHub
refuses is in `EndpointFlow`, `ChainDeath` and `Sentinel`; the notices on superseded fixes,
and their failures, are in `Sentinel` only. A call that took effect although its answer was
lost is in `Workflow` only; there the run goes no further and posts no notice. Clock differences
between runs: time only advances. GitHub search is consistent in the model; its index lags
in reality, which is the same as an overlap of the runs.

## 8. Plan

In order of weight for the next steps:

1. Refinement: `Sentinel` with `HashFlow` as the third flow's abstraction, over the age of
   the stamps.
2. Liveness of the endpoint flow: an endpoint that stays dead is eventually proposed, under
   the bound that `Served` has and a fairness of the preflight.
3. Growth: the vantage report of `internal/report` as far as it decides anything.
