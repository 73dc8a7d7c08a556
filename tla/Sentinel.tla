----------------------------- MODULE Sentinel -----------------------------
(***************************************************************************)
(* Whole runs of the sentinel: one process that probes, judges, and then   *)
(* goes through the three pull request flows in order, status, endpoint,   *)
(* hash, over one state map that it saves up to four times (main of        *)
(* cmd/sentinel/main.go, openPRFlows of prflow.go).  Runs are full or      *)
(* limited by --chains, real, previews (--dry-run) or without a token, and *)
(* may be killed at any step; maintainers act between and during them.     *)
(*                                                                         *)
(* The parts have modules of their own: here a chain has one endpoint for  *)
(* EndpointFlow's many, ChainDeath's verdict is an input, and an asset     *)
(* list is wrong or not.  What remains is what the flows share: the state  *)
(* of a chain and who may overwrite it, the exclusion of dying chains, the *)
(* order of the flows, and the notices that a status pull request posts on *)
(* the pull requests it supersedes.  The calls from CreatePR on are steps  *)
(* of their own; each may fail, and the run may end between them.          *)
(***************************************************************************)
EXTENDS Naturals, Sequences, FiniteSets

CONSTANTS
  Chain,        \* chain names
  Order,        \* the chains, in the order of the registry's directories
  Filters,      \* the values of --chains: sets of chain names
  MinFailures,  \* --min-failures
  MinRuns,      \* --chain-death-min-runs
  Cooldown,     \* --pr-cooldown-days, in ticks of the model's clock
  Cap,          \* [Flow -> Nat], --max-status-prs, -endpoint-prs, -hash-prs
  Listed,       \* [Chain -> Entry], the registry at first
  Faults,       \* the faults the environment may inject
  MaxTime       \* bound: the number of runs, one per tick

Flow == {"status", "endpoint", "hash"}

\* A chain: its status, whether it declares its endpoint, and whether its asset
\* list has mismatches.
Entry == [live : BOOLEAN, declared : BOOLEAN, wrong : BOOLEAN]

ASSUME SentinelAssumption ==
  /\ Order \in Seq(Chain)
  /\ \A i, j \in 1..Len(Order) : Order[i] = Order[j] => i = j
  /\ \A filter \in Filters : filter \subseteq Chain
  /\ MinFailures \in Nat \ {0}
  /\ MinRuns \in Nat \ {0}
  /\ Cooldown \in Nat
  /\ Cap \in [Flow -> Nat]
  /\ Listed \in [Chain -> Entry]
  /\ Faults \subseteq {"crash", "save", "label", "notice"}
  /\ MaxTime \in Nat

VARIABLES
  registry,   \* what the registry says of each chain
  prs,        \* open pull requests on GitHub
  disk,       \* state files
  pc,         \* where the run is, "idle" between runs
  flow,       \* the flow the run is in, "start" before the first
  now,        \* time of the current (or the last) run
  mode,       \* "real", "dry" or "notoken"
  checkout,   \* the registry as the run cloned it
  loaded,     \* the chains LoadChains returned
  mem,        \* stateMap
  verdict,    \* what the death detection says of each chain this run
  todo,       \* chains the current flow may open a pull request for
  next,       \* index into Order of the chain the flow looks at
  opened      \* pull requests the flow has counted

(***************************************************************************)
(* History variables: they observe the runs and never guide them.  A dry   *)
(* run is a preview and leaves no history.                                 *)
(*   truth    what really was measured and opened, in the form of disk     *)
(*   made     the labelled pull requests of this run: flow and chain       *)
(*   lost     chains whose state file misses something that happened       *)
(*   unheard  the flows and chains whose open fix the chain's last status  *)
(*            pull request failed to notify: a call of the notice failed,  *)
(*            or the run ended before it                                   *)
(***************************************************************************)
VARIABLES truth, made, lost, unheard

githubVars  == <<registry, prs>>
runVars     == <<now, mode, checkout, loaded, verdict>>
loopVars    == <<flow, todo, next, opened>>
historyVars == <<truth, made, lost, unheard>>
vars == <<githubVars, disk, pc, runVars, mem, loopVars, historyVars>>

\* ConsecutiveFailures, ChainDeadStreak, and the time of the last pull request
\* of each flow, 0 for the zero time (state.ChainState).
ChainState == [fails : Nat, death : Nat, last : [Flow -> Nat]]
Fresh == [fails |-> 0, death |-> 0, last |-> [f \in Flow |-> 0]]

\* label: AddLabels has come through; notice: when the status pull request was
\* opened that the last comment on this one points to, 0 if there is none.
PullRequest == [flow : Flow, chain : Chain, at : Nat, label : BOOLEAN, notice : Nat]

TypeOK ==
  /\ registry \in [Chain -> Entry]
  /\ prs \subseteq PullRequest
  /\ disk \in [Chain -> ChainState]
  /\ pc \in {"idle", "probe", "save", "enter", "loop", "label", "noticeEndpoint", "noticeHash",
            "count", "done"}
  /\ flow \in Flow \cup {"start"}
  /\ now \in Nat
  /\ mode \in {"real", "dry", "notoken"}
  /\ checkout \in [Chain -> Entry]
  /\ loaded \subseteq Chain
  /\ mem \in [Chain -> ChainState]
  /\ verdict \in [Chain -> {"none", "dead", "alive"}]
  /\ todo \subseteq Chain
  /\ next \in Nat \ {0}
  /\ opened \in Nat
  /\ truth \in [Chain -> ChainState]
  /\ made \subseteq Flow \X Chain
  /\ lost \subseteq Chain
  /\ unheard \subseteq Flow \X Chain

Unjudged == [c \in Chain |-> "none"]

Init ==
  /\ registry = Listed
  /\ prs = {}
  /\ disk = [c \in Chain |-> Fresh]
  /\ pc = "idle"
  /\ flow = "start"
  /\ now = 0
  /\ mode = "real"
  /\ checkout = registry
  /\ loaded = {}
  /\ mem = [c \in Chain |-> Fresh]
  /\ verdict = Unjudged
  /\ todo = {}
  /\ next = 1
  /\ opened = 0
  /\ truth = [c \in Chain |-> Fresh]
  /\ made = {}
  /\ lost = {}
  /\ unheard = {}

-----------------------------------------------------------------------------
(* The run up to the flows.  An operator named Mutant... is a slip the code *)
(* could contain, in the place of the definition that follows it.           *)

\* LoadChains and loadStateMap.  A run that finds no chain exits at once.
StartRun ==
  /\ pc = "idle"
  /\ now < MaxTime
  /\ now' = now + 1
  /\ mode' \in {"real", "dry", "notoken"}
  /\ \E filter \in Filters : loaded' = {c \in filter : registry[c].live}
  /\ loaded' # {}
  /\ checkout' = registry
  /\ mem' = [c \in Chain |-> IF c \in loaded' THEN disk[c] ELSE Fresh]
  /\ pc' = "probe"
  /\ UNCHANGED <<githubVars, disk, verdict, loopVars, historyVars>>

MutantDecay(s, answer, v) ==
  [s EXCEPT
     !.fails = CASE answer = "fail" -> @ + 1 [] answer = "skip" -> @ [] OTHER -> 0,
     !.death = CASE v = "dead" -> @ + 1 [] v = "alive" -> @ - 1 [] OTHER -> @]

\* updateState (Update, Prune) and runChainDeathDetection for one chain: its
\* endpoint's answer, "none" if it declares none, and the verdict on the chain.
Measured(s, answer, v) ==
  [s EXCEPT
     !.fails = CASE answer = "fail" -> @ + 1 [] answer = "skip" -> @ [] OTHER -> 0,
     !.death = CASE v = "dead" -> @ + 1 [] v = "alive" -> 0 [] OTHER -> @]

\* runWorkers, collectResults, updateState, runChainDeathDetection; the save that
\* follows is skipped in a dry run.
Measure ==
  /\ pc = "probe"
  /\ \E answer \in [loaded -> {"pass", "fail", "skip", "none"}],
        v \in [Chain -> {"none", "dead", "alive"}] :
       /\ \A c \in loaded : answer[c] = "none" <=> ~checkout[c].declared
       /\ \A c \in Chain : v[c] # "none" => c \in loaded /\ checkout[c].declared
       /\ verdict' = v
       /\ mem' = [c \in Chain |-> IF c \in loaded THEN Measured(mem[c], answer[c], v[c])
                                  ELSE mem[c]]
       /\ truth' = [c \in Chain |->
                      IF c \in loaded /\ mode # "dry" THEN Measured(truth[c], answer[c], v[c])
                      ELSE truth[c]]
  /\ flow' = IF mode = "dry" THEN "status" ELSE "start"
  /\ pc' = IF mode = "dry" THEN "enter" ELSE "save"
  /\ UNCHANGED <<githubVars, disk, now, mode, checkout, loaded, todo, next, opened, made, lost,
                 unheard>>

\* openPRFlows calls the flows in this order.
After(f) ==
  CASE f = "start" -> "status" [] f = "status" -> "endpoint" [] f = "endpoint" -> "hash"

\* On to the next flow, or, after the last one, out of main.
Proceed ==
  IF flow = "hash" THEN pc' = "done" /\ UNCHANGED flow
  ELSE pc' = "enter" /\ flow' = After(flow)

\* saveStateMap: one file per loaded chain; a failed one is logged and skipped.
SaveStateMap ==
  /\ pc = "save"
  /\ \E ok \in IF "save" \in Faults THEN SUBSET loaded ELSE {loaded} :
       disk' = [c \in Chain |-> IF c \in ok THEN mem[c] ELSE disk[c]]
  /\ Proceed
  /\ UNCHANGED <<githubVars, runVars, mem, todo, next, opened, historyVars>>

-----------------------------------------------------------------------------
(* The flows.                                                               *)

LooksDead == {c \in Chain : verdict[c] = "dead"}

\* The candidates that runChainDeathDetection returned.
Matured == {c \in Chain : verdict[c] = "dead" /\ mem[c].death >= MinRuns}

Mismatched == {c \in loaded : checkout[c].wrong}

MutantFlagged == {c \in loaded : mem[c].fails >= MinFailures} \ Matured

\* collectFlagged without the excluded chains.
Flagged == {c \in loaded : mem[c].fails >= MinFailures} \ LooksDead

\* The flow has something to do and may do it; otherwise it returns at once.
Enters ==
  /\ mode # "notoken"
  /\ CASE flow = "status" -> Matured # {}
       [] flow = "endpoint" -> Flagged # {}
       [] flow = "hash" -> Mismatched # {}

EnterFlow(chains) ==
  /\ pc = "enter"
  /\ Enters
  /\ todo' = chains
  /\ next' = 1
  /\ opened' = 0
  /\ pc' = "loop"
  /\ UNCHANGED <<githubVars, disk, flow, runVars, made, lost, unheard>>

\* maybeOpenStatusPRs up to its loop.
EnterStatus ==
  /\ flow = "status"
  /\ EnterFlow(Matured)
  /\ UNCHANGED <<mem, truth>>

\* maybeOpenPRs up to openPRs: what passes the preflight is reset and left out.
EnterEndpoint ==
  /\ flow = "endpoint"
  /\ \E passed \in SUBSET Flagged :
       LET reset(s) == [c \in Chain |-> IF c \in passed THEN [s[c] EXCEPT !.fails = 0] ELSE s[c]]
       IN  /\ EnterFlow(Flagged \ passed)
           /\ mem' = reset(mem)
           /\ truth' = IF mode = "dry" THEN truth ELSE reset(truth)

\* maybeOpenHashPRs up to its loop, which passes over the excluded chains.
EnterHash ==
  /\ flow = "hash"
  /\ EnterFlow(Mismatched \ LooksDead)
  /\ UNCHANGED <<mem, truth>>

\* Nothing to do in this flow, or no token.
PassFlow ==
  /\ pc = "enter"
  /\ ~Enters
  /\ Proceed
  /\ UNCHANGED <<githubVars, disk, runVars, mem, todo, next, opened, historyVars>>

MutantCapOffByOne(c) ==
  /\ pc = "loop"
  /\ opened <= Cap[flow]
  /\ next \in 1..Len(Order)
  /\ c = Order[next]

\* The loop has a chain left and is under the cap of its flow.
Looking(c) ==
  /\ pc = "loop"
  /\ opened < Cap[flow]
  /\ next \in 1..Len(Order)
  /\ c = Order[next]

MutantOtherFlowsCooldown(c) ==
  /\ Cooldown > 0
  /\ mem[c].last["endpoint"] # 0
  /\ now - mem[c].last["endpoint"] < Cooldown

\* Each flow has a stamp of its own.
InCooldown(c) ==
  /\ Cooldown > 0
  /\ mem[c].last[flow] # 0
  /\ now - mem[c].last[flow] < Cooldown

\* The search for open pull requests with the label and the title of this flow and
\* chain, as Client.HasOpenPR and Client.FindOpenPR make it.
FindOpenPR(f, c) == {p \in prs : p.flow = f /\ p.chain = c /\ p.label}

Skip(c) ==
  /\ Looking(c)
  /\ c \notin todo \/ InCooldown(c)
  /\ next' = next + 1
  /\ UNCHANGED <<githubVars, disk, pc, flow, runVars, mem, todo, opened, historyVars>>

\* Dry run: the pull request is only printed, but it counts.
PrintPR(c) ==
  /\ Looking(c)
  /\ c \in todo /\ ~InCooldown(c)
  /\ mode = "dry"
  /\ next' = next + 1
  /\ opened' = opened + 1
  /\ UNCHANGED <<githubVars, disk, pc, flow, runVars, mem, todo, historyVars>>

Opening(c) ==
  /\ Looking(c)
  /\ c \in todo /\ ~InCooldown(c)
  /\ mode = "real"

\* A pull request is open, or a call before CreatePR fails.
NoPR(c) ==
  /\ Opening(c)
  /\ next' = next + 1
  /\ UNCHANGED <<githubVars, disk, pc, flow, runVars, mem, todo, opened, historyVars>>

\* A pull request of the current flow as CreatePR leaves it.
NewPR(c) == [flow |-> flow, chain |-> c, at |-> now, label |-> FALSE, notice |-> 0]

\* The flow has called CreatePR for the chain and the loop has yet to count it.
Underway(c) ==
  /\ pc \in {"label", "noticeEndpoint", "noticeHash", "count"}
  /\ next \in 1..Len(Order)
  /\ c = Order[next]

\* A fix that notifySuperseded has yet to look for.
Pending(f, c) ==
  /\ Underway(c)
  /\ \/ pc = "noticeEndpoint" /\ f \in {"endpoint", "hash"}
     \/ pc = "noticeHash" /\ f = "hash"

CreatePR(c) ==
  /\ Opening(c)
  /\ FindOpenPR(flow, c) = {}
  /\ prs' = prs \cup {NewPR(c)}
  /\ truth' = [truth EXCEPT ![c].last[flow] = now]
  /\ pc' = "label"
  /\ UNCHANGED <<registry, disk, runVars, mem, loopVars, made, lost, unheard>>

\* The label lands, on an open pull request or on one that was closed meanwhile.
\* A status pull request then has its notices to post.
AddLabels(c) ==
  /\ pc = "label"
  /\ Underway(c)
  /\ prs' = {IF p = NewPR(c) THEN [p EXCEPT !.label = TRUE] ELSE p : p \in prs}
  /\ made' = made \cup {<<flow, c>>}
  /\ IF flow = "status"
     THEN pc' = "noticeEndpoint" /\ unheard' = {fc \in unheard : fc[2] # c}
     ELSE pc' = "count" /\ UNCHANGED unheard
  /\ UNCHANGED <<registry, disk, runVars, mem, loopVars, truth, lost>>

\* The flow returns an error and the loop goes on: no notice, no stamp, no count.
LabelFails(c) ==
  /\ "label" \in Faults
  /\ pc = "label"
  /\ Underway(c)
  /\ lost' = lost \cup {c}
  /\ next' = next + 1
  /\ pc' = "loop"
  /\ UNCHANGED <<githubVars, disk, runVars, mem, flow, todo, opened, truth, made, unheard>>

\* The title notifySuperseded is at, and the one after it.
Title == IF pc = "noticeEndpoint" THEN "endpoint" ELSE "hash"

MutantFirstTitle == "count"

AfterNotice == IF pc = "noticeEndpoint" THEN "noticeHash" ELSE "count"

\* One title of notifySuperseded: the fix it finds, if any, gets a comment.
Notice(c) ==
  /\ pc \in {"noticeEndpoint", "noticeHash"}
  /\ Underway(c)
  /\ \/ FindOpenPR(Title, c) = {} /\ UNCHANGED prs
     \/ \E q \in FindOpenPR(Title, c) : prs' = (prs \ {q}) \cup {[q EXCEPT !.notice = now]}
  /\ pc' = AfterNotice
  /\ UNCHANGED <<registry, disk, runVars, mem, loopVars, historyVars>>

\* The search or the comment fails; it is logged and never tried again.
NoticeFails(c) ==
  /\ "notice" \in Faults
  /\ pc \in {"noticeEndpoint", "noticeHash"}
  /\ Underway(c)
  /\ unheard' = unheard \cup {<<Title, c>>}
  /\ pc' = AfterNotice
  /\ UNCHANGED <<githubVars, disk, runVars, mem, loopVars, truth, made, lost>>

MutantStampStale(c) ==
  /\ pc = "count"
  /\ Underway(c)
  /\ mem' = [mem EXCEPT ![c] = [disk[c] EXCEPT !.last[flow] = now]]
  /\ next' = next + 1
  /\ opened' = opened + 1
  /\ pc' = "loop"
  /\ UNCHANGED <<githubVars, disk, runVars, flow, todo, historyVars>>

\* The flow returns the pull request; the loop counts it and stamps the chain.
CountPR(c) ==
  /\ pc = "count"
  /\ Underway(c)
  /\ mem' = [mem EXCEPT ![c].last[flow] = now]
  /\ next' = next + 1
  /\ opened' = opened + 1
  /\ pc' = "loop"
  /\ UNCHANGED <<githubVars, disk, runVars, flow, todo, historyVars>>

\* The loop ends; a real run saves the state again.
EndLoop ==
  /\ pc = "loop"
  /\ opened >= Cap[flow] \/ next > Len(Order)
  /\ IF mode = "dry" THEN Proceed ELSE pc' = "save" /\ UNCHANGED flow
  /\ UNCHANGED <<githubVars, disk, runVars, mem, todo, next, opened, historyVars>>

\* The process is gone and its memory with it.
Exit ==
  /\ pc' = "idle"
  /\ flow' = "start"
  /\ mode' = "real"
  /\ checkout' = registry
  /\ loaded' = {}
  /\ mem' = [c \in Chain |-> Fresh]
  /\ verdict' = Unjudged
  /\ todo' = {}
  /\ next' = 1
  /\ opened' = 0
  /\ made' = {}
  /\ lost' = IF mode = "dry" THEN lost
             ELSE lost \cup {c \in loaded : mem[c] # disk[c] \/ Underway(c)}
  /\ unheard' = unheard \cup {fc \in Flow \X Chain : Pending(fc[1], fc[2])}
  /\ UNCHANGED <<githubVars, disk, now, truth>>

Finish == pc = "done" /\ Exit

\* The job is cancelled, or emitReport exits between the save and the flows.
Crash ==
  /\ "crash" \in Faults
  /\ pc # "idle"
  /\ Exit

-----------------------------------------------------------------------------
(* The maintainers of the registry.                                         *)

Merged(entry, f) ==
  CASE f = "status" -> [entry EXCEPT !.live = FALSE]
    [] f = "endpoint" -> [entry EXCEPT !.declared = FALSE]
    [] f = "hash" -> [entry EXCEPT !.wrong = FALSE]

MergePR(p) ==
  /\ p \in prs
  /\ prs' = prs \ {p}
  /\ registry' = [registry EXCEPT ![p.chain] = Merged(@, p.flow)]
  /\ UNCHANGED <<disk, pc, runVars, mem, loopVars, historyVars>>

ClosePR(p) ==
  /\ p \in prs
  /\ prs' = prs \ {p}
  /\ UNCHANGED <<registry, disk, pc, runVars, mem, loopVars, historyVars>>

\* A killed chain is set live again.
Revive(c) ==
  /\ ~registry[c].live
  /\ registry' = [registry EXCEPT ![c].live = TRUE]
  /\ UNCHANGED <<prs, disk, pc, runVars, mem, loopVars, historyVars>>

\* A chain that had an endpoint declares it again.
Declare(c) ==
  /\ Listed[c].declared
  /\ ~registry[c].declared
  /\ registry' = [registry EXCEPT ![c].declared = TRUE]
  /\ UNCHANGED <<prs, disk, pc, runVars, mem, loopVars, historyVars>>

-----------------------------------------------------------------------------

Process ==
  \/ StartRun
  \/ Measure
  \/ SaveStateMap
  \/ EnterStatus \/ EnterEndpoint \/ EnterHash \/ PassFlow
  \/ \E c \in Chain : Skip(c) \/ PrintPR(c) \/ NoPR(c)
  \/ \E c \in Chain : CreatePR(c) \/ AddLabels(c) \/ LabelFails(c) \/ CountPR(c)
  \/ \E c \in Chain : Notice(c) \/ NoticeFails(c)
  \/ EndLoop
  \/ Finish
  \/ Crash

Maintainer ==
  \/ \E p \in prs : MergePR(p) \/ ClosePR(p)
  \/ \E c \in Chain : Revive(c) \/ Declare(c)

Next == Process \/ Maintainer

Spec == Init /\ [][Next]_vars

-----------------------------------------------------------------------------
(* Properties.                                                              *)

\* Between runs, the state file of a chain that lost nothing says exactly what
\* was measured and opened, whichever flow wrote it last: no flow overwrites what
\* another one recorded, no run touches the files of chains it did not load, and
\* a later save of a run makes up for an earlier one that failed.
SavedStateExact == pc = "idle" => \A c \in Chain \ lost : disk[c] = truth[c]

\* The pull requests a step opens: flow and chain.
NewlyOpened == {fc \in Flow \X Chain : truth'[fc[2]].last[fc[1]] # truth[fc[2]].last[fc[1]]}

\* Fixes go to chains that were not found dying in the same run, and a chain that
\* is proposed as killed was, and had been for MinRuns judged runs unless its
\* state was lost (openPRFlows: "an endpoint or hash PR on a dying chain is
\* noise").
RightFlow ==
  [][\A fc \in NewlyOpened :
       LET c == fc[2]
       IN  IF fc[1] = "status"
           THEN verdict[c] = "dead" /\ (c \in lost \/ truth[c].death >= MinRuns)
           ELSE verdict[c] # "dead"]_vars

\* Two pull requests of one flow for one chain are a cooldown apart, whatever the
\* other flows open and save in between, unless the chain's state was lost.
FlowCooldown ==
  [][\A fc \in NewlyOpened :
       LET f == fc[1]  c == fc[2]
       IN  c \in lost \/ truth[c].last[f] = 0 \/ now >= truth[c].last[f] + Cooldown]_vars

\* Each flow of a run keeps to its own cap, not counting a pull request whose label
\* GitHub refused.
FlowCaps == \A f \in Flow : Cardinality({fc \in made : fc[1] = f}) <= Cap[f]

\* No open fix is left without word of a newer open status pull request for its
\* chain: its last comment points to that one, unless the notice is still to come
\* or a call of just this notice failed (notifySuperseded goes on after a failed
\* search or comment).  Pull requests without the label are never found.
SupersededNoticed ==
  \A p, q \in prs :
    /\ p.flow = "status" /\ q.flow # "status" /\ q.chain = p.chain
    /\ p.label /\ q.label /\ q.at < p.at
    => q.notice = p.at \/ Pending(q.flow, q.chain) \/ <<q.flow, q.chain>> \in unheard
=============================================================================
