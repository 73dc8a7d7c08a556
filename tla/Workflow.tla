------------------------------ MODULE Workflow ------------------------------
(***************************************************************************)
(* Several runs of the GitHub workflow on one repository, which nothing    *)
(* keeps from overlapping: the README's workflow starts on a schedule and  *)
(* by hand.  Each run restores the state branch, probes, opens pull        *)
(* requests one API call at a time, and pushes its state back              *)
(* (.docker/entrypoint.sh, OpenChainPR, OpenHashPR and OpenStatusPR in     *)
(* internal/github/pr.go, internal/github/client.go).                      *)
(*                                                                         *)
(* What a run decides to propose is EndpointFlow's and ChainDeath's        *)
(* business; here it is any subset of the targets.  A state tree is        *)
(* reduced to the set of events it accounts for: a run's probing, and the  *)
(* pull requests it opened.                                                *)
(***************************************************************************)
EXTENDS Naturals, Sequences, FiniteSetsExt

CONSTANTS
  Run,        \* runs of the workflow
  Target,     \* pull requests one may open: a flow and a chain, so a title
  File,       \* files of the registry
  FileOf,     \* [Target -> File]: chain.json or assetlist.json of the chain
  Order,      \* the targets in the order of openPRFlows
  Depths,     \* how actions/checkout may clone: "shallow" (its default), "full"
  Faults,     \* the faults the environment may inject, from FaultKind
  MaxVersion  \* bound: how often a file changes on the base branch

FaultKind == {"fetch", "unpack", "fatal", "call", "answer", "lsremote", "push", "cancel"}

ASSUME WorkflowAssumption ==
  /\ FileOf \in [Target -> File]
  /\ Order \in Seq(Target)
  /\ \A i, j \in 1..Len(Order) : Order[i] = Order[j] => i = j
  /\ "probe" \notin Target
  /\ Depths \subseteq {"shallow", "full"}
  /\ Faults \subseteq FaultKind
  /\ MaxVersion \in Nat

VARIABLES
  main,   \* base branch: version of each file
  refs,   \* sentinel branches: who made them, from which version, edited or not
  prs,    \* open pull requests
  log,    \* state branch: the tree of each commit, oldest first
  step,   \* per run: the next thing it does
  todo,   \* per run: targets it has still to go through
  tree,   \* per run: what its state directory accounts for
  knows,  \* per run: commits of the state branch in its clone
  plan    \* per run: what its last API calls answered

(***************************************************************************)
(* History variables: they observe the runs and never guide them.          *)
(*   made   the events that really happened                                *)
(*   met    the pairs of runs that were under way at the same time         *)
(*   seen   <<"restore", r>>: run r began with less than the state branch  *)
(*          has and with a clone that knows its tip; <<"call", r>>: a call *)
(*          of run r to the API failed                                     *)
(***************************************************************************)
VARIABLES made, met, seen

githubVars  == <<main, refs, prs, log>>
runVars     == <<step, todo, tree, knows, plan>>
historyVars == <<made, met, seen>>
vars == <<githubVars, runVars, historyVars>>

ApiStep == {"search", "number", "base", "blob", "branch", "commit", "pull", "label"}
Over    == {"green", "red"}

Event  == Run \X ({"probe"} \cup Target)
Ref    == [target : Target, n : Nat, owner : Run, version : Nat, edited : BOOLEAN]
Pull   == [target : Target, n : Nat, run : Run, label : BOOLEAN]
NoPlan == [n |-> 0, base |-> 0, blob |-> 0, parent |-> 0]

TypeOK ==
  /\ main \in [File -> Nat]
  /\ refs \subseteq Ref
  /\ prs \subseteq Pull
  /\ log \in Seq(SUBSET Event)
  /\ step \in [Run -> {"waiting", "restore", "probe", "persist", "push"} \cup ApiStep \cup Over]
  /\ todo \in [Run -> Seq(Target)]
  /\ tree \in [Run -> SUBSET Event]
  /\ knows \in [Run -> SUBSET (1..Len(log))]
  /\ plan \in [Run -> [n : Nat, base : Nat, blob : Nat, parent : Nat]]
  /\ made \subseteq Event
  /\ met \subseteq SUBSET Run
  /\ seen \subseteq {"restore", "call"} \X Run

Init ==
  /\ main = [f \in File |-> 1]
  /\ refs = {}
  /\ prs = {}
  /\ log \in {<<>>, <<{}>>}   \* no branch yet, or the state of earlier runs
  /\ step = [r \in Run |-> "waiting"]
  /\ todo = [r \in Run |-> <<>>]
  /\ tree = [r \in Run |-> {}]
  /\ knows = [r \in Run |-> {}]
  /\ plan = [r \in Run |-> NoPlan]
  /\ made = {}
  /\ met = {}
  /\ seen = {}

-----------------------------------------------------------------------------

Goto(r, s) == step' = [step EXCEPT ![r] = s]

Note(what, r) == seen' = seen \cup {<<what, r>>}

\* The step ends, and the runner's workspace goes with it.
End(r, colour) ==
  /\ Goto(r, colour)
  /\ todo' = [todo EXCEPT ![r] = <<>>]
  /\ tree' = [tree EXCEPT ![r] = {}]
  /\ knows' = [knows EXCEPT ![r] = {}]
  /\ plan' = [plan EXCEPT ![r] = NoPlan]

\* The target the run is busy with.
Current(r) == Head(todo[r])

FileNow(r) == main[FileOf[Current(r)]]

Tip == IF log = <<>> THEN {} ELSE log[Len(log)]

\* The flows are through with this target: on to the next, or to the push.
NextTarget(r) ==
  /\ todo' = [todo EXCEPT ![r] = Tail(@)]
  /\ plan' = [plan EXCEPT ![r] = NoPlan]
  /\ Goto(r, IF Tail(todo[r]) = <<>> THEN "persist" ELSE "search")

-----------------------------------------------------------------------------
(* entrypoint.sh up to the sentinel, and the sentinel up to its flows.  An  *)
(* operator named Mutant... is a slip the code could contain, in the place  *)
(* of the definition that follows it.                                       *)

\* The job starts: actions/checkout.
Start(r) ==
  /\ step[r] = "waiting"
  /\ \E depth \in Depths :
       knows' = [knows EXCEPT ![r] = IF depth = "full" THEN 1..Len(log) ELSE {}]
  /\ met' = met \cup {{r, q} : q \in {q \in Run : step[q] \notin Over \cup {"waiting"}}}
  /\ Goto(r, "restore")
  /\ UNCHANGED <<githubVars, todo, tree, plan, made, seen>>

MutantNoBranchCheck(r) == knows[r] \cup {Len(log)}

\* The fetch brings the tip of the state branch into the clone, if there is one.
Fetched(r) == IF log = <<>> THEN knows[r] ELSE knows[r] \cup {Len(log)}

\* git fetch, git archive | tar; a branch that does not exist is a fresh start.
Restore(r) ==
  /\ step[r] = "restore"
  /\ tree' = [tree EXCEPT ![r] = Tip]
  /\ knows' = [knows EXCEPT ![r] = Fetched(r)]
  /\ Goto(r, "probe")
  /\ UNCHANGED <<githubVars, todo, plan, historyVars>>

\* A fetch that fails for another reason is a fresh start, too.
FetchFails(r) ==
  /\ "fetch" \in Faults
  /\ step[r] = "restore"
  /\ Goto(r, "probe")
  /\ IF knows[r] = {} THEN UNCHANGED seen ELSE Note("restore", r)
  /\ UNCHANGED <<githubVars, todo, tree, knows, plan, made, met>>

\* "|| true": the archive is unpacked in part, or not at all.
UnpackFails(r) ==
  /\ "unpack" \in Faults
  /\ step[r] = "restore"
  /\ log # <<>>
  /\ \E part \in SUBSET Tip : part # Tip /\ tree' = [tree EXCEPT ![r] = part]
  /\ knows' = [knows EXCEPT ![r] = Fetched(r)]
  /\ Goto(r, "probe")
  /\ Note("restore", r)
  /\ UNCHANGED <<githubVars, todo, plan, made, met>>

\* What a run may want to propose, in the order of openPRFlows.
Lists ==
  LET Increasing(n) == {at \in [1..n -> DOMAIN Order] : \A i, j \in 1..n : i < j => at[i] < at[j]}
  IN  UNION {{[i \in 1..n |-> Order[at[i]]] : at \in Increasing(n)} : n \in 0..Len(Order)}

\* Probing, and saving what it showed; then the flows have a list of targets.
Probe(r) ==
  /\ step[r] = "probe"
  /\ tree' = [tree EXCEPT ![r] = @ \cup {<<r, "probe">>}]
  /\ made' = made \cup {<<r, "probe">>}
  /\ \E list \in Lists : todo' = [todo EXCEPT ![r] = list]
  /\ Goto(r, IF todo'[r] = <<>> THEN "persist" ELSE "search")
  /\ UNCHANGED <<githubVars, knows, plan, met, seen>>

\* The sentinel exits 1, and set -e ends the step: the state files cannot be
\* parsed, nothing was probed, or the report cannot be written after the probing.
ExitFatal(r) ==
  /\ "fatal" \in Faults
  /\ step[r] = "probe"
  /\ made' \in {made, made \cup {<<r, "probe">>}}
  /\ End(r, "red")
  /\ UNCHANGED <<githubVars, met, seen>>

-----------------------------------------------------------------------------
(* OpenChainPR, OpenHashPR and OpenStatusPR: one action per API call.       *)

MutantSearchOwn(r) == \E p \in prs : p.target = Current(r) /\ p.label /\ p.run = r

\* Client.HasOpenPR: an open pull request with this title and the label.
HasOpenPR(r) == \E p \in prs : p.target = Current(r) /\ p.label

Search(r) ==
  /\ step[r] = "search"
  /\ IF HasOpenPR(r)
     THEN NextTarget(r)
     ELSE Goto(r, "number") /\ UNCHANGED <<todo, plan>>
  /\ UNCHANGED <<githubVars, tree, knows, historyVars>>

\* Client.NextBranchN.
Number(r) ==
  /\ step[r] = "number"
  /\ LET taken == {b.n : b \in {b \in refs : b.target = Current(r)}}
     IN  plan' = [plan EXCEPT ![r].n = Max(taken \cup {0}) + 1]
  /\ Goto(r, "base")
  /\ UNCHANGED <<githubVars, todo, tree, knows, historyVars>>

\* prepareCommit, first call: the head of the base branch.
Base(r) ==
  /\ step[r] = "base"
  /\ plan' = [plan EXCEPT ![r].base = FileNow(r)]
  /\ Goto(r, "blob")
  /\ UNCHANGED <<githubVars, todo, tree, knows, historyVars>>

\* prepareCommit, second call: the file as it is on the base branch by now.
Blob(r) ==
  /\ step[r] = "blob"
  /\ plan' = [plan EXCEPT ![r].blob = FileNow(r)]
  /\ Goto(r, "branch")
  /\ UNCHANGED <<githubVars, todo, tree, knows, historyVars>>

\* The edit of the checkout's file turns out to change nothing.
NothingToEdit(r) ==
  /\ step[r] = "branch"
  /\ NextTarget(r)
  /\ UNCHANGED <<githubVars, tree, knows, historyVars>>

\* The name the run has chosen is taken on GitHub.
Taken(r) == \E b \in refs : b.target = Current(r) /\ b.n = plan[r].n

OwnBranch(r) ==
  [target |-> Current(r), n |-> plan[r].n, owner |-> r, version |-> plan[r].base,
   edited |-> FALSE]

MutantBranchExistsIsFine(r) == refs' = IF Taken(r) THEN refs ELSE refs \cup {OwnBranch(r)}

\* GitHub creates the branch, unless its name is taken.
NewBranch(r) == ~Taken(r) /\ refs' = refs \cup {OwnBranch(r)}

\* The branch whose file still has the blob SHA the run sends.
Committable(r) ==
  {b \in refs : /\ b.target = Current(r) /\ b.n = plan[r].n
                /\ b.version = plan[r].blob /\ ~b.edited}

\* GitHub commits, unless the blob SHA is another one by now.
Edited(r) ==
  \E b \in Committable(r) : refs' = (refs \ {b}) \cup {[b EXCEPT !.edited = TRUE]}

\* GitHub opens the pull request, without a label.
NewPull(r) ==
  /\ prs' = prs \cup {[target |-> Current(r), n |-> plan[r].n, run |-> r, label |-> FALSE]}
  /\ made' = made \cup {<<r, Current(r)>>}

\* GitHub labels the pull request, open or closed by now.
Labelled(r) ==
  prs' = {IF p.target = Current(r) /\ p.n = plan[r].n /\ p.run = r
          THEN [p EXCEPT !.label = TRUE] ELSE p : p \in prs}

CreateBranch(r) ==
  /\ step[r] = "branch"
  /\ NewBranch(r)
  /\ Goto(r, "commit")
  /\ UNCHANGED <<main, prs, log, todo, tree, knows, plan, historyVars>>

CommitFile(r) ==
  /\ step[r] = "commit"
  /\ Edited(r)
  /\ Goto(r, "pull")
  /\ UNCHANGED <<main, prs, log, todo, tree, knows, plan, historyVars>>

CreatePR(r) ==
  /\ step[r] = "pull"
  /\ NewPull(r)
  /\ Goto(r, "label")
  /\ UNCHANGED <<main, refs, log, todo, tree, knows, plan, met, seen>>

MutantNoStamp(r) == tree' = tree

\* The flow stamps the chain and saves its state.
Stamp(r) == tree' = [tree EXCEPT ![r] = @ \cup {<<r, Current(r)>>}]

AddLabels(r) ==
  /\ step[r] = "label"
  /\ Labelled(r)
  /\ Stamp(r)
  /\ NextTarget(r)
  /\ UNCHANGED <<main, refs, log, knows, historyVars>>

\* GitHub refuses: the branch exists, or the file has another blob SHA.
Refused(r) ==
  /\ \/ step[r] = "branch" /\ Taken(r)
     \/ step[r] = "commit" /\ Committable(r) = {}
  /\ NextTarget(r)
  /\ UNCHANGED <<githubVars, tree, knows, historyVars>>

\* A call fails and has no effect; the flow logs it and gives the target up.
CallFails(r) ==
  /\ "call" \in Faults
  /\ step[r] \in ApiStep
  /\ NextTarget(r)
  /\ Note("call", r)
  /\ UNCHANGED <<githubVars, tree, knows, made, met>>

\* A call has its effect and its answer is lost: to the flow it failed.
AnswerLost(r) ==
  /\ "answer" \in Faults
  /\ \/ step[r] = "branch" /\ NewBranch(r) /\ UNCHANGED <<prs, made>>
     \/ step[r] = "commit" /\ Edited(r) /\ UNCHANGED <<prs, made>>
     \/ step[r] = "pull" /\ NewPull(r) /\ UNCHANGED refs
     \/ step[r] = "label" /\ Labelled(r) /\ UNCHANGED <<refs, made>>
  /\ NextTarget(r)
  /\ Note("call", r)
  /\ UNCHANGED <<main, log, tree, knows, met>>

-----------------------------------------------------------------------------
(* entrypoint.sh after the sentinel.                                        *)

LsRemote(r) ==
  /\ step[r] = "persist"
  /\ plan' = [plan EXCEPT ![r].parent = Len(log)]
  /\ Goto(r, "push")
  /\ UNCHANGED <<githubVars, todo, tree, knows, historyVars>>

\* awk hides the failure of git ls-remote: the commit gets no parent.
LsRemoteFails(r) ==
  /\ "lsremote" \in Faults
  /\ step[r] = "persist"
  /\ Goto(r, "push")
  /\ UNCHANGED <<githubVars, todo, tree, knows, plan, historyVars>>

MutantForcePush(r) == TRUE

\* git commit-tree needs the parent's object in the clone, git push only goes
\* forward from the tip of the branch.
Accepted(r) ==
  /\ plan[r].parent \in knows[r] \cup {0}
  /\ plan[r].parent = Len(log)

Push(r) ==
  /\ step[r] = "push"
  /\ Accepted(r)
  /\ log' = Append(log, tree[r])
  /\ End(r, "green")
  /\ UNCHANGED <<main, refs, prs, historyVars>>

PushRejected(r) ==
  /\ step[r] = "push"
  /\ ~Accepted(r)
  /\ End(r, "red")
  /\ UNCHANGED <<githubVars, historyVars>>

\* The push fails, or it succeeds and nobody learns of it.
PushFails(r) ==
  /\ "push" \in Faults
  /\ step[r] = "push"
  /\ \/ UNCHANGED log
     \/ Accepted(r) /\ log' = Append(log, tree[r])
  /\ End(r, "red")
  /\ UNCHANGED <<main, refs, prs, historyVars>>

\* The job is cancelled or times out.
Cancel(r) ==
  /\ "cancel" \in Faults
  /\ step[r] \notin Over \cup {"waiting"}
  /\ End(r, "red")
  /\ UNCHANGED <<githubVars, historyVars>>

-----------------------------------------------------------------------------
(* The maintainers of the registry.                                         *)

Edit(f) ==
  /\ main[f] < MaxVersion
  /\ main' = [main EXCEPT ![f] = @ + 1]
  /\ UNCHANGED <<refs, prs, log, runVars, historyVars>>

\* Merge or close a pull request; its branch may go with it.
Resolve(p) ==
  /\ prs' = prs \ {p}
  /\ \/ UNCHANGED main
     \/ /\ main[FileOf[p.target]] < MaxVersion
        /\ main' = [main EXCEPT ![FileOf[p.target]] = @ + 1]
  /\ refs' \in {refs, {b \in refs : ~(b.target = p.target /\ b.n = p.n)}}
  /\ UNCHANGED <<log, runVars, historyVars>>

-----------------------------------------------------------------------------

RunStep(r) ==
  \/ Start(r) \/ Restore(r) \/ FetchFails(r) \/ UnpackFails(r) \/ Probe(r) \/ ExitFatal(r)
  \/ Search(r) \/ Number(r) \/ Base(r) \/ Blob(r) \/ NothingToEdit(r)
  \/ CreateBranch(r) \/ CommitFile(r) \/ CreatePR(r) \/ AddLabels(r)
  \/ Refused(r) \/ CallFails(r) \/ AnswerLost(r)
  \/ LsRemote(r) \/ LsRemoteFails(r) \/ Push(r) \/ PushRejected(r) \/ PushFails(r) \/ Cancel(r)

Maintainer ==
  \/ \E f \in File : Edit(f)
  \/ \E p \in prs : Resolve(p)

Next == (\E r \in Run : RunStep(r)) \/ Maintainer

Spec == Init /\ [][Next]_vars

-----------------------------------------------------------------------------
(* Properties.                                                              *)

\* However runs overlap and fetches fail, a push never drops what the state
\* branch accounts for: git refuses a parent the clone does not have.  Two
\* slips of the restore go through nevertheless: an archive unpacked in part,
\* and a failed fetch in a full clone.
NothingDropped ==
  [][\A r \in Run :
       step[r] = "push" /\ step'[r] \in Over /\ <<"restore", r>> \notin seen =>
         Tip \subseteq Tip']_vars

\* What a green run measured and opened is in the state branch for good, unless
\* one of its calls failed or a restore slipped.
GreenIsRemembered ==
  \A e \in made :
    /\ step[e[1]] = "green"
    /\ <<"call", e[1]>> \notin seen
    /\ \A r \in Run : <<"restore", r>> \notin seen
    => e \in Tip

\* A commit lands on the branch of the run that commits and is the first on it:
\* of two runs that chose one name, neither ever edits the other's branch
\* (CreateBranch before CreateOrUpdateFile).
BranchesAreOwn ==
  [][\A b \in refs' \ refs : b.edited =>
       /\ step[b.owner] = "commit" /\ step'[b.owner] # "commit"
       /\ [b EXCEPT !.edited = FALSE] \in refs]_vars

\* Two labelled pull requests with one title are open only if their runs
\* overlapped.
OnePRPerTarget ==
  \A p, q \in prs :
    p # q /\ p.target = q.target /\ p.label /\ q.label => {p.run, q.run} \in met
=============================================================================
