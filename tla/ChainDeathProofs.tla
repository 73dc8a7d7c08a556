-------------------------- MODULE ChainDeathProofs --------------------------
(***************************************************************************)
(* Proofs about ChainDeath, for every set of chains and endpoints, every   *)
(* number of runs and every value of the thresholds.                       *)
(*                                                                         *)
(* The results of a run enter the state through a verdict, so two lemmas   *)
(* say what every verdict satisfies: only loaded chains are judged, and no *)
(* chain with a fresh block is found dead.  The rest is one inductive      *)
(* invariant that ties the state in memory, and the state files of the     *)
(* chains the run did not load, to the history.                            *)
(***************************************************************************)
EXTENDS ChainDeath, TLAPS

(***************************************************************************)
(* What every verdict satisfies.                                           *)
(***************************************************************************)

\* Only a chain the run probed is judged.
LEMMA JudgedIsProbed ==
  ASSUME NEW chains \in SUBSET Chain, NEW res \in Results(chains)
  PROVE  Judged(res) \subseteq chains
<1> SUFFICES ASSUME NEW c \in Judged(res)
             PROVE  c \in chains
  OBVIOUS
<1>1. PICK e \in DOMAIN res : ChainOf[e] = c
  BY DEF Judged, Core, Which
<1>2. DOMAIN res = {x \in Endpoint : ChainOf[x] \in chains}
  BY DEF Results
<1>3. QED
  BY <1>1, <1>2

\* A chain that looks dead served no fresh block: of its RPC endpoints either
\* none passed, or all that are synced are stale.
LEMMA DyingServesNothing ==
  ASSUME NEW res, NEW c, ChainLooksDead(res, c),
         NEW e \in Which(res, c, {"live"}), CheckOf[e] = "rpc"
  PROVE  FALSE
<1>1. e \in DOMAIN res /\ ChainOf[e] = c /\ res[e] = "live"
  BY DEF Which
<1>2. CASE Unreachable(res, c)
  <2>1. e \in Core(res, c, Passed)
    BY <1>1 DEF Core, Which, Passed, IsCore
  <2>2. QED
    BY <1>2, <2>1 DEF Unreachable
<1>3. CASE Halted(res, c)
  <2>1. e \in {x \in Which(res, c, {"live", "stale"}) : CheckOf[x] = "rpc"}
    BY <1>1 DEF Which
  <2>2. QED
    BY <1>1, <1>3, <2>1 DEF Halted
<1>4. QED
  BY <1>2, <1>3 DEF ChainLooksDead

LEMMA VerdictSound ==
  ASSUME NEW v \in Verdicts
  PROVE  /\ v.chains \subseteq Chain
         /\ v.judged \subseteq v.chains
         /\ v.dying \subseteq v.judged
         /\ v.serving = {}
<1> PICK chains \in SUBSET Chain : \E res \in Results(chains) : v = Verdict(chains, res)
  BY DEF Verdicts
<1> PICK res \in Results(chains) : v = Verdict(chains, res)
  OBVIOUS
<1>1. /\ v.chains = chains
      /\ v.judged = Judged(res)
      /\ v.dying = {c \in v.judged : ChainLooksDead(res, c)}
      /\ v.serving = {c \in v.dying : \E e \in Which(res, c, {"live"}) : CheckOf[e] = "rpc"}
  BY DEF Verdict
<1>2. v.judged \subseteq chains
  BY <1>1, JudgedIsProbed
<1>3. v.serving = {}
  BY <1>1, DyingServesNothing
<1>4. QED
  BY <1>1, <1>2, <1>3

-----------------------------------------------------------------------------

\* The type invariant holds of every state.
THEOREM TypeCorrect == Spec => []TypeOK
<1>1. Init => TypeOK
  BY DEF Init, TypeOK, Fresh, DeathState
<1>2. TypeOK /\ [Next]_vars => TypeOK'
  <2> SUFFICES ASSUME TypeOK, [Next]_vars
               PROVE  TypeOK'
    OBVIOUS
  <2> USE DEF TypeOK
  <2>1. CASE StartRun
    <3>1. now' \in Nat
      BY <2>1, DeathAssumption DEF StartRun
    <3>2. loaded' \subseteq Chain
      BY <2>1 DEF StartRun
    <3>3. mem' \in [Chain -> DeathState]
      BY <2>1 DEF StartRun, Fresh, DeathState
    <3>4. QED
      BY <2>1, <3>1, <3>2, <3>3 DEF StartRun, githubVars, verdictVars
  <2>2. CASE Detect
    <3> PICK v \in Verdicts :
          /\ looksDead' = v.dying
          /\ mem' = [c \in Chain |->
                       IF c \notin v.judged THEN mem[c]
                       ELSE IF c \in v.dying THEN Advance(mem[c]) ELSE Reset(mem[c])]
          /\ candidates' = {c \in v.judged : mem'[c].streak >= MinRuns}
          /\ serving' = v.serving
          /\ truth' = [c \in Chain |->
               IF mode = "dry" \/ c \notin v.judged THEN truth[c]
               ELSE [streak |-> IF c \in v.dying THEN truth[c].streak + 1 ELSE 0,
                     first  |-> IF c \notin v.dying THEN 0
                                ELSE IF truth[c].streak = 0 THEN now ELSE truth[c].first,
                     last   |-> truth[c].last]]
      BY <2>2 DEF Detect
    <3>1. /\ looksDead' \subseteq Chain /\ candidates' \subseteq Chain
          /\ serving' \subseteq Chain
      BY VerdictSound
    <3>2. mem' \in [Chain -> DeathState]
      BY DEF Advance, Reset, DeathState
    <3>3. truth' \in [Chain -> DeathState]
      <4> SUFFICES ASSUME NEW c \in Chain, mode # "dry", c \in v.judged
                   PROVE  [streak |-> IF c \in v.dying THEN truth[c].streak + 1 ELSE 0,
                           first  |-> IF c \notin v.dying THEN 0
                                      ELSE IF truth[c].streak = 0 THEN now ELSE truth[c].first,
                           last   |-> truth[c].last] \in DeathState
        OBVIOUS
      <4>1. /\ truth[c].streak \in Nat /\ truth[c].first \in Nat /\ truth[c].last \in Nat
            /\ now \in Nat
        BY DEF DeathState
      <4>2. QED
        BY <4>1 DEF DeathState
    <3>4. pc' \in {"flows", "save"}
      BY <2>2 DEF Detect
    <3>5. UNCHANGED <<status, prs, disk, now, mode, loaded, next, opened, lost>>
      BY <2>2 DEF Detect, githubVars, runVars
    <3>6. QED
      BY <3>1, <3>2, <3>3, <3>4, <3>5
  <2>3. CASE SaveStateMap
    <3>1. PICK ok \in SUBSET Chain : disk' = [c \in Chain |-> IF c \in ok THEN mem[c] ELSE disk[c]]
      BY <2>3 DEF SaveStateMap
    <3>2. disk' \in [Chain -> DeathState]
      BY <3>1
    <3>3. QED
      BY <2>3, <3>2 DEF SaveStateMap, githubVars, runVars, verdictVars
  <2>4. ASSUME NEW c \in Chain, SkipChain(c) \/ PrintPR(c) \/ NoPR(c)
        PROVE  TypeOK'
    <3>1. next' \in Nat \ {0} /\ opened' \in Nat
      BY <2>4 DEF SkipChain, PrintPR, NoPR
    <3>2. UNCHANGED <<githubVars, disk, pc, runVars, mem, verdictVars, truth, lost>>
      BY <2>4 DEF SkipChain, PrintPR, NoPR
    <3>3. QED
      BY <3>1, <3>2 DEF githubVars, runVars, verdictVars
  <2>5. ASSUME NEW c \in Chain, OpenStatusPR(c) \/ OpenUnlabelledPR(c)
        PROVE  TypeOK'
    <3> PICK labelled \in BOOLEAN : CreatePR(c, labelled)
      BY <2>5 DEF OpenStatusPR, OpenUnlabelledPR
    <3>1. prs' \subseteq PullRequest
      <4>1. [chain |-> c, at |-> now, label |-> labelled] \in PullRequest
        BY DEF PullRequest
      <4>2. QED
        BY <4>1 DEF CreatePR
    <3>2. truth' \in [Chain -> DeathState] /\ next' \in Nat \ {0}
      BY DEF CreatePR, DeathState
    <3>3. opened' \in Nat /\ mem' \in [Chain -> DeathState] /\ lost' \subseteq Chain
      <4>1. CASE OpenStatusPR(c)
        BY <4>1 DEF OpenStatusPR, DeathState
      <4>2. CASE OpenUnlabelledPR(c)
        BY <4>2 DEF OpenUnlabelledPR
      <4>3. QED
        BY <2>5, <4>1, <4>2
    <3>4. UNCHANGED <<status, disk, pc, now, mode, loaded, looksDead, candidates, serving>>
      BY DEF CreatePR, runVars, verdictVars
    <3>5. QED
      BY <3>1, <3>2, <3>3, <3>4
  <2>6. CASE EndLoop
    BY <2>6 DEF EndLoop, githubVars, runVars, verdictVars
  <2>7. CASE Finish \/ Crash
    BY <2>7 DEF Finish, Crash, Exit, Fresh, DeathState, githubVars
  <2>8. CASE Maintainer
    BY <2>8 DEF Maintainer, MergePR, ClosePR, Revive, PullRequest, runVars, verdictVars
  <2>9. CASE UNCHANGED vars
    BY <2>9 DEF vars, githubVars, runVars, verdictVars
  <2>10. QED
    BY <2>1, <2>2, <2>3, <2>4, <2>5, <2>6, <2>7, <2>8, <2>9 DEF Next, Process
<1>3. QED
  BY <1>1, <1>2, PTL DEF Spec

-----------------------------------------------------------------------------

(***************************************************************************)
(* The inductive invariant.                                                *)
(***************************************************************************)

\* During a run, the memory is exact for the chains the run loaded and the
\* state files are exact for the others.
MemoryExact ==
  pc # "idle" /\ mode # "dry" =>
    \A c \in Chain \ lost :
      IF c \in loaded THEN mem[c] = truth[c] ELSE disk[c] = truth[c]

\* A dry run leaves the state files as it found them, and never saves.
DryRunSavesNothing ==
  mode = "dry" =>
    /\ pc \notin {"save", "final"}
    /\ \A c \in Chain \ lost : disk[c] = truth[c]

\* The candidates are loaded chains that look dead, with a mature streak.
CandidatesMature ==
  pc \in {"save", "flows"} =>
    \A c \in candidates : c \in loaded /\ c \in looksDead /\ mem[c].streak >= MinRuns

\* No pull request comes from the future.
OpenedInPast == \A c \in Chain : truth[c].last <= now

IInv ==
  /\ TypeOK
  /\ SavedStateExact
  /\ MemoryExact
  /\ DryRunSavesNothing
  /\ CandidatesMature
  /\ serving = {}
  /\ OpenedInPast

LEMMA InvInit == Init => IInv
BY DeathAssumption DEF Init, IInv, TypeOK, Fresh, DeathState, SavedStateExact, MemoryExact,
   DryRunSavesNothing, CandidatesMature, OpenedInPast

LEMMA InvNext == IInv /\ TypeOK' /\ [Next]_vars => IInv'
<1> SUFFICES ASSUME IInv, TypeOK', [Next]_vars
             PROVE  IInv'
  OBVIOUS
<1> USE DEF IInv
<1>1. CASE StartRun
  <2>1. /\ pc = "idle" /\ pc' = "detect" /\ now < now'
        /\ mem' = [c \in Chain |-> IF c \in loaded' THEN disk[c] ELSE Fresh]
        /\ UNCHANGED <<disk, serving, truth, lost>>
    BY <1>1 DEF StartRun, verdictVars, TypeOK
  <2>2. MemoryExact' /\ DryRunSavesNothing'
    BY <2>1 DEF MemoryExact, DryRunSavesNothing, SavedStateExact
  <2>3. OpenedInPast'
    BY <2>1 DEF OpenedInPast, TypeOK, DeathState
  <2>4. QED
    BY <2>1, <2>2, <2>3 DEF SavedStateExact, CandidatesMature
<1>2. CASE Detect
  <2> PICK v \in Verdicts :
        /\ v.chains = loaded
        /\ looksDead' = v.dying
        /\ mem' = [c \in Chain |->
                     IF c \notin v.judged THEN mem[c]
                     ELSE IF c \in v.dying THEN Advance(mem[c]) ELSE Reset(mem[c])]
        /\ candidates' = {c \in v.judged : mem'[c].streak >= MinRuns}
        /\ serving' = v.serving
        /\ truth' = [c \in Chain |->
             IF mode = "dry" \/ c \notin v.judged THEN truth[c]
             ELSE [streak |-> IF c \in v.dying THEN truth[c].streak + 1 ELSE 0,
                   first  |-> IF c \notin v.dying THEN 0
                              ELSE IF truth[c].streak = 0 THEN now ELSE truth[c].first,
                   last   |-> truth[c].last]]
    BY <1>2 DEF Detect
  <2>1. /\ pc = "detect"
        /\ pc' = IF mode = "dry" THEN "flows" ELSE "save"
        /\ UNCHANGED <<disk, now, mode, loaded, lost>>
    BY <1>2 DEF Detect, runVars
  <2>2. v.judged \subseteq loaded /\ v.dying \subseteq v.judged /\ serving' = {}
    BY VerdictSound
  <2>3. MemoryExact'
    <3> SUFFICES ASSUME NEW c \in Chain \ lost, mode # "dry"
                 PROVE  IF c \in loaded THEN mem'[c] = truth'[c] ELSE disk[c] = truth'[c]
      BY <2>1 DEF MemoryExact
    <3>1. IF c \in loaded THEN mem[c] = truth[c] ELSE disk[c] = truth[c]
      BY <2>1 DEF MemoryExact
    <3>2. mem[c] \in DeathState
      BY DEF TypeOK
    <3>3. CASE c \notin v.judged
      BY <3>1, <3>3
    <3>4. CASE c \in v.dying
      BY <2>2, <3>1, <3>2, <3>4 DEF Advance
    <3>5. CASE c \in v.judged \ v.dying
      BY <2>2, <3>1, <3>2, <3>5 DEF Reset
    <3>6. QED
      BY <3>3, <3>4, <3>5
  <2>4. CandidatesMature'
    <3> SUFFICES ASSUME NEW c \in candidates'
                 PROVE  c \in loaded /\ c \in looksDead' /\ mem'[c].streak >= MinRuns
      BY <2>1 DEF CandidatesMature
    <3>1. c \in v.judged /\ c \in Chain /\ mem'[c].streak >= MinRuns
      BY <2>2 DEF TypeOK
    <3>2. ASSUME c \notin v.dying
          PROVE  FALSE
      <4>1. mem'[c] = Reset(mem[c]) /\ mem[c] \in DeathState
        BY <3>1, <3>2 DEF TypeOK
      <4>2. mem'[c].streak = 0
        BY <4>1 DEF Reset
      <4>3. QED
        BY <3>1, <4>2, DeathAssumption
    <3>3. QED
      BY <2>2, <3>1, <3>2
  <2>5. DryRunSavesNothing'
    BY <2>1 DEF DryRunSavesNothing
  <2>6. OpenedInPast'
    BY <2>1 DEF OpenedInPast
  <2>7. QED
    BY <2>1, <2>2, <2>3, <2>4, <2>5, <2>6 DEF SavedStateExact
<1>3. CASE SaveStateMap
  <2> PICK ok \in SUBSET loaded : disk' = [c \in Chain |-> IF c \in ok THEN mem[c] ELSE disk[c]]
    BY <1>3 DEF SaveStateMap
  <2>1. /\ pc \in {"save", "final"}
        /\ pc' = IF pc = "save" THEN "flows" ELSE "done"
        /\ UNCHANGED <<now, mode, loaded, mem, looksDead, candidates, serving, truth, lost>>
    BY <1>3 DEF SaveStateMap, runVars, verdictVars
  <2>2. mode # "dry"
    BY <2>1 DEF DryRunSavesNothing
  <2>3. MemoryExact'
    BY <2>1, <2>2 DEF MemoryExact
  <2>4. CandidatesMature' /\ OpenedInPast'
    BY <2>1 DEF CandidatesMature, OpenedInPast
  <2>5. QED
    BY <2>1, <2>2, <2>3, <2>4 DEF SavedStateExact, DryRunSavesNothing
<1>4. ASSUME NEW c \in Chain, SkipChain(c) \/ PrintPR(c) \/ NoPR(c)
      PROVE  IInv'
  <2>1. UNCHANGED <<disk, pc, now, mode, loaded, mem, looksDead, candidates, serving, truth,
                    lost>>
    BY <1>4 DEF SkipChain, PrintPR, NoPR, runVars, verdictVars
  <2>2. QED
    BY <2>1 DEF SavedStateExact, MemoryExact, DryRunSavesNothing, CandidatesMature,
                OpenedInPast
<1>5. ASSUME NEW c \in Chain, OpenStatusPR(c) \/ OpenUnlabelledPR(c)
      PROVE  IInv'
  <2> PICK labelled \in BOOLEAN : CreatePR(c, labelled)
    BY <1>5 DEF OpenStatusPR, OpenUnlabelledPR
  <2>1. /\ pc = "flows" /\ mode # "dry" /\ c \in candidates
        /\ truth' = [truth EXCEPT ![c].last = now]
        /\ UNCHANGED <<disk, pc, now, mode, loaded, looksDead, candidates, serving>>
    BY DEF CreatePR, Opening, Looking, runVars, verdictVars
  <2>2. MemoryExact' /\ CandidatesMature'
    <3>1. CASE OpenStatusPR(c)
      <4>1. mem' = [mem EXCEPT ![c].last = now] /\ lost' = lost
        BY <3>1 DEF OpenStatusPR
      <4>2. c \in loaded
        BY <2>1 DEF CandidatesMature
      <4>3. MemoryExact'
        <5> SUFFICES ASSUME NEW d \in Chain \ lost
                     PROVE  IF d \in loaded THEN mem'[d] = truth'[d] ELSE disk[d] = truth'[d]
          BY <2>1, <4>1 DEF MemoryExact
        <5>1. IF d \in loaded THEN mem[d] = truth[d] ELSE disk[d] = truth[d]
          BY <2>1 DEF MemoryExact
        <5>2. CASE d = c
          BY <2>1, <4>1, <4>2, <5>1, <5>2 DEF TypeOK
        <5>3. CASE d # c
          BY <2>1, <4>1, <5>1, <5>3 DEF TypeOK
        <5>4. QED
          BY <5>2, <5>3
      <4>4. \A d \in Chain : mem'[d].streak = mem[d].streak
        BY <4>1 DEF TypeOK, DeathState
      <4>5. CandidatesMature'
        BY <2>1, <4>4 DEF CandidatesMature, TypeOK
      <4>6. QED
        BY <4>3, <4>5
    <3>2. CASE OpenUnlabelledPR(c)
      <4>1. mem' = mem /\ lost' = lost \cup {c}
        BY <3>2 DEF OpenUnlabelledPR
      <4>2. QED
        BY <2>1, <4>1 DEF MemoryExact, CandidatesMature, TypeOK
    <3>3. QED
      BY <1>5, <3>1, <3>2
  <2>3. OpenedInPast'
    BY <2>1 DEF OpenedInPast, TypeOK, DeathState
  <2>4. QED
    BY <2>1, <2>2, <2>3 DEF SavedStateExact, DryRunSavesNothing
<1>6. CASE EndLoop
  <2>1. /\ pc' = IF mode = "dry" THEN "done" ELSE "final"
        /\ pc = "flows"
        /\ UNCHANGED <<disk, now, mode, loaded, mem, serving, truth, lost>>
    BY <1>6 DEF EndLoop, runVars, verdictVars
  <2>2. QED
    BY <2>1 DEF SavedStateExact, MemoryExact, DryRunSavesNothing, CandidatesMature,
                OpenedInPast
<1>7. CASE Finish \/ Crash
  <2>1. Exit /\ pc # "idle"
    BY <1>7 DEF Finish, Crash
  <2>2. SavedStateExact'
    <3> SUFFICES ASSUME NEW c \in Chain \ lost'
                 PROVE  disk[c] = truth[c]
      BY <2>1 DEF SavedStateExact, Exit
    <3>1. CASE mode = "dry"
      BY <2>1, <3>1 DEF Exit, DryRunSavesNothing
    <3>2. CASE mode # "dry"
      <4>1. c \notin lost /\ (c \in loaded => mem[c] = disk[c])
        BY <2>1, <3>2 DEF Exit
      <4>2. QED
        BY <2>1, <3>2, <4>1 DEF MemoryExact
    <3>3. QED
      BY <3>1, <3>2
  <2>3. QED
    BY <2>1, <2>2 DEF Exit, MemoryExact, DryRunSavesNothing, CandidatesMature, OpenedInPast
<1>8. CASE Maintainer
  <2>1. UNCHANGED <<disk, pc, now, mode, loaded, mem, looksDead, candidates, serving, truth,
                    lost>>
    BY <1>8 DEF Maintainer, MergePR, ClosePR, Revive, runVars, verdictVars
  <2>2. QED
    BY <2>1 DEF SavedStateExact, MemoryExact, DryRunSavesNothing, CandidatesMature,
                OpenedInPast
<1>9. CASE UNCHANGED vars
  BY <1>9 DEF vars, runVars, verdictVars, SavedStateExact, MemoryExact, DryRunSavesNothing,
              CandidatesMature, OpenedInPast
<1>10. QED
  BY <1>1, <1>2, <1>3, <1>4, <1>5, <1>6, <1>7, <1>8, <1>9 DEF Next, Process

THEOREM InvHolds == Spec => []IInv
BY InvInit, InvNext, TypeCorrect, PTL DEF Spec

-----------------------------------------------------------------------------

(***************************************************************************)
(* What follows from it.                                                   *)
(***************************************************************************)

\* Between runs the file of a chain that lost nothing holds exactly the length
\* of its death streak, when the streak began, and its last pull request.
THEOREM SavedStateIsExact == Spec => []SavedStateExact
<1>1. IInv => SavedStateExact
  BY DEF IInv
<1>2. QED
  BY <1>1, InvHolds, PTL

\* A step that makes a status pull request appear is CreatePR.
LEMMA NewPRIsCreated ==
  ASSUME [Next]_vars, NEW p \in NewPRs
  PROVE  p.chain \in Chain /\ Opening(p.chain)
<1>1. ASSUME NEW c \in Chain, NEW labelled \in BOOLEAN, CreatePR(c, labelled)
      PROVE  p.chain = c /\ Opening(c)
  BY <1>1 DEF CreatePR, NewPRs
<1>2. CASE \E c \in Chain : OpenStatusPR(c) \/ OpenUnlabelledPR(c)
  BY <1>1, <1>2 DEF OpenStatusPR, OpenUnlabelledPR
<1>3. CASE ~\E c \in Chain : OpenStatusPR(c) \/ OpenUnlabelledPR(c)
  <2>1. prs' \subseteq prs
    BY <1>3 DEF Next, Process, Maintainer, StartRun, Detect, SaveStateMap, SkipChain, PrintPR,
                NoPR, EndLoop, Finish, Crash, Exit, MergePR, ClosePR, Revive, vars, githubVars
  <2>2. QED
    BY <2>1 DEF NewPRs
<1>4. QED
  BY <1>2, <1>3

\* A status pull request is opened only for a chain that looks dead in this
\* very run, serves no fresh block and, if nothing of it was lost, looked dead
\* in MinRuns judged runs in a row.
THEOREM StatusFlipsJustified == Spec => StatusFlipJustified
<1>1. IInv /\ [Next]_vars =>
        [\A p \in NewPRs :
           /\ p.chain \in looksDead \ serving
           /\ p.chain \notin lost => truth[p.chain].streak >= MinRuns]_vars
  <2> SUFFICES ASSUME IInv, [Next]_vars, NEW p \in NewPRs
               PROVE  /\ p.chain \in looksDead \ serving
                      /\ p.chain \notin lost => truth[p.chain].streak >= MinRuns
    OBVIOUS
  <2>1. /\ p.chain \in Chain /\ p.chain \in candidates
        /\ pc = "flows" /\ mode # "dry"
    BY NewPRIsCreated DEF Opening, Looking
  <2>2. /\ p.chain \in loaded /\ p.chain \in looksDead
        /\ mem[p.chain].streak >= MinRuns /\ serving = {}
    BY <2>1 DEF IInv, CandidatesMature
  <2>3. p.chain \notin lost => mem[p.chain] = truth[p.chain]
    BY <2>1, <2>2 DEF IInv, MemoryExact
  <2>4. QED
    BY <2>2, <2>3
<1>2. QED
  BY <1>1, InvHolds, PTL DEF Spec, StatusFlipJustified

\* The cooldown lies between two status pull requests of a chain that lost
\* nothing.
THEOREM StatusCooldownKept == Spec => StatusCooldownRespected
<1>1. IInv /\ [Next]_vars =>
        [\A p \in NewPRs :
           \/ p.chain \in lost
           \/ truth[p.chain].last = 0
           \/ now >= truth[p.chain].last + Cooldown]_vars
  <2> SUFFICES ASSUME IInv, [Next]_vars, NEW p \in NewPRs,
                      p.chain \notin lost, truth[p.chain].last # 0
               PROVE  now >= truth[p.chain].last + Cooldown
    OBVIOUS
  <2>1. /\ p.chain \in Chain /\ p.chain \in candidates
        /\ pc = "flows" /\ mode # "dry" /\ ~InCooldown(p.chain)
    BY NewPRIsCreated DEF Opening, Looking
  <2>2. mem[p.chain].last = truth[p.chain].last
    BY <2>1 DEF IInv, MemoryExact, CandidatesMature
  <2>3. /\ truth[p.chain].last <= now
        /\ truth[p.chain].last \in Nat /\ now \in Nat
    BY <2>1 DEF IInv, OpenedInPast, TypeOK, DeathState
  <2>4. QED
    BY <2>1, <2>2, <2>3, DeathAssumption DEF InCooldown
<1>2. QED
  BY <1>1, InvHolds, PTL DEF Spec, StatusCooldownRespected

=============================================================================
