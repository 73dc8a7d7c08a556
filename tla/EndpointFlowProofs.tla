------------------------ MODULE EndpointFlowProofs ------------------------
(***************************************************************************)
(* Proofs about EndpointFlow, for every registry, every number of runs and *)
(* every value of the thresholds.                                          *)
(*                                                                         *)
(* The argument rests on one inductive invariant.  Within a run the        *)
(* in-memory state of a chain agrees with the history (MemoryExact);       *)
(* between runs the state file does (SavedStateExact).  StartRun carries   *)
(* the second into the first, Exit carries the first back to the second    *)
(* for the chains whose file is up to date and gives up on the others by   *)
(* putting them into lost.                                                 *)
(***************************************************************************)
EXTENDS EndpointFlow, FiniteSetTheorems, TLAPS

\* The type invariant holds of every state.
THEOREM TypeCorrect == Spec => []TypeOK
<1>1. Init => TypeOK
  BY FlowAssumption DEF Init, TypeOK, Zero, Unasked
<1>2. TypeOK /\ [Next]_vars => TypeOK'
  <2> SUFFICES ASSUME TypeOK, [Next]_vars
               PROVE  TypeOK'
    OBVIOUS
  <2> USE FlowAssumption DEF TypeOK
  <2>1. CASE StartRun
    BY <2>1 DEF StartRun, githubVars, diskVars, historyVars
  <2>2. CASE ProbeAndUpdate
    <3> PICK ans \in [jobs -> Answer], ex \in SUBSET Chain :
          /\ streak' = UpdateAndPrune(streak, jobs, ans)
          /\ exclude' = ex
          /\ fails' = [k \in Key |->
                         IF mode = "dry" THEN fails[k]
                         ELSE IF k \notin jobs \/ ans[k] = "pass" THEN 0
                         ELSE IF ans[k] = "fail" THEN fails[k] + 1 ELSE fails[k]]
          /\ answered' = [k \in Key |-> IF k \in jobs THEN {ans[k]} ELSE {}]
      BY <2>2 DEF ProbeAndUpdate
    <3>1. streak' \in [Key -> Nat]
      BY DEF UpdateAndPrune, Update, Answer
    <3>2. QED
      BY <2>2, <3>1 DEF ProbeAndUpdate, githubVars, diskVars
  <2>3. ASSUME NEW c \in Chain, SaveChain(c) \/ SaveFails(c)
        PROVE  TypeOK'
    <3>1. CASE SaveChain(c)
      BY <3>1 DEF SaveChain, githubVars, memVars, historyVars
    <3>2. CASE SaveFails(c)
      BY <3>2 DEF SaveFails, githubVars, diskVars, memVars, historyVars
    <3>3. QED
      BY <2>3, <3>1, <3>2
  <2>4. CASE Preflight
    BY <2>4 DEF Preflight, Flagged, Passed, ApplyPreflight, githubVars, diskVars
  <2>5. ASSUME NEW c \in Chain, SkipChain(c) \/ PrintPR(c) \/ NoPR(c)
        PROVE  TypeOK'
    <3>1. next' \in Nat \ {0} /\ opened' \in Nat
      BY <2>5 DEF SkipChain, PrintPR, NoPR
    <3>2. UNCHANGED <<githubVars, diskVars, pc, now, memVars, unsaved, historyVars>>
      BY <2>5 DEF SkipChain, PrintPR, NoPR
    <3>3. QED
      BY <3>1, <3>2 DEF githubVars, diskVars, memVars, historyVars
  <2>6. ASSUME NEW c \in Chain, OpenPR(c) \/ OpenUnlabelledPR(c)
        PROVE  TypeOK'
    <3> PICK labelled \in BOOLEAN : CreatePR(c, labelled)
      BY <2>6 DEF OpenPR, OpenUnlabelledPR
    <3>1. prs' \subseteq PullRequest
      <4>1. PR(c, labelled) \in PullRequest
        BY DEF PR, Removed, KeysOf, PullRequest
      <4>2. QED
        BY <4>1 DEF CreatePR
    <3>2. lastOpened' \in [Chain -> Nat]
      BY DEF CreatePR
    <3>6. next' \in Nat \ {0}
      BY DEF CreatePR
    <3>3. /\ opened' \in Nat
          /\ lastPR' \in [Chain -> Nat]
          /\ lost' \subseteq Chain
      <4>1. CASE OpenPR(c)
        BY <4>1 DEF OpenPR
      <4>2. CASE OpenUnlabelledPR(c)
        BY <4>2 DEF OpenUnlabelledPR
      <4>3. QED
        BY <2>6, <4>1, <4>2
    <3>4. UNCHANGED <<registry, dStreak, dLastPR, pc, now, mode, jobs, streak, exclude, dead,
                      unsaved, fails, answered>>
      BY DEF CreatePR, diskVars
    <3>5. QED
      BY <3>1, <3>2, <3>3, <3>4, <3>6
  <2>7. CASE EndLoop
    BY <2>7 DEF EndLoop, githubVars, diskVars, memVars, historyVars
  <2>8. CASE Finish \/ Crash
    BY <2>8 DEF Finish, Crash, Exit, Zero, Unasked, githubVars, diskVars
  <2>9. CASE Maintainer
    <3>1. prs' \subseteq prs /\ registry' \subseteq Key
      <4>1. CASE \E p \in prs : MergePR(p) \/ ClosePR(p)
        BY <4>1 DEF MergePR, ClosePR, PullRequest
      <4>2. CASE \E k \in Key : Declare(k) \/ Undeclare(k)
        BY <4>2 DEF Declare, Undeclare
      <4>3. QED
        BY <2>9, <4>1, <4>2 DEF Maintainer
    <3>2. UNCHANGED <<diskVars, pc, now, memVars, unsaved, next, opened, historyVars>>
      BY <2>9 DEF Maintainer, MergePR, ClosePR, Declare, Undeclare
    <3>3. QED
      BY <3>1, <3>2 DEF diskVars, memVars, historyVars
  <2>10. CASE UNCHANGED vars
    BY <2>10 DEF vars, githubVars, diskVars, memVars, historyVars
  <2>11. QED
    BY <2>1, <2>2, <2>3, <2>4, <2>5, <2>6, <2>7, <2>8, <2>9, <2>10 DEF Next, Process
<1>3. QED
  BY <1>1, <1>2, PTL DEF Spec

-----------------------------------------------------------------------------

(***************************************************************************)
(* The inductive invariant.                                                *)
(***************************************************************************)

\* During a run, what the run knows of a chain that lost nothing is exact.
MemoryExact ==
  pc # "idle" /\ mode # "dry" =>
    \A c \in Chain \ lost :
      /\ lastPR[c] = lastOpened[c]
      /\ \A k \in KeysOf(c) : streak[k] = fails[k]

\* After updateState, only declared keys have a streak, and only those that have
\* not passed in this run.
StreaksAlive ==
  pc \in {"save", "open"} =>
    \A k \in Key : k \notin jobs \/ "pass" \in answered[k] => streak[k] = 0

\* openPRs works on the mature streaks that did not pass, and on all of them.
DeadExact ==
  pc = "open" =>
    dead = {k \in Key : /\ streak[k] >= MinFailures
                       /\ ChainOf[k] \notin exclude
                       /\ "pass" \notin answered[k]}

\* There is something to save only while saveStateMap runs, and a dry run has
\* nothing to save: it leaves behind the files it found.
DryRunSavesNothing ==
  /\ pc \notin {"save", "final"} => unsaved = {}
  /\ mode = "dry" =>
       /\ unsaved = {}
       /\ \A c \in Chain \ lost :
            /\ dLastPR[c] = lastOpened[c]
            /\ \A k \in KeysOf(c) : dStreak[k] = fails[k]

\* No pull request comes from the future.
OpenedInPast == \A c \in Chain : lastOpened[c] <= now

IInv ==
  /\ TypeOK
  /\ SavedStateExact
  /\ MemoryExact
  /\ StreaksAlive
  /\ DeadExact
  /\ DryRunSavesNothing
  /\ OpenedInPast

\* The history and the code agree on what a probe does to a streak.
LEMMA UpdateAgrees ==
  ASSUME TypeOK, NEW ans \in [jobs -> Answer], NEW k \in Key, streak[k] = fails[k]
  PROVE  UpdateAndPrune(streak, jobs, ans)[k]
           = IF k \notin jobs \/ ans[k] = "pass" THEN 0
             ELSE IF ans[k] = "fail" THEN fails[k] + 1 ELSE fails[k]
BY DEF UpdateAndPrune, Update, Answer, TypeOK

LEMMA InvInit == Init => IInv
<1> SUFFICES ASSUME Init PROVE IInv
  OBVIOUS
<1>1. TypeOK
  BY FlowAssumption DEF Init, TypeOK, Zero, Unasked
<1>2. SavedStateExact
  BY DEF Init, SavedStateExact, KeysOf, Zero
<1>3. QED
  BY <1>1, <1>2 DEF Init, IInv, MemoryExact, StreaksAlive, DeadExact, DryRunSavesNothing,
                    OpenedInPast

LEMMA InvNext == IInv /\ TypeOK' /\ [Next]_vars => IInv'
<1> SUFFICES ASSUME IInv, TypeOK', [Next]_vars
             PROVE  IInv'
  OBVIOUS
<1> USE FlowAssumption DEF IInv
<1>1. CASE StartRun
  <2>1. pc' = "probe" /\ now < now' /\ pc = "idle"
    BY <1>1 DEF StartRun, TypeOK
  <2>2. UNCHANGED <<lost, lastOpened, fails>> /\ streak' = dStreak /\ lastPR' = dLastPR
    BY <1>1 DEF StartRun, historyVars
  <2>3. SavedStateExact' /\ StreaksAlive' /\ DeadExact'
    BY <2>1 DEF SavedStateExact, StreaksAlive, DeadExact
  <2>4. MemoryExact'
    BY <2>1, <2>2 DEF MemoryExact, SavedStateExact, KeysOf
  <2>5. OpenedInPast'
    BY <2>1, <2>2 DEF OpenedInPast, TypeOK
  <2>6. DryRunSavesNothing'
    <3>1. UNCHANGED <<unsaved, dStreak, dLastPR>>
      BY <1>1 DEF StartRun, diskVars
    <3>2. QED
      BY <2>1, <2>2, <3>1 DEF DryRunSavesNothing, SavedStateExact, KeysOf
  <2>7. QED
    BY <2>3, <2>4, <2>5, <2>6
<1>2. CASE ProbeAndUpdate
  <2> PICK ans \in [jobs -> Answer] :
        /\ streak' = UpdateAndPrune(streak, jobs, ans)
        /\ fails' = [k \in Key |->
                       IF mode = "dry" THEN fails[k]
                       ELSE IF k \notin jobs \/ ans[k] = "pass" THEN 0
                       ELSE IF ans[k] = "fail" THEN fails[k] + 1 ELSE fails[k]]
        /\ answered' = [k \in Key |-> IF k \in jobs THEN {ans[k]} ELSE {}]
    BY <1>2 DEF ProbeAndUpdate
  <2>1. pc = "probe" /\ pc' = "save"
        /\ UNCHANGED <<mode, jobs, lastPR, lastOpened, lost, now>>
    BY <1>2 DEF ProbeAndUpdate
  <2>2. MemoryExact'
    <3> SUFFICES ASSUME NEW c \in Chain \ lost, mode # "dry"
                 PROVE  /\ lastPR[c] = lastOpened[c]
                        /\ \A k \in KeysOf(c) : streak'[k] = fails'[k]
      BY <2>1 DEF MemoryExact, KeysOf
    <3>1. lastPR[c] = lastOpened[c]
      BY <2>1 DEF MemoryExact
    <3>2. ASSUME NEW k \in KeysOf(c)
          PROVE  streak'[k] = fails'[k]
      <4>1. k \in Key /\ streak[k] = fails[k]
        BY <2>1 DEF MemoryExact, KeysOf
      <4>2. QED
        BY <4>1, UpdateAgrees
    <3>3. QED
      BY <3>1, <3>2
  <2>3. StreaksAlive'
    <3>1. \A k \in Key : "pass" \in answered'[k] => k \in jobs /\ ans[k] = "pass"
      OBVIOUS
    <3>2. \A k \in Key : k \notin jobs \/ ans[k] = "pass" => streak'[k] = 0
      BY DEF UpdateAndPrune, Update
    <3>3. QED
      BY <2>1, <3>1, <3>2 DEF StreaksAlive
  <2>4. OpenedInPast'
    BY <2>1 DEF OpenedInPast
  <2>5. DryRunSavesNothing'
    <3>1. unsaved' = IF mode = "dry" THEN {} ELSE Chain
      BY <1>2 DEF ProbeAndUpdate
    <3>2. UNCHANGED <<dStreak, dLastPR>>
      BY <1>2 DEF ProbeAndUpdate, diskVars
    <3>3. mode = "dry" => \A k \in Key : fails'[k] = fails[k]
      OBVIOUS
    <3>4. QED
      BY <2>1, <3>1, <3>2, <3>3 DEF DryRunSavesNothing, KeysOf
  <2>6. QED
    BY <2>1, <2>2, <2>3, <2>4, <2>5 DEF SavedStateExact, DeadExact
<1>3. ASSUME NEW c \in Chain, SaveChain(c) \/ SaveFails(c)
      PROVE  IInv'
  <2>1. /\ UNCHANGED <<pc, now, mode, jobs, streak, lastPR, exclude, dead>>
        /\ UNCHANGED <<fails, lastOpened, answered, lost>>
    BY <1>3 DEF SaveChain, SaveFails, memVars, historyVars
  <2>2. pc \in {"save", "final"} /\ c \in unsaved /\ unsaved' \subseteq unsaved
    BY <1>3 DEF SaveChain, SaveFails
  <2>3. mode # "dry"
    BY <2>2 DEF DryRunSavesNothing
  <2>4. QED
    BY <2>1, <2>2, <2>3 DEF SavedStateExact, MemoryExact, StreaksAlive, DeadExact,
                            OpenedInPast, DryRunSavesNothing, KeysOf
<1>4. CASE Preflight
  <2> PICK ans \in [Flagged -> Answer] :
        /\ streak' = ApplyPreflight(streak, Passed(ans))
        /\ dead' = Flagged \ Passed(ans)
        /\ fails' = [k \in Key |->
                       IF k \in Flagged /\ ans[k] = "pass" /\ mode # "dry" THEN 0 ELSE fails[k]]
        /\ answered' = [k \in Key |->
                          IF k \in Flagged THEN answered[k] \cup {ans[k]} ELSE answered[k]]
    BY <1>4 DEF Preflight
  <2>1. /\ pc = "save" /\ pc' = "open"
        /\ UNCHANGED <<mode, jobs, lastPR, lastOpened, lost, now, exclude>>
    BY <1>4 DEF Preflight
  <2>2. MemoryExact'
    <3>1. \A k \in Key : k \in Passed(ans) <=> k \in Flagged /\ ans[k] = "pass"
      BY DEF Passed
    <3>2. QED
      BY <2>1, <3>1 DEF MemoryExact, KeysOf, ApplyPreflight, TypeOK
  <2>3. StreaksAlive'
    <3>1. \A k \in Key : streak'[k] = IF k \in Passed(ans) THEN 0 ELSE streak[k]
      BY DEF ApplyPreflight
    <3>2. \A k \in Key : "pass" \in answered'[k] =>
            k \in Passed(ans) \/ "pass" \in answered[k]
      BY DEF Passed, TypeOK
    <3>3. QED
      BY <2>1, <3>1, <3>2 DEF StreaksAlive
  <2>4. DeadExact'
    <3> SUFFICES ASSUME NEW k \in Key
                 PROVE  k \in dead' <=> /\ streak'[k] >= MinFailures
                                       /\ ChainOf[k] \notin exclude
                                       /\ "pass" \notin answered'[k]
      BY <2>1 DEF DeadExact, Flagged
    <3>1. CASE k \in Flagged
      <4>1. streak[k] \in Nat /\ streak[k] >= MinFailures /\ ChainOf[k] \notin exclude
        BY <3>1 DEF Flagged, TypeOK
      <4>2. "pass" \notin answered[k]
        BY <2>1, <4>1 DEF StreaksAlive
      <4>3. "pass" \in answered'[k] <=> k \in Passed(ans)
        BY <3>1, <4>2 DEF Passed, TypeOK
      <4>4. streak'[k] = IF k \in Passed(ans) THEN 0 ELSE streak[k]
        BY DEF ApplyPreflight
      <4>5. k \in dead' <=> k \notin Passed(ans)
        BY <3>1
      <4>6. QED
        BY <4>1, <4>3, <4>4, <4>5
    <3>2. CASE k \notin Flagged
      <4>1. k \notin Passed(ans)
        BY <3>2 DEF Passed
      <4>2. QED
        BY <3>2, <4>1 DEF Flagged, ApplyPreflight
    <3>3. QED
      BY <3>1, <3>2
  <2>5. DryRunSavesNothing'
    <3>1. UNCHANGED <<unsaved, dStreak, dLastPR>> /\ unsaved = {}
      BY <1>4 DEF Preflight, diskVars
    <3>2. mode = "dry" => \A k \in Key : fails'[k] = fails[k]
      OBVIOUS
    <3>3. QED
      BY <2>1, <3>1, <3>2 DEF DryRunSavesNothing, KeysOf
  <2>6. QED
    BY <2>1, <2>2, <2>3, <2>4, <2>5 DEF SavedStateExact, OpenedInPast
<1>5. ASSUME NEW c \in Chain, SkipChain(c) \/ PrintPR(c) \/ NoPR(c)
      PROVE  IInv'
  <2>1. UNCHANGED <<diskVars, pc, now, memVars, unsaved, historyVars>>
    BY <1>5 DEF SkipChain, PrintPR, NoPR
  <2>2. QED
    BY <2>1 DEF SavedStateExact, MemoryExact, StreaksAlive, DeadExact, OpenedInPast,
                DryRunSavesNothing, diskVars, memVars, historyVars, KeysOf
<1>6. ASSUME NEW c \in Chain, OpenPR(c) \/ OpenUnlabelledPR(c)
      PROVE  IInv'
  <2> PICK labelled \in BOOLEAN : CreatePR(c, labelled)
    BY <1>6 DEF OpenPR, OpenUnlabelledPR
  <2>1. /\ pc = "open"
        /\ lastOpened' = [lastOpened EXCEPT ![c] = now]
        /\ UNCHANGED <<dStreak, dLastPR, pc, now, mode, jobs, streak, exclude, dead,
                       unsaved, fails, answered>>
        /\ mode # "dry"
    BY DEF CreatePR, Opening, Looking, diskVars
  <2>2. MemoryExact'
    <3>1. CASE OpenPR(c)
      <4>1. lastPR' = [lastPR EXCEPT ![c] = now] /\ lost' = lost
        BY <3>1 DEF OpenPR
      <4>2. QED
        BY <2>1, <4>1 DEF MemoryExact, KeysOf, TypeOK
    <3>2. CASE OpenUnlabelledPR(c)
      <4>1. lastPR' = lastPR /\ lost' = lost \cup {c}
        BY <3>2 DEF OpenUnlabelledPR
      <4>2. QED
        BY <2>1, <4>1 DEF MemoryExact, KeysOf, TypeOK
    <3>3. QED
      BY <1>6, <3>1, <3>2
  <2>3. OpenedInPast'
    BY <2>1 DEF OpenedInPast, TypeOK
  <2>4. QED
    BY <2>1, <2>2, <2>3 DEF SavedStateExact, StreaksAlive, DeadExact, DryRunSavesNothing
<1>7. CASE EndLoop
  <2>1. /\ pc' = "final" /\ pc # "idle"
        /\ unsaved' = IF mode = "dry" THEN {} ELSE Chain
        /\ UNCHANGED <<diskVars, now, memVars, historyVars>>
    BY <1>7 DEF EndLoop
  <2>2. QED
    BY <2>1 DEF SavedStateExact, MemoryExact, StreaksAlive, DeadExact, OpenedInPast,
                DryRunSavesNothing, diskVars, memVars, historyVars, KeysOf
<1>8. CASE Finish \/ Crash
  <2>1. Exit /\ pc # "idle"
    BY <1>8 DEF Finish, Crash
  <2>2. SavedStateExact'
    <3> SUFFICES ASSUME NEW c \in Chain \ lost'
                 PROVE  /\ dLastPR[c] = lastOpened[c]
                        /\ \A k \in KeysOf(c) : dStreak[k] = fails[k]
      BY <2>1 DEF SavedStateExact, Exit, diskVars, KeysOf
    <3>1. CASE mode = "dry"
      BY <2>1, <3>1 DEF Exit, DryRunSavesNothing
    <3>2. CASE mode # "dry"
      <4>1. c \notin lost /\ ~Unwritten(c)
        BY <2>1, <3>2 DEF Exit
      <4>2. QED
        BY <2>1, <3>2, <4>1 DEF Unwritten, MemoryExact
    <3>3. QED
      BY <3>1, <3>2
  <2>3. QED
    BY <2>1, <2>2 DEF Exit, MemoryExact, StreaksAlive, DeadExact, OpenedInPast,
                      DryRunSavesNothing
<1>9. CASE Maintainer
  <2>1. UNCHANGED <<diskVars, pc, now, memVars, unsaved, historyVars>>
    BY <1>9 DEF Maintainer, MergePR, ClosePR, Declare, Undeclare
  <2>2. QED
    BY <2>1 DEF SavedStateExact, MemoryExact, StreaksAlive, DeadExact, OpenedInPast,
                DryRunSavesNothing, diskVars, memVars, historyVars, KeysOf
<1>10. CASE UNCHANGED vars
  BY <1>10 DEF vars, diskVars, memVars, historyVars, SavedStateExact, MemoryExact,
               StreaksAlive, DeadExact, OpenedInPast, DryRunSavesNothing, KeysOf
<1>11. QED
  BY <1>1, <1>2, <1>3, <1>4, <1>5, <1>6, <1>7, <1>8, <1>9, <1>10 DEF Next, Process

THEOREM InvHolds == Spec => []IInv
BY InvInit, InvNext, TypeCorrect, PTL DEF Spec

-----------------------------------------------------------------------------

(***************************************************************************)
(* What follows from it.                                                   *)
(***************************************************************************)

\* Between runs, the state file of a chain that lost nothing says exactly what
\* was measured and what was opened.
THEOREM SavedStateIsExact == Spec => []SavedStateExact
<1>1. IInv => SavedStateExact
  BY DEF IInv
<1>2. QED
  BY <1>1, InvHolds, PTL

\* A step that makes a pull request appear is CreatePR.
LEMMA NewPRIsCreated ==
  ASSUME [Next]_vars, NEW p \in NewPRs
  PROVE  /\ p.chain \in Chain
         /\ Opening(p.chain)
         /\ p.edit = Removed(p.chain, dead)
<1>1. ASSUME NEW c \in Chain, NEW labelled \in BOOLEAN, CreatePR(c, labelled)
      PROVE  /\ p.chain = c
             /\ Opening(c)
             /\ p.edit = Removed(c, dead)
  BY <1>1 DEF CreatePR, PR, NewPRs
<1>2. CASE \E c \in Chain : OpenPR(c) \/ OpenUnlabelledPR(c)
  BY <1>1, <1>2 DEF OpenPR, OpenUnlabelledPR
<1>3. ASSUME prs' \subseteq prs
      PROVE  FALSE
  BY <1>3 DEF NewPRs
<1>4. CASE ~\E c \in Chain : OpenPR(c) \/ OpenUnlabelledPR(c)
  <2>1. prs' \subseteq prs
    BY <1>4 DEF Next, Process, Maintainer, StartRun, ProbeAndUpdate, SaveChain, SaveFails,
                Preflight, SkipChain, PrintPR, NoPR, EndLoop, Finish, Crash, Exit,
                MergePR, ClosePR, Declare, Undeclare, vars, githubVars
  <2>2. QED
    BY <1>3, <2>1
<1>5. QED
  BY <1>2, <1>4

\* Every entry a removal pull request deletes was flagged, re-probed and not
\* seen alive, and failed MinFailures main probes in a row if nothing was lost.
THEOREM RemovalsJustified == Spec => JustifiedRemoval
<1>1. IInv /\ [Next]_vars =>
        [\A p \in NewPRs : \A k \in p.edit :
           /\ k \in jobs
           /\ ChainOf[k] = p.chain
           /\ p.chain \notin exclude
           /\ "pass" \notin answered[k]
           /\ p.chain \notin lost => fails[k] >= MinFailures]_vars
  <2> SUFFICES ASSUME IInv, [Next]_vars, NEW p \in NewPRs, NEW k \in p.edit
               PROVE  /\ k \in jobs
                      /\ ChainOf[k] = p.chain
                      /\ p.chain \notin exclude
                      /\ "pass" \notin answered[k]
                      /\ p.chain \notin lost => fails[k] >= MinFailures
    OBVIOUS
  <2>1. /\ p.chain \in Chain
        /\ Opening(p.chain)
        /\ p.edit = Removed(p.chain, dead)
    BY NewPRIsCreated
  <2>2. k \in jobs \cap KeysOf(p.chain) /\ k \in dead /\ pc = "open"
    BY <2>1 DEF Removed, Opening, Looking
  <2>3. streak[k] >= MinFailures /\ ChainOf[k] \notin exclude /\ "pass" \notin answered[k]
    BY <2>2 DEF IInv, DeadExact
  <2>4. p.chain \notin lost => fails[k] = streak[k]
    BY <2>1, <2>2 DEF IInv, MemoryExact, Opening
  <2>5. QED
    BY <2>2, <2>3, <2>4 DEF KeysOf
<1>2. QED
  BY <1>1, InvHolds, PTL DEF Spec, JustifiedRemoval

\* A live endpoint does not shield a dead one on its address.
THEOREM DeadNotShielded == Spec => NoShielding
<1>1. IInv /\ [Next]_vars =>
        [\A p \in NewPRs : \A k \in KeysOf(p.chain) :
           p.chain \notin lost /\ fails[k] >= MinFailures /\ "pass" \notin answered[k]
             => k \in p.edit]_vars
  <2> SUFFICES ASSUME IInv, [Next]_vars, NEW p \in NewPRs, NEW k \in KeysOf(p.chain),
                      p.chain \notin lost, fails[k] >= MinFailures, "pass" \notin answered[k]
               PROVE  k \in p.edit
    OBVIOUS
  <2>1. /\ p.chain \in Chain
        /\ Opening(p.chain)
        /\ p.edit = Removed(p.chain, dead)
    BY NewPRIsCreated
  <2>2. pc = "open" /\ k \in Key /\ ChainOf[k] = p.chain
    BY <2>1 DEF Opening, Looking, KeysOf
  <2>3. p.chain \notin exclude
    <3>1. PICK j \in dead : ChainOf[j] = p.chain
      BY <2>1 DEF Opening, KeysOf
    <3>2. QED
      BY <2>2, <3>1 DEF IInv, DeadExact
  <2>4. streak[k] = fails[k]
    BY <2>1, <2>2 DEF IInv, MemoryExact, Opening
  <2>5. k \in dead
    BY <2>2, <2>3, <2>4 DEF IInv, DeadExact
  <2>6. k \in jobs
    BY <2>2, <2>4, FlowAssumption DEF IInv, StreaksAlive, TypeOK
  <2>7. QED
    BY <2>1, <2>5, <2>6 DEF Removed
<1>2. QED
  BY <1>1, InvHolds, PTL DEF Spec, NoShielding

\* The cooldown lies between two pull requests of a chain that lost nothing.
THEOREM CooldownKept == Spec => CooldownRespected
<1>1. IInv /\ [Next]_vars =>
        [\A p \in NewPRs :
           \/ p.chain \in lost
           \/ lastOpened[p.chain] = 0
           \/ now >= lastOpened[p.chain] + Cooldown]_vars
  <2> SUFFICES ASSUME IInv, [Next]_vars, NEW p \in NewPRs,
                      p.chain \notin lost, lastOpened[p.chain] # 0
               PROVE  now >= lastOpened[p.chain] + Cooldown
    OBVIOUS
  <2>1. p.chain \in Chain /\ Opening(p.chain)
    BY NewPRIsCreated
  <2>2. pc = "open" /\ ~InCooldown(p.chain)
    BY <2>1 DEF Opening, Looking
  <2>3. lastPR[p.chain] = lastOpened[p.chain]
    BY <2>1, <2>2 DEF IInv, MemoryExact, Opening
  <2>4. lastOpened[p.chain] <= now /\ lastOpened[p.chain] \in Nat /\ now \in Nat
    BY <2>1 DEF IInv, OpenedInPast, TypeOK
  <2>5. QED
    BY <2>2, <2>3, <2>4, FlowAssumption DEF InCooldown
<1>2. QED
  BY <1>1, InvHolds, PTL DEF Spec, CooldownRespected

\* A dry run leaves the state files and GitHub as they are.
THEOREM DryRunIsDry == Spec => DryRunWritesNothing
<1>1. IInv /\ [Next]_vars =>
        [mode = "dry" => UNCHANGED diskVars /\ prs' \subseteq prs]_vars
  <2> SUFFICES ASSUME IInv, [Next]_vars, mode = "dry"
               PROVE  UNCHANGED diskVars /\ prs' \subseteq prs
    OBVIOUS
  <2>1. unsaved = {}
    BY DEF IInv, DryRunSavesNothing
  <2>2. UNCHANGED diskVars
    BY <2>1 DEF Next, Process, Maintainer, StartRun, ProbeAndUpdate, SaveChain, SaveFails,
                Preflight, SkipChain, PrintPR, NoPR, OpenPR, OpenUnlabelledPR, CreatePR,
                EndLoop, Finish, Crash, Exit, MergePR, ClosePR, Declare, Undeclare, vars, diskVars
  <2>3. NewPRs = {}
    BY NewPRIsCreated DEF Opening
  <2>4. QED
    BY <2>2, <2>3 DEF NewPRs
<1>2. QED
  BY <1>1, InvHolds, PTL DEF Spec, DryRunWritesNothing

-----------------------------------------------------------------------------

(***************************************************************************)
(* Without faults nothing is lost: when saveStateMap has gone through its  *)
(* map, every file says what the memory says.                              *)
(***************************************************************************)
SavedAfterSave ==
  pc \in {"save", "final"} /\ mode # "dry" => \A c \in Chain \ unsaved : ~Unwritten(c)

\* Only a killed run, a failed save or a failed label loses state.
THEOREM NothingIsLost == Spec => []NothingLost
<1> DEFINE I == Faults = {} => lost = {} /\ SavedAfterSave
<1>1. Init => I
  BY DEF Init, SavedAfterSave
<1>2. TypeOK /\ I /\ [Next]_vars => I'
  <2> SUFFICES ASSUME TypeOK, I, [Next]_vars, Faults = {}
               PROVE  lost' = {} /\ SavedAfterSave'
    OBVIOUS
  <2>1. ASSUME NEW c \in Chain, SaveChain(c)
        PROVE  lost' = {} /\ SavedAfterSave'
    <3>1. /\ UNCHANGED <<pc, mode, streak, lastPR, lost>>
          /\ unsaved' = unsaved \ {c}
          /\ dStreak' = [k \in Key |-> IF ChainOf[k] = c THEN streak[k] ELSE dStreak[k]]
          /\ dLastPR' = [dLastPR EXCEPT ![c] = lastPR[c]]
      BY <2>1 DEF SaveChain, memVars, historyVars
    <3>2. ASSUME NEW d \in Chain \ unsaved', pc \in {"save", "final"}, mode # "dry"
          PROVE  ~Unwritten(d)'
      <4>1. CASE d = c
        BY <3>1, <4>1 DEF Unwritten, KeysOf, TypeOK
      <4>2. CASE d # c
        <5>1. ~Unwritten(d)
          BY <3>1, <3>2, <4>2 DEF SavedAfterSave
        <5>2. QED
          BY <3>1, <4>2, <5>1 DEF Unwritten, KeysOf, TypeOK
      <4>3. QED
        BY <4>1, <4>2
    <3>3. QED
      BY <3>1, <3>2 DEF SavedAfterSave
  <2>2. CASE Finish
    BY <2>2 DEF Finish, Exit, SavedAfterSave
  <2>3. ASSUME NEW c \in Chain, SkipChain(c) \/ PrintPR(c) \/ NoPR(c) \/ OpenPR(c)
        PROVE  lost' = {} /\ SavedAfterSave'
    <3>1. pc' = "open" /\ lost' = lost
      BY <2>3 DEF SkipChain, PrintPR, NoPR, OpenPR, CreatePR, Opening, Looking, historyVars
    <3>2. QED
      BY <3>1 DEF SavedAfterSave
  <2>4. CASE StartRun \/ Preflight
    BY <2>4 DEF StartRun, Preflight, historyVars, SavedAfterSave
  <2>5. CASE ProbeAndUpdate \/ EndLoop
    BY <2>5 DEF ProbeAndUpdate, EndLoop, memVars, historyVars, SavedAfterSave
  <2>6. CASE Maintainer \/ UNCHANGED vars
    BY <2>6 DEF Maintainer, MergePR, ClosePR, Declare, Undeclare, vars, diskVars, memVars,
                historyVars, SavedAfterSave, Unwritten, KeysOf
  <2>7. QED
    BY <2>1, <2>2, <2>3, <2>4, <2>5, <2>6
       DEF Next, Process, SaveFails, OpenUnlabelledPR, Crash
<1>3. QED
  BY <1>1, <1>2, TypeCorrect, PTL DEF Spec, NothingLost

-----------------------------------------------------------------------------

(***************************************************************************)
(* As long as every pull request gets its label, HasOpenPR sees them all.  *)
(***************************************************************************)
AllLabelled == \A p \in prs : p.label

\* One open pull request per chain.
THEOREM OneOpenPR == ASSUME "label" \notin Faults PROVE Spec => []OnePRPerChain
<1> DEFINE I == AllLabelled /\ OnePRPerChain
<1>1. Init => I
  BY DEF Init, AllLabelled, OnePRPerChain
<1>2. TypeOK /\ I /\ [Next]_vars => I'
  <2> SUFFICES ASSUME TypeOK, I, [Next]_vars
               PROVE  I'
    OBVIOUS
  <2>1. ASSUME NEW c \in Chain, OpenPR(c)
        PROVE  I'
    <3>1. /\ ~HasOpenPR(c)
          /\ prs' = prs \cup {PR(c, TRUE)}
      BY <2>1 DEF OpenPR, CreatePR
    <3>2. \A p \in prs : p.chain # c
      BY <3>1 DEF HasOpenPR, AllLabelled
    <3>3. PR(c, TRUE).chain = c /\ PR(c, TRUE).label
      BY DEF PR
    <3>4. prs' = prs \cup {PR(c, TRUE)}
      BY <3>1
    <3>5. AllLabelled'
      BY <3>3, <3>4 DEF AllLabelled
    <3>6. OnePRPerChain'
      BY <3>2, <3>3, <3>4 DEF OnePRPerChain
    <3>7. QED
      BY <3>5, <3>6
  <2>2. CASE prs' \subseteq prs
    BY <2>2 DEF AllLabelled, OnePRPerChain
  <2>3. CASE ~\E c \in Chain : OpenPR(c)
    <3>1. prs' \subseteq prs
      BY <2>3, "label" \notin Faults
         DEF Next, Process, Maintainer, StartRun, ProbeAndUpdate, SaveChain, SaveFails,
             Preflight, SkipChain, PrintPR, NoPR, OpenUnlabelledPR, EndLoop, Finish, Crash,
             Exit, MergePR, ClosePR, Declare, Undeclare, vars, githubVars
    <3>2. QED
      BY <2>2, <3>1
  <2>4. QED
    BY <2>1, <2>3
<1>3. QED
  BY <1>1, <1>2, TypeCorrect, PTL DEF Spec

-----------------------------------------------------------------------------

(***************************************************************************)
(* The cap: while openPRs runs, it has counted at least as many pull       *)
(* requests as it has opened.                                              *)
(***************************************************************************)
CapInv ==
  /\ IsFiniteSet(OpenedNow)
  /\ Cardinality(OpenedNow) <= MaxEndpointPRs
  /\ pc \in {"probe", "save"} => OpenedNow = {}
  /\ pc = "open" => Cardinality(OpenedNow) <= opened

\* A run opens no more pull requests than its cap allows.
THEOREM CapKept == ASSUME "label" \notin Faults PROVE Spec => []RunCap
<1>1. Init => CapInv
  <2> SUFFICES ASSUME Init PROVE CapInv
    OBVIOUS
  <2>1. OpenedNow = {}
    BY DEF Init, OpenedNow
  <2>2. QED
    BY <2>1, FS_EmptySet, FlowAssumption DEF CapInv, Init
<1>2. IInv /\ CapInv /\ [Next]_vars => CapInv'
  <2> SUFFICES ASSUME IInv, CapInv, [Next]_vars
               PROVE  CapInv'
    OBVIOUS
  <2>1. ASSUME UNCHANGED <<now, lastOpened>>, pc' \in {"probe", "save"} => OpenedNow = {},
               pc' = "open" => Cardinality(OpenedNow) <= opened'
        PROVE  CapInv'
    BY <2>1 DEF CapInv, OpenedNow
  <2>2. CASE StartRun
    <3>1. now' > now /\ lastOpened' = lastOpened /\ pc' = "probe"
      BY <2>2 DEF StartRun, historyVars, IInv, TypeOK
    <3>2. OpenedNow' = {}
      BY <3>1 DEF OpenedNow, IInv, OpenedInPast, TypeOK
    <3>3. QED
      BY <3>1, <3>2, FS_EmptySet, FlowAssumption DEF CapInv
  <2>3. CASE ProbeAndUpdate
    BY <2>1, <2>3 DEF ProbeAndUpdate, CapInv
  <2>4. ASSUME NEW c \in Chain, SaveChain(c) \/ SaveFails(c)
        PROVE  CapInv'
    BY <2>1, <2>4 DEF SaveChain, SaveFails, historyVars, CapInv
  <2>5. CASE Preflight
    <3>1. OpenedNow = {} /\ opened' = 0 /\ pc' = "open" /\ UNCHANGED <<now, lastOpened>>
      BY <2>5 DEF Preflight, CapInv
    <3>2. QED
      BY <2>1, <3>1, FS_EmptySet
  <2>6. ASSUME NEW c \in Chain, SkipChain(c) \/ PrintPR(c) \/ NoPR(c)
        PROVE  CapInv'
    <3>1. /\ UNCHANGED <<now, lastOpened, pc>>
          /\ opened' \in {opened, opened + 1}
      BY <2>6 DEF SkipChain, PrintPR, NoPR, historyVars
    <3>2. Cardinality(OpenedNow) \in Nat
      BY FS_CardinalityType DEF CapInv
    <3>3. QED
      BY <2>1, <3>1, <3>2 DEF CapInv, IInv, TypeOK
  <2>7. ASSUME NEW c \in Chain, OpenPR(c)
        PROVE  CapInv'
    <3>1. /\ lastOpened' = [lastOpened EXCEPT ![c] = now]
          /\ opened' = opened + 1
          /\ opened < MaxEndpointPRs
          /\ pc = "open"
          /\ UNCHANGED <<now, pc>>
      BY <2>7 DEF OpenPR, CreatePR, Opening, Looking
    <3>2. OpenedNow' \subseteq OpenedNow \cup {c}
      BY <3>1 DEF OpenedNow, IInv, TypeOK
    <3>3. /\ IsFiniteSet(OpenedNow \cup {c})
          /\ Cardinality(OpenedNow \cup {c}) <= Cardinality(OpenedNow) + 1
      <4>1. IsFiniteSet(OpenedNow) /\ Cardinality(OpenedNow) \in Nat
        BY FS_CardinalityType DEF CapInv
      <4>2. /\ IsFiniteSet(OpenedNow \cup {c})
            /\ Cardinality(OpenedNow \cup {c})
                 = IF c \in OpenedNow THEN Cardinality(OpenedNow) ELSE Cardinality(OpenedNow) + 1
        BY <4>1, FS_AddElement
      <4>3. QED
        BY <4>1, <4>2
    <3>4. /\ IsFiniteSet(OpenedNow')
          /\ Cardinality(OpenedNow') <= Cardinality(OpenedNow) + 1
          /\ Cardinality(OpenedNow') \in Nat /\ Cardinality(OpenedNow) \in Nat
      <4>1. /\ IsFiniteSet(OpenedNow')
            /\ Cardinality(OpenedNow') <= Cardinality(OpenedNow \cup {c})
        BY <3>2, <3>3, FS_Subset
      <4>2. /\ Cardinality(OpenedNow') \in Nat
            /\ Cardinality(OpenedNow \cup {c}) \in Nat
            /\ Cardinality(OpenedNow) \in Nat
        BY <3>3, <4>1, FS_CardinalityType DEF CapInv
      <4>3. QED
        BY <3>3, <4>1, <4>2
    <3>5. QED
      BY <3>1, <3>4, FlowAssumption DEF CapInv, IInv, TypeOK
  <2>8. CASE EndLoop \/ Finish \/ Crash
    BY <2>1, <2>8 DEF EndLoop, Finish, Crash, Exit, historyVars
  <2>9. CASE Maintainer
    BY <2>1, <2>9 DEF Maintainer, MergePR, ClosePR, Declare, Undeclare, historyVars, CapInv
  <2>10. CASE UNCHANGED vars
    BY <2>1, <2>10 DEF vars, historyVars, CapInv
  <2>11. QED
    BY <2>2, <2>3, <2>4, <2>5, <2>6, <2>7, <2>8, <2>9, <2>10, "label" \notin Faults
       DEF Next, Process, OpenUnlabelledPR
<1>3. CapInv => RunCap
  BY DEF CapInv, RunCap
<1>4. QED
  BY <1>1, <1>2, <1>3, InvHolds, PTL DEF Spec

=============================================================================
