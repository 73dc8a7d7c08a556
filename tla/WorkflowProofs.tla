--------------------------- MODULE WorkflowProofs ---------------------------
(***************************************************************************)
(* Proofs about Workflow, for any number of runs that overlap in any way,  *)
(* any list of targets and every fault.                                    *)
(***************************************************************************)
EXTENDS Workflow, FiniteSetTheorems, SequenceTheorems, TLAPS

(* The greatest element of a set of numbers.                               *)

\* A finite set of numbers that is not empty has a greatest element: among
\* its subsets that have none, a least one would be too small to have none.
LEMMA MaxOfNumbers ==
  ASSUME NEW S \in SUBSET Nat, IsFiniteSet(S), S # {}
  PROVE  Max(S) \in S /\ \A k \in S : Max(S) >= k
<1> DEFINE Topped(T) == \E m \in T : \A k \in T : m >= k
           bad == {T \in FiniteSubsetsOf(S) : T # {} /\ ~Topped(T)}
<1>1. ASSUME bad # {} PROVE FALSE
  <2>1. IsWellFoundedOn(StrictSubsetOrdering(S), FiniteSubsetsOf(S))
    BY FS_StrictSubsetOrderingWellFounded
  <2>2. PICK T \in bad : \A U \in bad : ~(<<U, T>> \in StrictSubsetOrdering(S))
    <3>1. bad \subseteq FiniteSubsetsOf(S)
      OBVIOUS
    <3> HIDE DEF bad
    <3> QED BY <1>1, <2>1, <3>1, WFMin
  <2>3. T \subseteq S /\ IsFiniteSet(T) /\ T # {} /\ ~Topped(T)
    BY DEF FiniteSubsetsOf
  <2>4. PICK x \in T : TRUE
    BY <2>3
  <2>5. T \ {x} \in FiniteSubsetsOf(S)
    <3>1. IsFiniteSet(T \ {x})
      BY <2>3, FS_RemoveElement
    <3> QED BY <2>3, <3>1 DEF FiniteSubsetsOf
  <2>6. <<T \ {x}, T>> \in StrictSubsetOrdering(S)
    BY <2>3, <2>4 DEF StrictSubsetOrdering
  <2>7. CASE T \ {x} = {}
    <3>1. Topped(T)
      BY <2>3, <2>4, <2>7
    <3> QED BY <2>3, <3>1
  <2>8. CASE T \ {x} # {}
    <3>1. T \ {x} \notin bad
      BY <2>2, <2>6
    <3>2. PICK m \in T \ {x} : \A k \in T \ {x} : m >= k
      BY <2>5, <2>8, <3>1
    <3>3. m \in Nat /\ x \in Nat /\ T \subseteq Nat
      BY <2>3
    <3>4. CASE m >= x
      BY <2>3, <3>2, <3>3, <3>4
    <3>5. CASE x >= m
      <4>1. \A k \in T : x >= k
        BY <3>2, <3>3, <3>5
      <4> QED BY <2>3, <2>4, <4>1
    <3> QED BY <3>3, <3>4, <3>5
  <2> QED BY <2>7, <2>8
<1>2. S \in FiniteSubsetsOf(S)
  BY DEF FiniteSubsetsOf
<1>3. Topped(S)
  BY <1>1, <1>2
<1> QED BY <1>3 DEF Max

-----------------------------------------------------------------------------
(* Types.  NextBranchN counts on from the branches there are, so they have  *)
(* to be finitely many; Current is defined while the flows have a target.   *)

Distinct(list) == \A i, j \in 1..Len(list) : list[i] = list[j] => i = j

WellFormed ==
  /\ IsFiniteSet(refs)
  /\ \A r \in Run : step[r] \in ApiStep <=> todo[r] # <<>>
  /\ \A r \in Run : Distinct(todo[r])

\* The flows go through every target at most once.
LEMMA ListsAre ==
  ASSUME NEW list \in Lists
  PROVE  list \in Seq(Target) /\ Distinct(list)
<1> PICK n \in 0..Len(Order) :
      \E at \in [1..n -> DOMAIN Order] :
        /\ \A i, j \in 1..n : i < j => at[i] < at[j]
        /\ list = [i \in 1..n |-> Order[at[i]]]
  BY DEF Lists
<1> PICK at \in [1..n -> DOMAIN Order] :
      /\ \A i, j \in 1..n : i < j => at[i] < at[j]
      /\ list = [i \in 1..n |-> Order[at[i]]]
  OBVIOUS
<1>1. Order \in Seq(Target) /\ DOMAIN Order = 1..Len(Order) /\ Len(Order) \in Nat
  BY WorkflowAssumption
<1>2. list \in Seq(Target) /\ Len(list) = n
  BY <1>1
<1>3. ASSUME NEW i \in 1..n, NEW j \in 1..n, list[i] = list[j] PROVE i = j
  <2>1. at[i] \in 1..Len(Order) /\ at[j] \in 1..Len(Order)
    BY <1>1
  <2>2. at[i] = at[j]
    <3>1. Order[at[i]] = Order[at[j]]
      BY <1>3
    <3> QED BY <2>1, <3>1, WorkflowAssumption
  <2>3. i \in 1..n /\ j \in 1..n /\ n \in Nat
    OBVIOUS
  <2>4. ~(i < j) /\ ~(j < i)
    BY <2>1, <2>2
  <2> QED BY <2>3, <2>4
<1> QED BY <1>2, <1>3 DEF Distinct

\* What is left of them after one is done.
LEMMA TailIs ==
  ASSUME NEW list \in Seq(Target), list # <<>>, Distinct(list)
  PROVE  /\ Head(list) = list[1] /\ Head(list) \in Target
         /\ Tail(list) \in Seq(Target) /\ Len(list) \in Nat \ {0}
         /\ Len(Tail(list)) = Len(list) - 1
         /\ \A i \in 1..Len(Tail(list)) : Tail(list)[i] = list[i + 1]
         /\ Distinct(Tail(list))
<1>1. /\ Tail(list) \in Seq(Target) /\ Len(list) \in Nat \ {0}
      /\ Len(Tail(list)) = Len(list) - 1
      /\ \A i \in 1..Len(Tail(list)) : Tail(list)[i] = list[i + 1]
  BY HeadTailProperties, EmptySeq
<1>2. Head(list) = list[1] /\ Head(list) \in Target
  BY HeadTailProperties
<1>3. Distinct(Tail(list))
  <2> SUFFICES ASSUME NEW i \in 1..Len(Tail(list)), NEW j \in 1..Len(Tail(list)),
                      Tail(list)[i] = Tail(list)[j]
               PROVE  i = j
    BY DEF Distinct
  <2>1. i + 1 \in 1..Len(list) /\ j + 1 \in 1..Len(list) /\ list[i + 1] = list[j + 1]
    BY <1>1
  <2>2. i + 1 = j + 1
    BY <2>1 DEF Distinct
  <2> QED BY <2>2
<1> QED BY <1>1, <1>2, <1>3

Plan == [n : Nat, base : Nat, blob : Nat, parent : Nat]
StepName == {"waiting", "restore", "probe", "persist", "push"} \cup ApiStep \cup Over

\* What one run does to its own variables, and to its own only.
RunTyped(r) ==
  /\ step' \in [Run -> StepName] /\ todo' \in [Run -> Seq(Target)]
  /\ plan' \in [Run -> Plan]
  /\ \A s \in Run \ {r} : step'[s] = step[s] /\ todo'[s] = todo[s] /\ plan'[s] = plan[s]
  /\ step'[r] \in ApiStep <=> todo'[r] # <<>>
  /\ Distinct(todo'[r])

\* Leaving a target behind.
LEMMA NextTargetTyped ==
  ASSUME TypeOK, WellFormed, NEW r \in Run, step[r] \in ApiStep, NextTarget(r)
  PROVE  /\ RunTyped(r)
         /\ todo'[r] = Tail(todo[r])
         /\ step'[r] \in {"persist", "search"}
         /\ plan'[r] = NoPlan
<1>1. todo[r] \in Seq(Target) /\ todo[r] # <<>> /\ Distinct(todo[r])
  BY DEF TypeOK, WellFormed
<1>2. Tail(todo[r]) \in Seq(Target) /\ Distinct(Tail(todo[r]))
  BY <1>1, TailIs
<1>3. /\ todo' \in [Run -> Seq(Target)] /\ todo'[r] = Tail(todo[r])
      /\ \A s \in Run \ {r} : todo'[s] = todo[s]
  BY <1>2 DEF NextTarget, TypeOK
<1>4. /\ plan' \in [Run -> Plan] /\ plan'[r] = NoPlan
      /\ \A s \in Run \ {r} : plan'[s] = plan[s]
  BY DEF NextTarget, TypeOK, NoPlan, Plan
<1>5. /\ step' \in [Run -> StepName] /\ step'[r] \in {"persist", "search"}
      /\ \A s \in Run \ {r} : step'[s] = step[s]
      /\ step'[r] \in ApiStep <=> Tail(todo[r]) # <<>>
  BY DEF NextTarget, Goto, TypeOK, StepName, ApiStep, Over
<1> QED BY <1>2, <1>3, <1>4, <1>5 DEF RunTyped

\* The end of a run.
LEMMA EndTyped ==
  ASSUME TypeOK, NEW r \in Run, NEW colour \in Over, End(r, colour)
  PROVE  /\ RunTyped(r)
         /\ step'[r] = colour /\ todo'[r] = <<>> /\ knows'[r] = {} /\ tree'[r] = {}
         /\ tree' \in [Run -> SUBSET Event] /\ knows' \in [Run -> SUBSET (1..Len(log))]
         /\ \A s \in Run \ {r} : knows'[s] = knows[s] /\ tree'[s] = tree[s]
<1>1. /\ step' \in [Run -> StepName] /\ step'[r] = colour /\ colour \notin ApiStep
      /\ \A s \in Run \ {r} : step'[s] = step[s]
  BY DEF End, Goto, TypeOK, StepName, ApiStep, Over
<1>2. /\ todo' \in [Run -> Seq(Target)] /\ todo'[r] = <<>>
      /\ \A s \in Run \ {r} : todo'[s] = todo[s]
  BY DEF End, TypeOK
<1>3. /\ tree' \in [Run -> SUBSET Event] /\ tree'[r] = {}
      /\ knows' \in [Run -> SUBSET (1..Len(log))] /\ knows'[r] = {}
      /\ \A s \in Run \ {r} : knows'[s] = knows[s] /\ tree'[s] = tree[s]
  BY DEF End, TypeOK
<1>4. plan' \in [Run -> Plan] /\ \A s \in Run \ {r} : plan'[s] = plan[s]
  BY DEF End, TypeOK, NoPlan, Plan
<1>5. Distinct(<<>>)
  BY DEF Distinct
<1> QED BY <1>1, <1>2, <1>3, <1>4, <1>5 DEF RunTyped

\* Going on to another step with the same target, or still without one.
LEMMA GotoTyped ==
  ASSUME TypeOK, WellFormed, NEW r \in Run, NEW s \in StepName, Goto(r, s),
         s \in ApiStep <=> step[r] \in ApiStep, UNCHANGED todo, plan' \in [Run -> Plan],
         \A q \in Run \ {r} : plan'[q] = plan[q]
  PROVE  RunTyped(r) /\ step'[r] = s
<1>1. /\ step' \in [Run -> StepName] /\ step'[r] = s
      /\ \A q \in Run \ {r} : step'[q] = step[q]
  BY DEF Goto, TypeOK, StepName, ApiStep, Over
<1> QED BY <1>1 DEF RunTyped, TypeOK, WellFormed

\* What RunTyped and the other variables' types amount to.
LEMMA StillWellFormed ==
  ASSUME WellFormed, NEW r \in Run, RunTyped(r), IsFiniteSet(refs')
  PROVE  WellFormed'
<1>1. \A q \in Run : step'[q] \in ApiStep <=> todo'[q] # <<>>
  BY DEF WellFormed, RunTyped
<1>2. \A q \in Run : Distinct(todo'[q])
  BY DEF WellFormed, RunTyped
<1>3. \A q \in Run : Distinct(todo[q])'
  BY <1>2 DEF Distinct
<1>4. ApiStep' = ApiStep
  BY DEF ApiStep
<1> QED BY <1>1, <1>3, <1>4 DEF WellFormed

\* Every step of a run, seen from the variables that say where it is.
LEMMA RunStepTyped ==
  ASSUME TypeOK, WellFormed, NEW r \in Run, RunStep(r)
  PROVE  RunTyped(r)
<1> USE DEF StepName, ApiStep, Over
<1>p. plan \in [Run -> Plan] /\ FileOf \in [Target -> File] /\ main \in [File -> Nat]
  BY WorkflowAssumption DEF TypeOK, Plan
<1>c. step[r] \in ApiStep => Current(r) \in Target /\ FileNow(r) \in Nat
  <2> SUFFICES ASSUME step[r] \in ApiStep PROVE Current(r) \in Target /\ FileNow(r) \in Nat
    OBVIOUS
  <2>1. todo[r] \in Seq(Target) /\ todo[r] # <<>> /\ Distinct(todo[r])
    BY DEF TypeOK, WellFormed
  <2>2. Current(r) \in Target
    BY <2>1, TailIs DEF Current
  <2> QED BY <1>p, <2>2 DEF FileNow
<1>1. CASE Start(r)
  BY <1>1, <1>p, GotoTyped DEF Start
<1>2. CASE Restore(r) \/ FetchFails(r) \/ UnpackFails(r)
  <2>1. /\ Goto(r, "probe") /\ step[r] = "restore" /\ UNCHANGED <<todo, plan>>
    BY <1>2 DEF Restore, FetchFails, UnpackFails
  <2> QED BY <1>p, <2>1, GotoTyped
<1>3. CASE Probe(r)
  <2>1. PICK list \in Lists : todo' = [todo EXCEPT ![r] = list]
    BY <1>3 DEF Probe
  <2>2. list \in Seq(Target) /\ Distinct(list)
    BY ListsAre
  <2>3. /\ todo' \in [Run -> Seq(Target)] /\ todo'[r] = list
        /\ \A s \in Run \ {r} : todo'[s] = todo[s]
    BY <2>1, <2>2 DEF TypeOK
  <2>4. /\ step' \in [Run -> StepName]
        /\ step'[r] \in ApiStep <=> todo'[r] # <<>>
        /\ \A s \in Run \ {r} : step'[s] = step[s]
    BY <1>3 DEF Probe, Goto, TypeOK
  <2>5. plan' = plan
    BY <1>3 DEF Probe
  <2> QED BY <1>p, <2>2, <2>3, <2>4, <2>5 DEF RunTyped
<1>4. CASE ExitFatal(r) \/ Push(r) \/ PushRejected(r) \/ PushFails(r) \/ Cancel(r)
  <2>1. End(r, "red") \/ End(r, "green")
    BY <1>4 DEF ExitFatal, Push, PushRejected, PushFails, Cancel
  <2> QED BY <2>1, EndTyped
<1>5. CASE Search(r)
  <2>1. CASE HasOpenPR(r)
    BY <1>5, <2>1, NextTargetTyped DEF Search
  <2>2. CASE ~HasOpenPR(r)
    BY <1>5, <2>2, <1>p, GotoTyped DEF Search
  <2> QED BY <2>1, <2>2
<1>6. CASE Number(r)
  <2> DEFINE taken == {b.n : b \in {b \in refs : b.target = Current(r)}}
  <2>1. taken \cup {0} \in SUBSET Nat /\ IsFiniteSet(taken \cup {0})
    <3>1. \A b \in refs : b.n \in Nat
      BY DEF TypeOK, Ref
    <3>2. taken \cup {0} \in SUBSET Nat
      BY <3>1
    <3>3. IsFiniteSet({b \in refs : b.target = Current(r)})
      BY FS_Subset DEF WellFormed
    <3>4. IsFiniteSet(taken)
      <4> DEFINE S == {b \in refs : b.target = Current(r)}
                 f == [b \in S |-> b.n]
      <4>1. f \in Surjection(S, taken)
        BY DEF Surjection
      <4> QED BY <3>3, <4>1, FS_Surjection
    <3> QED BY <3>2, <3>4, FS_AddElement
  <2>2. Max(taken \cup {0}) \in Nat
    <3> HIDE DEF taken
    <3> QED BY <2>1, MaxOfNumbers
  <2>3. plan' = [plan EXCEPT ![r].n = Max(taken \cup {0}) + 1]
    BY <1>6 DEF Number
  <2>4. plan' \in [Run -> Plan] /\ \A q \in Run \ {r} : plan'[q] = plan[q]
    <3>1. PICK n \in Nat : plan' = [plan EXCEPT ![r].n = n]
      <4> HIDE DEF taken
      <4>1. Max(taken \cup {0}) + 1 \in Nat
        BY <2>2
      <4> QED BY <4>1, <2>3, Zenon
    <3> QED BY <1>p, <3>1 DEF Plan
  <2>5. Goto(r, "base") /\ UNCHANGED todo /\ step[r] = "number"
    BY <1>6 DEF Number
  <2> QED BY <2>4, <2>5, GotoTyped
<1>7. CASE Base(r)
  <2>1. plan' \in [Run -> Plan] /\ \A q \in Run \ {r} : plan'[q] = plan[q]
    BY <1>7, <1>p, <1>c DEF Base, Plan
  <2> QED BY <1>7, <2>1, GotoTyped DEF Base
<1>8. CASE Blob(r)
  <2>1. plan' \in [Run -> Plan] /\ \A q \in Run \ {r} : plan'[q] = plan[q]
    BY <1>8, <1>p, <1>c DEF Blob, Plan
  <2> QED BY <1>8, <2>1, GotoTyped DEF Blob
<1>9. CASE NothingToEdit(r) \/ AddLabels(r) \/ Refused(r) \/ CallFails(r) \/ AnswerLost(r)
  <2>1. step[r] \in ApiStep /\ NextTarget(r)
    BY <1>9 DEF NothingToEdit, AddLabels, Refused, CallFails, AnswerLost
  <2> QED BY <2>1, NextTargetTyped
<1>10. CASE CreateBranch(r)
  BY <1>10, <1>p, GotoTyped DEF CreateBranch
<1>11. CASE CommitFile(r)
  BY <1>11, <1>p, GotoTyped DEF CommitFile
<1>12. CASE CreatePR(r)
  BY <1>12, <1>p, GotoTyped DEF CreatePR
<1>13. CASE LsRemote(r)
  <2>1. Len(log) \in Nat
    BY DEF TypeOK
  <2>2. plan' \in [Run -> Plan] /\ \A q \in Run \ {r} : plan'[q] = plan[q]
    BY <1>13, <1>p, <2>1 DEF LsRemote, Plan
  <2> QED BY <1>13, <2>2, GotoTyped DEF LsRemote
<1>14. CASE LsRemoteFails(r)
  BY <1>14, <1>p, GotoTyped DEF LsRemoteFails
<1> QED BY <1>1, <1>2, <1>3, <1>4, <1>5, <1>6, <1>7, <1>8, <1>9, <1>10, <1>11, <1>12, <1>13, <1>14
        DEF RunStep

\* The target of a run that has one.
LEMMA CurrentTyped ==
  ASSUME TypeOK, WellFormed, NEW r \in Run, step[r] \in ApiStep
  PROVE  /\ Current(r) \in Target /\ Current(r) = todo[r][1]
         /\ plan[r].n \in Nat /\ plan[r].base \in Nat
<1>1. todo[r] \in Seq(Target) /\ todo[r] # <<>> /\ Distinct(todo[r])
  BY DEF TypeOK, WellFormed
<1>2. plan[r] \in Plan
  BY DEF TypeOK, Plan
<1> QED BY <1>1, <1>2, TailIs DEF Current, Plan

\* What GitHub makes of a call.
LEMMA GitHubTyped ==
  ASSUME TypeOK, WellFormed, NEW r \in Run, step[r] \in ApiStep
  PROVE  /\ NewBranch(r) => refs' \subseteq Ref /\ IsFiniteSet(refs')
         /\ Edited(r) => refs' \subseteq Ref /\ IsFiniteSet(refs')
         /\ NewPull(r) => prs' \subseteq Pull /\ made' \subseteq Event
         /\ Labelled(r) => prs' \subseteq Pull
<1>1. Current(r) \in Target /\ plan[r].n \in Nat /\ plan[r].base \in Nat
  BY CurrentTyped
<1>2. refs \subseteq Ref /\ IsFiniteSet(refs) /\ prs \subseteq Pull /\ made \subseteq Event
  BY DEF TypeOK, WellFormed
<1>3. ASSUME NewBranch(r) PROVE refs' \subseteq Ref /\ IsFiniteSet(refs')
  <2>1. OwnBranch(r) \in Ref
    BY <1>1 DEF OwnBranch, Ref
  <2> QED BY <1>2, <1>3, <2>1, FS_AddElement DEF NewBranch
<1>4. ASSUME Edited(r) PROVE refs' \subseteq Ref /\ IsFiniteSet(refs')
  <2> PICK b \in Committable(r) : refs' = (refs \ {b}) \cup {[b EXCEPT !.edited = TRUE]}
    BY <1>4 DEF Edited
  <2>1. b \in Ref
    BY <1>2 DEF Committable
  <2>2. [b EXCEPT !.edited = TRUE] \in Ref
    BY <2>1 DEF Ref
  <2>3. IsFiniteSet(refs \ {b})
    BY <1>2, FS_RemoveElement
  <2> QED BY <1>2, <2>2, <2>3, FS_AddElement
<1>5. ASSUME NewPull(r) PROVE prs' \subseteq Pull /\ made' \subseteq Event
  <2>1. [target |-> Current(r), n |-> plan[r].n, run |-> r, label |-> FALSE] \in Pull
    BY <1>1 DEF Pull
  <2>2. <<r, Current(r)>> \in Event
    BY <1>1 DEF Event
  <2> QED BY <1>2, <1>5, <2>1, <2>2 DEF NewPull
<1>6. ASSUME Labelled(r) PROVE prs' \subseteq Pull
  <2>1. \A p \in prs : p \in Pull /\ [p EXCEPT !.label = TRUE] \in Pull
    BY <1>2 DEF Pull
  <2> QED BY <1>6, <2>1 DEF Labelled
<1> QED BY <1>3, <1>4, <1>5, <1>6

\* Every step of a run, seen from the repository.
LEMMA RepositoryTyped ==
  ASSUME TypeOK, WellFormed, NEW r \in Run, RunStep(r)
  PROVE  /\ main' = main
         /\ refs' \subseteq Ref /\ IsFiniteSet(refs')
         /\ prs' \subseteq Pull /\ made' \subseteq Event
<1>1. /\ refs \subseteq Ref /\ IsFiniteSet(refs) /\ prs \subseteq Pull /\ made \subseteq Event
      /\ <<r, "probe">> \in Event
  BY DEF TypeOK, WellFormed, Event
<1>2. CASE Probe(r) \/ ExitFatal(r)
  BY <1>1, <1>2 DEF Probe, ExitFatal, githubVars
<1>3. CASE CreateBranch(r) \/ CommitFile(r) \/ CreatePR(r) \/ AddLabels(r) \/ AnswerLost(r)
  <2>1. step[r] \in ApiStep
    BY <1>3 DEF CreateBranch, CommitFile, CreatePR, AddLabels, AnswerLost, ApiStep
  <2> QED BY <1>1, <1>3, <2>1, GitHubTyped
          DEF CreateBranch, CommitFile, CreatePR, AddLabels, AnswerLost, historyVars
<1>4. CASE UNCHANGED <<main, refs, prs, made>>
  BY <1>1, <1>4
<1>5. CASE Start(r) \/ Restore(r) \/ FetchFails(r) \/ UnpackFails(r) \/ Search(r) \/ Number(r)
           \/ Base(r) \/ Blob(r) \/ NothingToEdit(r) \/ Refused(r) \/ CallFails(r)
  BY <1>4, <1>5 DEF Start, Restore, FetchFails, UnpackFails, Search, Number, Base, Blob,
     NothingToEdit, Refused, CallFails, githubVars, historyVars
<1>6. CASE LsRemote(r) \/ LsRemoteFails(r) \/ Push(r) \/ PushRejected(r) \/ PushFails(r)
           \/ Cancel(r)
  BY <1>4, <1>6 DEF LsRemote, LsRemoteFails, Push, PushRejected, PushFails, Cancel, githubVars,
     historyVars
<1> QED BY <1>2, <1>3, <1>5, <1>6 DEF RunStep

\* Every step of a run, seen from the state branch: the tips it had stay in its
\* history, and what changes in the run's copy changes in that run only.
LEMMA BranchTyped ==
  ASSUME TypeOK, WellFormed, NEW r \in Run, RunStep(r)
  PROVE  /\ log' \in Seq(SUBSET Event)
         /\ \/ log' = log
            \/ log' = Append(log, tree[r]) /\ Accepted(r) /\ step[r] = "push" /\ step'[r] \in Over
         /\ tree' \in [Run -> SUBSET Event]
         /\ knows' \in [Run -> SUBSET (1..Len(log'))]
         /\ \A s \in Run \ {r} : tree'[s] = tree[s] /\ knows'[s] = knows[s]
<1>1. /\ log \in Seq(SUBSET Event) /\ tree \in [Run -> SUBSET Event]
      /\ knows \in [Run -> SUBSET (1..Len(log))] /\ step \in [Run -> StepName]
      /\ Len(log) \in Nat
  BY DEF TypeOK, StepName
<1>2. Tip \in SUBSET Event
  BY <1>1, ElementOfSeq DEF Tip
<1>3. Fetched(r) \in SUBSET (1..Len(log))
  BY <1>1, EmptySeq DEF Fetched
<1>4. CASE Start(r)
  BY <1>1, <1>4 DEF Start, githubVars
<1>5. CASE Restore(r) \/ UnpackFails(r)
  <2>1. PICK part \in SUBSET Tip : tree' = [tree EXCEPT ![r] = part]
    BY <1>5 DEF Restore, UnpackFails
  <2> QED BY <1>1, <1>2, <1>3, <1>5, <2>1 DEF Restore, UnpackFails, githubVars
<1>6. CASE Probe(r)
  BY <1>1, <1>6 DEF Probe, githubVars, Event
<1>7. CASE AddLabels(r)
  <2>1. Current(r) \in Target
    BY <1>7, CurrentTyped DEF AddLabels, ApiStep
  <2> QED BY <1>1, <1>7, <2>1 DEF AddLabels, Stamp, Event
<1>8. CASE ExitFatal(r) \/ PushRejected(r) \/ Cancel(r)
  <2>1. End(r, "red") /\ log' = log
    BY <1>8 DEF ExitFatal, PushRejected, Cancel, githubVars
  <2> QED BY <1>1, <2>1, EndTyped DEF Over
<1>9. CASE Push(r) \/ PushFails(r)
  <2>1. PICK colour \in Over : End(r, colour)
    BY <1>9 DEF Push, PushFails, Over
  <2>2. \/ log' = log
        \/ log' = Append(log, tree[r]) /\ Accepted(r)
    BY <1>9 DEF Push, PushFails
  <2>3. tree[r] \in SUBSET Event
    BY <1>1
  <2>4. log' \in Seq(SUBSET Event) /\ Len(log') \in Nat /\ Len(log) <= Len(log')
    BY <1>1, <2>2, <2>3, AppendProperties
  <2>5. 1..Len(log) \subseteq 1..Len(log')
    BY <1>1, <2>4
  <2>6. step[r] = "push"
    BY <1>9 DEF Push, PushFails
  <2> QED BY <2>1, <2>2, <2>4, <2>5, <2>6, EndTyped
<1>10. CASE UNCHANGED <<log, tree, knows>>
  BY <1>1, <1>10
<1> QED BY <1>4, <1>5, <1>6, <1>7, <1>8, <1>9, <1>10
        DEF RunStep, FetchFails, Search, Number, Base, Blob, NothingToEdit, CreateBranch, CommitFile,
            CreatePR, Refused, CallFails, AnswerLost, LsRemote, LsRemoteFails, githubVars

\* The types, and what they rest on.
TypeInv == TypeOK /\ WellFormed

\* A step of the maintainers leaves the runs alone.
LEMMA MaintainerTyped ==
  ASSUME TypeInv, Maintainer
  PROVE  TypeInv'
<1>1. UNCHANGED <<log, step, todo, tree, knows, plan, made, met, seen>>
  BY DEF Maintainer, Edit, Resolve, runVars, historyVars
<1>2. /\ refs \subseteq Ref /\ IsFiniteSet(refs) /\ prs \subseteq Pull
      /\ main \in [File -> Nat]
  BY DEF TypeInv, TypeOK, WellFormed
<1>3. main' \in [File -> Nat] /\ refs' \subseteq refs /\ prs' \subseteq prs
  <2>1. CASE \E f \in File : Edit(f)
    BY <1>2, <2>1 DEF Edit
  <2>2. CASE \E p \in prs : Resolve(p)
    <3> PICK p \in prs : Resolve(p)
      BY <2>2
    <3>1. p \in Pull /\ FileOf[p.target] \in File
      BY <1>2, WorkflowAssumption DEF Pull
    <3> QED BY <1>2, <3>1 DEF Resolve
  <2> QED BY <2>1, <2>2 DEF Maintainer
<1>4. refs' \subseteq Ref /\ IsFiniteSet(refs') /\ prs' \subseteq Pull
  BY <1>2, <1>3, FS_Subset
<1>5. TypeOK'
  BY <1>1, <1>3, <1>4 DEF TypeInv, TypeOK, ApiStep, Over, Event, Ref, Pull
<1>6. WellFormed'
  BY <1>1, <1>4 DEF TypeInv, WellFormed, ApiStep, Distinct
<1> QED BY <1>5, <1>6 DEF TypeInv

LEMMA RunTypes ==
  ASSUME TypeInv, NEW r \in Run, RunStep(r)
  PROVE  TypeInv'
<1>1. TypeOK /\ WellFormed
  BY DEF TypeInv
<1>2. RunTyped(r)
  BY <1>1, RunStepTyped
<1>3. main' = main /\ refs' \subseteq Ref /\ IsFiniteSet(refs') /\ prs' \subseteq Pull /\ made' \subseteq Event
  BY <1>1, RepositoryTyped
<1>4. /\ log' \in Seq(SUBSET Event) /\ tree' \in [Run -> SUBSET Event]
      /\ knows' \in [Run -> SUBSET (1..Len(log'))]
  BY <1>1, BranchTyped
<1>5. met' \subseteq SUBSET Run
  <2>1. CASE Start(r)
    <3>1. \A q \in Run : {r, q} \in SUBSET Run
      OBVIOUS
    <3>2. met \subseteq SUBSET Run
      BY <1>1 DEF TypeOK
    <3>3. ASSUME NEW m \in met' PROVE m \in SUBSET Run
      <4>1. m \in met \/ \E q \in Run : m = {r, q}
        BY <2>1, <3>3, Zenon DEF Start
      <4> QED BY <3>1, <3>2, <4>1
    <3> QED BY <3>3
  <2>2. CASE met' = met
    BY <1>1, <2>2 DEF TypeOK
  <2>3. CASE ~Start(r)
    BY <2>2, <2>3
       DEF RunStep, Restore, FetchFails, UnpackFails, Probe, ExitFatal, Search, Number, Base, Blob,
           NothingToEdit, CreateBranch, CommitFile, CreatePR, AddLabels, Refused, CallFails,
           AnswerLost, LsRemote, LsRemoteFails, Push, PushRejected, PushFails, Cancel, historyVars
  <2> QED BY <2>1, <2>3
<1>6. seen' \subseteq {"restore", "call"} \X Run
  <2>1. UNCHANGED seen \/ Note("restore", r) \/ Note("call", r)
    <3>1. CASE FetchFails(r) \/ UnpackFails(r) \/ CallFails(r) \/ AnswerLost(r)
      BY <3>1 DEF FetchFails, UnpackFails, CallFails, AnswerLost
    <3>2. CASE Start(r) \/ Restore(r) \/ Probe(r) \/ ExitFatal(r) \/ Search(r) \/ Number(r)
               \/ Base(r) \/ Blob(r) \/ NothingToEdit(r) \/ CreateBranch(r) \/ CommitFile(r)
      BY <3>2 DEF Start, Restore, Probe, ExitFatal, Search, Number, Base, Blob, NothingToEdit,
         CreateBranch, CommitFile, historyVars
    <3>3. CASE CreatePR(r) \/ AddLabels(r) \/ Refused(r) \/ LsRemote(r) \/ LsRemoteFails(r)
               \/ Push(r) \/ PushRejected(r) \/ PushFails(r) \/ Cancel(r)
      BY <3>3 DEF CreatePR, AddLabels, Refused, LsRemote, LsRemoteFails, Push, PushRejected,
         PushFails, Cancel, historyVars
    <3> QED BY <3>1, <3>2, <3>3 DEF RunStep
  <2>2. <<"restore", r>> \in {"restore", "call"} \X Run /\ <<"call", r>> \in {"restore", "call"} \X Run
    OBVIOUS
  <2>3. seen \subseteq {"restore", "call"} \X Run
    BY <1>1 DEF TypeOK
  <2> QED BY <2>1, <2>2, <2>3 DEF Note
<1>7. TypeOK'
  <2>1. main' \in [File -> Nat]
    BY <1>1, <1>3 DEF TypeOK
  <2> QED BY <1>2, <1>3, <1>4, <1>5, <1>6, <2>1
          DEF TypeOK, RunTyped, StepName, ApiStep, Over, Plan, Event, Ref, Pull
<1>8. WellFormed'
  BY <1>1, <1>2, <1>3, StillWellFormed
<1> QED BY <1>7, <1>8 DEF TypeInv

LEMMA TypesHold == Spec => []TypeInv
<1>1. Init => TypeInv
  <2> SUFFICES ASSUME Init PROVE TypeInv
    OBVIOUS
  <2>1. IsFiniteSet(refs)
    BY FS_EmptySet DEF Init
  <2>2. log \in Seq(SUBSET Event)
    <3>1. <<>> \in Seq(SUBSET Event) /\ <<{}>> \in Seq(SUBSET Event)
      OBVIOUS
    <3> QED BY <3>1 DEF Init
  <2>3. /\ step \in [Run -> StepName] /\ todo \in [Run -> Seq(Target)]
        /\ plan \in [Run -> Plan] /\ knows \in [Run -> SUBSET (1..Len(log))]
    BY DEF Init, NoPlan, Plan, StepName
  <2>4. TypeOK
    BY <2>2, <2>3 DEF Init, TypeOK, StepName, Plan
  <2> QED BY <2>1, <2>4 DEF Init, TypeInv, WellFormed, ApiStep, Distinct
<1>2. TypeInv /\ [Next]_vars => TypeInv'
  <2> SUFFICES ASSUME TypeInv, [Next]_vars PROVE TypeInv'
    OBVIOUS
  <2>1. CASE Next
    BY <2>1, RunTypes, MaintainerTyped DEF Next
  <2>2. CASE UNCHANGED vars
    BY <2>2 DEF vars, githubVars, runVars, historyVars, TypeInv, TypeOK, WellFormed, Distinct,
                ApiStep, Over, Event, Ref, Pull
  <2> QED BY <2>1, <2>2
<1> QED BY <1>1, <1>2, PTL DEF Spec

\* The type invariant holds of every state, however many runs overlap.
THEOREM TypeCorrect == Spec => []TypeOK
<1>1. TypeInv => TypeOK
  BY DEF TypeInv
<1> QED BY <1>1, TypesHold, PTL

-----------------------------------------------------------------------------
(* The state branch.  A clone knows some commits of it; git only lets a     *)
(* run build on the tip, and the run has the tip's events when that tip is  *)
(* the last commit its clone knows.                                         *)

\* The run has restored the state, or tried to.
Restored(r) == step[r] \notin {"waiting", "restore"}

Last(S, i) == i \in S /\ \A j \in S : j <= i

\* A restore that did not slip leaves the run with everything in the last
\* commit that its clone knows.
TipRestored ==
  \A r \in Run : Restored(r) /\ <<"restore", r>> \notin seen =>
    \A i \in 1..Len(log) : Last(knows[r], i) => log[i] \subseteq tree[r]

\* A run under way none of whose calls failed accounts for everything it did,
\* but for the pull request it has just opened.
MadeIsKept ==
  \A e \in made :
    /\ Restored(e[1])
    /\ step[e[1]] \notin Over /\ <<"call", e[1]>> \notin seen =>
         e \in tree[e[1]] \/ (step[e[1]] = "label" /\ e[2] = Current(e[1]))

StateInv == TipRestored /\ MadeIsKept /\ GreenIsRemembered

\* What is noted stays noted, and what is committed stays committed.
LEMMA HistoryGrows ==
  ASSUME TypeInv, NEW r \in Run, RunStep(r)
  PROVE  /\ seen \subseteq seen'
         /\ Len(log) \in Nat /\ Len(log') \in Nat /\ Len(log) <= Len(log')
         /\ \A i \in 1..Len(log) : log'[i] = log[i]
<1>1. seen \subseteq seen'
  <2>1. CASE FetchFails(r) \/ UnpackFails(r) \/ CallFails(r) \/ AnswerLost(r)
    BY <2>1 DEF FetchFails, UnpackFails, CallFails, AnswerLost, Note
  <2>2. CASE Start(r) \/ Restore(r) \/ Probe(r) \/ ExitFatal(r) \/ Search(r) \/ Number(r)
             \/ Base(r) \/ Blob(r) \/ NothingToEdit(r) \/ CreateBranch(r) \/ CommitFile(r)
    BY <2>2 DEF Start, Restore, Probe, ExitFatal, Search, Number, Base, Blob, NothingToEdit,
       CreateBranch, CommitFile, historyVars
  <2>3. CASE CreatePR(r) \/ AddLabels(r) \/ Refused(r) \/ LsRemote(r) \/ LsRemoteFails(r)
             \/ Push(r) \/ PushRejected(r) \/ PushFails(r) \/ Cancel(r)
    BY <2>3 DEF CreatePR, AddLabels, Refused, LsRemote, LsRemoteFails, Push, PushRejected,
       PushFails, Cancel, historyVars
  <2> QED BY <2>1, <2>2, <2>3 DEF RunStep
<1>2. log \in Seq(SUBSET Event) /\ tree[r] \in SUBSET Event
  BY DEF TypeInv, TypeOK
<1>3. log' = log \/ log' = Append(log, tree[r])
  BY BranchTyped DEF TypeInv
<1> QED BY <1>1, <1>2, <1>3, AppendProperties

\* The commit a run builds on is in its tree, unless its restore slipped.
LEMMA TipKept ==
  ASSUME TypeInv, TipRestored, NEW r \in Run, RunStep(r), <<"restore", r>> \notin seen
  PROVE  Tip \subseteq Tip'
<1>1. /\ log \in Seq(SUBSET Event) /\ tree[r] \in SUBSET Event
      /\ knows[r] \subseteq 1..Len(log) /\ Len(log) \in Nat
  BY DEF TypeInv, TypeOK
<1>2. CASE log' = log
  BY <1>2 DEF Tip
<1>3. CASE log' = Append(log, tree[r]) /\ Accepted(r) /\ step[r] = "push"
  <2>1. Tip' = tree[r]
    <3>1. log' # <<>> /\ log'[Len(log')] = tree[r]
      BY <1>1, <1>3, AppendProperties
    <3> QED BY <3>1 DEF Tip
  <2>2. CASE log = <<>>
    BY <2>2 DEF Tip
  <2>3. CASE log # <<>>
    <3>1. Len(log) \in knows[r] /\ Len(log) \in 1..Len(log)
      BY <1>1, <1>3, <2>3 DEF Accepted
    <3>2. Last(knows[r], Len(log))
      BY <1>1, <3>1 DEF Last
    <3>3. log[Len(log)] \subseteq tree[r]
      BY <1>3, <3>1, <3>2 DEF TipRestored, Restored
    <3> QED BY <2>1, <2>3, <3>3 DEF Tip
  <2> QED BY <2>2, <2>3
<1> QED BY <1>2, <1>3, BranchTyped DEF TypeInv

\* TipRestored of the run that takes the step.
LEMMA OwnTipRestored ==
  ASSUME TypeInv, TipRestored, NEW r \in Run, RunStep(r), Restored(r)', <<"restore", r>> \notin seen',
         NEW i \in 1..Len(log'), Last(knows'[r], i)
  PROVE  log'[i] \subseteq tree'[r]
<1> USE DEF ApiStep, Over
<1>1. /\ log \in Seq(SUBSET Event) /\ tree \in [Run -> SUBSET Event]
      /\ knows \in [Run -> SUBSET (1..Len(log))] /\ step \in [Run -> StepName]
      /\ Len(log) \in Nat
  BY DEF TypeInv, TypeOK, StepName
<1>2. <<"restore", r>> \notin seen
  BY HistoryGrows
<1>3. ASSUME log' = log, knows'[r] = knows[r], tree[r] \subseteq tree'[r], Restored(r)
      PROVE  log'[i] \subseteq tree'[r]
  BY <1>2, <1>3 DEF TipRestored
<1>4. CASE Start(r)
  BY <1>1, <1>4 DEF Start, Goto, Restored
<1>5. CASE Restore(r)
  <2>1. log' = log /\ tree'[r] = Tip /\ knows'[r] = Fetched(r)
    BY <1>1, <1>5 DEF Restore, githubVars
  <2>2. log # <<>> /\ Len(log) \in 1..Len(log)
    BY <1>1, <2>1, EmptySeq
  <2>3. Len(log) \in knows'[r] /\ i \in 1..Len(log)
    BY <2>1, <2>2 DEF Fetched
  <2>4. i = Len(log)
    BY <1>1, <2>3 DEF Last
  <2> QED BY <2>1, <2>2, <2>4 DEF Tip
<1>6. CASE FetchFails(r)
  <2>1. knows' = knows /\ knows[r] = {}
    BY <1>6 DEF FetchFails, Note
  <2> QED BY <2>1 DEF Last
<1>7. CASE UnpackFails(r)
  BY <1>7 DEF UnpackFails, Note
<1>8. CASE Probe(r)
  <2>1. log' = log /\ knows' = knows /\ tree[r] \subseteq tree'[r] /\ Restored(r)
    BY <1>1, <1>8 DEF Probe, githubVars, Restored
  <2> QED BY <1>3, <2>1
<1>9. CASE AddLabels(r)
  <2>1. log' = log /\ knows' = knows /\ tree[r] \subseteq tree'[r] /\ Restored(r)
    BY <1>1, <1>9 DEF AddLabels, Stamp, Restored
  <2> QED BY <1>3, <2>1
<1>10. CASE ExitFatal(r) \/ Push(r) \/ PushRejected(r) \/ PushFails(r) \/ Cancel(r)
  <2>1. End(r, "red") \/ End(r, "green")
    BY <1>10 DEF ExitFatal, Push, PushRejected, PushFails, Cancel
  <2>2. knows'[r] = {}
    BY <2>1, EndTyped DEF TypeInv
  <2> QED BY <2>2 DEF Last
<1>11. CASE Search(r) \/ Number(r) \/ Base(r) \/ Blob(r) \/ NothingToEdit(r) \/ CreateBranch(r)
            \/ CommitFile(r) \/ CreatePR(r) \/ Refused(r) \/ CallFails(r) \/ AnswerLost(r)
            \/ LsRemote(r) \/ LsRemoteFails(r)
  <2>1. UNCHANGED <<log, tree, knows>>
    BY <1>11 DEF Search, Number, Base, Blob, NothingToEdit, CreateBranch, CommitFile, CreatePR,
       Refused, CallFails, AnswerLost, LsRemote, LsRemoteFails, githubVars
  <2>2. Restored(r)
    BY <1>11 DEF Search, Number, Base, Blob, NothingToEdit, CreateBranch, CommitFile, CreatePR,
       Refused, CallFails, AnswerLost, LsRemote, LsRemoteFails, Restored
  <2> QED BY <1>3, <2>1, <2>2
<1> QED BY <1>4, <1>5, <1>6, <1>7, <1>8, <1>9, <1>10, <1>11 DEF RunStep

LEMMA TipRestoredStep ==
  ASSUME TypeInv, TipRestored, NEW r \in Run, RunStep(r)
  PROVE  TipRestored'
<1> SUFFICES ASSUME NEW s \in Run, Restored(s)', <<"restore", s>> \notin seen',
                    NEW i \in 1..Len(log'), Last(knows'[s], i)
             PROVE  log'[i] \subseteq tree'[s]
  BY Zenon DEF TipRestored, Last
<1>1. CASE s = r
  BY <1>1, OwnTipRestored
<1>2. CASE s # r
  <2>1. tree'[s] = tree[s] /\ knows'[s] = knows[s] /\ step'[s] = step[s]
    BY <1>2, BranchTyped, RunStepTyped DEF TypeInv, RunTyped
  <2>2. Restored(s) /\ <<"restore", s>> \notin seen
    BY <2>1, HistoryGrows DEF Restored
  <2>3. knows[s] \subseteq 1..Len(log)
    BY DEF TypeInv, TypeOK
  <2>4. i \in 1..Len(log) /\ Last(knows[s], i) /\ log'[i] = log[i]
    BY <2>1, <2>3, HistoryGrows DEF Last
  <2> QED BY <2>1, <2>2, <2>4 DEF TipRestored
<1> QED BY <1>1, <1>2

\* MadeIsKept of the run that takes the step.
LEMMA OwnMadeIsKept ==
  ASSUME TypeInv, MadeIsKept, NEW r \in Run, RunStep(r),
         NEW e \in made', e[1] = r
  PROVE  /\ Restored(r)'
         /\ step'[r] \notin Over /\ <<"call", r>> \notin seen' =>
              e \in tree'[r] \/ (step'[r] = "label" /\ e[2] = Current(r)')
<1> USE DEF ApiStep, Over, StepName
<1>1. /\ tree \in [Run -> SUBSET Event] /\ step \in [Run -> StepName]
      /\ seen \subseteq seen'
  BY HistoryGrows DEF TypeInv, TypeOK
<1>2. step' \in [Run -> StepName]
  BY RunStepTyped DEF TypeInv, RunTyped
<1>3. e \in Event /\ e = <<e[1], e[2]>>
  BY RepositoryTyped DEF TypeInv, Event
<1>4. e \in made =>
        /\ Restored(r)
        /\ step[r] \notin Over /\ <<"call", r>> \notin seen =>
             e \in tree[r] \/ (step[r] = "label" /\ e[2] = Current(r))
  BY DEF MadeIsKept
<1>5. CASE Start(r) \/ Restore(r) \/ FetchFails(r) \/ UnpackFails(r)
  <2>1. made' = made /\ step[r] \in {"waiting", "restore"}
    BY <1>5 DEF Start, Restore, FetchFails, UnpackFails, historyVars
  <2> QED BY <1>4, <2>1 DEF Restored
<1>6. CASE Probe(r)
  <2>1. /\ tree'[r] = tree[r] \cup {<<r, "probe">>} /\ step[r] = "probe"
        /\ made' = made \cup {<<r, "probe">>} /\ step'[r] \in {"persist", "search"}
    BY <1>1, <1>6 DEF Probe, Goto
  <2> QED BY <1>1, <1>4, <2>1 DEF Restored
<1>7. CASE ExitFatal(r) \/ Push(r) \/ PushRejected(r) \/ PushFails(r) \/ Cancel(r)
  <2>1. End(r, "red") \/ End(r, "green")
    BY <1>7 DEF ExitFatal, Push, PushRejected, PushFails, Cancel
  <2>2. step'[r] \in Over
    BY <2>1, EndTyped DEF TypeInv
  <2> QED BY <2>2 DEF Restored
<1>8. CASE Search(r) \/ Number(r) \/ Base(r) \/ Blob(r) \/ NothingToEdit(r) \/ CreateBranch(r)
           \/ CommitFile(r) \/ Refused(r) \/ LsRemote(r) \/ LsRemoteFails(r)
  <2>1. made' = made /\ tree' = tree
    BY <1>8 DEF Search, Number, Base, Blob, NothingToEdit, CreateBranch, CommitFile, Refused,
       LsRemote, LsRemoteFails, historyVars
  <2>2. step[r] \in {"search", "number", "base", "blob", "branch", "commit", "persist"}
    BY <1>8 DEF Search, Number, Base, Blob, NothingToEdit, CreateBranch, CommitFile, Refused,
       LsRemote, LsRemoteFails
  <2>3. step'[r] \notin {"waiting", "restore"}
    BY <1>1, <1>8 DEF Search, Number, Base, Blob, NothingToEdit, CreateBranch, CommitFile, Refused,
       LsRemote, LsRemoteFails, NextTarget, Goto
  <2> QED BY <1>1, <1>4, <2>1, <2>2, <2>3 DEF Restored
<1>9. CASE CreatePR(r)
  <2>1. /\ made' = made \cup {<<r, Current(r)>>} /\ tree' = tree /\ todo' = todo
        /\ step[r] = "pull" /\ step'[r] = "label"
    BY <1>1, <1>9 DEF CreatePR, NewPull, Goto
  <2>2. Current(r)' = Current(r)
    BY <2>1 DEF Current
  <2> QED BY <1>1, <1>4, <2>1, <2>2 DEF Restored
<1>10. CASE AddLabels(r)
  <2>1. /\ made' = made /\ tree'[r] = tree[r] \cup {<<r, Current(r)>>}
        /\ step[r] = "label"
    BY <1>1, <1>10 DEF AddLabels, Stamp, historyVars
  <2>2. step'[r] \in {"persist", "search"}
    BY <1>10, NextTargetTyped DEF AddLabels, TypeInv
  <2> QED BY <1>1, <1>3, <1>4, <2>1, <2>2 DEF Restored
<1>11. CASE CallFails(r) \/ AnswerLost(r)
  <2>1. <<"call", r>> \in seen' /\ step[r] \in ApiStep /\ NextTarget(r)
    BY <1>11 DEF CallFails, AnswerLost, Note
  <2>2. step'[r] \in {"persist", "search"}
    BY <2>1, NextTargetTyped DEF TypeInv
  <2> QED BY <2>1, <2>2 DEF Restored
<1> QED BY <1>5, <1>6, <1>7, <1>8, <1>9, <1>10, <1>11 DEF RunStep

\* Only the run itself adds to what it did.
LEMMA OthersMade ==
  ASSUME TypeInv, NEW r \in Run, RunStep(r), NEW e \in made', e[1] # r
  PROVE  e \in made
<1>1. CASE Probe(r) \/ ExitFatal(r)
  BY <1>1 DEF Probe, ExitFatal
<1>2. CASE CreatePR(r) \/ AnswerLost(r)
  BY <1>2 DEF CreatePR, AnswerLost, NewPull
<1>3. CASE UNCHANGED made
  BY <1>3
<1>4. CASE Start(r) \/ Restore(r) \/ FetchFails(r) \/ UnpackFails(r) \/ Search(r) \/ Number(r)
           \/ Base(r) \/ Blob(r) \/ NothingToEdit(r) \/ CreateBranch(r) \/ CommitFile(r)
  BY <1>3, <1>4 DEF Start, Restore, FetchFails, UnpackFails, Search, Number, Base, Blob,
     NothingToEdit, CreateBranch, CommitFile, historyVars
<1>5. CASE AddLabels(r) \/ Refused(r) \/ CallFails(r) \/ LsRemote(r) \/ LsRemoteFails(r)
           \/ Push(r) \/ PushRejected(r) \/ PushFails(r) \/ Cancel(r)
  BY <1>3, <1>5 DEF AddLabels, Refused, CallFails, LsRemote, LsRemoteFails, Push, PushRejected,
     PushFails, Cancel, historyVars
<1> QED BY <1>1, <1>2, <1>4, <1>5 DEF RunStep

LEMMA MadeIsKeptStep ==
  ASSUME TypeInv, MadeIsKept, NEW r \in Run, RunStep(r)
  PROVE  MadeIsKept'
<1> SUFFICES ASSUME NEW e \in made'
             PROVE  /\ Restored(e[1])'
                    /\ step'[e[1]] \notin Over /\ <<"call", e[1]>> \notin seen' =>
                         e \in tree'[e[1]] \/ (step'[e[1]] = "label" /\ e[2] = Current(e[1])')
  BY DEF MadeIsKept, Over, Restored, Current
<1>1. CASE e[1] = r
  BY <1>1, OwnMadeIsKept
<1>2. CASE e[1] # r
  <2>1. e \in made /\ e[1] \in Run
    <3>1. e \in made
      BY <1>2, OthersMade
    <3> QED BY <3>1 DEF TypeInv, TypeOK, Event
  <2>2. /\ tree'[e[1]] = tree[e[1]] /\ step'[e[1]] = step[e[1]] /\ todo'[e[1]] = todo[e[1]]
        /\ seen \subseteq seen'
    BY <1>2, <2>1, BranchTyped, RunStepTyped, HistoryGrows DEF TypeInv, RunTyped
  <2>3. Current(e[1])' = Current(e[1]) /\ Restored(e[1])' = Restored(e[1])
    BY <2>2 DEF Current, Restored
  <2> QED BY <2>1, <2>2, <2>3 DEF MadeIsKept
<1> QED BY <1>1, <1>2

LEMMA GreenStep ==
  ASSUME TypeInv, StateInv, NEW r \in Run, RunStep(r)
  PROVE  GreenIsRemembered'
<1> SUFFICES ASSUME NEW e \in made', step'[e[1]] = "green", <<"call", e[1]>> \notin seen',
                    \A q \in Run : <<"restore", q>> \notin seen'
             PROVE  e \in Tip'
  BY DEF GreenIsRemembered, Tip
<1>1. /\ seen \subseteq seen' /\ step \in [Run -> StepName] /\ tree[r] \in SUBSET Event
      /\ log \in Seq(SUBSET Event)
  BY HistoryGrows DEF TypeInv, TypeOK, StepName
<1>2. Tip \subseteq Tip'
  BY <1>1, TipKept DEF StateInv
<1>3. CASE e[1] # r
  <2>1. e \in made /\ e[1] \in Run
    BY <1>3, OthersMade DEF TypeInv, TypeOK, Event
  <2>2. step[e[1]] = "green"
    BY <1>3, <2>1, RunStepTyped DEF TypeInv, RunTyped
  <2> QED BY <1>1, <1>2, <2>1, <2>2 DEF StateInv, GreenIsRemembered
<1>4. CASE e[1] = r /\ Push(r)
  <2>1. e \in made /\ step[r] = "push" /\ log' = Append(log, tree[r])
    BY <1>4 DEF Push, historyVars
  <2>2. e \in tree[r]
    BY <1>1, <1>4, <2>1 DEF StateInv, MadeIsKept, Over
  <2>3. Tip' = tree[r]
    <3>1. log' # <<>> /\ log'[Len(log')] = tree[r]
      BY <1>1, <2>1, AppendProperties
    <3> QED BY <3>1 DEF Tip
  <2> QED BY <2>2, <2>3
<1>5. CASE e[1] = r /\ ~Push(r)
  <2>1. step'[r] # "green"
    <3> USE DEF Goto, End, ApiStep, NextTarget
    <3>1. CASE Start(r) \/ Restore(r) \/ FetchFails(r) \/ UnpackFails(r) \/ Probe(r)
               \/ Number(r) \/ Base(r) \/ Blob(r)
      BY <1>1, <3>1 DEF Start, Restore, FetchFails, UnpackFails, Probe, Number, Base, Blob
    <3>2. CASE Search(r) \/ NothingToEdit(r) \/ CreateBranch(r) \/ CommitFile(r) \/ CreatePR(r)
               \/ AddLabels(r) \/ Refused(r) \/ CallFails(r) \/ AnswerLost(r)
      BY <1>1, <3>2 DEF Search, NothingToEdit, CreateBranch, CommitFile, CreatePR, AddLabels,
         Refused, CallFails, AnswerLost
    <3>3. CASE ExitFatal(r) \/ LsRemote(r) \/ LsRemoteFails(r) \/ PushRejected(r)
               \/ PushFails(r) \/ Cancel(r)
      BY <1>1, <3>3 DEF ExitFatal, LsRemote, LsRemoteFails, PushRejected, PushFails, Cancel
    <3> QED BY <1>5, <3>1, <3>2, <3>3 DEF RunStep
  <2> QED BY <1>5, <2>1
<1> QED BY <1>3, <1>4, <1>5

\* A step of the maintainers, or of nobody, leaves all of it as it is.
LEMMA StateUnchanged ==
  ASSUME StateInv, UNCHANGED <<log, step, todo, tree, knows, made, seen>>
  PROVE  StateInv'
<1>1. TipRestored'
  BY DEF StateInv, TipRestored, Restored, Last
<1>2. MadeIsKept'
  BY DEF StateInv, MadeIsKept, Restored, Over, Current
<1>3. GreenIsRemembered'
  BY DEF StateInv, GreenIsRemembered, Tip
<1> QED BY <1>1, <1>2, <1>3 DEF StateInv

LEMMA StateHolds == Spec => []StateInv
<1>1. Init => StateInv
  <2> SUFFICES ASSUME Init PROVE StateInv
    OBVIOUS
  <2>1. made = {} /\ \A r \in Run : step[r] = "waiting"
    BY DEF Init
  <2> QED BY <2>1 DEF StateInv, TipRestored, MadeIsKept, GreenIsRemembered, Restored
<1>2. TypeInv /\ StateInv /\ [Next]_vars => StateInv'
  <2> SUFFICES ASSUME TypeInv, StateInv, [Next]_vars PROVE StateInv'
    OBVIOUS
  <2>1. CASE \E r \in Run : RunStep(r)
    BY <2>1, TipRestoredStep, MadeIsKeptStep, GreenStep DEF StateInv
  <2>2. CASE Maintainer
    BY <2>2, StateUnchanged DEF Maintainer, Edit, Resolve, runVars, historyVars
  <2>3. CASE UNCHANGED vars
    BY <2>3, StateUnchanged DEF vars, githubVars, runVars, historyVars
  <2> QED BY <2>1, <2>2, <2>3 DEF Next
<1> QED BY <1>1, <1>2, TypesHold, PTL DEF Spec

\* What a green run measured and opened is in the state branch for good, unless
\* one of its calls failed or a restore slipped, however many runs overlap
\* (.docker/entrypoint.sh: restore, run, persist).
THEOREM GreenRunsAreRemembered == Spec => []GreenIsRemembered
<1>1. StateInv => GreenIsRemembered
  BY DEF StateInv
<1> QED BY <1>1, StateHolds, PTL

\* No push drops what the state branch accounts for, unless the restore of the
\* run that pushes slipped: git only accepts a run whose clone has the tip.
THEOREM PushesDropNothing == Spec => NothingDropped
<1> DEFINE Keeps ==
      \A r \in Run :
        step[r] = "push" /\ step'[r] \in Over /\ <<"restore", r>> \notin seen => Tip \subseteq Tip'
<1>1. TypeInv /\ StateInv /\ [Next]_vars => [Keeps]_vars
  <2> SUFFICES ASSUME TypeInv, StateInv, Next,
                      NEW r \in Run, step[r] = "push", step'[r] \in Over, <<"restore", r>> \notin seen
               PROVE  Tip \subseteq Tip'
    OBVIOUS
  <2>1. CASE \E q \in Run : RunStep(q)
    <3> PICK q \in Run : RunStep(q)
      BY <2>1
    <3>1. q = r
      BY RunStepTyped DEF TypeInv, RunTyped, Over
    <3> QED BY <3>1, TipKept DEF StateInv
  <2>2. CASE Maintainer
    BY <2>2 DEF Maintainer, Edit, Resolve, Tip
  <2> QED BY <2>1, <2>2 DEF Next
<1>2. Spec => [][Keeps]_vars
  BY <1>1, TypesHold, StateHolds, PTL DEF Spec
<1> QED BY <1>2 DEF NothingDropped

-----------------------------------------------------------------------------
(* Branches and pull requests.                                              *)

OneBranchPerName ==
  \A b, c \in refs : b.target = c.target /\ b.n = c.n => b = c

\* A branch goes when its pull request does, so there is none without.
PullHasBranch ==
  \A p \in prs : \E b \in refs : b.target = p.target /\ b.n = p.n

OnePullPerBranch ==
  \A p, q \in prs : p.target = q.target /\ p.n = q.n => p = q

\* From its creation to the pull request a branch is the run's own.
OwnUntilPull ==
  \A r \in Run : step[r] \in {"commit", "pull"} =>
    /\ \E b \in refs : b.target = Current(r) /\ b.n = plan[r].n /\ b.owner = r
    /\ \A p \in prs : ~(p.target = Current(r) /\ p.n = plan[r].n)

BranchInv == OneBranchPerName /\ PullHasBranch /\ OnePullPerBranch /\ OwnUntilPull

\* The calls that create something, each with what the run does next.
GoesOn(r, next) == step'[r] = next /\ UNCHANGED <<todo, plan>>
GivesUp(r) == step'[r] \in {"persist", "search"}

Branches(r) ==
  step[r] = "branch" /\ NewBranch(r) /\ prs' = prs /\ (GoesOn(r, "commit") \/ GivesUp(r))
Commits(r) ==
  step[r] = "commit" /\ Edited(r) /\ prs' = prs /\ (GoesOn(r, "pull") \/ GivesUp(r))
Pulls(r) ==
  step[r] = "pull" /\ NewPull(r) /\ refs' = refs /\ (GoesOn(r, "label") \/ GivesUp(r))
Labels(r) ==
  step[r] = "label" /\ Labelled(r) /\ refs' = refs /\ GivesUp(r)

Creates(r) == Branches(r) \/ Commits(r) \/ Pulls(r) \/ Labels(r)

\* All other steps of a run leave GitHub as it is.
LEMMA RunStepCreates ==
  ASSUME TypeInv, NEW r \in Run, RunStep(r)
  PROVE  Creates(r) \/ (UNCHANGED <<refs, prs>> /\ step'[r] \notin {"commit", "pull"})
<1> USE DEF ApiStep, Over
<1>1. step \in [Run -> StepName] /\ TypeOK /\ WellFormed
  BY DEF TypeInv, TypeOK, StepName
<1>2. CASE CreateBranch(r) \/ CommitFile(r) \/ CreatePR(r)
  BY <1>1, <1>2 DEF CreateBranch, CommitFile, CreatePR, Goto, Creates, Branches, Commits, Pulls, GoesOn
<1>3. CASE AddLabels(r) \/ AnswerLost(r)
  <2>1. step[r] \in ApiStep /\ NextTarget(r)
    BY <1>3 DEF AddLabels, AnswerLost
  <2>2. step'[r] \in {"persist", "search"}
    BY <1>1, <2>1, NextTargetTyped
  <2> QED BY <1>3, <2>2 DEF AddLabels, AnswerLost, Creates, Branches, Commits, Pulls, Labels, GivesUp
<1>4. CASE Start(r) \/ Restore(r) \/ FetchFails(r) \/ UnpackFails(r) \/ Probe(r) \/ Number(r)
           \/ Base(r) \/ Blob(r)
  BY <1>1, <1>4 DEF Start, Restore, FetchFails, UnpackFails, Probe, Number, Base, Blob, Goto, githubVars
<1>5. CASE Search(r) \/ NothingToEdit(r) \/ Refused(r) \/ CallFails(r)
  BY <1>1, <1>5 DEF Search, NothingToEdit, Refused, CallFails, NextTarget, Goto, githubVars
<1>6. CASE ExitFatal(r) \/ LsRemote(r) \/ LsRemoteFails(r) \/ Push(r) \/ PushRejected(r)
           \/ PushFails(r) \/ Cancel(r)
  BY <1>1, <1>6 DEF ExitFatal, LsRemote, LsRemoteFails, Push, PushRejected, PushFails, Cancel, End,
     Goto, githubVars
<1> QED BY <1>2, <1>3, <1>4, <1>5, <1>6 DEF RunStep

\* What a run at "commit" or "pull" has to itself.
HasBranch(r, set) == \E b \in set : b.target = Current(r) /\ b.n = plan[r].n /\ b.owner = r
NoPull(r, set) == \A p \in set : ~(p.target = Current(r) /\ p.n = plan[r].n)

\* The other runs' part of OwnUntilPull, and the run's own if it goes on.
LEMMA OwnUntilPullStep ==
  ASSUME TypeInv, NEW r \in Run, RunStep(r), OwnUntilPull,
         \A s \in Run \ {r} :
           /\ HasBranch(s, refs) => HasBranch(s, refs')
           /\ HasBranch(s, refs) /\ NoPull(s, prs) => NoPull(s, prs'),
         step'[r] \in {"commit", "pull"} =>
           UNCHANGED <<todo, plan>> /\ HasBranch(r, refs') /\ NoPull(r, prs')
  PROVE  OwnUntilPull'
<1> SUFFICES ASSUME NEW s \in Run, step'[s] \in {"commit", "pull"}
             PROVE  /\ \E b \in refs' : b.target = Current(s)' /\ b.n = plan'[s].n /\ b.owner = s
                    /\ \A p \in prs' : ~(p.target = Current(s)' /\ p.n = plan'[s].n)
  BY DEF OwnUntilPull, Current
<1>1. Current(s)' = Current(s) /\ plan'[s] = plan[s] /\ HasBranch(s, refs') /\ NoPull(s, prs')
  <2>1. CASE s = r
    BY <2>1 DEF Current
  <2>2. CASE s # r
    <3>1. step'[s] = step[s] /\ todo'[s] = todo[s] /\ plan'[s] = plan[s]
      BY <2>2, RunStepTyped DEF TypeInv, RunTyped
    <3>2. HasBranch(s, refs) /\ NoPull(s, prs)
      BY <3>1 DEF OwnUntilPull, HasBranch, NoPull
    <3>3. HasBranch(s, refs') /\ NoPull(s, prs')
      BY <2>2, <3>2
    <3>4. Current(s)' = Current(s)
      BY <3>1 DEF Current
    <3> QED BY <3>1, <3>3, <3>4
  <2> QED BY <2>1, <2>2
<1> QED BY <1>1 DEF HasBranch, NoPull

LEMMA BranchStep ==
  ASSUME TypeInv, BranchInv, NEW r \in Run, RunStep(r)
  PROVE  BranchInv'
<1>1. /\ OneBranchPerName /\ PullHasBranch /\ OnePullPerBranch /\ OwnUntilPull
      /\ refs \subseteq Ref /\ prs \subseteq Pull
  BY DEF BranchInv, TypeInv, TypeOK
<1>2. CASE UNCHANGED <<refs, prs>> /\ step'[r] \notin {"commit", "pull"}
  <2>1. OwnUntilPull'
    BY <1>1, <1>2, OwnUntilPullStep
  <2> QED BY <1>1, <1>2, <2>1 DEF BranchInv, OneBranchPerName, PullHasBranch, OnePullPerBranch
<1>3. CASE Branches(r)
  <2> USE <1>3 DEF Branches, GoesOn, GivesUp
  <2>1. /\ refs' = refs \cup {OwnBranch(r)}
        /\ OwnBranch(r).target = Current(r) /\ OwnBranch(r).n = plan[r].n /\ OwnBranch(r).owner = r
    BY <1>3 DEF NewBranch, OwnBranch
  <2>2. \A b \in refs : ~(b.target = Current(r) /\ b.n = plan[r].n)
    BY <1>3 DEF NewBranch, Taken
  <2>3. NoPull(r, prs')
    BY <1>1, <1>3, <2>2 DEF NoPull, PullHasBranch
  <2>4. HasBranch(r, refs') /\ \A s \in Run : HasBranch(s, refs) => HasBranch(s, refs')
    BY <2>1 DEF HasBranch
  <2>5. OwnUntilPull'
    BY <1>1, <1>3, <2>3, <2>4, OwnUntilPullStep
  <2>6. OneBranchPerName'
    BY <1>1, <2>1, <2>2 DEF OneBranchPerName
  <2>7. PullHasBranch' /\ OnePullPerBranch'
    BY <1>1, <1>3, <2>1 DEF PullHasBranch, OnePullPerBranch
  <2> QED BY <2>5, <2>6, <2>7 DEF BranchInv
<1>4. CASE Commits(r)
  <2> USE <1>4 DEF Commits, GoesOn, GivesUp
  <2> PICK b \in Committable(r) : refs' = (refs \ {b}) \cup {[b EXCEPT !.edited = TRUE]}
    BY <1>4 DEF Edited
  <2> DEFINE new == [b EXCEPT !.edited = TRUE]
  <2>1. b \in refs /\ new.target = b.target /\ new.n = b.n /\ new.owner = b.owner
    BY <1>1 DEF Committable, Ref
  <2> HIDE DEF new
  <2>2. refs' = (refs \ {b}) \cup {new}
    BY DEF new
  <2>3. \A s \in Run : HasBranch(s, refs) => HasBranch(s, refs')
    BY <2>1, <2>2 DEF HasBranch
  <2>4. HasBranch(r, refs) /\ NoPull(r, prs)
    BY <1>1, <1>4 DEF OwnUntilPull, HasBranch, NoPull
  <2>5. OwnUntilPull'
    BY <1>1, <1>4, <2>3, <2>4, OwnUntilPullStep
  <2>6. OneBranchPerName'
    BY <1>1, <2>1, <2>2 DEF OneBranchPerName
  <2>7. PullHasBranch' /\ OnePullPerBranch'
    BY <1>1, <1>4, <2>1, <2>2 DEF PullHasBranch, OnePullPerBranch
  <2> QED BY <2>5, <2>6, <2>7 DEF BranchInv
<1>5. CASE Pulls(r)
  <2> USE <1>5 DEF Pulls, GoesOn, GivesUp
  <2> DEFINE new == [target |-> Current(r), n |-> plan[r].n, run |-> r, label |-> FALSE]
  <2>1. prs' = prs \cup {new} /\ new.target = Current(r) /\ new.n = plan[r].n
    BY <1>5 DEF NewPull
  <2> HIDE DEF new
  <2>2. HasBranch(r, refs) /\ NoPull(r, prs)
    BY <1>1, <1>5 DEF OwnUntilPull, HasBranch, NoPull
  <2>3. ASSUME NEW s \in Run \ {r}, HasBranch(s, refs), NoPull(s, prs) PROVE NoPull(s, prs')
    <3>1. ~(new.target = Current(s) /\ new.n = plan[s].n)
      BY <1>1, <2>1, <2>2, <2>3 DEF HasBranch, OneBranchPerName
    <3> QED BY <2>1, <2>3, <3>1 DEF NoPull
  <2>4. OwnUntilPull'
    BY <1>1, <1>5, <2>3, OwnUntilPullStep
  <2>5. PullHasBranch'
    BY <1>1, <1>5, <2>1, <2>2 DEF PullHasBranch, HasBranch
  <2>6. OnePullPerBranch'
    BY <1>1, <2>1, <2>2 DEF OnePullPerBranch, NoPull
  <2>7. OneBranchPerName'
    BY <1>1, <1>5 DEF OneBranchPerName
  <2> QED BY <2>4, <2>5, <2>6, <2>7 DEF BranchInv
<1>6. CASE Labels(r)
  <2> USE <1>6 DEF Labels, GivesUp
  <2> DEFINE New(p) == IF p.target = Current(r) /\ p.n = plan[r].n /\ p.run = r
                       THEN [p EXCEPT !.label = TRUE] ELSE p
  <2>1. \A p \in prs : New(p).target = p.target /\ New(p).n = p.n
    BY <1>1 DEF Pull
  <2>2. prs' = {New(p) : p \in prs}
    BY <1>6 DEF Labelled
  <2> HIDE DEF New
  <2>3. \A s \in Run : NoPull(s, prs) => NoPull(s, prs')
    BY <2>1, <2>2 DEF NoPull
  <2>4. OwnUntilPull'
    BY <1>1, <1>6, <2>3, OwnUntilPullStep
  <2>5. PullHasBranch' /\ OnePullPerBranch' /\ OneBranchPerName'
    BY <1>1, <1>6, <2>1, <2>2 DEF PullHasBranch, OnePullPerBranch, OneBranchPerName
  <2> QED BY <2>4, <2>5 DEF BranchInv
<1> QED BY <1>2, <1>3, <1>4, <1>5, <1>6, RunStepCreates DEF Creates

LEMMA BranchHolds == Spec => []BranchInv
<1>1. Init => BranchInv
  BY DEF Init, BranchInv, OneBranchPerName, PullHasBranch, OnePullPerBranch, OwnUntilPull
<1>2. TypeInv /\ BranchInv /\ [Next]_vars => BranchInv'
  <2> SUFFICES ASSUME TypeInv, BranchInv, [Next]_vars PROVE BranchInv'
    OBVIOUS
  <2> USE DEF BranchInv, OneBranchPerName, PullHasBranch, OnePullPerBranch, OwnUntilPull, Current
  <2>1. CASE \E r \in Run : RunStep(r)
    BY <2>1, BranchStep
  <2>2. CASE \E f \in File : Edit(f)
    BY <2>2 DEF Edit, runVars
  <2>3. CASE \E p \in prs : Resolve(p)
    <3> PICK p \in prs : Resolve(p)
      BY <2>3
    <3>1. /\ prs' = prs \ {p} /\ UNCHANGED <<step, todo, plan>>
          /\ refs' \in {refs, {b \in refs : ~(b.target = p.target /\ b.n = p.n)}}
      BY DEF Resolve, runVars
    <3>2. OneBranchPerName' /\ OnePullPerBranch'
      BY <3>1
    <3>3. PullHasBranch'
      BY <3>1
    <3>4. OwnUntilPull'
      BY <3>1
    <3> QED BY <3>2, <3>3, <3>4
  <2>4. CASE UNCHANGED vars
    BY <2>4 DEF vars, githubVars, runVars
  <2> QED BY <2>1, <2>2, <2>3, <2>4 DEF Next, Maintainer
<1> QED BY <1>1, <1>2, TypesHold, PTL DEF Spec

\* A commit lands on the branch of the run that commits and is the first on it
\* (CreateBranch with the number of NextBranchN, then CreateOrUpdateFile): two
\* runs never share a branch, although both may have chosen its name.
THEOREM CommitsStayOwn == Spec => BranchesAreOwn
<1> DEFINE Own == \A b \in refs' \ refs : b.edited =>
                    /\ step[b.owner] = "commit" /\ step'[b.owner] # "commit"
                    /\ [b EXCEPT !.edited = FALSE] \in refs
<1>1. TypeInv /\ BranchInv /\ [Next]_vars => [Own]_vars
  <2> SUFFICES ASSUME TypeInv, BranchInv, Next, NEW b \in refs' \ refs, b.edited
               PROVE  /\ step[b.owner] = "commit" /\ step'[b.owner] # "commit"
                      /\ [b EXCEPT !.edited = FALSE] \in refs
    OBVIOUS
  <2>1. CASE \E r \in Run : RunStep(r)
    <3> PICK r \in Run : RunStep(r)
      BY <2>1
    <3>1. \/ step[r] = "branch" /\ NewBranch(r)
          \/ step[r] = "commit" /\ Edited(r) /\ step'[r] \in {"pull", "persist", "search"}
      BY RunStepCreates DEF Creates, Branches, Commits, Pulls, Labels, GoesOn, GivesUp
    <3>2. CASE step[r] = "branch" /\ NewBranch(r)
      BY <3>2 DEF NewBranch, OwnBranch
    <3>3. CASE step[r] = "commit" /\ Edited(r) /\ step'[r] \in {"pull", "persist", "search"}
      <4> PICK c \in Committable(r) : refs' = (refs \ {c}) \cup {[c EXCEPT !.edited = TRUE]}
        BY <3>3 DEF Edited
      <4>1. c \in refs /\ c \in Ref /\ c.target = Current(r) /\ c.n = plan[r].n /\ ~c.edited
        BY DEF Committable, TypeInv, TypeOK
      <4>2. c.owner = r
        BY <3>3, <4>1 DEF BranchInv, OneBranchPerName, OwnUntilPull
      <4>3. b = [c EXCEPT !.edited = TRUE]
        OBVIOUS
      <4>4. b.owner = r /\ [b EXCEPT !.edited = FALSE] = c
        BY <4>1, <4>2, <4>3 DEF Ref
      <4> QED BY <3>3, <4>1, <4>4
    <3> QED BY <3>1, <3>2, <3>3
  <2>2. CASE Maintainer
    BY <2>2 DEF Maintainer, Edit, Resolve
  <2> QED BY <2>1, <2>2 DEF Next
<1>2. Spec => [][Own]_vars
  BY <1>1, TypesHold, BranchHolds, PTL DEF Spec
<1> QED BY <1>2 DEF BranchesAreOwn

-----------------------------------------------------------------------------
(* One pull request per target.                                             *)

Underway(r) == step[r] \notin Over \cup {"waiting"}

UnderwayMet ==
  \A r, s \in Run : r # s /\ Underway(r) /\ Underway(s) => {r, s} \in met

\* A run is through with the targets of its pull requests, but for the label.
PullsAreBehind ==
  \A p \in prs :
    /\ step[p.run] \notin {"waiting", "restore", "probe"}
    /\ \A i \in 1..Len(todo[p.run]) : todo[p.run][i] = p.target => i = 1 /\ step[p.run] = "label"

OnePullEach ==
  \A p, q \in prs : p.run = q.run /\ p.target = q.target => p = q

\* A run only gets past the search next to a labelled pull request if it was
\* under way together with the run that opened it.
SearchedOrMet ==
  \A p \in prs, r \in Run :
    p.label /\ p.run # r /\ step[r] \in ApiStep \ {"search"} /\ Current(r) = p.target =>
      {p.run, r} \in met

PullInv == UnderwayMet /\ PullsAreBehind /\ OnePullEach /\ SearchedOrMet /\ OnePRPerTarget

\* Where a run is before and after a step, and what becomes of its targets.
Begins(r) == step[r] \in {"waiting", "restore", "probe"} /\ step'[r] \notin ApiStep \ {"search"}
Ends(r) == step[r] \notin Over \cup {"waiting"} /\ step'[r] \in Over /\ todo'[r] = <<>>
Advances(r) ==
  /\ step[r] \in ApiStep /\ step'[r] \in {"persist", "search"}
  /\ todo'[r] = Tail(todo[r])
Continues(r) ==
  /\ todo' = todo
  /\ \/ step[r] = "persist" /\ step'[r] = "push"
     \/ step[r] = "search" /\ step'[r] = "number" /\ ~HasOpenPR(r) /\ prs' = prs
     \/ /\ step[r] \in ApiStep \ {"search", "label"}
        /\ step'[r] \in ApiStep \ {"search"}
        /\ step[r] = "pull" => step'[r] = "label"

LEMMA RunStepMoves ==
  ASSUME TypeInv, NEW r \in Run, RunStep(r)
  PROVE  Begins(r) \/ Ends(r) \/ Advances(r) \/ Continues(r)
<1> USE DEF ApiStep, Over
<1>1. step \in [Run -> StepName] /\ TypeOK /\ WellFormed
  BY DEF TypeInv, TypeOK, StepName
<1>2. CASE Start(r) \/ Restore(r) \/ FetchFails(r) \/ UnpackFails(r) \/ Probe(r)
  BY <1>1, <1>2 DEF Start, Restore, FetchFails, UnpackFails, Probe, Goto, Begins
<1>3. CASE ExitFatal(r) \/ Push(r) \/ PushRejected(r) \/ PushFails(r) \/ Cancel(r)
  <2>1. step[r] \notin Over \cup {"waiting"} /\ (End(r, "red") \/ End(r, "green"))
    BY <1>3 DEF ExitFatal, Push, PushRejected, PushFails, Cancel
  <2>2. step'[r] \in Over /\ todo'[r] = <<>>
    BY <1>1, <2>1, EndTyped
  <2> QED BY <2>1, <2>2 DEF Ends
<1>4. CASE step[r] \in ApiStep /\ NextTarget(r)
  BY <1>1, <1>4, NextTargetTyped DEF Advances
<1>5. CASE NothingToEdit(r) \/ AddLabels(r) \/ Refused(r) \/ CallFails(r) \/ AnswerLost(r)
  BY <1>4, <1>5 DEF NothingToEdit, AddLabels, Refused, CallFails, AnswerLost
<1>6. CASE Search(r)
  <2>1. CASE HasOpenPR(r)
    BY <1>4, <1>6, <2>1 DEF Search
  <2>2. CASE ~HasOpenPR(r)
    BY <1>1, <1>6, <2>2 DEF Search, Goto, Continues, githubVars
  <2> QED BY <2>1, <2>2
<1>7. CASE Number(r) \/ Base(r) \/ Blob(r) \/ CreateBranch(r) \/ CommitFile(r)
  BY <1>1, <1>7 DEF Number, Base, Blob, CreateBranch, CommitFile, Goto, Continues
<1>8. CASE CreatePR(r)
  BY <1>1, <1>8 DEF CreatePR, Goto, Continues
<1>9. CASE LsRemote(r) \/ LsRemoteFails(r)
  BY <1>1, <1>9 DEF LsRemote, LsRemoteFails, Goto, Continues
<1> QED BY <1>2, <1>3, <1>5, <1>6, <1>7, <1>8, <1>9 DEF RunStep

\* Who is under way together, as far as a step changes it.
LEMMA MetStep ==
  ASSUME TypeInv, UnderwayMet, NEW r \in Run, RunStep(r)
  PROVE  met \subseteq met' /\ UnderwayMet'
<1>1. step \in [Run -> StepName] /\ RunTyped(r)
  BY RunStepTyped DEF TypeInv, TypeOK, StepName
<1>2. CASE Start(r)
  <2>1. met \subseteq met'
    BY <1>2 DEF Start
  <2>2. ASSUME NEW q \in Run, NEW s \in Run, q # s, Underway(q)', Underway(s)'
        PROVE  {q, s} \in met'
    <3>1. \A p \in Run \ {r} : Underway(p)' => Underway(p)
      BY <1>1 DEF RunTyped, Underway, Over
    <3>2. \A p \in Run : Underway(p) => {r, p} \in met'
      BY <1>2 DEF Start, Underway
    <3>3. {q, s} = {s, q}
      OBVIOUS
    <3>4. CASE q # r /\ s # r
      BY <2>1, <2>2, <3>1, <3>4 DEF UnderwayMet
    <3>5. CASE q = r
      BY <2>2, <3>1, <3>2, <3>5
    <3>6. CASE s = r
      BY <2>2, <3>1, <3>2, <3>3, <3>6
    <3> QED BY <3>4, <3>5, <3>6
  <2> QED BY <2>1, <2>2 DEF UnderwayMet, Underway
<1>3. CASE ~Start(r)
  <2>1. met' = met
    <3>1. CASE Restore(r) \/ FetchFails(r) \/ UnpackFails(r) \/ Probe(r) \/ ExitFatal(r)
               \/ Search(r) \/ Number(r) \/ Base(r) \/ Blob(r) \/ NothingToEdit(r)
      BY <3>1 DEF Restore, FetchFails, UnpackFails, Probe, ExitFatal, Search, Number, Base, Blob,
         NothingToEdit, historyVars
    <3>2. CASE CreateBranch(r) \/ CommitFile(r) \/ CreatePR(r) \/ AddLabels(r) \/ Refused(r)
               \/ CallFails(r) \/ AnswerLost(r)
      BY <3>2 DEF CreateBranch, CommitFile, CreatePR, AddLabels, Refused, CallFails, AnswerLost,
         historyVars
    <3>3. CASE LsRemote(r) \/ LsRemoteFails(r) \/ Push(r) \/ PushRejected(r) \/ PushFails(r)
               \/ Cancel(r)
      BY <3>3 DEF LsRemote, LsRemoteFails, Push, PushRejected, PushFails, Cancel, historyVars
    <3> QED BY <1>3, <3>1, <3>2, <3>3 DEF RunStep
  <2>2. step[r] # "waiting"
    <3>1. CASE Restore(r) \/ FetchFails(r) \/ UnpackFails(r) \/ Probe(r) \/ ExitFatal(r)
               \/ Search(r) \/ Number(r) \/ Base(r) \/ Blob(r) \/ NothingToEdit(r)
      BY <3>1 DEF Restore, FetchFails, UnpackFails, Probe, ExitFatal, Search, Number, Base, Blob,
         NothingToEdit
    <3>2. CASE CreateBranch(r) \/ CommitFile(r) \/ CreatePR(r) \/ AddLabels(r) \/ Refused(r)
               \/ CallFails(r) \/ AnswerLost(r)
      BY <3>2 DEF CreateBranch, CommitFile, CreatePR, AddLabels, Refused, CallFails, AnswerLost,
         ApiStep
    <3>3. CASE LsRemote(r) \/ LsRemoteFails(r) \/ Push(r) \/ PushRejected(r) \/ PushFails(r)
               \/ Cancel(r)
      BY <3>3 DEF LsRemote, LsRemoteFails, Push, PushRejected, PushFails, Cancel, Over
    <3> QED BY <1>3, <3>1, <3>2, <3>3 DEF RunStep
  <2>3. \A s \in Run : Underway(s)' => Underway(s)
    <3>1. step[r] \in Over => FALSE
      BY RunStepMoves, <1>1, <2>2 DEF Begins, Ends, Advances, Continues, Over, ApiStep
    <3> QED BY <1>1, <2>2, <3>1 DEF RunTyped, Underway, Over
  <2> QED BY <2>1, <2>3 DEF UnderwayMet, Underway
<1> QED BY <1>2, <1>3

\* A pull request after a step: a new one without a label, or one there was,
\* to which only the run under way may have added the label.
Fresh(r, p) == step[r] = "pull" /\ p.run = r /\ p.target = Current(r) /\ ~p.label
Kept(r, q, p) ==
  /\ p.run = q.run /\ p.target = q.target
  /\ p.label = q.label \/ (step[r] = "label" /\ p.run = r /\ p.target = Current(r))

LEMMA PullsStep ==
  ASSUME TypeInv, NEW r \in Run, RunStep(r), NEW p \in prs'
  PROVE  Fresh(r, p) \/ \E q \in prs : Kept(r, q, p)
<1>1. prs \subseteq Pull
  BY DEF TypeInv, TypeOK
<1>2. CASE prs' = prs
  BY <1>2 DEF Kept
<1>3. CASE Pulls(r)
  BY <1>3 DEF Pulls, NewPull, Fresh, Kept
<1>4. CASE Labels(r)
  <2>1. PICK q \in prs : p = IF q.target = Current(r) /\ q.n = plan[r].n /\ q.run = r
                            THEN [q EXCEPT !.label = TRUE] ELSE q
    BY <1>4 DEF Labels, Labelled
  <2>2. Kept(r, q, p)
    BY <1>1, <1>4, <2>1 DEF Labels, Kept, Pull
  <2> QED BY <2>2
<1> QED BY <1>2, <1>3, <1>4, RunStepCreates DEF Creates, Branches, Commits

LEMMA PullsAreBehindStep ==
  ASSUME TypeInv, PullsAreBehind, NEW r \in Run, RunStep(r)
  PROVE  PullsAreBehind'
<1> SUFFICES ASSUME NEW p \in prs'
             PROVE  /\ step'[p.run] \notin {"waiting", "restore", "probe"}
                    /\ \A i \in 1..Len(todo'[p.run]) :
                         todo'[p.run][i] = p.target => i = 1 /\ step'[p.run] = "label"
  BY DEF PullsAreBehind
<1>1. /\ \A s \in Run \ {r} : step'[s] = step[s] /\ todo'[s] = todo[s]
      /\ step' \in [Run -> StepName]
  BY RunStepTyped DEF TypeInv, RunTyped
<1>2. p.run \in Run
  <2>1. p \in Pull
    BY RepositoryTyped DEF TypeInv
  <2> QED BY <2>1 DEF Pull
<1>3. ASSUME NEW q \in prs, Kept(r, q, p), p.run # r
      PROVE  /\ step'[p.run] \notin {"waiting", "restore", "probe"}
             /\ \A i \in 1..Len(todo'[p.run]) :
                  todo'[p.run][i] = p.target => i = 1 /\ step'[p.run] = "label"
  BY <1>1, <1>2, <1>3 DEF PullsAreBehind, Kept
<1>4. ASSUME p.run = r, step[r] \notin {"waiting", "restore", "probe"},
             \A i \in 1..Len(todo[r]) : todo[r][i] = p.target => i = 1,
             step[r] # "pull" => \A i \in 1..Len(todo[r]) : todo[r][i] = p.target => step[r] = "label"
      PROVE  /\ step'[r] \notin {"waiting", "restore", "probe"}
             /\ \A i \in 1..Len(todo'[r]) : todo'[r][i] = p.target => i = 1 /\ step'[r] = "label"
  <2> USE DEF ApiStep, Over
  <2>1. CASE Begins(r)
    BY <1>4, <2>1 DEF Begins
  <2>2. CASE Ends(r)
    BY <2>2 DEF Ends
  <2>3. CASE Advances(r)
    <3>1. todo[r] \in Seq(Target) /\ todo[r] # <<>> /\ Distinct(todo[r])
      BY <2>3 DEF Advances, TypeInv, TypeOK, WellFormed
    <3>2. /\ Len(todo[r]) \in Nat /\ Len(Tail(todo[r])) = Len(todo[r]) - 1
          /\ \A i \in 1..Len(Tail(todo[r])) : Tail(todo[r])[i] = todo[r][i + 1]
      BY <3>1, TailIs
    <3>3. ASSUME NEW i \in 1..Len(Tail(todo[r])), Tail(todo[r])[i] = p.target PROVE FALSE
      <4>1. i + 1 \in 1..Len(todo[r]) /\ todo[r][i + 1] = p.target
        BY <3>2, <3>3
      <4>2. i + 1 = 1
        BY <1>4, <4>1
      <4> QED BY <4>2
    <3> QED BY <2>3, <3>3 DEF Advances
  <2>4. CASE Continues(r)
    BY <1>4, <2>4 DEF Continues
  <2> QED BY <2>1, <2>2, <2>3, <2>4, RunStepMoves
<1>5. CASE Fresh(r, p)
  <2>1. todo[r] \in Seq(Target) /\ todo[r] # <<>> /\ Distinct(todo[r]) /\ step[r] \in ApiStep
    BY <1>5 DEF Fresh, ApiStep, TypeInv, TypeOK, WellFormed
  <2>2. p.target = todo[r][1] /\ 1 \in 1..Len(todo[r])
    BY <1>5, <2>1, TailIs DEF Fresh, Current
  <2>3. \A i \in 1..Len(todo[r]) : todo[r][i] = p.target => i = 1
    BY <2>1, <2>2 DEF Distinct
  <2> QED BY <1>4, <1>5, <2>3 DEF Fresh
<1>6. ASSUME NEW q \in prs, Kept(r, q, p), p.run = r
      PROVE  /\ step[r] \notin {"waiting", "restore", "probe"}
             /\ \A i \in 1..Len(todo[r]) : todo[r][i] = p.target => i = 1 /\ step[r] = "label"
  BY <1>6 DEF PullsAreBehind, Kept
<1>7. CASE \E q \in prs : Kept(r, q, p)
  BY <1>3, <1>4, <1>6, <1>7
<1> QED BY <1>5, <1>7, PullsStep

LEMMA OnePullEachStep ==
  ASSUME TypeInv, PullsAreBehind, OnePullEach, NEW r \in Run, RunStep(r)
  PROVE  OnePullEach'
<1>1. prs \subseteq Pull
  BY DEF TypeInv, TypeOK
<1>2. CASE prs' = prs
  BY <1>2 DEF OnePullEach
<1>3. CASE Pulls(r)
  <2> DEFINE new == [target |-> Current(r), n |-> plan[r].n, run |-> r, label |-> FALSE]
  <2>1. prs' = prs \cup {new} /\ new.target = Current(r) /\ new.run = r
    BY <1>3 DEF Pulls, NewPull
  <2> HIDE DEF new
  <2>2. todo[r] \in Seq(Target) /\ todo[r] # <<>> /\ Distinct(todo[r])
    BY <1>3 DEF Pulls, ApiStep, TypeInv, TypeOK, WellFormed
  <2>3. Current(r) = todo[r][1] /\ 1 \in 1..Len(todo[r])
    BY <2>2, TailIs DEF Current
  <2>4. \A q \in prs : ~(q.run = r /\ q.target = Current(r))
    BY <1>3, <2>3 DEF Pulls, PullsAreBehind
  <2> QED BY <2>1, <2>4 DEF OnePullEach
<1>4. CASE Labels(r)
  <2> DEFINE New(p) == IF p.target = Current(r) /\ p.n = plan[r].n /\ p.run = r
                       THEN [p EXCEPT !.label = TRUE] ELSE p
  <2>1. \A p \in prs : New(p).target = p.target /\ New(p).run = p.run
    BY <1>1 DEF Pull
  <2>2. prs' = {New(p) : p \in prs}
    BY <1>4 DEF Labels, Labelled
  <2> HIDE DEF New
  <2> QED BY <2>1, <2>2 DEF OnePullEach
<1> QED BY <1>2, <1>3, <1>4, RunStepCreates DEF Creates, Branches, Commits

LEMMA SearchedOrMetStep ==
  ASSUME TypeInv, UnderwayMet, SearchedOrMet, NEW r \in Run, RunStep(r)
  PROVE  SearchedOrMet'
<1> SUFFICES ASSUME NEW p \in prs', NEW s \in Run, p.label, p.run # s,
                    step'[s] \in ApiStep \ {"search"}, Current(s)' = p.target
             PROVE  {p.run, s} \in met'
  BY DEF SearchedOrMet, ApiStep, Current
<1>1. /\ \A q \in Run \ {r} : step'[q] = step[q] /\ todo'[q] = todo[q]
      /\ step' \in [Run -> StepName]
  BY RunStepTyped DEF TypeInv, RunTyped
<1>2. PICK q \in prs : Kept(r, q, p)
  BY PullsStep DEF Fresh
<1>3. met \subseteq met'
  BY MetStep
<1>4. CASE s = r
  <2>1. /\ Current(r)' = Current(r)
        /\ \/ step[r] = "search" /\ ~HasOpenPR(r) /\ prs' = prs
           \/ step[r] \in ApiStep \ {"search"}
    BY <1>4, RunStepMoves DEF Begins, Ends, Advances, Continues, ApiStep, Over, Current
  <2>2. p.label = q.label
    BY <1>2, <1>4 DEF Kept
  <2>3. CASE step[r] = "search" /\ ~HasOpenPR(r) /\ prs' = prs
    BY <1>4, <2>1, <2>3 DEF HasOpenPR
  <2>4. CASE step[r] \in ApiStep \ {"search"}
    BY <1>2, <1>3, <1>4, <2>1, <2>2, <2>4 DEF SearchedOrMet, Kept
  <2> QED BY <2>1, <2>3, <2>4
<1>5. CASE s # r
  <2>1. step'[s] = step[s] /\ Current(s)' = Current(s)
    BY <1>1, <1>5 DEF Current
  <2>2. CASE p.label = q.label
    BY <1>2, <1>3, <2>1, <2>2 DEF SearchedOrMet, Kept
  <2>3. CASE step[r] = "label" /\ p.run = r
    <3>1. Underway(r) /\ Underway(s)
      BY <2>1, <2>3 DEF Underway, ApiStep, Over
    <3> QED BY <1>3, <1>5, <2>3, <3>1 DEF UnderwayMet
  <2> QED BY <1>2, <2>2, <2>3 DEF Kept
<1> QED BY <1>4, <1>5

LEMMA OnePRStep ==
  ASSUME TypeInv, PullInv, NEW r \in Run, RunStep(r), OnePullEach'
  PROVE  OnePRPerTarget'
<1> SUFFICES ASSUME NEW p \in prs', NEW q \in prs', p # q, p.target = q.target, p.label, q.label
             PROVE  {p.run, q.run} \in met'
  BY DEF OnePRPerTarget
<1>1. PICK a \in prs : Kept(r, a, p)
  BY PullsStep DEF Fresh
<1>2. PICK b \in prs : Kept(r, b, q)
  BY PullsStep DEF Fresh
<1>3. met \subseteq met' /\ p.run # q.run
  BY MetStep DEF PullInv, OnePullEach
<1>4. CASE p.label = a.label /\ q.label = b.label
  BY <1>1, <1>2, <1>3, <1>4 DEF Kept, PullInv, OnePRPerTarget
<1>5. ASSUME NEW c \in prs, c.label, c.run # r, c.target = Current(r), step[r] = "label"
      PROVE  {c.run, r} \in met'
  BY <1>3, <1>5 DEF PullInv, SearchedOrMet, ApiStep
<1>6. CASE p.label # a.label
  <2>1. step[r] = "label" /\ p.run = r /\ p.target = Current(r)
    BY <1>1, <1>6 DEF Kept
  <2>2. b.label /\ b.run = q.run /\ b.run # r /\ b.target = Current(r)
    BY <1>2, <1>3, <2>1 DEF Kept
  <2>3. {p.run, q.run} = {b.run, r}
    BY <2>1, <2>2
  <2> QED BY <1>5, <2>1, <2>2, <2>3
<1>7. CASE q.label # b.label
  <2>1. step[r] = "label" /\ q.run = r /\ q.target = Current(r)
    BY <1>2, <1>7 DEF Kept
  <2>2. a.label /\ a.run = p.run /\ a.run # r /\ a.target = Current(r)
    BY <1>1, <1>3, <2>1 DEF Kept
  <2>3. {p.run, q.run} = {a.run, r}
    BY <2>1, <2>2
  <2> QED BY <1>5, <2>1, <2>2, <2>3
<1> QED BY <1>4, <1>6, <1>7

LEMMA PullHolds == Spec => []PullInv
<1>1. Init => PullInv
  BY DEF Init, PullInv, UnderwayMet, Underway, PullsAreBehind, OnePullEach, SearchedOrMet,
     OnePRPerTarget
<1>2. TypeInv /\ PullInv /\ [Next]_vars => PullInv'
  <2> SUFFICES ASSUME TypeInv, PullInv, [Next]_vars PROVE PullInv'
    OBVIOUS
  <2>1. CASE \E r \in Run : RunStep(r)
    <3> PICK r \in Run : RunStep(r)
      BY <2>1
    <3>1. UnderwayMet' /\ PullsAreBehind' /\ OnePullEach' /\ SearchedOrMet'
      BY MetStep, PullsAreBehindStep, OnePullEachStep, SearchedOrMetStep DEF PullInv
    <3> QED BY <3>1, OnePRStep DEF PullInv
  <2>2. CASE prs' \subseteq prs /\ UNCHANGED <<step, todo, met>>
    BY <2>2 DEF PullInv, UnderwayMet, Underway, Over, ApiStep, PullsAreBehind, OnePullEach,
       SearchedOrMet, OnePRPerTarget, Current
  <2>3. CASE Maintainer
    BY <2>2, <2>3 DEF Maintainer, Edit, Resolve, runVars, historyVars
  <2>4. CASE UNCHANGED vars
    BY <2>2, <2>4 DEF vars, githubVars, runVars, historyVars
  <2> QED BY <2>1, <2>3, <2>4 DEF Next
<1> QED BY <1>1, <1>2, TypesHold, PTL DEF Spec

\* Two labelled pull requests with one title are only open together if their
\* runs overlapped: a run that starts after another one has ended sees what
\* that one has opened (Client.HasOpenPR).
THEOREM OverlapMakesDuplicates == Spec => []OnePRPerTarget
<1>1. PullInv => OnePRPerTarget
  BY DEF PullInv
<1> QED BY <1>1, PullHolds, PTL
=============================================================================
