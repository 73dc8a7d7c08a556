---------------------------- MODULE ProbeVerdict ----------------------------
(***************************************************************************)
(* What the probing half of a run promises, without its workers and        *)
(* channels: one answer per declared endpoint moves its streak once, the   *)
(* streaks of what is no longer declared are dropped, and one answer per   *)
(* flagged endpoint decides what stays dead.                               *)
(***************************************************************************)
EXTENDS Naturals

CONSTANTS
  Key,         \* liveness keys of one chain's state
  Jobs,        \* the keys the checkout declares
  MinFailures, \* --min-failures
  MaxStreak    \* bound: the longest streak a state file brings along

VARIABLES
  phase,   \* "probe", then "preflight", then "done"
  streak,  \* ConsecutiveFailures per key
  dead     \* flagged keys that did not pass the preflight

verdictVars == <<phase, streak, dead>>

Answer == {"pass", "fail", "skip"}

After(n, answer) ==
  CASE answer = "pass" -> 0
    [] answer = "fail" -> n + 1
    [] answer = "skip" -> n

Mature(s) == {k \in Key : s[k] >= MinFailures}

Init ==
  /\ phase = "probe"
  /\ streak \in [Key -> 0..MaxStreak]
  /\ dead = {}

\* Probe everything, update and prune.
Measure ==
  /\ phase = "probe"
  /\ \E ans \in [Jobs -> Answer] :
       streak' = [k \in Key |-> IF k \in Jobs THEN After(streak[k], ans[k]) ELSE 0]
  /\ phase' = IF Mature(streak') = {} THEN "done" ELSE "preflight"
  /\ UNCHANGED dead

\* Probe what is flagged once more, and forgive what passes.
Recheck ==
  /\ phase = "preflight"
  /\ \E alive \in SUBSET Mature(streak) :
       /\ streak' = [k \in Key |-> IF k \in alive THEN 0 ELSE streak[k]]
       /\ dead' = Mature(streak) \ alive
  /\ phase' = "done"

Next == Measure \/ Recheck

Spec == Init /\ [][Next]_verdictVars /\ WF_verdictVars(Next)
=============================================================================
