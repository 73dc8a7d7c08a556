----------------------------- MODULE ProbePool -----------------------------
(***************************************************************************)
(* The probing half of a run, goroutine by goroutine                       *)
(* (cmd/sentinel/probe.go, updateState in main.go, preflight in            *)
(* prflow.go).  buildJobs drops duplicate declarations; runWorkers fills   *)
(* and closes a job channel, starts the workers, and closes the result     *)
(* channel once they have all returned; the main goroutine ranges over the *)
(* results in whatever order they arrive, folds them into the streaks one  *)
(* by one, prunes, and sends the flagged keys through the same pool again. *)
(***************************************************************************)
EXTENDS Naturals, FiniteSets, Sequences, SequencesExt

CONSTANTS
  Key,         \* liveness keys of one chain's state: (check, address) pairs
  Declared,    \* the chain's declarations in order; the registry has duplicates
  Concurrency, \* --concurrency
  MinFailures, \* --min-failures
  MaxStreak    \* bound: the longest streak a state file brings along

ASSUME PoolAssumption ==
  /\ Declared \in Seq(Key)
  /\ Concurrency \in Nat \ {0}
  /\ MinFailures \in Nat \ {0}
  /\ MaxStreak \in Nat

VARIABLES
  pc,       \* main: "collect", "update", "drain" (the preflight), "done"
  loaded,   \* what loadStateMap read: ConsecutiveFailures per key
  streak,   \* stateMap: ConsecutiveFailures per key
  jobs,     \* what runWorkers put into the job channel, before closing it
  taken,    \* how many jobs the workers have received
  stage,    \* per worker: "free", "probing", "sending", "gone"
  job,      \* per worker: the index of the job it received last, 0 for none
  out,      \* per worker: results of its probe it has still to send
  resultCh, \* the result channel's buffer
  closed,   \* the result channel is closed
  results,  \* collectResults: the slice it appends to
  handled,  \* how many of the results updateState has gone through
  passed,   \* preflight: the keys that passed
  dead      \* collectFlagged after the preflight: what is proposed

poolVars == <<jobs, taken, stage, job, out, resultCh, closed>>
mainVars == <<pc, loaded, streak, results, handled, passed, dead>>
vars == <<poolVars, mainVars>>

Answer == {"pass", "fail", "skip"}

\* A liveness probe also yields a chain-ID verdict, skipped unless it passed.
Result == [key : Key, check : {"liveness", "chain_id"}, answer : Answer]

Worker == 1..Concurrency

Smaller(m, n) == IF m < n THEN m ELSE n

-----------------------------------------------------------------------------
(* Operators named Mutant... are slips the code could contain, in the place *)
(* of the definition that follows them.                                     *)

\* The elements of s at the positions in at, in their order.
Rank(i, at) == Cardinality({j \in at : j <= i})
Those(s, at) == [n \in 1..Cardinality(at) |-> s[CHOOSE i \in at : Rank(i, at) = n]]

MutantKeepDuplicates(decl) == decl

\* buildJobs: the first occurrence of a declaration wins.
BuildJobs(decl) ==
  Those(decl, {i \in DOMAIN decl : \A j \in 1..(i - 1) : decl[j] # decl[i]})

\* preflight: the jobs with a key in set.
JobsIn(set) == Those(jobs, {i \in DOMAIN jobs : jobs[i] \in set})

\* The result channel has room for both results of every job.
Capacity == 2 * Len(jobs)

\* updateState passes on liveness results that were measured.
Counts(r) == r.check = "liveness" /\ r.answer # "skip"

MutantDecay(n, r) ==
  IF ~Counts(r) THEN n ELSE IF r.answer = "pass" THEN n - 1 ELSE n + 1

MutantCountAll(n, r) == IF r.answer = "pass" THEN 0 ELSE n + 1

\* ChainState.Update, as updateState calls it.
Updated(n, r) ==
  IF ~Counts(r) THEN n ELSE IF r.answer = "pass" THEN 0 ELSE n + 1

\* What updateState and collectFlagged find mature.
Flagged(s) == {k \in Key : s[k] >= MinFailures}

\* runWorkers, up to its return: n workers over the jobs.
StartPool(todo, n) ==
  /\ jobs' = todo
  /\ taken' = 0
  /\ stage' = [w \in Worker |-> IF w <= n THEN "free" ELSE "gone"]
  /\ job' = [w \in Worker |-> 0]
  /\ out' = [w \in Worker |-> <<>>]
  /\ resultCh' = <<>>
  /\ closed' = FALSE

Init ==
  /\ pc = "collect"
  /\ loaded \in [Key -> 0..MaxStreak]
  /\ streak = loaded
  /\ jobs = BuildJobs(Declared)
  /\ taken = 0
  /\ stage = [w \in Worker |-> "free"]
  /\ job = [w \in Worker |-> 0]
  /\ out = [w \in Worker |-> <<>>]
  /\ resultCh = <<>>
  /\ closed = FALSE
  /\ results = <<>>
  /\ handled = 0
  /\ passed = {}
  /\ dead = {}

-----------------------------------------------------------------------------
(* A worker: range over the job channel, probe, send what the probe says.   *)

Take(w) ==
  /\ stage[w] = "free"
  /\ taken < Len(jobs)
  /\ taken' = taken + 1
  /\ job' = [job EXCEPT ![w] = taken + 1]
  /\ stage' = [stage EXCEPT ![w] = "probing"]
  /\ UNCHANGED <<jobs, out, resultCh, closed, mainVars>>

\* The context's deadline bounds the probe: it answers, one way or another.
Probe(w) ==
  /\ stage[w] = "probing"
  /\ \E a \in Answer, c \in Answer :
       /\ a # "pass" => c = "skip"
       /\ out' = [out EXCEPT ![w] = <<[key |-> jobs[job[w]], check |-> "liveness", answer |-> a],
                                      [key |-> jobs[job[w]], check |-> "chain_id", answer |-> c]>>]
  /\ stage' = [stage EXCEPT ![w] = "sending"]
  /\ UNCHANGED <<jobs, taken, job, resultCh, closed, mainVars>>

\* A send waits for room in the buffer.
Send(w) ==
  /\ stage[w] = "sending"
  /\ Len(resultCh) < Capacity
  /\ resultCh' = Append(resultCh, Head(out[w]))
  /\ out' = [out EXCEPT ![w] = Tail(@)]
  /\ stage' = [stage EXCEPT ![w] = IF Tail(out[w]) = <<>> THEN "free" ELSE "sending"]
  /\ UNCHANGED <<jobs, taken, job, closed, mainVars>>

\* The job channel was not closed: the range over it never ends.
MutantChannelLeftOpen(w) == FALSE /\ UNCHANGED vars

\* The job channel is closed and drained: wg.Done.
Leave(w) ==
  /\ stage[w] = "free"
  /\ taken = Len(jobs)
  /\ stage' = [stage EXCEPT ![w] = "gone"]
  /\ UNCHANGED <<jobs, taken, job, out, resultCh, closed, mainVars>>

MutantCloseWhenTaken ==
  /\ ~closed
  /\ taken = Len(jobs)
  /\ closed' = TRUE
  /\ UNCHANGED <<jobs, taken, stage, job, out, resultCh, mainVars>>

\* wg.Wait, then close: only once every worker has returned.
Close ==
  /\ ~closed
  /\ \A w \in Worker : stage[w] = "gone"
  /\ closed' = TRUE
  /\ UNCHANGED <<jobs, taken, stage, job, out, resultCh, mainVars>>

-----------------------------------------------------------------------------
(* The main goroutine.                                                      *)

\* collectResults: one result.
Collect ==
  /\ pc = "collect"
  /\ resultCh # <<>>
  /\ results' = Append(results, Head(resultCh))
  /\ resultCh' = Tail(resultCh)
  /\ UNCHANGED <<pc, loaded, streak, jobs, taken, stage, job, out, closed, handled, passed, dead>>

Collected ==
  /\ pc = "collect"
  /\ closed /\ resultCh = <<>>
  /\ pc' = "update"
  /\ UNCHANGED <<poolVars, loaded, streak, results, handled, passed, dead>>

\* updateState: one result.
UpdateOne ==
  /\ pc = "update"
  /\ handled < Len(results)
  /\ LET r == results[handled + 1]
     IN  streak' = [streak EXCEPT ![r.key] = Updated(@, r)]
  /\ handled' = handled + 1
  /\ UNCHANGED <<pc, poolVars, loaded, results, passed, dead>>

\* updateState prunes what buildActiveLivenessKeys does not list; with nothing
\* flagged the run ends here, else preflight hands the flagged jobs to a new
\* pool, with no more workers than jobs.
PruneAndFlag ==
  /\ pc = "update"
  /\ handled = Len(results)
  /\ streak' = [k \in Key |-> IF k \in ToSet(Declared) THEN streak[k] ELSE 0]
  /\ LET filtered == JobsIn(Flagged(streak'))
     IN  IF filtered = <<>>
         THEN pc' = "done" /\ UNCHANGED poolVars
         ELSE pc' = "drain" /\ StartPool(filtered, Smaller(Len(filtered), Concurrency))
  /\ UNCHANGED <<loaded, results, handled, passed, dead>>

\* preflight: one result.
Drain ==
  /\ pc = "drain"
  /\ resultCh # <<>>
  /\ LET r == Head(resultCh)
     IN  passed' = IF r.check = "liveness" /\ r.answer = "pass" THEN passed \cup {r.key} ELSE passed
  /\ resultCh' = Tail(resultCh)
  /\ UNCHANGED <<pc, loaded, streak, jobs, taken, stage, job, out, closed, results, handled, dead>>

\* applyPreflightResults.
Drained ==
  /\ pc = "drain"
  /\ closed /\ resultCh = <<>>
  /\ dead' = Flagged(streak) \ passed
  /\ streak' = [k \in Key |-> IF k \in passed THEN 0 ELSE streak[k]]
  /\ pc' = "done"
  /\ UNCHANGED <<poolVars, loaded, results, handled, passed>>

\* The rest of the run is not modelled here.
Done == pc = "done" /\ UNCHANGED vars

-----------------------------------------------------------------------------

WorkerStep(w) == Take(w) \/ Probe(w) \/ Send(w) \/ Leave(w)

MainStep == Collect \/ Collected \/ UpdateOne \/ PruneAndFlag \/ Drain \/ Drained

Next == (\E w \in Worker : WorkerStep(w)) \/ Close \/ MainStep \/ Done

\* The Go scheduler runs every goroutine that can run.
Fairness == (\A w \in Worker : WF_vars(WorkerStep(w))) /\ WF_vars(Close) /\ WF_vars(MainStep)

Spec == Init /\ [][Next]_vars /\ Fairness

-----------------------------------------------------------------------------
(* Properties.                                                              *)

TypeOK ==
  /\ pc \in {"collect", "update", "drain", "done"}
  /\ loaded \in [Key -> Nat]
  /\ streak \in [Key -> Nat]
  /\ jobs \in Seq(Key)
  /\ taken \in 0..Len(jobs)
  /\ stage \in [Worker -> {"free", "probing", "sending", "gone"}]
  /\ job \in [Worker -> 0..Len(jobs)]
  /\ out \in [Worker -> Seq(Result)]
  /\ resultCh \in Seq(Result)
  /\ closed \in BOOLEAN
  /\ results \in Seq(Result)
  /\ handled \in 0..Len(results)
  /\ passed \subseteq Key
  /\ dead \subseteq Key

\* No result is lost and none is counted twice: when collectResults returns it
\* holds exactly one liveness result of every declared key, however often the
\* registry repeats it (buildJobs: "One job per occurrence would double-count
\* the streak").
OneResultEach ==
  pc # "collect" =>
    \A k \in Key :
      LET found == {i \in DOMAIN results : results[i].key = k /\ results[i].check = "liveness"}
      IN  IF k \in ToSet(Declared) THEN \E i \in found : found = {i} ELSE found = {}

\* No worker sends on a closed channel, which would panic, and none ever waits
\* for room: the buffer holds whatever the workers have left to send.
SendsAreSafe ==
  \A w \in Worker : stage[w] = "sending" => ~closed /\ Len(resultCh) < Capacity

\* Both passes come to an end.
Terminates == <>(pc = "done")

\* Workers and arrival order do not matter: the pool does what ProbeVerdict
\* does in two steps.
Verdict == INSTANCE ProbeVerdict WITH
  Jobs   <- ToSet(Declared),
  phase  <- CASE pc \in {"collect", "update"} -> "probe"
              [] pc = "drain" -> "preflight"
              [] pc = "done" -> "done",
  streak <- IF pc \in {"collect", "update"} THEN loaded ELSE streak

VerdictSpec == Verdict!Spec
=============================================================================
