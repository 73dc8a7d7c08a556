-------------------------- MODULE ProbePoolProofs --------------------------
(***************************************************************************)
(* Proofs about ProbePool, for any declarations, any number of workers and *)
(* every interleaving of them.                                             *)
(*                                                                         *)
(* What a worker owes is what its job will still bring.  The invariant     *)
(* says that of every job that was taken each result has arrived or is     *)
(* owed by the one worker that has the job, and not both.  With that the   *)
(* channel never holds more than two results per job but one while a       *)
(* worker sends, and all results are there when nobody owes any.           *)
(***************************************************************************)
EXTENDS ProbePool, FiniteSetTheorems, SequenceTheorems, TLAPS

-----------------------------------------------------------------------------
(* The inductive invariant.                                                 *)

Busy(w) == stage[w] \in {"probing", "sending"}

\* What worker w has still to send: nothing else may have arrived of its job.
Owes(w, k, check) ==
  /\ \/ stage[w] = "probing"
     \/ stage[w] = "sending" /\ (check = "chain_id" \/ Len(out[w]) = 2)
  /\ k = jobs[job[w]]

\* The results that reached main or are on their way, in order.
Arrived == IF pc = "collect" THEN results \o resultCh ELSE resultCh

\* No key is in two jobs.
JobsDiffer == \A i, j \in DOMAIN jobs : jobs[i] = jobs[j] => i = j

\* A busy worker has a job, and something to send when it sends.
InHand ==
  \A w \in Worker :
    /\ Busy(w) => job[w] # 0
    /\ stage[w] = "sending" => Len(out[w]) # 0

TypeInv == TypeOK /\ InHand

\* A job is one worker's, and a worker that sends has both results of its job
\* in hand, or the second.
WorkersApart ==
  /\ \A w \in Worker : job[w] <= taken
  /\ \A v, w \in Worker : job[v] = job[w] /\ job[v] # 0 => v = w
  /\ \A w \in Worker : stage[w] = "sending" =>
       /\ Len(out[w]) \in {1, 2}
       /\ \A n \in DOMAIN out[w] :
            /\ out[w][n].key = jobs[job[w]]
            /\ out[w][n].check = IF n = Len(out[w]) THEN "chain_id" ELSE "liveness"

\* What has arrived comes from jobs that were taken, nothing twice, and nothing
\* that a worker is still to send.
ArrivedOnce ==
  /\ \A m, n \in DOMAIN Arrived :
       Arrived[m].key = Arrived[n].key /\ Arrived[m].check = Arrived[n].check => m = n
  /\ \A n \in DOMAIN Arrived : \E i \in 1..taken : Arrived[n].key = jobs[i]
  /\ \A n \in DOMAIN Arrived, w \in Worker : ~Owes(w, Arrived[n].key, Arrived[n].check)

\* The channel is closed behind the last worker.
ClosedLast == closed => \A w \in Worker : stage[w] = "gone"

PoolInv == JobsDiffer /\ WorkersApart /\ ArrivedOnce /\ ClosedLast

\* Nothing of a job that was taken is lost before the results are complete.
NoneLost ==
  pc = "collect" =>
    /\ \A w \in Worker : stage[w] = "gone" => taken = Len(jobs)
    /\ \A i \in 1..taken :
         \/ \E n \in DOMAIN Arrived : Arrived[n].key = jobs[i] /\ Arrived[n].check = "liveness"
         \/ \E w \in Worker : Owes(w, jobs[i], "liveness")

\* The jobs are what is declared, and then what is flagged.
JobsAre ==
  /\ pc \in {"collect", "update"} => ToSet(jobs) = ToSet(Declared)
  /\ pc = "drain" => ToSet(jobs) = Flagged(streak)

CollectInv == JobsAre /\ NoneLost /\ OneResultEach

\* While the results are folded in, a streak is as loaded, or moved once by the
\* liveness result of its key.
FoldedOnce ==
  /\ pc = "collect" => streak = loaded /\ handled = 0
  /\ pc = "update" =>
       /\ \A m \in 1..handled : results[m].check = "liveness" =>
            streak[results[m].key] = Updated(loaded[results[m].key], results[m])
       /\ \A k \in Key :
            (\A m \in 1..handled : ~(results[m].key = k /\ results[m].check = "liveness")) =>
              streak[k] = loaded[k]

\* Before the preflight nothing has passed, in it only what is flagged.
PassedFlagged ==
  /\ pc \in {"collect", "update"} => passed = {}
  /\ pc = "drain" => passed \subseteq Flagged(streak)
  /\ pc # "done" => dead = {}

VerdictInv == FoldedOnce /\ PassedFlagged

-----------------------------------------------------------------------------
(* Picking elements of a sequence by their positions.                       *)

\* A set of numbers that is not empty has a least element.
LEMMA LeastPosition ==
  ASSUME NEW S \in SUBSET Nat, S # {}
  PROVE  \E m \in S : \A k \in S : m <= k
<1> DEFINE less == OpToRel(<, Nat)
<1>1. IsWellFoundedOn(less, Nat)
  BY NatLessThanWellFounded
<1>2. PICK m \in S : \A k \in S : <<k, m>> \notin less
  <2> HIDE DEF less
  <2> QED BY <1>1, WFMin
<1>3. ASSUME NEW k \in S PROVE m <= k
  <2>1. ~(k < m)
    BY <1>2 DEF OpToRel
  <2> QED BY <2>1
<1> QED BY <1>3

\* The n-th of a finite set of numbers is the only one with n below or at it.
LEMMA RanksAre ==
  ASSUME NEW S \in SUBSET Nat, IsFiniteSet(S), NEW n \in 1..Cardinality(S)
  PROVE  \E i \in S : Rank(i, S) = n /\ \A k \in S : Rank(k, S) = n => k = i
<1> DEFINE upTo(i) == {j \in S : j <= i}
           rank == [i \in S |-> Rank(i, S)]
<1>1. Cardinality(S) \in Nat
  BY FS_CardinalityType
<1>2. IsFiniteSet(1..Cardinality(S)) /\ Cardinality(1..Cardinality(S)) = Cardinality(S)
  BY <1>1, FS_Interval
<1>3. ASSUME NEW i \in S
      PROVE  IsFiniteSet(upTo(i)) /\ Rank(i, S) = Cardinality(upTo(i)) /\ Rank(i, S) \in 1..Cardinality(S)
  <2>1. upTo(i) \subseteq S /\ upTo(i) # {}
    BY <1>3
  <2>2. IsFiniteSet(upTo(i)) /\ Cardinality(upTo(i)) <= Cardinality(S)
    BY <2>1, FS_Subset
  <2>3. Cardinality(upTo(i)) \in Nat /\ Cardinality(upTo(i)) # 0
    BY <2>1, <2>2, FS_CardinalityType, FS_EmptySet
  <2> QED BY <1>1, <2>2, <2>3 DEF Rank
<1>4. ASSUME NEW i \in S, NEW k \in S, i < k
      PROVE  rank[i] # rank[k]
  <2>1. k \in upTo(k) /\ k \notin upTo(i)
    BY <1>4
  <2>2. upTo(i) \in SUBSET upTo(k)
    <3>1. ASSUME NEW j \in upTo(i) PROVE j \in upTo(k)
      <4>1. j \in Nat /\ i \in Nat /\ k \in Nat /\ j <= i
        BY <3>1
      <4> QED BY <1>4, <3>1, <4>1
    <3> HIDE DEF upTo
    <3> QED BY <3>1
  <2>3. Cardinality(upTo(i)) # Cardinality(upTo(k))
    <3>1. IsFiniteSet(upTo(k)) /\ upTo(i) # upTo(k)
      BY <1>3, <2>1
    <3> HIDE DEF upTo
    <3> QED BY <2>2, <3>1, FS_Subset
  <2> QED BY <1>3, <2>3
<1>5. rank \in Injection(S, 1..Cardinality(S))
  <2>1. rank \in [S -> 1..Cardinality(S)]
    BY <1>3
  <2>2. ASSUME NEW i \in S, NEW k \in S, rank[i] = rank[k] PROVE i = k
    <3>1. i < k \/ k < i \/ i = k
      OBVIOUS
    <3> HIDE DEF rank
    <3> QED BY <1>4, <2>2, <3>1
  <2> HIDE DEF rank
  <2> QED BY <2>1, <2>2 DEF Injection, IsInjective
<1>6. rank \in Surjection(S, 1..Cardinality(S))
  <2> HIDE DEF rank
  <2> QED BY <1>2, <1>5, FS_Injection
<1>7. PICK i \in S : rank[i] = n
  <2> HIDE DEF rank
  <2> QED BY <1>6 DEF Surjection
<1>8. ASSUME NEW k \in S, rank[k] = n PROVE k = i
  <2> HIDE DEF rank
  <2> QED BY <1>5, <1>7, <1>8 DEF Injection, IsInjective
<1> QED BY <1>7, <1>8

\* Those(s, at) has the elements of s at the positions in at and no other, and
\* each once if they differ in s.
LEMMA ThoseAre ==
  ASSUME NEW S, NEW s \in Seq(S), NEW at \in SUBSET DOMAIN s
  PROVE  /\ Those(s, at) \in Seq(S)
         /\ \A i \in at : \E n \in DOMAIN Those(s, at) : Those(s, at)[n] = s[i]
         /\ \A n \in DOMAIN Those(s, at) : \E i \in at : Those(s, at)[n] = s[i]
         /\ (\A i, j \in at : s[i] = s[j] => i = j) =>
              \A m, n \in DOMAIN Those(s, at) : Those(s, at)[m] = Those(s, at)[n] => m = n
         /\ Those(s, at) = <<>> <=> at = {}
<1> DEFINE N == Cardinality(at)
           nth == [n \in 1..N |-> CHOOSE i \in at : Rank(i, at) = n]
<1>1. Len(s) \in Nat /\ DOMAIN s = 1..Len(s) /\ s \in [1..Len(s) -> S]
  BY LenProperties
<1>2. at \in SUBSET Nat /\ at \subseteq 1..Len(s)
  BY <1>1
<1>3. IsFiniteSet(at) /\ N \in Nat
  <2>1. IsFiniteSet(1..Len(s))
    BY <1>1, FS_Interval
  <2>2. IsFiniteSet(at)
    BY <1>2, <2>1, FS_Subset
  <2> QED BY <2>2, FS_CardinalityType
<1>4. ASSUME NEW n \in 1..N
      PROVE  nth[n] \in at /\ Rank(nth[n], at) = n
  <2>1. \E i \in at : Rank(i, at) = n
    BY <1>2, <1>3, <1>4, RanksAre
  <2>2. nth[n] = CHOOSE i \in at : Rank(i, at) = n
    BY <1>4
  <2> HIDE DEF nth
  <2> QED BY <2>1, <2>2
<1>5. ASSUME NEW i \in at PROVE Rank(i, at) \in 1..N /\ nth[Rank(i, at)] = i
  <2>1. {j \in at : j <= i} \subseteq at /\ i \in {j \in at : j <= i}
    BY <1>2
  <2>2. IsFiniteSet({j \in at : j <= i}) /\ Rank(i, at) <= N
    BY <1>3, <2>1, FS_Subset DEF Rank
  <2>3. Rank(i, at) \in Nat /\ Rank(i, at) # 0
    BY <2>1, <2>2, FS_CardinalityType, FS_EmptySet DEF Rank
  <2>4. Rank(i, at) \in 1..N
    BY <1>3, <2>2, <2>3
  <2>5. PICK k \in at : Rank(k, at) = Rank(i, at) /\ \A l \in at : Rank(l, at) = Rank(i, at) => l = k
    BY <1>2, <1>3, <2>4, RanksAre
  <2>6. nth[Rank(i, at)] \in at /\ Rank(nth[Rank(i, at)], at) = Rank(i, at)
    BY <1>4, <2>4
  <2> HIDE DEF nth
  <2> QED BY <2>4, <2>5, <2>6
<1>6. Those(s, at) = [n \in 1..N |-> s[nth[n]]]
  BY DEF Those
<1> HIDE DEF nth
<1>7. Those(s, at) \in [1..N -> S]
  BY <1>1, <1>2, <1>4, <1>6
<1>8. Those(s, at) \in Seq(S) /\ DOMAIN Those(s, at) = 1..N
  BY <1>3, <1>7, SeqDef
<1>9. ASSUME NEW i \in at PROVE \E n \in DOMAIN Those(s, at) : Those(s, at)[n] = s[i]
  BY <1>5, <1>6, <1>8
<1>10. ASSUME NEW n \in DOMAIN Those(s, at) PROVE \E i \in at : Those(s, at)[n] = s[i]
  BY <1>4, <1>6, <1>8
<1>11. ASSUME \A i, j \in at : s[i] = s[j] => i = j,
              NEW m \in DOMAIN Those(s, at), NEW n \in DOMAIN Those(s, at),
              Those(s, at)[m] = Those(s, at)[n]
       PROVE  m = n
  <2>1. s[nth[m]] = s[nth[n]] /\ m \in 1..N /\ n \in 1..N
    BY <1>6, <1>8, <1>11
  <2>2. nth[m] = nth[n]
    BY <1>4, <1>11, <2>1
  <2>3. Rank(nth[m], at) = m /\ Rank(nth[n], at) = n
    BY <1>4, <2>1
  <2> QED BY <2>2, <2>3
<1>12. Those(s, at) = <<>> <=> at = {}
  <2>1. Those(s, at) = <<>> <=> Len(Those(s, at)) = 0
    BY <1>8
  <2>2. Len(Those(s, at)) = N
    BY <1>3, <1>8
  <2>3. N = 0 <=> at = {}
    BY <1>3, FS_EmptySet
  <2> QED BY <2>1, <2>2, <2>3
<1> QED BY <1>8, <1>9, <1>10, <1>11, <1>12

\* buildJobs: a job for each declared key, and one only.
LEMMA JobsBuilt ==
  /\ BuildJobs(Declared) \in Seq(Key)
  /\ ToSet(BuildJobs(Declared)) = ToSet(Declared)
  /\ \A m, n \in DOMAIN BuildJobs(Declared) :
       BuildJobs(Declared)[m] = BuildJobs(Declared)[n] => m = n
<1> DEFINE at == {i \in DOMAIN Declared : \A j \in 1..(i - 1) : Declared[j] # Declared[i]}
<1>1. Declared \in Seq(Key)
  BY PoolAssumption
<1>2. Len(Declared) \in Nat /\ DOMAIN Declared = 1..Len(Declared)
  BY <1>1, LenProperties
<1>3. at \in SUBSET DOMAIN Declared /\ BuildJobs(Declared) = Those(Declared, at)
  BY DEF BuildJobs
<1>4. ASSUME NEW i \in DOMAIN Declared
      PROVE  \E j \in at : Declared[j] = Declared[i]
  <2> DEFINE same == {j \in DOMAIN Declared : Declared[j] = Declared[i]}
  <2>1. same \in SUBSET Nat /\ same # {}
    BY <1>2, <1>4
  <2>2. PICK m \in same : \A k \in same : m <= k
    <3> HIDE DEF same
    <3> QED BY <2>1, LeastPosition
  <2>3. m \in at
    BY <1>2, <2>2
  <2> QED BY <2>2, <2>3
<1>5. ASSUME NEW i \in at, NEW j \in at, Declared[i] = Declared[j] PROVE i = j
  <2>1. i \in Nat /\ j \in Nat /\ i >= 1 /\ j >= 1
    BY <1>2
  <2>2. ~(i < j) /\ ~(j < i)
    BY <1>5, <2>1
  <2> QED BY <2>1, <2>2
<1> HIDE DEF at
<1>6. ToSet(Those(Declared, at)) = ToSet(Declared)
  <2>1. ASSUME NEW k \in ToSet(Declared) PROVE k \in ToSet(Those(Declared, at))
    BY <1>1, <1>3, <1>4, ThoseAre DEF ToSet
  <2>2. ASSUME NEW k \in ToSet(Those(Declared, at)) PROVE k \in ToSet(Declared)
    BY <1>1, <1>3, ThoseAre DEF ToSet
  <2> QED BY <2>1, <2>2
<1>7. /\ Those(Declared, at) \in Seq(Key)
      /\ \A m, n \in DOMAIN Those(Declared, at) :
           Those(Declared, at)[m] = Those(Declared, at)[n] => m = n
  BY <1>1, <1>3, <1>5, ThoseAre
<1> QED BY <1>3, <1>6, <1>7

-----------------------------------------------------------------------------
(* Types.                                                                   *)

\* preflight: a job for each key of the set that has one.
LEMMA JobsPicked ==
  ASSUME jobs \in Seq(Key), NEW K \in SUBSET Key
  PROVE  /\ JobsIn(K) \in Seq(Key)
         /\ ToSet(JobsIn(K)) = ToSet(jobs) \cap K
         /\ JobsIn(K) = <<>> <=> ToSet(jobs) \cap K = {}
         /\ JobsDiffer => \A m, n \in DOMAIN JobsIn(K) : JobsIn(K)[m] = JobsIn(K)[n] => m = n
<1> DEFINE at == {i \in DOMAIN jobs : jobs[i] \in K}
<1>1. at \in SUBSET DOMAIN jobs /\ JobsIn(K) = Those(jobs, at)
  BY DEF JobsIn
<1>2. ASSUME NEW i \in DOMAIN jobs PROVE i \in at <=> jobs[i] \in K
  BY <1>2
<1> HIDE DEF at
<1>3. /\ Those(jobs, at) \in Seq(Key)
      /\ \A i \in at : \E n \in DOMAIN Those(jobs, at) : Those(jobs, at)[n] = jobs[i]
      /\ \A n \in DOMAIN Those(jobs, at) : \E i \in at : Those(jobs, at)[n] = jobs[i]
      /\ (\A i, j \in at : jobs[i] = jobs[j] => i = j) =>
           \A m, n \in DOMAIN Those(jobs, at) : Those(jobs, at)[m] = Those(jobs, at)[n] => m = n
      /\ Those(jobs, at) = <<>> <=> at = {}
  BY <1>1, ThoseAre
<1>4. ToSet(JobsIn(K)) = ToSet(jobs) \cap K
  <2>1. ASSUME NEW k \in ToSet(JobsIn(K)) PROVE k \in ToSet(jobs) /\ k \in K
    BY <1>1, <1>2, <1>3 DEF ToSet
  <2>2. ASSUME NEW k \in ToSet(jobs), k \in K PROVE k \in ToSet(JobsIn(K))
    BY <1>1, <1>2, <1>3, <2>2 DEF ToSet
  <2> QED BY <2>1, <2>2
<1>5. at = {} <=> ToSet(jobs) \cap K = {}
  <2>1. ASSUME NEW i \in at PROVE jobs[i] \in ToSet(jobs) \cap K
    BY <1>1, <1>2 DEF ToSet
  <2>2. ASSUME NEW k \in ToSet(jobs) \cap K PROVE \E i \in at : jobs[i] = k
    BY <1>2 DEF ToSet
  <2> QED BY <2>1, <2>2
<1>6. JobsDiffer => \A i, j \in at : jobs[i] = jobs[j] => i = j
  BY <1>1 DEF JobsDiffer
<1> QED BY <1>1, <1>3, <1>4, <1>5, <1>6

\* A result moves a streak to a number.
LEMMA UpdatedIsNat ==
  ASSUME NEW n \in Nat, NEW r \in Result
  PROVE  Updated(n, r) \in Nat
BY DEF Updated

\* The first state is well typed.
LEMMA InitTypes == Init => TypeInv
<1> SUFFICES ASSUME Init PROVE TypeInv
  OBVIOUS
<1>1. jobs \in Seq(Key) /\ Len(jobs) \in Nat
  BY JobsBuilt, LenProperties DEF Init
<1>2. 0..MaxStreak \subseteq Nat /\ loaded \in [Key -> Nat]
  BY PoolAssumption DEF Init
<1>3. <<>> \in Seq(Result) /\ Len(<<>>) = 0
  OBVIOUS
<1>4. out \in [Worker -> Seq(Result)]
  BY <1>3, Zenon DEF Init
<1>5. resultCh \in Seq(Result) /\ results \in Seq(Result) /\ handled \in 0..Len(results)
  BY <1>3 DEF Init
<1>6. InHand
  BY DEF Init, InHand, Busy
<1>7. job \in [Worker -> 0..Len(jobs)] /\ taken \in 0..Len(jobs)
  BY <1>1 DEF Init
<1> QED BY <1>1, <1>2, <1>4, <1>5, <1>6, <1>7 DEF Init, TypeInv, TypeOK

\* What a probe hands to its worker.
LEMMA ProbeYields ==
  ASSUME TypeInv, NEW w \in Worker, Probe(w)
  PROVE  /\ jobs[job[w]] \in Key
         /\ \E s \in Seq(Result) :
              /\ out' = [out EXCEPT ![w] = s]
              /\ Len(s) = 2 /\ DOMAIN s = 1..2
              /\ s[1].key = jobs[job[w]] /\ s[1].check = "liveness"
              /\ s[2].key = jobs[job[w]] /\ s[2].check = "chain_id"
<1>1. job[w] \in 0..Len(jobs) /\ job[w] # 0 /\ jobs \in Seq(Key)
  BY DEF TypeInv, TypeOK, InHand, Busy, Probe
<1>2. Len(jobs) \in Nat /\ jobs \in [1..Len(jobs) -> Key]
  BY <1>1, LenProperties
<1>3. job[w] \in 1..Len(jobs) /\ jobs[job[w]] \in Key
  BY <1>1, <1>2
<1> DEFINE k == jobs[job[w]]
<1>4. PICK a \in Answer, c \in Answer :
        out' = [out EXCEPT ![w] = <<[key |-> k, check |-> "liveness", answer |-> a],
                                    [key |-> k, check |-> "chain_id", answer |-> c]>>]
  BY Zenon DEF Probe
<1> HIDE DEF k
<1> DEFINE first == [key |-> k, check |-> "liveness", answer |-> a]
           second == [key |-> k, check |-> "chain_id", answer |-> c]
           s == <<first, second>>
<1>5. /\ first \in Result /\ first.key = k /\ first.check = "liveness"
      /\ second \in Result /\ second.key = k /\ second.check = "chain_id"
  BY <1>3 DEF Result, k
<1>6. out' = [out EXCEPT ![w] = s]
  BY <1>4
<1> HIDE DEF first, second
<1>7. s \in Seq(Result) /\ Len(s) = 2 /\ DOMAIN s = 1..2 /\ s[1] = first /\ s[2] = second
  BY <1>5
<1> HIDE DEF s
<1> QED BY <1>3, <1>5, <1>6, <1>7 DEF k

\* What a worker sends.
LEMMA SendMoves ==
  ASSUME TypeInv, NEW w \in Worker, Send(w)
  PROVE  /\ Head(out[w]) = out[w][1] /\ out[w][1] \in Result
         /\ Tail(out[w]) \in Seq(Result)
         /\ Len(Tail(out[w])) = Len(out[w]) - 1
         /\ \A i \in 1..(Len(out[w]) - 1) : Tail(out[w])[i] = out[w][i + 1]
         /\ Append(resultCh, Head(out[w])) \in Seq(Result)
<1>1. out[w] \in Seq(Result) /\ Len(out[w]) # 0 /\ resultCh \in Seq(Result)
  BY DEF TypeInv, TypeOK, InHand, Send
<1>2. out[w] # <<>>
  BY <1>1
<1> QED BY <1>1, <1>2, HeadTailProperties, AppendProperties

\* Every step keeps the types.
LEMMA StepTypes == TypeInv /\ [Next]_vars => TypeInv'
<1> SUFFICES ASSUME TypeInv, [Next]_vars PROVE TypeInv'
  OBVIOUS
<1> USE DEF TypeInv, TypeOK, InHand, Busy
<1>1. ASSUME NEW w \in Worker, Take(w) PROVE TypeInv'
  <2>1. Len(jobs) \in Nat /\ taken + 1 \in 0..Len(jobs)
    BY <1>1, LenProperties DEF Take
  <2>2. job' \in [Worker -> 0..Len(jobs)] /\ taken + 1 # 0
    BY <1>1, <2>1 DEF Take
  <2> QED BY <1>1, <2>1, <2>2 DEF Take, mainVars
<1>2. ASSUME NEW w \in Worker, Probe(w) PROVE TypeInv'
  <2>1. PICK s \in Seq(Result) : Len(s) = 2 /\ out' = [out EXCEPT ![w] = s]
    BY <1>2, ProbeYields
  <2>2. out' \in [Worker -> Seq(Result)] /\ out'[w] = s
    BY <2>1
  <2> QED BY <1>2, <2>1, <2>2 DEF Probe, mainVars
<1>3. ASSUME NEW w \in Worker, Send(w) PROVE TypeInv'
  <2> DEFINE rest == Tail(out[w])
             sent == Append(resultCh, Head(out[w]))
  <2>1. rest \in Seq(Result) /\ sent \in Seq(Result)
    BY <1>3, SendMoves
  <2>2. rest = <<>> \/ Len(rest) # 0
    <3> HIDE DEF rest
    <3> QED BY <2>1
  <2>3. /\ out' = [out EXCEPT ![w] = rest] /\ resultCh' = sent
        /\ stage' = [stage EXCEPT ![w] = IF rest = <<>> THEN "free" ELSE "sending"]
        /\ stage[w] = "sending"
    BY <1>3 DEF Send
  <2> HIDE DEF rest, sent
  <2> QED BY <1>3, <2>1, <2>2, <2>3 DEF Send, mainVars
<1>4. ASSUME NEW w \in Worker, Leave(w) PROVE TypeInv'
  BY <1>4 DEF Leave, mainVars
<1>5. CASE Close
  BY <1>5 DEF Close, mainVars
<1>6. CASE Collect
  <2>1. Head(resultCh) \in Result /\ Tail(resultCh) \in Seq(Result)
    BY <1>6, HeadTailProperties DEF Collect
  <2>2. results' \in Seq(Result) /\ Len(results') = Len(results) + 1 /\ Len(results) \in Nat
    BY <1>6, <2>1, AppendProperties, LenProperties DEF Collect
  <2> QED BY <1>6, <2>1, <2>2 DEF Collect
<1>7. CASE Collected
  BY <1>7 DEF Collected, poolVars
<1>8. CASE UpdateOne
  <2> DEFINE r == results[handled + 1]
  <2>1. Len(results) \in Nat /\ handled + 1 \in 1..Len(results)
    BY <1>8, LenProperties DEF UpdateOne
  <2>2. r \in Result
    BY <2>1, LenProperties
  <2>3. Updated(streak[r.key], r) \in Nat /\ r.key \in Key
    BY <2>2, UpdatedIsNat DEF Result
  <2>4. streak' = [streak EXCEPT ![r.key] = Updated(streak[r.key], r)]
    BY <1>8 DEF UpdateOne
  <2> HIDE DEF r
  <2>5. streak' \in [Key -> Nat]
    BY <2>3, <2>4
  <2> QED BY <1>8, <2>1, <2>5 DEF UpdateOne, poolVars
<1>9. CASE PruneAndFlag
  <2> DEFINE kept == Flagged(streak')
  <2>1. streak' \in [Key -> Nat] /\ kept \in SUBSET Key
    BY <1>9 DEF PruneAndFlag, Flagged
  <2>2. JobsIn(kept) \in Seq(Key) /\ Len(JobsIn(kept)) \in Nat
    BY <2>1, JobsPicked, LenProperties
  <2>3. \/ pc' = "done" /\ UNCHANGED poolVars
        \/ pc' = "drain" /\ StartPool(JobsIn(kept), Smaller(Len(JobsIn(kept)), Concurrency))
    BY <1>9, Zenon DEF PruneAndFlag
  <2> HIDE DEF kept
  <2>4. CASE pc' = "done" /\ UNCHANGED poolVars
    BY <1>9, <2>1, <2>4 DEF PruneAndFlag, poolVars
  <2>5. CASE pc' = "drain" /\ StartPool(JobsIn(kept), Smaller(Len(JobsIn(kept)), Concurrency))
    <3>1. <<>> \in Seq(Result)
      OBVIOUS
    <3>2. out' \in [Worker -> Seq(Result)] /\ resultCh' \in Seq(Result) /\ jobs' \in Seq(Key)
      BY <2>2, <2>5, <3>1, Zenon DEF StartPool
    <3>3. /\ job' \in [Worker -> 0..Len(jobs')] /\ taken' \in 0..Len(jobs')
          /\ stage' \in [Worker -> {"free", "probing", "sending", "gone"}]
          /\ \A w \in Worker : stage'[w] \in {"free", "gone"}
          /\ closed' \in BOOLEAN
      <4>1. 0 \in 0..Len(jobs')
        BY <2>2, <2>5 DEF StartPool
      <4>2. job' = [w \in Worker |-> 0] /\ taken' = 0
        BY <2>5 DEF StartPool
      <4>3. /\ stage' \in [Worker -> {"free", "probing", "sending", "gone"}]
            /\ \A w \in Worker : stage'[w] \in {"free", "gone"}
            /\ closed' \in BOOLEAN
        BY <2>5 DEF StartPool
      <4> QED BY <4>1, <4>2, <4>3
    <3>4. UNCHANGED <<loaded, results, handled, passed, dead>>
      BY <1>9 DEF PruneAndFlag
    <3> QED BY <2>1, <2>5, <3>2, <3>3, <3>4
  <2> QED BY <2>3, <2>4, <2>5
<1>10. CASE Drain
  <2>1. Head(resultCh) \in Result /\ Tail(resultCh) \in Seq(Result)
    BY <1>10, HeadTailProperties DEF Drain
  <2>2. passed' \subseteq Key
    BY <1>10, <2>1 DEF Drain, Result
  <2> QED BY <1>10, <2>1, <2>2 DEF Drain
<1>11. CASE Drained
  BY <1>11 DEF Drained, poolVars, Flagged
<1>12. CASE UNCHANGED vars
  BY <1>12 DEF vars, poolVars, mainVars
<1> QED BY <1>1, <1>2, <1>3, <1>4, <1>5, <1>6, <1>7, <1>8, <1>9, <1>10, <1>11, <1>12
        DEF Next, WorkerStep, MainStep, Done

LEMMA TypesHold == Spec => []TypeInv
BY InitTypes, StepTypes, PTL DEF Spec

\* Every reachable state is well typed, however many workers interleave.
THEOREM TypeCorrect == Spec => []TypeOK
<1>1. TypeInv => TypeOK
  BY DEF TypeInv
<1> QED BY <1>1, TypesHold, PTL

-----------------------------------------------------------------------------
(* The pool: every result is sent once, and the channel closes behind all.  *)

LEMMA ArrivedIs ==
  ASSUME TypeInv
  PROVE  /\ Arrived \in Seq(Result) /\ Len(Arrived) \in Nat /\ DOMAIN Arrived = 1..Len(Arrived)
         /\ \A n \in DOMAIN Arrived : Arrived[n] \in Result
<1>1. results \in Seq(Result) /\ resultCh \in Seq(Result)
  BY DEF TypeInv, TypeOK
<1>2. Arrived \in Seq(Result)
  BY <1>1, ConcatProperties DEF Arrived
<1> QED BY <1>2, LenProperties

LEMMA JobInHand ==
  ASSUME TypeInv, WorkersApart, NEW w \in Worker, Busy(w)
  PROVE  job[w] \in 1..taken /\ job[w] \in DOMAIN jobs /\ jobs[job[w]] \in Key
<1>1. job[w] \in 0..Len(jobs) /\ job[w] # 0 /\ job[w] <= taken /\ taken \in 0..Len(jobs)
  BY DEF TypeInv, TypeOK, InHand, WorkersApart
<1>2. Len(jobs) \in Nat /\ DOMAIN jobs = 1..Len(jobs) /\ jobs \in [1..Len(jobs) -> Key]
  BY LenProperties DEF TypeInv, TypeOK
<1> QED BY <1>1, <1>2

\* Sending puts a worker's next result behind what has arrived.
LEMMA SendArrives ==
  ASSUME TypeInv, NEW w \in Worker, Send(w)
  PROVE  /\ DOMAIN Arrived' = 1..(Len(Arrived) + 1)
         /\ \A n \in 1..Len(Arrived) : Arrived'[n] = Arrived[n]
         /\ Arrived'[Len(Arrived) + 1] = out[w][1]
<1> DEFINE h == out[w][1]
<1>1. h \in Result /\ resultCh' = Append(resultCh, h) /\ pc' = pc /\ results' = results
  BY SendMoves DEF Send, mainVars
<1>2. results \in Seq(Result) /\ resultCh \in Seq(Result)
  BY DEF TypeInv, TypeOK
<1>3. Len(results) \in Nat /\ Len(resultCh) \in Nat
  BY <1>2, LenProperties
<1> HIDE DEF h
<1>4. /\ resultCh' \in Seq(Result) /\ Len(resultCh') = Len(resultCh) + 1
      /\ \A n \in 1..Len(resultCh) : resultCh'[n] = resultCh[n]
      /\ resultCh'[Len(resultCh) + 1] = h
  BY <1>1, <1>2, AppendProperties
<1>5. CASE pc = "collect"
  <2>1. /\ Len(results \o resultCh) = Len(results) + Len(resultCh)
        /\ \A n \in 1..(Len(results) + Len(resultCh)) : (results \o resultCh)[n] =
             IF n <= Len(results) THEN results[n] ELSE resultCh[n - Len(results)]
    BY <1>2, ConcatProperties
  <2>2. /\ results \o resultCh' \in Seq(Result)
        /\ Len(results \o resultCh') = Len(results) + Len(resultCh')
        /\ \A n \in 1..(Len(results) + Len(resultCh')) : (results \o resultCh')[n] =
             IF n <= Len(results) THEN results[n] ELSE resultCh'[n - Len(results)]
    BY <1>2, <1>4, ConcatProperties
  <2>3. Arrived = results \o resultCh /\ Arrived' = results \o resultCh'
    BY <1>1, <1>5 DEF Arrived
  <2>4. DOMAIN Arrived' = 1..(Len(Arrived) + 1)
    BY <1>3, <1>4, <2>1, <2>2, <2>3, LenProperties
  <2>5. ASSUME NEW n \in 1..Len(Arrived) PROVE Arrived'[n] = Arrived[n]
    <3>1. n \in 1..(Len(results) + Len(resultCh)) /\ n \in 1..(Len(results) + Len(resultCh'))
      BY <1>3, <1>4, <2>1, <2>3
    <3>2. n > Len(results) => n - Len(results) \in 1..Len(resultCh)
      BY <1>3, <3>1
    <3>3. CASE n <= Len(results)
      <4>1. (results \o resultCh)[n] = results[n] /\ (results \o resultCh')[n] = results[n]
        BY <2>1, <2>2, <3>1, <3>3
      <4> QED BY <2>3, <4>1
    <3>4. CASE ~(n <= Len(results))
      <4>1. n - Len(results) \in 1..Len(resultCh)
        BY <1>3, <3>1, <3>2, <3>4
      <4>2. (results \o resultCh)[n] = resultCh[n - Len(results)]
        BY <2>1, <3>1, <3>4
      <4>3. (results \o resultCh')[n] = resultCh'[n - Len(results)]
        BY <2>2, <3>1, <3>4
      <4>4. resultCh'[n - Len(results)] = resultCh[n - Len(results)]
        BY <1>4, <4>1
      <4> QED BY <2>3, <4>2, <4>3, <4>4
    <3> QED BY <3>3, <3>4
  <2>6. Arrived'[Len(Arrived) + 1] = h
    BY <1>3, <1>4, <2>1, <2>2, <2>3
  <2> QED BY <2>4, <2>5, <2>6 DEF h
<1>6. CASE pc # "collect"
  BY <1>1, <1>3, <1>4, <1>6, LenProperties DEF Arrived, h
<1> QED BY <1>5, <1>6

\* Collecting a result does not change what has arrived.
LEMMA CollectArrives ==
  ASSUME TypeInv, Collect
  PROVE  Arrived' = Arrived
<1> DEFINE h == Head(resultCh)
           t == Tail(resultCh)
<1>1. results \in Seq(Result) /\ resultCh \in Seq(Result) /\ resultCh # <<>>
  BY DEF TypeInv, TypeOK, Collect
<1>2. /\ h \in Result /\ t \in Seq(Result) /\ Len(t) = Len(resultCh) - 1 /\ h = resultCh[1]
      /\ \A n \in 1..Len(t) : t[n] = resultCh[n + 1]
  BY <1>1, HeadTailProperties
<1>3. Len(results) \in Nat /\ Len(resultCh) \in Nat /\ Len(t) \in Nat
  BY <1>1, <1>2, LenProperties
<1>4. results' = Append(results, h) /\ resultCh' = t
  BY DEF Collect
<1> HIDE DEF h, t
<1>5. /\ results' \in Seq(Result) /\ Len(results') = Len(results) + 1
      /\ \A n \in 1..Len(results) : results'[n] = results[n]
      /\ results'[Len(results) + 1] = h
  BY <1>1, <1>2, <1>4, AppendProperties
<1>6. /\ results \o resultCh \in Seq(Result)
      /\ Len(results \o resultCh) = Len(results) + Len(resultCh)
      /\ \A n \in 1..(Len(results) + Len(resultCh)) : (results \o resultCh)[n] =
           IF n <= Len(results) THEN results[n] ELSE resultCh[n - Len(results)]
  BY <1>1, ConcatProperties
<1>7. /\ results' \o t \in Seq(Result)
      /\ Len(results' \o t) = Len(results') + Len(t)
      /\ \A n \in 1..(Len(results') + Len(t)) : (results' \o t)[n] =
           IF n <= Len(results') THEN results'[n] ELSE t[n - Len(results')]
  BY <1>2, <1>5, ConcatProperties
<1>8. Len(results' \o t) = Len(results \o resultCh)
  BY <1>2, <1>3, <1>5, <1>6, <1>7
<1>9. ASSUME NEW n \in 1..Len(results \o resultCh)
      PROVE  (results' \o t)[n] = (results \o resultCh)[n]
  <2>1. n \in 1..(Len(results) + Len(resultCh)) /\ n \in 1..(Len(results') + Len(t))
    BY <1>3, <1>6, <1>7, <1>8
  <2>2. CASE n <= Len(results)
    BY <1>3, <1>5, <1>6, <1>7, <2>1, <2>2
  <2>3. CASE n = Len(results) + 1
    BY <1>2, <1>3, <1>5, <1>6, <1>7, <2>1, <2>3
  <2>4. CASE n > Len(results) + 1
    <3>1. n - Len(results') \in 1..Len(t) /\ n - Len(results') + 1 = n - Len(results)
      BY <1>2, <1>3, <1>5, <2>1, <2>4
    <3>2. (results' \o t)[n] = t[n - Len(results')]
      BY <1>3, <1>5, <1>7, <2>1, <2>4
    <3>3. (results \o resultCh)[n] = resultCh[n - Len(results)]
      BY <1>3, <1>6, <2>1, <2>4
    <3>4. t[n - Len(results')] = resultCh[n - Len(results') + 1]
      BY <1>2, <3>1
    <3> QED BY <3>1, <3>2, <3>3, <3>4
  <2> QED BY <1>3, <2>1, <2>2, <2>3, <2>4
<1>10. results' \o t = results \o resultCh
  BY <1>6, <1>7, <1>8, <1>9, SeqEqual
<1> QED BY <1>4, <1>10 DEF Arrived, Collect

\* The steps that neither take jobs nor bring anything new keep the pool's
\* invariant, as long as nobody owes more.
LEMMA QuietStep ==
  ASSUME TypeInv, PoolInv,
         UNCHANGED <<jobs, taken, job>>,
         Arrived' = Arrived \/ Arrived' = <<>>,
         \A w \in Worker : /\ stage'[w] = "probing" => stage[w] = "probing"
                           /\ stage'[w] = "sending" => stage[w] = "sending" /\ out'[w] = out[w]
  PROVE  JobsDiffer' /\ WorkersApart' /\ ArrivedOnce'
<1>1. JobsDiffer' /\ WorkersApart'
  BY DEF PoolInv, JobsDiffer, WorkersApart
<1>2. ASSUME NEW w \in Worker, NEW k, NEW c, Owes(w, k, c)' PROVE Owes(w, k, c)
  BY <1>2 DEF Owes
<1>3. ASSUME Arrived' = <<>> PROVE ArrivedOnce'
  BY <1>3 DEF ArrivedOnce
<1>4. ASSUME Arrived' = Arrived PROVE ArrivedOnce'
  BY <1>2, <1>4 DEF PoolInv, ArrivedOnce
<1> QED BY <1>1, <1>3, <1>4

\* Taking a job: nothing of it has arrived, and it is nobody else's.
LEMMA TakeKeeps ==
  ASSUME TypeInv, PoolInv, NEW w \in Worker, Take(w)
  PROVE  PoolInv'
<1> USE DEF PoolInv
<1>1. Len(jobs) \in Nat /\ taken \in Nat /\ taken + 1 \in DOMAIN jobs /\ DOMAIN jobs = 1..Len(jobs)
  BY LenProperties DEF TypeInv, TypeOK, Take
<1>2. /\ jobs' = jobs /\ taken' = taken + 1 /\ out' = out /\ closed' = closed /\ pc' = pc
      /\ Arrived' = Arrived
      /\ stage[w] = "free" /\ stage' = [stage EXCEPT ![w] = "probing"]
      /\ job' = [job EXCEPT ![w] = taken + 1]
  BY DEF Take, mainVars, Arrived
<1>3. /\ \A v \in Worker : job[v] \in Nat /\ job[v] <= taken
      /\ job'[w] = taken + 1 /\ \A v \in Worker \ {w} : job'[v] = job[v]
      /\ stage'[w] = "probing" /\ \A v \in Worker \ {w} : stage'[v] = stage[v]
  BY <1>2 DEF TypeInv, TypeOK, WorkersApart
<1>4. JobsDiffer'
  BY <1>2 DEF JobsDiffer
<1>5. WorkersApart'
  <2>1. \A v \in Worker : job'[v] <= taken'
    BY <1>1, <1>2, <1>3
  <2>2. \A u, v \in Worker : job'[v] = job'[u] /\ job'[v] # 0 => u = v
    BY <1>1, <1>3 DEF WorkersApart
  <2>3. ASSUME NEW v \in Worker, stage'[v] = "sending"
        PROVE  v # w /\ job'[v] = job[v] /\ stage[v] = "sending"
    BY <1>3, <2>3
  <2> QED BY <1>2, <2>1, <2>2, <2>3 DEF WorkersApart
<1>6. ArrivedOnce'
  <2>1. ASSUME NEW n \in DOMAIN Arrived PROVE \E i \in 1..taken' : Arrived[n].key = jobs[i]
    BY <1>1, <1>2, <2>1 DEF ArrivedOnce
  <2>2. ASSUME NEW n \in DOMAIN Arrived, NEW v \in Worker,
               Owes(v, Arrived[n].key, Arrived[n].check)'
        PROVE  FALSE
    <3>1. CASE v = w
      <4>1. PICK i \in 1..taken : Arrived[n].key = jobs[i]
        BY <2>2 DEF ArrivedOnce
      <4>2. Arrived[n].key = jobs[taken + 1]
        BY <1>2, <1>3, <2>2, <3>1 DEF Owes
      <4>3. i \in DOMAIN jobs /\ i # taken + 1
        BY <1>1, <4>1
      <4> QED BY <1>1, <4>1, <4>2, <4>3 DEF JobsDiffer
    <3>2. CASE v # w
      <4>1. Owes(v, Arrived[n].key, Arrived[n].check)
        BY <1>2, <1>3, <2>2, <3>2 DEF Owes
      <4> QED BY <2>2, <4>1 DEF ArrivedOnce
    <3> QED BY <3>1, <3>2
  <2>3. \A m, n \in DOMAIN Arrived :
          Arrived[m].key = Arrived[n].key /\ Arrived[m].check = Arrived[n].check => m = n
    BY DEF ArrivedOnce
  <2> QED BY <1>2, <2>1, <2>2, <2>3 DEF ArrivedOnce
<1>7. ClosedLast'
  BY <1>2 DEF ClosedLast
<1> QED BY <1>4, <1>5, <1>6, <1>7

\* Probing: the worker has the two results of its job in hand.
LEMMA ProbeKeeps ==
  ASSUME TypeInv, PoolInv, NEW w \in Worker, Probe(w)
  PROVE  PoolInv'
<1> USE DEF PoolInv
<1>1. /\ jobs' = jobs /\ taken' = taken /\ job' = job /\ closed' = closed /\ pc' = pc
      /\ Arrived' = Arrived
      /\ stage[w] = "probing" /\ stage' = [stage EXCEPT ![w] = "sending"]
  BY DEF Probe, mainVars, Arrived
<1>2. PICK s \in Seq(Result) :
        /\ out' = [out EXCEPT ![w] = s] /\ Len(s) = 2 /\ DOMAIN s = 1..2
        /\ s[1].key = jobs[job[w]] /\ s[1].check = "liveness"
        /\ s[2].key = jobs[job[w]] /\ s[2].check = "chain_id"
  BY ProbeYields
<1>3. /\ out'[w] = s /\ \A v \in Worker \ {w} : out'[v] = out[v]
      /\ stage'[w] = "sending" /\ \A v \in Worker \ {w} : stage'[v] = stage[v]
  BY <1>1, <1>2 DEF TypeInv, TypeOK
<1>4. JobsDiffer' /\ ClosedLast'
  BY <1>1 DEF JobsDiffer, ClosedLast
<1>5. WorkersApart'
  <2>1. ASSUME NEW v \in Worker, stage'[v] = "sending"
        PROVE  /\ Len(out'[v]) \in {1, 2}
               /\ \A n \in DOMAIN out'[v] :
                    /\ out'[v][n].key = jobs[job[v]]
                    /\ out'[v][n].check = IF n = Len(out'[v]) THEN "chain_id" ELSE "liveness"
    <3>1. CASE v = w
      <4>1. out'[v] = s
        BY <1>3, <3>1
      <4>2. \A n \in 1..2 : n = 1 \/ n = 2
        OBVIOUS
      <4> QED BY <1>2, <3>1, <4>1, <4>2
    <3>2. CASE v # w
      BY <1>3, <2>1, <3>2 DEF WorkersApart
    <3> QED BY <3>1, <3>2
  <2> QED BY <1>1, <2>1 DEF WorkersApart
<1>6. ArrivedOnce'
  <2>1. ASSUME NEW v \in Worker, NEW k, NEW c, Owes(v, k, c)' PROVE Owes(v, k, c)
    BY <1>1, <1>3, <2>1 DEF Owes
  <2> QED BY <1>1, <2>1 DEF ArrivedOnce
<1> QED BY <1>4, <1>5, <1>6

\* Sending: what the worker owed is what arrives.
LEMMA SendKeeps ==
  ASSUME TypeInv, PoolInv, NEW w \in Worker, Send(w)
  PROVE  PoolInv'
<1> USE DEF PoolInv
<1> DEFINE h == out[w][1]
           N == Len(Arrived)
<1>1. /\ jobs' = jobs /\ taken' = taken /\ job' = job /\ closed' = closed /\ pc' = pc
      /\ stage[w] = "sending"
      /\ stage' = [stage EXCEPT ![w] = IF Tail(out[w]) = <<>> THEN "free" ELSE "sending"]
      /\ out' = [out EXCEPT ![w] = Tail(out[w])]
  BY DEF Send, mainVars
<1>2. job[w] \in 1..taken /\ job[w] \in DOMAIN jobs /\ job[w] # 0
  BY <1>1, JobInHand DEF Busy, TypeInv, InHand
<1>3. /\ Len(out[w]) \in {1, 2} /\ DOMAIN out[w] = 1..Len(out[w])
      /\ \A n \in DOMAIN out[w] :
           /\ out[w][n].key = jobs[job[w]]
           /\ out[w][n].check = IF n = Len(out[w]) THEN "chain_id" ELSE "liveness"
  BY <1>1, LenProperties DEF WorkersApart, TypeInv, TypeOK
<1>4. /\ h.key = jobs[job[w]]
      /\ h.check = IF Len(out[w]) = 1 THEN "chain_id" ELSE "liveness"
      /\ Owes(w, h.key, h.check)
  <2>1. 1 \in DOMAIN out[w] /\ (1 = Len(out[w]) <=> Len(out[w]) = 1)
    BY <1>3
  <2>2. h.key = jobs[job[w]] /\ h.check = IF Len(out[w]) = 1 THEN "chain_id" ELSE "liveness"
    BY <1>3, <2>1
  <2> HIDE DEF h
  <2> QED BY <1>1, <1>3, <2>2 DEF Owes
<1>5. /\ DOMAIN Arrived' = 1..(N + 1) /\ N \in Nat /\ DOMAIN Arrived = 1..N
      /\ \A n \in 1..N : Arrived'[n] = Arrived[n]
      /\ Arrived'[N + 1] = h
  BY SendArrives, ArrivedIs
<1>6. /\ Tail(out[w]) \in Seq(Result)
      /\ Len(Tail(out[w])) = Len(out[w]) - 1
      /\ \A i \in 1..(Len(out[w]) - 1) : Tail(out[w])[i] = out[w][i + 1]
  BY SendMoves
<1>7. /\ Len(out[w]) = 1 => stage'[w] = "free"
      /\ stage'[w] \in {"free", "sending"}
      /\ out'[w] = Tail(out[w]) /\ Len(out'[w]) = Len(out[w]) - 1 /\ Len(out'[w]) # 2
      /\ \A v \in Worker \ {w} : out'[v] = out[v] /\ stage'[v] = stage[v]
  <2>1. Len(out[w]) = 1 => Tail(out[w]) = <<>>
    <3> DEFINE t == Tail(out[w])
    <3>1. t \in Seq(Result) /\ (Len(out[w]) = 1 => Len(t) = 0)
      BY <1>6
    <3> HIDE DEF t
    <3>2. Len(out[w]) = 1 => t = <<>>
      BY <3>1
    <3> QED BY <3>2 DEF t
  <2>2. out'[w] = Tail(out[w]) /\ \A v \in Worker \ {w} : out'[v] = out[v]
    <3> DEFINE t == Tail(out[w])
    <3>1. out' = [out EXCEPT ![w] = t]
      BY <1>1
    <3> HIDE DEF t
    <3>2. out'[w] = t /\ \A v \in Worker \ {w} : out'[v] = out[v]
      BY <3>1 DEF TypeInv, TypeOK
    <3> QED BY <3>2 DEF t
  <2>3. Len(out'[w]) = Len(out[w]) - 1 /\ Len(out'[w]) # 2
    <3> DEFINE t == Tail(out[w])
               l == Len(out[w])
    <3>1. out'[w] = t /\ Len(t) = l - 1 /\ l \in {1, 2}
      BY <1>3, <1>6, <2>2
    <3> HIDE DEF t, l
    <3>2. Len(t) # 2
      BY <3>1
    <3> QED BY <3>1, <3>2 DEF l
  <2>4. /\ Len(out[w]) = 1 => stage'[w] = "free"
        /\ stage'[w] \in {"free", "sending"}
        /\ \A v \in Worker \ {w} : stage'[v] = stage[v]
    <3> DEFINE b == Tail(out[w]) = <<>>
    <3>1. stage' = [stage EXCEPT ![w] = IF b THEN "free" ELSE "sending"] /\ (Len(out[w]) = 1 => b)
      BY <1>1, <2>1
    <3> HIDE DEF b
    <3> QED BY <3>1 DEF TypeInv, TypeOK
  <2> QED BY <2>2, <2>3, <2>4
<1> HIDE DEF h
<1>8. JobsDiffer' /\ ClosedLast'
  <2>1. ~closed
    BY <1>1 DEF ClosedLast
  <2> QED BY <1>1, <2>1 DEF JobsDiffer, ClosedLast
<1>9. WorkersApart'
  <2>1. ASSUME NEW v \in Worker, stage'[v] = "sending"
        PROVE  /\ Len(out'[v]) \in {1, 2}
               /\ \A n \in DOMAIN out'[v] :
                    /\ out'[v][n].key = jobs[job[v]]
                    /\ out'[v][n].check = IF n = Len(out'[v]) THEN "chain_id" ELSE "liveness"
    <3>1. CASE v = w
      <4>1. Len(out[w]) = 2
        BY <1>3, <1>7, <2>1, <3>1
      <4> DEFINE t == Tail(out[w])
      <4>2. t \in Seq(Result) /\ Len(t) = 1 /\ t[1] = out[w][2]
        BY <1>6, <4>1
      <4>3. out'[v] = t
        BY <1>7, <3>1
      <4> HIDE DEF t
      <4>4. DOMAIN t = 1..1
        BY <4>2, LenProperties
      <4> QED BY <1>3, <3>1, <4>1, <4>2, <4>3, <4>4
    <3>2. CASE v # w
      BY <1>7, <2>1, <3>2 DEF WorkersApart
    <3> QED BY <3>1, <3>2
  <2> QED BY <1>1, <2>1 DEF WorkersApart
<1>10. ArrivedOnce'
  <2>1. ASSUME NEW n \in 1..N
        PROVE  ~(Arrived[n].key = h.key /\ Arrived[n].check = h.check)
    BY <1>4, <1>5, <2>1 DEF ArrivedOnce
  <2>2. \A m, n \in DOMAIN Arrived' :
          Arrived'[m].key = Arrived'[n].key /\ Arrived'[m].check = Arrived'[n].check => m = n
    BY <1>5, <2>1 DEF ArrivedOnce
  <2>3. \A n \in DOMAIN Arrived' : \E i \in 1..taken' : Arrived'[n].key = jobs'[i]
    BY <1>1, <1>2, <1>4, <1>5 DEF ArrivedOnce
  <2>4. ASSUME NEW v \in Worker, NEW k, NEW c, Owes(v, k, c)' PROVE Owes(v, k, c)
    <3>1. CASE v = w
      <4>1. Len(out'[w]) # 2
        BY <1>7
      <4> QED BY <1>1, <1>7, <2>4, <3>1, <4>1 DEF Owes
    <3>2. CASE v # w
      BY <1>1, <1>7, <2>4, <3>2 DEF Owes
    <3> QED BY <3>1, <3>2
  <2>5. ASSUME NEW v \in Worker, NEW k, NEW c, k = h.key, c = h.check, Owes(v, k, c)'
        PROVE  FALSE
    <3>1. Owes(v, k, c)
      BY <2>4, <2>5
    <3>2. CASE v = w
      <4>1. Len(out'[w]) # 2 /\ stage'[w] = "sending"
        BY <1>7, <2>5, <3>2 DEF Owes
      <4>2. c = "liveness"
        BY <1>3, <1>4, <1>7, <2>5, <4>1
      <4> QED BY <2>5, <3>2, <4>1, <4>2 DEF Owes
    <3>3. CASE v # w
      <4>1. Busy(v) /\ jobs[job[v]] = jobs[job[w]]
        BY <1>4, <2>5, <3>1 DEF Owes, Busy
      <4>2. job[v] \in DOMAIN jobs
        BY <4>1, JobInHand
      <4>3. job[v] = job[w]
        BY <1>2, <4>1, <4>2 DEF JobsDiffer
      <4> QED BY <1>2, <3>3, <4>3 DEF WorkersApart
    <3> QED BY <3>2, <3>3
  <2>6. ASSUME NEW n \in DOMAIN Arrived', NEW v \in Worker, NEW k, NEW c,
               k = Arrived'[n].key, c = Arrived'[n].check, Owes(v, k, c)'
        PROVE  FALSE
    <3>1. CASE n = N + 1
      BY <1>5, <2>5, <2>6, <3>1
    <3>2. CASE n # N + 1
      <4>1. n \in DOMAIN Arrived /\ Arrived'[n] = Arrived[n]
        BY <1>5, <3>2
      <4>2. Owes(v, Arrived[n].key, Arrived[n].check)
        BY <2>4, <2>6, <4>1
      <4> QED BY <4>1, <4>2 DEF ArrivedOnce
    <3> QED BY <3>1, <3>2
  <2> QED BY <2>2, <2>3, <2>6 DEF ArrivedOnce
<1> QED BY <1>8, <1>9, <1>10

\* The preflight starts a pool of its own, in which nothing has happened yet.
LEMMA PreflightKeeps ==
  ASSUME TypeInv, PoolInv, PruneAndFlag
  PROVE  PoolInv'
<1> DEFINE K == Flagged(streak')
<1>1. K \in SUBSET Key /\ jobs \in Seq(Key) /\ pc = "update"
  BY DEF Flagged, TypeInv, TypeOK, PruneAndFlag
<1>2. \/ pc' = "done" /\ UNCHANGED poolVars
      \/ pc' = "drain" /\ StartPool(JobsIn(K), Smaller(Len(JobsIn(K)), Concurrency))
  BY Zenon DEF PruneAndFlag
<1>3. \A m, n \in DOMAIN JobsIn(K) : JobsIn(K)[m] = JobsIn(K)[n] => m = n
  BY <1>1, JobsPicked DEF PoolInv
<1> HIDE DEF K
<1>4. CASE pc' = "done" /\ UNCHANGED poolVars
  <2>1. Arrived' = Arrived
    BY <1>1, <1>4 DEF Arrived, poolVars
  <2>2. JobsDiffer' /\ WorkersApart' /\ ArrivedOnce'
    BY <1>4, <2>1, QuietStep DEF poolVars
  <2> QED BY <1>4, <2>2 DEF PoolInv, ClosedLast, poolVars
<1>5. CASE pc' = "drain" /\ StartPool(JobsIn(K), Smaller(Len(JobsIn(K)), Concurrency))
  <2>1. /\ jobs' = JobsIn(K) /\ taken' = 0 /\ resultCh' = <<>> /\ closed' = FALSE
        /\ job' = [v \in Worker |-> 0]
        /\ \A v \in Worker : stage'[v] \in {"free", "gone"}
    BY <1>5 DEF StartPool
  <2>2. JobsDiffer'
    BY <1>3, <2>1 DEF JobsDiffer
  <2>3. \A v \in Worker : job'[v] = 0 /\ stage'[v] # "sending"
    BY <2>1
  <2>4. WorkersApart'
    BY <2>1, <2>3 DEF WorkersApart
  <2>5. Arrived' = <<>>
    BY <1>5, <2>1 DEF Arrived
  <2>6. ArrivedOnce'
    BY <2>5 DEF ArrivedOnce
  <2> QED BY <2>1, <2>2, <2>4, <2>6 DEF PoolInv, ClosedLast
<1> QED BY <1>2, <1>4, <1>5

\* The preflight takes results from the front.
LEMMA DrainKeeps ==
  ASSUME TypeInv, PoolInv, Drain
  PROVE  PoolInv'
<1>1. /\ UNCHANGED <<pc, jobs, taken, stage, job, out, closed>> /\ pc = "drain"
      /\ resultCh \in Seq(Result) /\ resultCh # <<>> /\ resultCh' = Tail(resultCh)
  BY DEF Drain, TypeInv, TypeOK
<1> DEFINE t == Tail(resultCh)
<1>2. /\ t \in Seq(Result) /\ Len(t) = Len(resultCh) - 1 /\ Len(resultCh) \in Nat
      /\ \A n \in 1..Len(t) : t[n] = resultCh[n + 1]
  BY <1>1, HeadTailProperties, LenProperties
<1>3. Arrived = resultCh /\ Arrived' = t /\ DOMAIN Arrived = 1..Len(resultCh)
  BY <1>1, LenProperties DEF Arrived
<1> HIDE DEF t
<1>4. DOMAIN t = 1..Len(t)
  BY <1>2, LenProperties
<1>5. \A n \in DOMAIN t : n + 1 \in DOMAIN Arrived /\ t[n] = Arrived[n + 1]
  BY <1>2, <1>3, <1>4
<1>6. JobsDiffer' /\ WorkersApart' /\ ClosedLast'
  BY <1>1 DEF PoolInv, JobsDiffer, WorkersApart, ClosedLast
<1>7. ASSUME NEW w \in Worker, NEW k, NEW c, Owes(w, k, c)' PROVE Owes(w, k, c)
  BY <1>1, <1>7 DEF Owes
<1>8. \A m, n \in DOMAIN t : t[m].key = t[n].key /\ t[m].check = t[n].check => m = n
  <2>1. \A m, n \in DOMAIN t : m + 1 = n + 1 => m = n
    BY <1>4
  <2> QED BY <1>5, <2>1 DEF PoolInv, ArrivedOnce
<1>9. \A n \in DOMAIN t : \E i \in 1..taken : t[n].key = jobs[i]
  BY <1>5 DEF PoolInv, ArrivedOnce
<1>10. \A n \in DOMAIN t, w \in Worker : ~Owes(w, t[n].key, t[n].check)
  BY <1>5 DEF PoolInv, ArrivedOnce
<1>11. ArrivedOnce'
  BY <1>1, <1>3, <1>7, <1>8, <1>9, <1>10 DEF ArrivedOnce
<1> QED BY <1>6, <1>11 DEF PoolInv

\* Every step keeps the pool's invariant.
LEMMA StepPool == TypeInv /\ PoolInv /\ [Next]_vars => PoolInv'
<1> SUFFICES ASSUME TypeInv, PoolInv, [Next]_vars PROVE PoolInv'
  OBVIOUS
<1>1. ASSUME NEW w \in Worker, Leave(w) PROVE PoolInv'
  <2>1. Arrived' = Arrived
    BY <1>1 DEF Leave, mainVars, Arrived
  <2>2. /\ UNCHANGED <<jobs, taken, job, out, closed>>
        /\ stage[w] = "free" /\ stage'[w] = "gone"
        /\ \A v \in Worker \ {w} : stage'[v] = stage[v]
    BY <1>1 DEF Leave, TypeInv, TypeOK
  <2>3. JobsDiffer' /\ WorkersApart' /\ ArrivedOnce'
    BY <2>1, <2>2, QuietStep
  <2> QED BY <2>2, <2>3 DEF PoolInv, ClosedLast
<1>2. CASE Close
  <2>1. Arrived' = Arrived
    BY <1>2 DEF Close, mainVars, Arrived
  <2>2. JobsDiffer' /\ WorkersApart' /\ ArrivedOnce'
    BY <1>2, <2>1, QuietStep DEF Close
  <2> QED BY <1>2, <2>2 DEF PoolInv, ClosedLast, Close
<1>3. CASE Collect
  <2>1. JobsDiffer' /\ WorkersApart' /\ ArrivedOnce'
    BY <1>3, CollectArrives, QuietStep DEF Collect
  <2> QED BY <1>3, <2>1 DEF PoolInv, ClosedLast, Collect
<1>4. CASE Collected
  <2>1. Arrived' = <<>>
    BY <1>4 DEF Collected, poolVars, Arrived
  <2>2. JobsDiffer' /\ WorkersApart' /\ ArrivedOnce'
    BY <1>4, <2>1, QuietStep DEF Collected, poolVars
  <2> QED BY <1>4, <2>2 DEF PoolInv, ClosedLast, Collected, poolVars
<1>5. CASE UpdateOne \/ Drained \/ UNCHANGED vars
  <2>1. UNCHANGED poolVars /\ Arrived' = Arrived
    BY <1>5 DEF UpdateOne, Drained, vars, mainVars, poolVars, Arrived
  <2>2. JobsDiffer' /\ WorkersApart' /\ ArrivedOnce'
    BY <2>1, QuietStep DEF poolVars
  <2> QED BY <2>1, <2>2 DEF PoolInv, ClosedLast, poolVars
<1> QED BY <1>1, <1>2, <1>3, <1>4, <1>5, TakeKeeps, ProbeKeeps, SendKeeps, PreflightKeeps, DrainKeeps
        DEF Next, WorkerStep, MainStep, Done

LEMMA InitPool == Init => PoolInv
<1> SUFFICES ASSUME Init PROVE PoolInv
  OBVIOUS
<1>1. JobsDiffer
  BY JobsBuilt DEF Init, JobsDiffer
<1>2. \A w \in Worker : job[w] = 0 /\ stage[w] = "free"
  BY DEF Init
<1>3. WorkersApart
  BY <1>2 DEF Init, WorkersApart
<1>4. Arrived = <<>>
  BY DEF Init, Arrived
<1>5. ArrivedOnce
  BY <1>4 DEF ArrivedOnce
<1> QED BY <1>1, <1>3, <1>5 DEF Init, PoolInv, ClosedLast

LEMMA PoolHolds == Spec => []PoolInv
BY InitPool, StepPool, TypesHold, PTL DEF Spec

\* While a worker sends, the channel has room: the results in it are different,
\* there are two for a job, and the worker's second one is not among them.
LEMMA RoomToSend ==
  ASSUME TypeInv, PoolInv, NEW w \in Worker, stage[w] = "sending"
  PROVE  Len(resultCh) < Capacity
<1> DEFINE N == Len(jobs)
           L == Len(Arrived)
           pos == [n \in 1..L |-> CHOOSE i \in 1..taken : Arrived[n].key = jobs[i]]
           f == [n \in 1..L |-> IF Arrived[n].check = "liveness" THEN 2 * pos[n] - 1 ELSE 2 * pos[n]]
           slots == (1..(2 * N)) \ {2 * job[w]}
<1>1. /\ N \in Nat /\ L \in Nat /\ taken \in 0..N /\ DOMAIN Arrived = 1..L
      /\ \A n \in 1..L : Arrived[n].check \in {"liveness", "chain_id"}
  BY ArrivedIs, LenProperties DEF TypeInv, TypeOK, Result
<1>2. job[w] \in 1..taken /\ job[w] \in 1..N
  BY <1>1, JobInHand DEF Busy, PoolInv
<1>3. ASSUME NEW n \in 1..L
      PROVE  pos[n] \in 1..N /\ Arrived[n].key = jobs[pos[n]]
  <2>1. \E i \in 1..taken : Arrived[n].key = jobs[i]
    BY <1>1, <1>3 DEF PoolInv, ArrivedOnce
  <2>2. pos[n] \in 1..taken /\ Arrived[n].key = jobs[pos[n]]
    BY <1>3, <2>1
  <2> HIDE DEF pos
  <2> QED BY <1>1, <2>2
<1> HIDE DEF pos
<1>4. ASSUME NEW n \in 1..L PROVE f[n] \in slots
  <2>1. f[n] \in 1..(2 * N)
    BY <1>1, <1>3, <1>4
  <2>2. ASSUME f[n] = 2 * job[w] PROVE FALSE
    <3>1. Arrived[n].check = "chain_id" /\ pos[n] = job[w]
      BY <1>1, <1>2, <1>3, <1>4, <2>2
    <3>2. Owes(w, Arrived[n].key, Arrived[n].check)
      BY <1>3, <1>4, <3>1 DEF Owes
    <3> QED BY <1>1, <1>4, <3>2 DEF PoolInv, ArrivedOnce
  <2> QED BY <2>1, <2>2
<1>5. ASSUME NEW m \in 1..L, NEW n \in 1..L, f[m] = f[n] PROVE m = n
  <2>1. /\ f[m] = IF Arrived[m].check = "liveness" THEN 2 * pos[m] - 1 ELSE 2 * pos[m]
        /\ f[n] = IF Arrived[n].check = "liveness" THEN 2 * pos[n] - 1 ELSE 2 * pos[n]
        /\ pos[m] \in Nat /\ pos[n] \in Nat
    BY <1>1, <1>3, <1>5
  <2>2. pos[m] = pos[n] /\ Arrived[m].check = Arrived[n].check
    BY <1>1, <1>5, <2>1
  <2>3. Arrived[m].key = Arrived[n].key
    BY <1>3, <1>5, <2>2
  <2> QED BY <1>1, <1>5, <2>2, <2>3 DEF PoolInv, ArrivedOnce
<1> HIDE DEF f
<1>6. f \in [1..L -> slots]
  BY <1>4 DEF f
<1>7. f \in Injection(1..L, slots)
  BY <1>5, <1>6 DEF Injection, IsInjective
<1>8. IsFiniteSet(1..(2 * N)) /\ Cardinality(1..(2 * N)) = 2 * N /\ Cardinality(1..L) = L
  <2>1. 1 \in Int /\ 2 * N \in Int /\ L \in Int /\ 2 * N >= 0 /\ L >= 0
    BY <1>1
  <2> DEFINE M == 2 * N
  <2> HIDE DEF M, N, L
  <2>2. IsFiniteSet(1..M) /\ Cardinality(1..M) = M
    BY <2>1, FS_Interval DEF M
  <2>3. Cardinality(1..L) = L
    BY <2>1, FS_Interval
  <2> QED BY <2>2, <2>3 DEF M
<1>9. 2 * job[w] \in 1..(2 * N)
  BY <1>1, <1>2
<1>10. IsFiniteSet(slots) /\ Cardinality(slots) = 2 * N - 1
  <2> DEFINE all == 1..(2 * N)
             x == 2 * job[w]
  <2>1. IsFiniteSet(all) /\ Cardinality(all) = 2 * N /\ x \in all
    BY <1>8, <1>9
  <2>2. slots = all \ {x}
    OBVIOUS
  <2> HIDE DEF all, x, slots
  <2> QED BY <2>1, <2>2, FS_RemoveElement
<1>11. L <= 2 * N - 1
  <2> HIDE DEF slots
  <2> QED BY <1>7, <1>8, <1>10, FS_Injection
<1>12. Len(resultCh) <= L
  <2>1. /\ results \in Seq(Result) /\ resultCh \in Seq(Result)
        /\ Len(results) \in Nat /\ Len(resultCh) \in Nat
    BY LenProperties DEF TypeInv, TypeOK
  <2>2. Len(results \o resultCh) = Len(results) + Len(resultCh)
    BY <2>1, ConcatProperties
  <2> QED BY <2>1, <2>2 DEF Arrived
<1>13. Len(resultCh) \in Nat
  BY LenProperties DEF TypeInv, TypeOK
<1> QED BY <1>1, <1>11, <1>12, <1>13 DEF Capacity

\* No worker ever sends on a closed channel, and none waits for room in it: the
\* buffer of runWorkers is large enough, for any jobs and any concurrency.
THEOREM SendsSafe == Spec => []SendsAreSafe
<1>1. TypeInv /\ PoolInv => SendsAreSafe
  BY RoomToSend DEF SendsAreSafe, PoolInv, ClosedLast
<1> QED BY <1>1, TypesHold, PoolHolds, PTL

-----------------------------------------------------------------------------
(* One result each.                                                         *)

\* What stays flagged after pruning is declared.
LEMMA FlaggedDeclared ==
  ASSUME TypeInv, JobsAre, PruneAndFlag
  PROVE  Flagged(streak') \in SUBSET Key /\ ToSet(jobs) \cap Flagged(streak') = Flagged(streak')
<1>1. streak' = [k \in Key |-> IF k \in ToSet(Declared) THEN streak[k] ELSE 0] /\ pc = "update"
  BY DEF PruneAndFlag
<1>2. ASSUME NEW k \in Flagged(streak') PROVE k \in ToSet(Declared)
  <2>1. k \in Key /\ streak'[k] >= MinFailures /\ ~(0 >= MinFailures)
    BY PoolAssumption, <1>2 DEF Flagged
  <2>2. k \notin ToSet(Declared) => streak'[k] = 0
    BY <1>1, <2>1
  <2> QED BY <2>1, <2>2
<1>3. ToSet(jobs) = ToSet(Declared)
  BY <1>1 DEF JobsAre
<1>4. Flagged(streak') \in SUBSET Key
  BY DEF Flagged
<1> QED BY <1>2, <1>3, <1>4

\* The jobs of the first pool are the declarations, those of the second what is
\* flagged.
LEMMA StepJobs == TypeInv /\ JobsAre /\ [Next]_vars => JobsAre'
<1> SUFFICES ASSUME TypeInv, JobsAre, [Next]_vars PROVE JobsAre'
  OBVIOUS
<1>1. CASE PruneAndFlag
  <2> DEFINE flagged == JobsIn(Flagged(streak'))
  <2>1. \/ pc' = "done"
        \/ pc' = "drain" /\ jobs' = flagged
    <3>1. \/ pc' = "done"
          \/ pc' = "drain" /\ StartPool(flagged, Smaller(Len(flagged), Concurrency))
      BY <1>1, Zenon DEF PruneAndFlag
    <3> QED BY <3>1 DEF StartPool
  <2>2. jobs \in Seq(Key)
    BY DEF TypeInv, TypeOK
  <2>3. ToSet(JobsIn(Flagged(streak'))) = Flagged(streak')
    BY <1>1, <2>2, FlaggedDeclared, JobsPicked
  <2> QED BY <2>1, <2>3 DEF JobsAre, Flagged
<1>2. ASSUME NEW w \in Worker, WorkerStep(w) PROVE JobsAre'
  BY <1>2 DEF WorkerStep, Take, Probe, Send, Leave, mainVars, JobsAre
<1>3. CASE Close \/ Collect \/ Collected \/ UpdateOne \/ Drain \/ Drained \/ UNCHANGED vars
  BY <1>3 DEF Close, Collect, Collected, UpdateOne, Drain, Drained, vars, poolVars, mainVars, JobsAre
<1> QED BY <1>1, <1>2, <1>3 DEF Next, MainStep, Done

\* The steps of a worker lose nothing.
LEMMA WorkerKeepsAll ==
  ASSUME TypeInv, PoolInv, NoneLost, pc = "collect", NEW w \in Worker, WorkerStep(w)
  PROVE  NoneLost'
<1> DEFINE there(i) == \E n \in DOMAIN Arrived : Arrived[n].key = jobs[i] /\ Arrived[n].check = "liveness"
           owed(i) == \E v \in Worker : Owes(v, jobs[i], "liveness")
<1>1. \A i \in 1..taken : there(i) \/ owed(i)
  BY DEF NoneLost
<1>2. \A v \in Worker : stage[v] = "gone" => taken = Len(jobs)
  BY DEF NoneLost
<1>3. taken \in Nat /\ Len(jobs) \in Nat
  BY LenProperties DEF TypeInv, TypeOK
<1>4. CASE Take(w)
  <2>1. /\ Arrived' = Arrived /\ jobs' = jobs /\ taken' = taken + 1 /\ out' = out
        /\ stage[w] = "free" /\ taken < Len(jobs)
        /\ stage'[w] = "probing" /\ \A v \in Worker \ {w} : stage'[v] = stage[v]
        /\ job'[w] = taken + 1 /\ \A v \in Worker \ {w} : job'[v] = job[v]
    BY <1>4 DEF Take, mainVars, Arrived, TypeInv, TypeOK
  <2>2. \A v \in Worker : stage'[v] # "gone"
    BY <1>2, <1>3, <2>1
  <2>3. ASSUME NEW i \in 1..taken' PROVE there(i)' \/ owed(i)'
    <3>1. CASE i = taken + 1
      BY <2>1, <3>1 DEF Owes
    <3>2. CASE i # taken + 1
      <4>1. i \in 1..taken
        BY <1>3, <2>1, <3>2
      <4>2. CASE there(i)
        BY <2>1, <4>2
      <4>3. CASE owed(i)
        <5>1. PICK v \in Worker : Owes(v, jobs[i], "liveness")
          BY <4>3
        <5>2. v # w
          BY <2>1, <5>1 DEF Owes
        <5>3. Owes(v, jobs[i], "liveness")'
          BY <2>1, <5>1, <5>2 DEF Owes
        <5> QED BY <5>3
      <4> QED BY <1>1, <4>1, <4>2, <4>3
    <3> QED BY <3>1, <3>2
  <2> QED BY <2>2, <2>3 DEF NoneLost
<1>5. CASE Probe(w)
  <2>1. PICK s \in Seq(Result) : Len(s) = 2 /\ out' = [out EXCEPT ![w] = s]
    BY <1>5, ProbeYields
  <2>2. /\ Arrived' = Arrived /\ jobs' = jobs /\ taken' = taken /\ job' = job
        /\ stage'[w] = "sending" /\ \A v \in Worker \ {w} : stage'[v] = stage[v]
        /\ Len(out'[w]) = 2 /\ \A v \in Worker \ {w} : out'[v] = out[v]
    BY <1>5, <2>1 DEF Probe, mainVars, Arrived, TypeInv, TypeOK
  <2>3. ASSUME NEW v \in Worker, NEW i \in 1..taken, Owes(v, jobs[i], "liveness")
        PROVE  Owes(v, jobs[i], "liveness")'
    BY <2>2, <2>3 DEF Owes
  <2>4. \A v \in Worker : stage'[v] = "gone" => taken' = Len(jobs')
    BY <1>2, <2>2
  <2>5. ASSUME NEW i \in 1..taken' PROVE there(i)' \/ owed(i)'
    <3>1. i \in 1..taken
      BY <2>2
    <3>2. CASE there(i)
      BY <2>2, <3>2
    <3>3. CASE owed(i)
      BY <2>3, <3>1, <3>3
    <3> QED BY <1>1, <3>1, <3>2, <3>3
  <2> QED BY <2>4, <2>5 DEF NoneLost
<1>6. CASE Send(w)
  <2> DEFINE N == Len(Arrived)
  <2>1. /\ DOMAIN Arrived' = 1..(N + 1) /\ DOMAIN Arrived = 1..N /\ N \in Nat
        /\ \A n \in 1..N : Arrived'[n] = Arrived[n]
        /\ Arrived'[N + 1] = out[w][1]
    BY <1>6, SendArrives, ArrivedIs
  <2>2. /\ jobs' = jobs /\ taken' = taken /\ job' = job /\ stage[w] = "sending"
        /\ stage'[w] # "gone" /\ \A v \in Worker \ {w} : stage'[v] = stage[v]
    <3> DEFINE b == Tail(out[w]) = <<>>
    <3>1. stage' = [stage EXCEPT ![w] = IF b THEN "free" ELSE "sending"]
      BY <1>6 DEF Send
    <3> HIDE DEF b
    <3>2. stage'[w] # "gone" /\ \A v \in Worker \ {w} : stage'[v] = stage[v]
      BY <3>1 DEF TypeInv, TypeOK
    <3> QED BY <1>6, <3>2 DEF Send, mainVars
  <2>3. \A v \in Worker \ {w} : out'[v] = out[v]
    <3> DEFINE t == Tail(out[w])
    <3>1. out' = [out EXCEPT ![w] = t]
      BY <1>6 DEF Send
    <3> HIDE DEF t
    <3> QED BY <3>1 DEF TypeInv, TypeOK
  <2>4. ASSUME NEW i \in 1..taken, there(i) PROVE there(i)'
    BY <2>1, <2>2, <2>4
  <2>5. ASSUME NEW i \in 1..taken, NEW v \in Worker, Owes(v, jobs[i], "liveness")
        PROVE  there(i)' \/ owed(i)'
    <3>1. CASE v # w
      BY <2>2, <2>3, <2>5, <3>1 DEF Owes
    <3>2. CASE v = w
      <4>1. Len(out[w]) = 2 /\ jobs[i] = jobs[job[w]]
        BY <2>2, <2>5, <3>2 DEF Owes
      <4>2. DOMAIN out[w] = 1..Len(out[w])
        BY LenProperties DEF TypeInv, TypeOK
      <4>3. out[w][1].key = jobs[job[w]] /\ out[w][1].check = "liveness"
        BY <2>2, <4>1, <4>2 DEF PoolInv, WorkersApart
      <4>4. N + 1 \in DOMAIN Arrived'
        BY <2>1
      <4> QED BY <2>1, <2>2, <4>1, <4>3, <4>4
    <3> QED BY <3>1, <3>2
  <2>6. \A i \in 1..taken' : there(i)' \/ owed(i)'
    BY <1>1, <2>2, <2>4, <2>5
  <2>7. \A v \in Worker : stage'[v] = "gone" => taken' = Len(jobs')
    BY <1>2, <2>2
  <2> QED BY <2>6, <2>7 DEF NoneLost
<1>7. CASE Leave(w)
  <2>1. /\ Arrived' = Arrived /\ jobs' = jobs /\ taken' = taken /\ job' = job /\ out' = out
        /\ taken = Len(jobs) /\ stage[w] = "free"
        /\ \A v \in Worker \ {w} : stage'[v] = stage[v]
    BY <1>7 DEF Leave, mainVars, Arrived, TypeInv, TypeOK
  <2>2. ASSUME NEW v \in Worker, NEW i \in 1..taken, Owes(v, jobs[i], "liveness")
        PROVE  Owes(v, jobs[i], "liveness")'
    BY <2>1, <2>2 DEF Owes
  <2>3. ASSUME NEW i \in 1..taken' PROVE there(i)' \/ owed(i)'
    <3>1. i \in 1..taken
      BY <2>1
    <3>2. CASE there(i)
      BY <2>1, <3>2
    <3>3. CASE owed(i)
      BY <2>2, <3>1, <3>3
    <3> QED BY <1>1, <3>1, <3>2, <3>3
  <2> QED BY <2>1, <2>3 DEF NoneLost
<1> QED BY <1>4, <1>5, <1>6, <1>7 DEF WorkerStep

\* Nothing of a job that was taken is lost.
LEMMA StepNoneLost == TypeInv /\ PoolInv /\ NoneLost /\ [Next]_vars => NoneLost'
<1> SUFFICES ASSUME TypeInv, PoolInv, NoneLost, [Next]_vars PROVE NoneLost'
  OBVIOUS
<1>1. CASE pc' # "collect"
  BY <1>1 DEF NoneLost
<1>2. CASE pc # "collect"
  <2>1. pc' # "collect"
    BY <1>2 DEF TypeInv, TypeOK, Next, WorkerStep, Take, Probe, Send, Leave, Close, MainStep, Collect,
       Collected, UpdateOne, PruneAndFlag, Drain, Drained, Done, vars, mainVars
  <2> QED BY <1>1, <2>1
<1>3. ASSUME pc = "collect", NEW w \in Worker, WorkerStep(w) PROVE NoneLost'
  BY <1>3, WorkerKeepsAll
<1>4. CASE pc = "collect" /\ (Close \/ Collect \/ UNCHANGED vars)
  <2>1. /\ Arrived' = Arrived
        /\ UNCHANGED <<pc, jobs, taken, stage, job, out>>
    BY <1>4, CollectArrives DEF Close, Collect, vars, mainVars, poolVars, Arrived
  <2>2. ASSUME NEW v \in Worker, NEW k, NEW c, Owes(v, k, c) PROVE Owes(v, k, c)'
    BY <2>1, <2>2 DEF Owes
  <2> QED BY <2>1, <2>2 DEF NoneLost
<1>5. CASE Collected
  BY <1>1, <1>5 DEF Collected
<1>6. CASE UpdateOne \/ PruneAndFlag \/ Drain \/ Drained
  BY <1>2, <1>6 DEF UpdateOne, PruneAndFlag, Drain, Drained
<1> QED BY <1>1, <1>2, <1>3, <1>4, <1>5, <1>6 DEF Next, MainStep, Done

\* When the channel is closed and empty, every declared key has its result.
LEMMA Complete ==
  ASSUME TypeInv, PoolInv, JobsAre, NoneLost, Collected
  PROVE  OneResultEach'
<1>1. /\ pc = "collect" /\ closed /\ resultCh = <<>> /\ results' = results
      /\ results \in Seq(Result) /\ jobs \in Seq(Key)
  BY DEF Collected, TypeInv, TypeOK
<1>2. Arrived = results
  BY <1>1, ConcatEmptySeq DEF Arrived
<1>3. 1 \in Worker /\ \A w \in Worker : stage[w] = "gone"
  BY <1>1, PoolAssumption DEF Worker, PoolInv, ClosedLast
<1>4. taken = Len(jobs) /\ DOMAIN jobs = 1..taken
  BY <1>1, <1>3, LenProperties DEF NoneLost
<1>5. \A i \in 1..taken : \E n \in DOMAIN results :
        results[n].key = jobs[i] /\ results[n].check = "liveness"
  BY <1>1, <1>2, <1>3 DEF NoneLost, Owes
<1>6. ToSet(jobs) = ToSet(Declared)
  BY <1>1 DEF JobsAre
<1>7. ASSUME NEW k \in Key
      PROVE  LET found == {i \in DOMAIN results : results[i].key = k /\ results[i].check = "liveness"}
             IN  IF k \in ToSet(Declared) THEN \E i \in found : found = {i} ELSE found = {}
  <2> DEFINE found == {i \in DOMAIN results : results[i].key = k /\ results[i].check = "liveness"}
  <2>1. \A m, n \in found : m = n
    BY <1>2 DEF PoolInv, ArrivedOnce
  <2>2. ASSUME NEW n \in found PROVE k \in ToSet(Declared)
    <3>1. PICK i \in 1..taken : results[n].key = jobs[i]
      BY <1>2 DEF PoolInv, ArrivedOnce
    <3> QED BY <1>4, <1>6, <3>1 DEF ToSet
  <2>3. ASSUME k \in ToSet(Declared) PROVE \E i \in found : found = {i}
    <3>1. PICK i \in DOMAIN jobs : jobs[i] = k
      BY <1>6, <2>3 DEF ToSet
    <3>2. PICK n \in found : TRUE
      BY <1>4, <1>5, <3>1
    <3>3. found = {n}
      BY <2>1, <3>2
    <3> QED BY <3>2, <3>3
  <2> QED BY <2>2, <2>3
<1> QED BY <1>1, <1>7 DEF OneResultEach

LEMMA StepCollect == TypeInv /\ PoolInv /\ CollectInv /\ [Next]_vars => CollectInv'
<1> SUFFICES ASSUME TypeInv, PoolInv, CollectInv, [Next]_vars PROVE CollectInv'
  OBVIOUS
<1>1. JobsAre' /\ NoneLost'
  BY StepJobs, StepNoneLost DEF CollectInv
<1>2. CASE Collected
  BY <1>1, <1>2, Complete DEF CollectInv
<1>3. CASE ~Collected
  <2>1. pc' = "collect" \/ (pc # "collect" /\ results' = results)
    BY <1>3 DEF TypeInv, TypeOK, Next, WorkerStep, Take, Probe, Send, Leave, Close, MainStep, Collect,
       UpdateOne, PruneAndFlag, Drain, Drained, Done, vars, mainVars
  <2>2. OneResultEach'
    BY <2>1 DEF CollectInv, OneResultEach
  <2> QED BY <1>1, <2>2 DEF CollectInv
<1> QED BY <1>2, <1>3

LEMMA InitCollect == Init => CollectInv
<1> SUFFICES ASSUME Init PROVE CollectInv
  OBVIOUS
<1>1. JobsAre
  BY JobsBuilt DEF Init, JobsAre
<1>2. \A w \in Worker : stage[w] # "gone"
  BY DEF Init
<1>3. NoneLost
  BY <1>2 DEF Init, NoneLost
<1> QED BY <1>1, <1>3 DEF Init, CollectInv, OneResultEach

LEMMA CollectHolds == Spec => []CollectInv
BY InitCollect, StepCollect, TypesHold, PoolHolds, PTL DEF Spec

\* When collectResults returns, it holds exactly one liveness result of every
\* declared key and none of another, for any declarations, duplicates included,
\* any number of workers and any order of arrival.
THEOREM EachCountedOnce == Spec => []OneResultEach
<1>1. CollectInv => OneResultEach
  BY DEF CollectInv
<1> QED BY <1>1, CollectHolds, PTL

-----------------------------------------------------------------------------
(* The pool implements ProbeVerdict.                                        *)

\* Two liveness results of one key are one.
LEMMA SameResult ==
  ASSUME TypeInv, OneResultEach, pc # "collect",
         NEW m \in DOMAIN results, NEW n \in DOMAIN results,
         results[m].check = "liveness", results[n].check = "liveness",
         results[m].key = results[n].key
  PROVE  m = n
<1> DEFINE k == results[m].key
           found == {i \in DOMAIN results : results[i].key = k /\ results[i].check = "liveness"}
<1>1. k \in Key
  <2>1. results \in Seq(Result) /\ DOMAIN results = 1..Len(results)
    BY LenProperties DEF TypeInv, TypeOK
  <2>2. results[m] \in Result
    BY <2>1, ElementOfSeq
  <2> QED BY <2>2 DEF Result
<1>2. m \in found /\ n \in found
  OBVIOUS
<1>3. \/ \E i \in found : found = {i}
      \/ found = {}
  BY <1>1 DEF OneResultEach
<1> HIDE DEF found
<1> QED BY <1>2, <1>3

\* updateState moves a streak the first time it meets the key, and only then.
LEMMA UpdateFolds ==
  ASSUME TypeInv, CollectInv, FoldedOnce, UpdateOne
  PROVE  FoldedOnce'
<1> DEFINE r == results[handled + 1]
           live(m, k) == results[m].key = k /\ results[m].check = "liveness"
<1>1. /\ pc = "update" /\ pc' = "update" /\ handled' = handled + 1
      /\ results' = results /\ loaded' = loaded
      /\ streak' = [streak EXCEPT ![r.key] = Updated(streak[r.key], r)]
  BY DEF UpdateOne
<1>2. handled \in Nat /\ Len(results) \in Nat /\ handled < Len(results) /\ DOMAIN results = 1..Len(results)
  BY LenProperties DEF UpdateOne, TypeInv, TypeOK
<1>3. handled + 1 \in DOMAIN results /\ r \in Result
  BY <1>2, ElementOfSeq DEF TypeInv, TypeOK
<1>4. r.key \in Key /\ streak \in [Key -> Nat] /\ r.check \in {"liveness", "chain_id"}
  BY <1>3 DEF TypeInv, TypeOK, Result
<1> HIDE DEF r
<1>5. /\ \A k \in Key : k # r.key => streak'[k] = streak[k]
      /\ streak'[r.key] = Updated(streak[r.key], r)
  BY <1>1, <1>4
<1>6. \A m \in 1..handled : m \in DOMAIN results /\ m # handled + 1 /\ results[m].key \in Key
  <2>1. ASSUME NEW m \in 1..handled
        PROVE  m \in DOMAIN results /\ m # handled + 1 /\ results[m] \in Result
    BY <1>2, ElementOfSeq DEF TypeInv, TypeOK
  <2> QED BY <2>1 DEF Result
<1>7. CASE r.check = "liveness"
  <2>1. \A m \in 1..handled : ~live(m, r.key)
    BY <1>1, <1>3, <1>6, <1>7, SameResult DEF CollectInv, r
  <2>2. streak[r.key] = loaded[r.key]
    BY <1>1, <1>4, <2>1 DEF FoldedOnce
  <2>3. ASSUME NEW m \in 1..handled', results[m].check = "liveness"
        PROVE  streak'[results[m].key] = Updated(loaded[results[m].key], results[m])
    <3>1. CASE m = handled + 1
      BY <1>5, <2>2, <3>1 DEF r
    <3>2. CASE m # handled + 1
      <4>1. m \in 1..handled
        BY <1>1, <1>2, <3>2
      <4>2. results[m].key # r.key /\ results[m].key \in Key
        BY <1>6, <2>1, <2>3, <4>1
      <4> QED BY <1>1, <1>5, <2>3, <4>1, <4>2 DEF FoldedOnce
    <3> QED BY <3>1, <3>2
  <2>4. ASSUME NEW k \in Key, \A m \in 1..handled' : ~live(m, k)
        PROVE  streak'[k] = loaded[k]
    <3>1. handled + 1 \in 1..handled' /\ \A m \in 1..handled : m \in 1..handled'
      BY <1>1, <1>2
    <3>2. k # r.key
      BY <1>7, <2>4, <3>1 DEF r
    <3> QED BY <1>1, <1>5, <2>4, <3>1, <3>2 DEF FoldedOnce
  <2> QED BY <1>1, <2>3, <2>4 DEF FoldedOnce
<1>8. CASE r.check # "liveness"
  <2>1. \A k \in Key : streak'[k] = streak[k]
    BY <1>4, <1>5, <1>8 DEF Updated, Counts
  <2>2. ASSUME NEW m \in 1..handled', results[m].check = "liveness"
        PROVE  streak'[results[m].key] = Updated(loaded[results[m].key], results[m])
    <3>1. m # handled + 1
      BY <1>8, <2>2 DEF r
    <3>2. m \in 1..handled
      BY <1>1, <1>2, <3>1
    <3> QED BY <1>1, <1>6, <2>1, <2>2, <3>2 DEF FoldedOnce
  <2>3. ASSUME NEW k \in Key, \A m \in 1..handled' : ~live(m, k)
        PROVE  streak'[k] = loaded[k]
    <3>1. \A m \in 1..handled : m \in 1..handled'
      BY <1>1, <1>2
    <3> QED BY <1>1, <2>1, <2>3, <3>1 DEF FoldedOnce
  <2> QED BY <1>1, <2>2, <2>3 DEF FoldedOnce
<1> QED BY <1>7, <1>8

LEMMA StepVerdict == TypeInv /\ PoolInv /\ CollectInv /\ VerdictInv /\ [Next]_vars => VerdictInv'
<1> SUFFICES ASSUME TypeInv, PoolInv, CollectInv, VerdictInv, [Next]_vars PROVE VerdictInv'
  OBVIOUS
<1> USE DEF VerdictInv
<1>1. ASSUME NEW w \in Worker, WorkerStep(w) PROVE VerdictInv'
  BY <1>1 DEF WorkerStep, Take, Probe, Send, Leave, mainVars, FoldedOnce, PassedFlagged, Flagged
<1>2. CASE Close \/ Collect \/ UNCHANGED vars
  BY <1>2 DEF Close, Collect, vars, mainVars, FoldedOnce, PassedFlagged, Flagged
<1>3. CASE Collected
  BY <1>3 DEF Collected, FoldedOnce, PassedFlagged
<1>4. CASE UpdateOne
  BY <1>4, UpdateFolds DEF UpdateOne, PassedFlagged
<1>5. CASE PruneAndFlag
  <2>1. pc = "update" /\ pc' \in {"done", "drain"} /\ passed' = passed /\ dead' = dead
    BY <1>5, Zenon DEF PruneAndFlag
  <2> QED BY <2>1 DEF FoldedOnce, PassedFlagged
<1>6. CASE Drain
  <2>1. /\ pc = "drain" /\ pc' = "drain" /\ streak' = streak /\ dead' = dead
        /\ resultCh \in Seq(Result) /\ resultCh # <<>> /\ jobs \in Seq(Key)
    BY <1>6 DEF Drain, TypeInv, TypeOK
  <2>2. PICK i \in 1..taken : Head(resultCh).key = jobs[i]
    <3>1. 1 \in DOMAIN resultCh /\ Head(resultCh) = resultCh[1]
      BY <2>1, LenProperties
    <3> QED BY <2>1, <3>1 DEF PoolInv, ArrivedOnce, Arrived
  <2>3. i \in DOMAIN jobs
    BY <2>1, LenProperties DEF TypeInv, TypeOK
  <2>4. Head(resultCh).key \in Flagged(streak)
    BY <2>1, <2>2, <2>3 DEF CollectInv, JobsAre, ToSet
  <2>5. passed' = passed \/ passed' = passed \cup {Head(resultCh).key}
    BY <1>6 DEF Drain
  <2> QED BY <2>1, <2>4, <2>5 DEF FoldedOnce, PassedFlagged, Flagged
<1>7. CASE Drained
  BY <1>7 DEF Drained, FoldedOnce, PassedFlagged
<1> QED BY <1>1, <1>2, <1>3, <1>4, <1>5, <1>6, <1>7 DEF Next, MainStep, Done

LEMMA VerdictHolds == Spec => []VerdictInv
<1>1. Init => VerdictInv
  BY DEF Init, VerdictInv, FoldedOnce, PassedFlagged
<1> QED BY <1>1, StepVerdict, TypesHold, PoolHolds, CollectHolds, PTL DEF Spec

\* Once every result is folded in, a declared key's streak is as one answer
\* makes it.
LEMMA FoldedIs ==
  ASSUME TypeInv, CollectInv, VerdictInv, pc = "update", handled = Len(results)
  PROVE  \E ans \in [ToSet(Declared) -> Answer] :
           \A k \in ToSet(Declared) : streak[k] = Verdict!After(loaded[k], ans[k])
<1> DEFINE live(k) == {m \in DOMAIN results : results[m].key = k /\ results[m].check = "liveness"}
           at == [k \in ToSet(Declared) |-> CHOOSE m \in live(k) : TRUE]
           ans == [k \in ToSet(Declared) |-> results[at[k]].answer]
<1>1. DOMAIN results = 1..handled /\ \A m \in DOMAIN results : results[m] \in Result
  BY LenProperties, ElementOfSeq DEF TypeInv, TypeOK
<1>2. ASSUME NEW k \in ToSet(Declared)
      PROVE  k \in Key /\ at[k] \in live(k)
  <2>1. k \in Key
    BY PoolAssumption, ElementOfSeq, LenProperties DEF ToSet
  <2>2. \E i \in live(k) : live(k) = {i}
    BY <1>2, <2>1 DEF CollectInv, OneResultEach
  <2> HIDE DEF live
  <2> QED BY <1>2, <2>1, <2>2
<1> HIDE DEF at
<1>3. ASSUME NEW k \in ToSet(Declared)
      PROVE  ans[k] \in Answer /\ streak[k] = Verdict!After(loaded[k], ans[k])
  <2> DEFINE r == results[at[k]]
  <2>1. r \in Result /\ r.key = k /\ r.check = "liveness" /\ ans[k] = r.answer
    BY <1>1, <1>2, <1>3
  <2>2. streak[k] = Updated(loaded[k], r)
    BY <1>1, <1>2, <1>3, <2>1 DEF VerdictInv, FoldedOnce
  <2>3. r.answer \in {"pass", "fail", "skip"}
    BY <2>1 DEF Result, Answer
  <2> HIDE DEF r
  <2>4. Verdict!After(loaded[k], r.answer) = Updated(loaded[k], r)
    BY <2>1, <2>3 DEF Verdict!After, Updated, Counts
  <2> QED BY <2>1, <2>2, <2>3, <2>4 DEF Answer
<1>4. ans \in [ToSet(Declared) -> Answer]
  BY <1>3
<1> QED BY <1>3, <1>4

\* The first state is one of ProbeVerdict.
LEMMA VerdictInit == Init => Verdict!Init
BY DEF Init, Verdict!Init

\* What the pool's main goroutine does when all results are folded in is one
\* measurement.
LEMMA PruneMeasures ==
  ASSUME TypeInv, CollectInv, VerdictInv, PruneAndFlag
  PROVE  Verdict!Measure
<1>1. /\ pc = "update" /\ handled = Len(results) /\ loaded' = loaded /\ dead' = dead
      /\ streak' = [k \in Key |-> IF k \in ToSet(Declared) THEN streak[k] ELSE 0]
  BY DEF PruneAndFlag
<1>2. PICK ans \in [ToSet(Declared) -> Answer] :
        \A k \in ToSet(Declared) : streak[k] = Verdict!After(loaded[k], ans[k])
  BY <1>1, FoldedIs
<1>3. streak' = [k \in Key |-> IF k \in ToSet(Declared) THEN Verdict!After(loaded[k], ans[k]) ELSE 0]
  BY <1>1, <1>2
<1>4. ToSet(jobs) \cap Flagged(streak') = Flagged(streak') /\ Flagged(streak') \in SUBSET Key
  BY FlaggedDeclared DEF CollectInv
<1>5. JobsIn(Flagged(streak')) = <<>> <=> Flagged(streak') = {}
  BY <1>4, JobsPicked DEF TypeInv, TypeOK
<1>6. pc' = IF Flagged(streak') = {} THEN "done" ELSE "drain"
  <2>1. pc' = IF JobsIn(Flagged(streak')) = <<>> THEN "done" ELSE "drain"
    BY Zenon DEF PruneAndFlag
  <2> QED BY <1>5, <2>1
<1>7. Verdict!Mature(streak') = Flagged(streak')
  BY DEF Verdict!Mature, Flagged
<1>8. ans \in [ToSet(Declared) -> Verdict!Answer]
  BY DEF Verdict!Answer, Answer
<1> QED BY <1>1, <1>3, <1>6, <1>7, <1>8 DEF Verdict!Measure

\* Every step of the pool is a step of ProbeVerdict or changes nothing of it.
LEMMA VerdictStep ==
  TypeInv /\ CollectInv /\ VerdictInv /\ [Next]_vars => [Verdict!Next]_(Verdict!verdictVars)
<1> SUFFICES ASSUME TypeInv, CollectInv, VerdictInv, [Next]_vars
             PROVE  Verdict!Next \/ UNCHANGED Verdict!verdictVars
  OBVIOUS
<1>1. CASE PruneAndFlag
  BY <1>1, PruneMeasures DEF Verdict!Next
<1>2. CASE Drained
  <2>1. pc = "drain" /\ pc' = "done" /\ passed \subseteq Flagged(streak)
    BY <1>2 DEF Drained, VerdictInv, PassedFlagged
  <2>2. Verdict!Mature(streak) = Flagged(streak)
    BY DEF Verdict!Mature, Flagged
  <2>3. /\ streak' = [k \in Key |-> IF k \in passed THEN 0 ELSE streak[k]]
        /\ dead' = Flagged(streak) \ passed
    BY <1>2 DEF Drained
  <2>4. Verdict!Recheck
    BY <2>1, <2>2, <2>3 DEF Verdict!Recheck
  <2> QED BY <2>4 DEF Verdict!Next
<1>3. ASSUME NEW w \in Worker, WorkerStep(w) PROVE UNCHANGED Verdict!verdictVars
  BY <1>3 DEF WorkerStep, Take, Probe, Send, Leave, mainVars, Verdict!verdictVars
<1>4. CASE Close \/ Collect \/ Drain \/ UNCHANGED vars
  BY <1>4 DEF Close, Collect, Drain, vars, mainVars, Verdict!verdictVars
<1>5. CASE Collected \/ UpdateOne
  BY <1>5 DEF Collected, UpdateOne, Verdict!verdictVars
<1> QED BY <1>1, <1>2, <1>3, <1>4, <1>5 DEF Next, MainStep, Done

\* VerdictSpec without its fairness.
VerdictSafety == Verdict!Init /\ [][Verdict!Next]_(Verdict!verdictVars)

\* Whatever the workers' interleaving and the order of arrival, the probing half
\* of a run is one measurement of every declared endpoint and one recheck of
\* what is flagged (runWorkers, updateState, preflight, applyPreflightResults).
THEOREM PoolImplementsVerdict == Spec => VerdictSafety
BY VerdictInit, VerdictStep, TypesHold, CollectHolds, VerdictHolds, PTL DEF Spec, VerdictSafety
=============================================================================
