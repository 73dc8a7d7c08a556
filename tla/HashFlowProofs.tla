-------------------------- MODULE HashFlowProofs ---------------------------
(***************************************************************************)
(* Every hash-fix pull request of every run repairs the list it was made   *)
(* from, for all chains, files, hash functions, caps and cooldowns.  First *)
(* the repair itself (HashRepair), for every list and hash function,       *)
(* collisions included: an asset is rewritten if and only if it is wrong,  *)
(* since a fix carries the path it was computed from, and a rewritten      *)
(* asset is right.  The flow's invariant is that the clone's files, like   *)
(* those on the base branch and in pull requests, are asset lists.         *)
(***************************************************************************)
EXTENDS HashFlow, WellFoundedInduction, TLAPS

-----------------------------------------------------------------------------
(* The repair.                                                              *)

\* A nonempty set of indices has a greatest one: the distances from the end
\* have a least one.
LEMMA MaxOfIndices ==
  ASSUME NEW n \in Nat, NEW S, S \subseteq 1..n, S # {}
  PROVE  Max(S) \in S /\ \A k \in S : Max(S) >= k
<1> DEFINE T == {n - k : k \in S}
           less == {ss \in Nat \X Nat : ss[1] < ss[2]}
<1>1. T \subseteq Nat /\ T # {}
  <2>1. \A k \in S : n - k \in Nat
    OBVIOUS
  <2> QED BY <2>1
<1>2. IsWellFoundedOn(less, Nat)
  BY NatLessThanWellFounded DEF OpToRel
<1>3. PICK x \in T : \A y \in T : <<y, x>> \notin less
  <2> HIDE DEF T, less
  <2> QED BY <1>1, <1>2, WFMin
<1>4. PICK m \in S : x = n - m
  BY <1>3
<1>5. ASSUME NEW k \in S PROVE m >= k
  <2>1. n - k \in T /\ n - k \in Nat /\ n - m \in Nat
    BY <1>1
  <2>2. ~(n - k < n - m)
    BY <1>3, <1>4, <2>1
  <2>3. m \in Nat /\ k \in Nat
    OBVIOUS
  <2> QED BY <2>2, <2>3
<1> QED BY <1>4, <1>5 DEF Max

\* The fixes that a check of the file yields.
LEMMA MismatchesAre ==
  ASSUME NEW file
  PROVE  \A f : f \in Mismatches(file) <=>
           \E i \in DOMAIN file :
             /\ Wrong(file[i])
             /\ f = [base |-> file[i].base, path |-> LastTracePath(file[i].traces),
                     expected |-> Hash[LastTracePath(file[i].traces)]]
<1> DEFINE assets == LoadAssetList(file)
           Read(i) == [base |-> file[i].base, path |-> LastTracePath(file[i].traces)]
<1>1. \A a : a \in assets <=>
        \E i \in DOMAIN file :
          file[i].base \in IBC /\ LastTracePath(file[i].traces) # None /\ a = Read(i)
  BY Zenon DEF LoadAssetList
<1>2. \A f : f \in Mismatches(file) <=>
        \E a \in assets :
          a.base # Hash[a.path] /\ f = [base |-> a.base, path |-> a.path, expected |-> Hash[a.path]]
  BY Zenon DEF Mismatches, CheckDenomHashes
<1>3. \A i : Read(i).base = file[i].base /\ Read(i).path = LastTracePath(file[i].traces)
  OBVIOUS
<1> HIDE DEF assets, Read
<1> SUFFICES ASSUME NEW f
             PROVE  f \in Mismatches(file) <=>
                      \E i \in DOMAIN file :
                        /\ Wrong(file[i])
                        /\ f = [base |-> file[i].base, path |-> LastTracePath(file[i].traces),
                                expected |-> Hash[LastTracePath(file[i].traces)]]
  OBVIOUS
<1>4. ASSUME f \in Mismatches(file)
      PROVE  \E i \in DOMAIN file :
               /\ Wrong(file[i])
               /\ f = [base |-> file[i].base, path |-> LastTracePath(file[i].traces),
                       expected |-> Hash[LastTracePath(file[i].traces)]]
  <2>1. PICK a \in assets :
          a.base # Hash[a.path] /\ f = [base |-> a.base, path |-> a.path, expected |-> Hash[a.path]]
    BY <1>2, <1>4
  <2>2. PICK i \in DOMAIN file :
          file[i].base \in IBC /\ LastTracePath(file[i].traces) # None /\ a = Read(i)
    BY <1>1, <2>1
  <2>3. a.base = file[i].base /\ a.path = LastTracePath(file[i].traces)
    BY <1>3, <2>2
  <2> QED BY <2>1, <2>2, <2>3, Zenon DEF Wrong
<1>5. ASSUME NEW i \in DOMAIN file, Wrong(file[i]),
             f = [base |-> file[i].base, path |-> LastTracePath(file[i].traces),
                  expected |-> Hash[LastTracePath(file[i].traces)]]
      PROVE  f \in Mismatches(file)
  <2>1. Read(i) \in assets
    BY <1>1, <1>5 DEF Wrong
  <2> QED BY <1>2, <1>3, <1>5, <2>1, Zenon DEF Wrong
<1> QED BY <1>4, <1>5

\* No asset wrong, no mismatch.
LEMMA NoMismatches ==
  ASSUME NEW file, \A i \in DOMAIN file : ~Wrong(file[i])
  PROVE  Mismatches(file) = {}
BY MismatchesAre

\* The edit reads the same path out of the traces as the loader.
LEMMA SamePath == ASSUME NEW traces PROVE EditPath(traces) = LastTracePath(traces)
BY DEF EditPath, LastTracePath

\* An asset has an entry in fixMap exactly when it is wrong, and each such
\* entry expects the hash of the asset's own path.
LEMMA FixesAre ==
  ASSUME NEW file, NEW i \in DOMAIN file
  PROVE  /\ FixesFor(file[i], Mismatches(file)) # {} <=> Wrong(file[i])
         /\ \A f \in FixesFor(file[i], Mismatches(file)) :
              f.expected = Hash[LastTracePath(file[i].traces)]
<1>1. ASSUME NEW f \in FixesFor(file[i], Mismatches(file))
      PROVE  Wrong(file[i]) /\ f.expected = Hash[LastTracePath(file[i].traces)]
  <2>1. /\ f \in Mismatches(file)
        /\ f.base = file[i].base
        /\ f.path = LastTracePath(file[i].traces)
    BY SamePath DEF FixesFor
  <2>2. PICK j \in DOMAIN file :
          /\ Wrong(file[j])
          /\ f = [base |-> file[j].base, path |-> LastTracePath(file[j].traces),
                  expected |-> Hash[LastTracePath(file[j].traces)]]
    BY <2>1, MismatchesAre
  <2> QED BY <2>1, <2>2 DEF Wrong
<1>2. ASSUME Wrong(file[i]) PROVE FixesFor(file[i], Mismatches(file)) # {}
  <2> DEFINE f == [base |-> file[i].base, path |-> LastTracePath(file[i].traces),
                   expected |-> Hash[LastTracePath(file[i].traces)]]
  <2>1. f \in Mismatches(file)
    BY <1>2, MismatchesAre
  <2>2. f \in FixesFor(file[i], Mismatches(file))
    BY <2>1, SamePath DEF FixesFor
  <2> QED BY <2>2
<1> QED BY <1>1, <1>2

\* A right asset is left alone; a wrong one gets the hash of its path, in its
\* base and in the units that repeated the old one, and is right afterwards.
LEMMA AssetRepaired ==
  ASSUME NEW file \in Seq(Asset), NEW i \in DOMAIN file
  PROVE  LET old == file[i]
             new == EditAsset(file[i], Mismatches(file))
         IN  /\ new \in Asset
             /\ ~Wrong(new)
             /\ ~Wrong(old) => new = old
             /\ new.traces = old.traces
             /\ Len(new.units) = Len(old.units)
             /\ \A u \in DOMAIN old.units :
                  new.units[u] = IF old.units[u] = old.base THEN new.base ELSE old.units[u]
<1> DEFINE old == file[i]
           new == EditAsset(file[i], Mismatches(file))
           path == LastTracePath(old.traces)
<1>0. old \in Asset /\ old.base \in Denom /\ old.units \in Seq(Denom)
      /\ old.traces \in Seq(Path \cup {None})
  <2>1. file[i] \in Asset
    OBVIOUS
  <2> QED BY <2>1 DEF Asset
<1>1. CASE ~Wrong(old)
  <2>1. new = old
    BY <1>1, FixesAre DEF EditAsset
  <2> QED BY <1>0, <1>1, <2>1
<1>2. CASE Wrong(old)
  <2> DEFINE units == [u \in DOMAIN old.units |->
                         IF old.units[u] = old.base THEN Hash[path] ELSE old.units[u]]
  <2>1. (CHOOSE f \in FixesFor(old, Mismatches(file)) : TRUE).expected = Hash[path]
    BY <1>2, FixesAre
  <2>2. new = [old EXCEPT !.base = Hash[path], !.units = units]
    BY <1>2, <2>1, FixesAre DEF EditAsset
  <2>3. path \in Path
    <3>1. path # None /\ path = LastTracePath(old.traces)
      BY <1>2 DEF Wrong
    <3>2. \E k \in DOMAIN old.traces : old.traces[k] # None
      BY <3>1 DEF LastTracePath
    <3> DEFINE set == {k \in DOMAIN old.traces : old.traces[k] # None}
    <3>3. path = old.traces[Max(set)] /\ set # {}
      BY <3>1, <3>2 DEF LastTracePath
    <3>4. set \subseteq 1..Len(old.traces) /\ Len(old.traces) \in Nat
      BY <1>0
    <3>5. Max(set) \in set
      <4> HIDE DEF set
      <4> QED BY <3>3, <3>4, MaxOfIndices
    <3>6. \A k \in DOMAIN old.traces : old.traces[k] \in Path \cup {None}
      BY <1>0
    <3> QED BY <3>1, <3>3, <3>5, <3>6
  <2>4. Hash[path] \in IBC /\ IBC \subseteq Denom
    BY <2>3, RepairAssumption
  <2>5. units \in Seq(Denom) /\ Len(units) = Len(old.units)
    BY <1>0, <2>4
  <2>6. new \in Asset /\ new.base = Hash[path] /\ new.units = units /\ new.traces = old.traces
    BY <1>0, <2>2, <2>4, <2>5 DEF Asset
  <2>7. ~Wrong(new)
    BY <2>6 DEF Wrong
  <2> QED BY <1>2, <2>5, <2>6, <2>7
<1> QED BY <1>1, <1>2

\* Every asset list is repaired by the fixes its own check yields
\* (EditAssetListJSON after runHashChecks).
THEOREM EveryRepairIsRight ==
  ASSUME NEW file \in Seq(Asset)
  PROVE  Repairs(file, EditAssetListJSON(file, Mismatches(file)))
<1> DEFINE fixes == Mismatches(file)
           new == [i \in DOMAIN file |-> EditAsset(file[i], fixes)]
<1>1. CASE fixes = {}
  <2>1. \A i \in DOMAIN file : FixesFor(file[i], fixes) = {}
    BY <1>1 DEF FixesFor
  <2> QED BY <1>1, <2>1 DEF Repairs, EditAssetListJSON
<1>2. CASE fixes # {}
  <2>1. \E i \in DOMAIN file : FixesFor(file[i], fixes) # {}
    BY <1>2, MismatchesAre, FixesAre
  <2>2. EditAssetListJSON(file, fixes) = new
    BY <2>1 DEF EditAssetListJSON
  <2>3. new \in Seq(Asset) /\ Len(new) = Len(file) /\ DOMAIN new = DOMAIN file
    BY AssetRepaired
  <2>4. Mismatches(new) = {}
    <3>1. \A i \in DOMAIN new : ~Wrong(new[i])
      BY <2>3, AssetRepaired
    <3> QED BY <3>1, NoMismatches
  <2> QED BY <1>2, <2>2, <2>3, <2>4, AssetRepaired DEF Repairs
<1> QED BY <1>1, <1>2

-----------------------------------------------------------------------------
(* The flow.                                                                *)

LEMMA InitTypeOK == Init => TypeOK
<1> SUFFICES ASSUME Init PROVE TypeOK
  OBVIOUS
<1>1. files \in [Chain -> File] /\ checkout \in [Chain -> File]
  BY HashFlowAssumption DEF Init, File
<1>2. Len(Order) \in Nat /\ MaxHashPRs \in Nat /\ Cooldown \in 0..Cooldown
  BY HashFlowAssumption
<1> QED BY <1>1, <1>2 DEF Init, TypeOK

\* What CreatePR commits is an asset list that repairs the clone's.
LEMMA NewPRRepairs ==
  ASSUME TypeOK, NEW c \in Chain, CreatePR(c)
  PROVE  /\ prs' \subseteq PullRequest
         /\ \A p \in prs' \ prs : Repairs(checkout[p.chain], p.content)
<1> DEFINE content == EditAssetListJSON(checkout[c], Mismatches(checkout[c]))
<1>1. /\ Mismatches(checkout[c]) # {}
      /\ prs' = prs \cup {[chain |-> c, content |-> content]}
  BY DEF CreatePR, Trying, ToFix
<1>2. checkout[c] \in Seq(Asset)
  BY DEF TypeOK, File
<1>3. Repairs(checkout[c], content)
  BY <1>2, EveryRepairIsRight
<1>4. content \in File
  BY <1>1, <1>3 DEF Repairs, File
<1> HIDE DEF content
<1>5. [chain |-> c, content |-> content] \in PullRequest
  BY <1>4 DEF PullRequest
<1> QED BY <1>1, <1>3, <1>5 DEF TypeOK

LEMMA NextTypeOK == TypeOK /\ [Next]_vars => TypeOK'
<1> SUFFICES ASSUME TypeOK, [Next]_vars PROVE TypeOK'
  OBVIOUS
<1> USE HashFlowAssumption
<1>0. /\ Len(Order) \in Nat
      /\ DOMAIN Order = 1..Len(Order)
      /\ \A file \in Drafts : file \in File
  BY DEF File
<1>1. CASE StartRun
  <2>1. age' \in [Chain -> 0..Cooldown]
    BY <1>1 DEF StartRun, TypeOK
  <2> QED BY <1>0, <1>1, <2>1 DEF StartRun, TypeOK
<1>2. ASSUME NEW c \in Chain, Skip(c) \/ NoPR(c) PROVE TypeOK'
  BY <1>0, <1>2 DEF Skip, NoPR, Trying, Looking, TypeOK
<1>3. ASSUME NEW c \in Chain, OpenPR(c) PROVE TypeOK'
  <2>1. prs' \subseteq PullRequest
    BY <1>3, NewPRRepairs DEF OpenPR
  <2>2. next \in DOMAIN Order /\ opened < MaxHashPRs
    BY <1>3 DEF OpenPR, CreatePR, Trying, Looking
  <2> QED BY <1>0, <1>3, <2>1, <2>2 DEF OpenPR, TypeOK
<1>4. CASE EndRun
  BY <1>0, <1>4 DEF EndRun, TypeOK
<1>5. ASSUME NEW p \in prs, MergePR(p) PROVE TypeOK'
  <2>1. p.content \in File /\ prs' \subseteq PullRequest
    BY <1>5 DEF MergePR, TypeOK, PullRequest
  <2> QED BY <1>5, <2>1 DEF MergePR, TypeOK
<1>6. ASSUME NEW p \in prs, ClosePR(p) PROVE TypeOK'
  BY <1>6 DEF ClosePR, TypeOK
<1>7. ASSUME NEW c \in Chain, NEW file \in Drafts, Rewrite(c, file) PROVE TypeOK'
  BY <1>0, <1>7 DEF Rewrite, TypeOK
<1>8. CASE UNCHANGED vars
  BY <1>8 DEF vars, TypeOK
<1> QED BY <1>1, <1>2, <1>3, <1>4, <1>5, <1>6, <1>7, <1>8 DEF Next, Process, Maintainer

\* The types of the hash flow: the files are asset lists, the loop stays within
\* the chains and counts no pull request beyond the cap.
THEOREM HashTypes == Spec => []TypeOK
<1>1. Init => TypeOK
  BY InitTypeOK
<1>2. TypeOK /\ [Next]_vars => TypeOK'
  BY NextTypeOK
<1> QED BY <1>1, <1>2, PTL DEF Spec

\* Every hash-fix pull request repairs its asset list and touches nothing else
\* (hashpr.go, EditAssetListJSON).
THEOREM HashFixes == Spec => FixIsRight
<1>1. TypeOK /\ [Next]_vars => [\A p \in prs' \ prs : Repairs(checkout[p.chain], p.content)]_vars
  <2> SUFFICES ASSUME TypeOK, Next
               PROVE  \A p \in prs' \ prs : Repairs(checkout[p.chain], p.content)
    OBVIOUS
  <2>1. ASSUME NEW c \in Chain, OpenPR(c)
        PROVE  \A p \in prs' \ prs : Repairs(checkout[p.chain], p.content)
    BY <2>1, NewPRRepairs DEF OpenPR
  <2>2. CASE prs' \subseteq prs
    BY <2>2
  <2>3. prs' \subseteq prs \/ \E c \in Chain : OpenPR(c)
    BY DEF Next, Process, Maintainer, StartRun, Skip, NoPR, EndRun, MergePR, ClosePR, Rewrite
  <2> QED BY <2>1, <2>2, <2>3
<1> QED BY <1>1, HashTypes, PTL DEF Spec, FixIsRight
=============================================================================
