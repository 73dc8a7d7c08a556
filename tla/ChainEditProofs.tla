-------------------------- MODULE ChainEditProofs --------------------------
(***************************************************************************)
(* The removal of dead endpoints is exact for every chain.json, whatever   *)
(* it lists and how often.  Deleting the highest index first, the entries  *)
(* below the one that goes are still where the file had them; and the four *)
(* tables between an endpoint's type, its check and its list agree.        *)
(***************************************************************************)
EXTENDS ChainEdit, SequenceTheorems, WellFoundedInduction, TLAPS

-----------------------------------------------------------------------------
(* Deleting from a list.                                                    *)

\* Of the numbers up to n that are in a set, one is the least.
LEMMA LeastOf ==
  ASSUME NEW n \in Nat, NEW S, S \subseteq 0..n, S # {}
  PROVE  \E m \in S : \A k \in S : m <= k
<1> DEFINE less == {ss \in Nat \X Nat : ss[1] < ss[2]}
<1>1. IsWellFoundedOn(less, Nat)
  BY NatLessThanWellFounded DEF OpToRel
<1>2. S \subseteq Nat
  OBVIOUS
<1>3. PICK m \in S : \A k \in S : <<k, m>> \notin less
  <2> HIDE DEF less
  <2> QED BY <1>1, <1>2, WFMin
<1>4. ASSUME NEW k \in S PROVE m <= k
  <2>1. k \in Nat /\ m \in Nat
    BY <1>2
  <2>2. <<k, m>> \in Nat \X Nat /\ <<k, m>>[1] = k /\ <<k, m>>[2] = m
    BY <2>1
  <2>3. <<k, m>> \notin less
    BY <1>3
  <2>4. ~(k < m)
    BY <2>2, <2>3
  <2> HIDE DEF less
  <2> QED BY <2>1, <2>4
<1> QED BY <1>4

LEMMA RemoveAtIs ==
  ASSUME NEW A, NEW s \in Seq(A), NEW i \in 1..Len(s)
  PROVE  /\ RemoveAt(s, i) \in Seq(A)
         /\ Len(RemoveAt(s, i)) = Len(s) - 1
         /\ \A n \in 1..(Len(s) - 1) : RemoveAt(s, i)[n] = IF n < i THEN s[n] ELSE s[n + 1]
<1> DEFINE u == SubSeq(s, 1, i - 1)
           v == SubSeq(s, i + 1, Len(s))
<1>1. Len(s) \in Nat /\ i \in 1..Len(s)
  OBVIOUS
<1>2. u \in Seq(A) /\ Len(u) = i - 1 /\ \A n \in 1..(i - 1) : u[n] = s[n]
  <2>1. \A n \in 1..(i - 1) : n \in 1..Len(s)
    OBVIOUS
  <2> QED BY <1>1, <2>1
<1>3. v \in Seq(A) /\ Len(v) = Len(s) - i /\ \A n \in 1..(Len(s) - i) : v[n] = s[n + i]
  <2>1. \A n \in (i + 1)..Len(s) : n \in 1..Len(s)
    OBVIOUS
  <2> QED BY <1>1, <2>1
<1>4. RemoveAt(s, i) = u \o v
  BY DEF RemoveAt
<1> HIDE DEF u, v
<1>5. u \o v \in Seq(A) /\ Len(u \o v) = Len(u) + Len(v)
  BY <1>2, <1>3, ConcatProperties
<1>6. ASSUME NEW n \in 1..(Len(s) - 1)
      PROVE  (u \o v)[n] = IF n < i THEN s[n] ELSE s[n + 1]
  <2>1. (u \o v)[n] = IF n <= Len(u) THEN u[n] ELSE v[n - Len(u)]
    BY <1>1, <1>2, <1>3, ConcatProperties
  <2>2. CASE n < i
    <3>1. n \in 1..(i - 1) /\ n <= Len(u)
      BY <1>1, <1>2, <2>2
    <3> QED BY <1>2, <2>1, <2>2, <3>1
  <2>3. CASE ~(n < i)
    <3>1. n - (i - 1) \in 1..(Len(s) - i) /\ ~(n <= Len(u)) /\ (n - (i - 1)) + i = n + 1
      BY <1>1, <1>2, <2>3
    <3>2. v[n - (i - 1)] = s[n + 1]
      BY <1>3, <3>1
    <3> QED BY <1>2, <2>1, <2>3, <3>1, <3>2
  <2> QED BY <2>2, <2>3
<1>7. Len(u) + Len(v) = Len(s) - 1
  BY <1>1, <1>2, <1>3
<1> QED BY <1>4, <1>5, <1>6, <1>7

\* f is what DeleteIndices calls left, from the index k on.
IsLeft(f, list, set, k) ==
  f = [i \in k..(Len(list) + 1) |->
        IF i > Len(list) THEN list
        ELSE IF i \in set THEN RemoveAt(f[i + 1], i) ELSE f[i + 1]]

\* The recursion defines something: from the end of the list downwards.
LEMMA LeftExists ==
  ASSUME NEW A, NEW list \in Seq(A), NEW set
  PROVE  \E f : IsLeft(f, list, set, 1)
<1> DEFINE L == Len(list)
           Undefined == {n \in 0..L : ~ \E f : IsLeft(f, list, set, L + 1 - n)}
<1>1. L \in Nat
  OBVIOUS
<1> HIDE DEF L
<1>2. 0 \notin Undefined
  <2> DEFINE f == [i \in (L + 1)..(L + 1) |-> list]
  <2>1. f = [i \in (L + 1)..(L + 1) |->
              IF i > L THEN list
              ELSE IF i \in set THEN RemoveAt(f[i + 1], i) ELSE f[i + 1]]
    <3>1. \A i \in (L + 1)..(L + 1) : i > L
      BY <1>1
    <3> QED BY <3>1
  <2>2. L + 1 - 0 = L + 1
    BY <1>1
  <2>3. IsLeft(f, list, set, L + 1)
    BY <2>1 DEF IsLeft, L
  <2> QED BY <2>2, <2>3
<1>3. ASSUME NEW n \in 0..L, n + 1 \in 0..L, n \notin Undefined PROVE n + 1 \notin Undefined
  <2> DEFINE k == L + 1 - n
             j == L + 1 - (n + 1)
  <2>1. PICK f : IsLeft(f, list, set, k)
    BY <1>3
  <2>2. k \in 1..(L + 1) /\ j \in 1..L /\ j + 1 = k
    BY <1>1, <1>3
  <2> HIDE DEF k, j
  <2> DEFINE g == [i \in j..(L + 1) |->
                    IF i = j THEN (IF j \in set THEN RemoveAt(f[k], j) ELSE f[k]) ELSE f[i]]
  <2>3. \A i \in k..(L + 1) : g[i] = f[i] /\ i \in j..(L + 1) /\ i # j
    BY <1>1, <2>2
  <2>4. \A i \in k..(L + 1) :
          f[i] = IF i > L THEN list ELSE IF i \in set THEN RemoveAt(f[i + 1], i) ELSE f[i + 1]
    BY <2>1 DEF IsLeft, L
  <2>5. ASSUME NEW i \in j..(L + 1)
        PROVE  g[i] = IF i > L THEN list ELSE IF i \in set THEN RemoveAt(g[i + 1], i) ELSE g[i + 1]
    <3>1. CASE i = j
      <4>1. ~(i > L) /\ i + 1 = k /\ k \in k..(L + 1)
        BY <1>1, <2>2, <3>1
      <4>2. g[i + 1] = f[k]
        BY <2>3, <4>1
      <4>3. g[i] = IF j \in set THEN RemoveAt(f[k], j) ELSE f[k]
        BY <3>1
      <4> QED BY <3>1, <4>1, <4>2, <4>3
    <3>2. CASE i # j
      <4>1. i \in k..(L + 1)
        BY <1>1, <2>2, <3>2
      <4>2. ~(i > L) => i + 1 \in k..(L + 1)
        BY <1>1, <2>2, <4>1
      <4>3. g[i] = f[i] /\ (~(i > L) => g[i + 1] = f[i + 1])
        BY <2>3, <4>1, <4>2
      <4> QED BY <2>4, <4>1, <4>3
    <3> QED BY <3>1, <3>2
  <2>6. g = [i \in j..(L + 1) |-> g[i]]
    OBVIOUS
  <2> HIDE DEF g
  <2>7. g = [i \in j..(L + 1) |->
              IF i > L THEN list ELSE IF i \in set THEN RemoveAt(g[i + 1], i) ELSE g[i + 1]]
    BY <2>5, <2>6
  <2>8. IsLeft(g, list, set, j)
    BY <2>7 DEF IsLeft, L
  <2> QED BY <2>8 DEF j
<1>4. Undefined = {}
  <2> SUFFICES ASSUME Undefined # {} PROVE FALSE
    OBVIOUS
  <2>1. Undefined \subseteq 0..L
    OBVIOUS
  <2> HIDE DEF Undefined
  <2>2. PICK m \in Undefined : \A k \in Undefined : m <= k
    BY <1>1, <2>1, LeastOf
  <2>3. m # 0 /\ m \in 0..L
    BY <1>2, <2>1
  <2>4. m - 1 \in 0..L /\ (m - 1) + 1 = m /\ ~(m <= m - 1)
    BY <1>1, <2>3
  <2>5. m - 1 \notin Undefined
    BY <2>2, <2>4
  <2> QED BY <1>3, <2>3, <2>4, <2>5
<1>5. L \in 0..L /\ L + 1 - L = 1
  BY <1>1
<1>6. \E f : IsLeft(f, list, set, L + 1 - L)
  <2>1. L \notin Undefined
    BY <1>4, Zenon
  <2> QED BY <1>5, <2>1
<1> QED BY <1>5, <1>6

\* What is left after the indices from i on: the entries up to i are untouched,
\* where they were, and of those from i on the ones to delete are gone.
LeftFrom(s, list, set, i) ==
  /\ (\A j \in i..Len(list) : j \notin set) => s = list
  /\ \E at \in [1..Len(s) -> {j \in 1..Len(list) : j < i \/ j \notin set}] :
       /\ i - 1 <= Len(s) /\ \A n \in 1..(i - 1) : at[n] = n
       /\ \A m, n \in 1..Len(s) : m < n => at[m] < at[n]
       /\ \A j \in 1..Len(list) : j < i \/ j \notin set => \E n \in 1..Len(s) : at[n] = j
       /\ \A n \in 1..Len(s) : s[n] = list[at[n]]

LEMMA LeftAtEnd ==
  ASSUME NEW A, NEW list \in Seq(A), NEW set
  PROVE  LeftFrom(list, list, set, Len(list) + 1)
<1>1. Len(list) \in Nat
  OBVIOUS
<1> DEFINE at == [n \in 1..Len(list) |-> n]
<1>2. at \in [1..Len(list) -> {j \in 1..Len(list) : j < Len(list) + 1 \/ j \notin set}]
  BY <1>1
<1>3. \A n \in 1..Len(list) : at[n] = n
  OBVIOUS
<1> HIDE DEF at
<1>4. (Len(list) + 1) - 1 = Len(list) /\ Len(list) <= Len(list)
  BY <1>1
<1>5. /\ (Len(list) + 1) - 1 <= Len(list) /\ \A n \in 1..((Len(list) + 1) - 1) : at[n] = n
      /\ \A m, n \in 1..Len(list) : m < n => at[m] < at[n]
      /\ \A j \in 1..Len(list) : \E n \in 1..Len(list) : at[n] = j
      /\ \A n \in 1..Len(list) : list[n] = list[at[n]]
  BY <1>3, <1>4
<1> QED BY <1>2, <1>5 DEF LeftFrom

\* Index i itself goes, or stays.
LEMMA LeftNext ==
  ASSUME NEW A, NEW list \in Seq(A), NEW set, NEW i \in 1..Len(list), NEW s \in Seq(A),
         LeftFrom(s, list, set, i + 1)
  PROVE  LET t == IF i \in set THEN RemoveAt(s, i) ELSE s
         IN  t \in Seq(A) /\ LeftFrom(t, list, set, i)
<1> DEFINE L == Len(list)
<1>1. L \in Nat /\ Len(s) \in Nat /\ i \in 1..L
  OBVIOUS
<1>2. PICK at \in [1..Len(s) -> {j \in 1..L : j < i + 1 \/ j \notin set}] :
        /\ (i + 1) - 1 <= Len(s) /\ \A n \in 1..((i + 1) - 1) : at[n] = n
        /\ \A m, n \in 1..Len(s) : m < n => at[m] < at[n]
        /\ \A j \in 1..L : j < i + 1 \/ j \notin set => \E n \in 1..Len(s) : at[n] = j
        /\ \A n \in 1..Len(s) : s[n] = list[at[n]]
  BY DEF LeftFrom
<1>3. /\ i \in 1..Len(s) /\ at[i] = i /\ \A n \in 1..(i - 1) : at[n] = n /\ n \in 1..Len(s)
  <2>1. (i + 1) - 1 = i
    BY <1>1
  <2>2. i <= Len(s) /\ \A n \in 1..i : at[n] = n
    BY <1>2, <2>1
  <2> QED BY <1>1, <2>2
<1>4. (\A j \in (i + 1)..L : j \notin set) => s = list
  BY DEF LeftFrom
<1> HIDE DEF L
<1>5. CASE i \notin set
  <2>1. {j \in 1..L : j < i + 1 \/ j \notin set} = {j \in 1..L : j < i \/ j \notin set}
    BY <1>1, <1>5
  <2>2. (\A j \in i..L : j \notin set) => s = list
    <3>1. \A j \in (i + 1)..L : j \in i..L
      BY <1>1
    <3> QED BY <1>4, <3>1
  <2>3. i - 1 <= Len(s)
    BY <1>1, <1>3
  <2>4. \A j \in 1..L : j < i \/ j \notin set => \E n \in 1..Len(s) : at[n] = j
    <3>1. \A j \in 1..L : j < i => j < i + 1
      BY <1>1
    <3> QED BY <1>2, <3>1
  <2>5. LeftFrom(s, list, set, i)
    BY <1>2, <1>3, <2>1, <2>2, <2>3, <2>4 DEF LeftFrom, L
  <2> QED BY <1>5, <2>5
<1>6. CASE i \in set
  <2> DEFINE t == RemoveAt(s, i)
             by == [n \in 1..(Len(s) - 1) |-> IF n < i THEN at[n] ELSE at[n + 1]]
  <2>1. /\ t \in Seq(A) /\ Len(t) = Len(s) - 1
        /\ \A n \in 1..(Len(s) - 1) : t[n] = IF n < i THEN s[n] ELSE s[n + 1]
    BY <1>3, RemoveAtIs
  <2>2. \A n \in 1..(Len(s) - 1) : by[n] = IF n < i THEN at[n] ELSE at[n + 1]
    OBVIOUS
  <2>3. \A n \in 1..(Len(s) - 1) : n \in 1..Len(s) /\ n + 1 \in 1..Len(s)
    BY <1>1
  <2>4. \A n \in 1..Len(s) : at[n] \in 1..L /\ (at[n] < i + 1 \/ at[n] \notin set)
    BY <1>2
  <2>5. \A n \in 1..Len(s) : n # i => at[n] # i
    <3> SUFFICES ASSUME NEW n \in 1..Len(s), n # i, at[n] = i PROVE FALSE
      OBVIOUS
    <3>1. n < i \/ i < n
      BY <1>1
    <3>2. at[n] < at[i] \/ at[i] < at[n]
      BY <1>2, <1>3, <3>1
    <3> QED BY <1>1, <1>3, <3>2
  <2>6. \A n \in 1..Len(s) : n # i => at[n] < i \/ at[n] \notin set
    BY <1>1, <2>4, <2>5
  <2>7. by \in [1..(Len(s) - 1) -> {j \in 1..L : j < i \/ j \notin set}]
    <3>1. ASSUME NEW n \in 1..(Len(s) - 1) PROVE by[n] \in {j \in 1..L : j < i \/ j \notin set}
      <4>1. CASE n < i
        <5>1. n # i
          BY <1>1, <4>1
        <5> QED BY <2>2, <2>3, <2>4, <2>6, <4>1, <5>1
      <4>2. CASE ~(n < i)
        <5>1. n + 1 # i
          BY <1>1, <4>2
        <5> QED BY <2>2, <2>3, <2>4, <2>6, <4>2, <5>1
      <4> QED BY <4>1, <4>2
    <3> QED BY <3>1
  <2> HIDE DEF t, by
  <2>8. i - 1 <= Len(s) - 1 /\ \A n \in 1..(i - 1) : by[n] = n
    <3>1. \A n \in 1..(i - 1) : n \in 1..(Len(s) - 1) /\ n < i
      BY <1>1, <1>3
    <3> QED BY <1>1, <1>3, <2>2, <3>1
  <2>9. \A m, n \in 1..(Len(s) - 1) : m < n => by[m] < by[n]
    <3> SUFFICES ASSUME NEW m \in 1..(Len(s) - 1), NEW n \in 1..(Len(s) - 1), m < n
                 PROVE  by[m] < by[n]
      OBVIOUS
    <3>1. CASE n < i
      <4>1. m < i
        BY <1>1, <3>1
      <4> QED BY <1>2, <2>2, <2>3, <3>1, <4>1
    <3>2. CASE ~(n < i) /\ m < i
      <4>1. m < n + 1
        BY <1>1
      <4> QED BY <1>2, <2>2, <2>3, <3>2, <4>1
    <3>3. CASE ~(n < i) /\ ~(m < i)
      <4>1. m + 1 < n + 1
        BY <1>1
      <4> QED BY <1>2, <2>2, <2>3, <3>3, <4>1
    <3> QED BY <3>1, <3>2, <3>3
  <2>10. ASSUME NEW j \in 1..L, j < i \/ j \notin set
         PROVE  \E n \in 1..(Len(s) - 1) : by[n] = j
    <3>1. j # i /\ (j < i + 1 \/ j \notin set)
      BY <1>1, <1>6, <2>10
    <3>2. PICK n \in 1..Len(s) : at[n] = j
      BY <1>2, <3>1
    <3>3. n # i
      BY <1>3, <3>1, <3>2
    <3>4. CASE n < i
      <4>1. n \in 1..(Len(s) - 1)
        BY <1>1, <1>3, <3>4
      <4> QED BY <2>2, <3>2, <3>4, <4>1
    <3>5. CASE ~(n < i)
      <4>1. n - 1 \in 1..(Len(s) - 1) /\ ~(n - 1 < i) /\ (n - 1) + 1 = n
        BY <1>1, <3>3, <3>5
      <4> QED BY <2>2, <3>2, <4>1
    <3> QED BY <3>4, <3>5
  <2>11. \A n \in 1..(Len(s) - 1) : t[n] = list[by[n]]
    BY <1>2, <2>1, <2>2, <2>3
  <2>12. (\A j \in i..L : j \notin set) => t = list
    <3>1. i \in i..L
      BY <1>1
    <3> QED BY <1>6, <3>1
  <2> DEFINE T == Len(t)
  <2>13. T = Len(s) - 1
    BY <2>1
  <2> HIDE DEF T
  <2>14. LeftFrom(t, list, set, i)
    <3>1. by \in [1..T -> {j \in 1..L : j < i \/ j \notin set}]
      BY <2>7, <2>13
    <3>2. i - 1 <= T /\ \A n \in 1..(i - 1) : by[n] = n
      BY <2>8, <2>13
    <3>3. \A m, n \in 1..T : m < n => by[m] < by[n]
      BY <2>9, <2>13
    <3>4. \A j \in 1..L : j < i \/ j \notin set => \E n \in 1..T : by[n] = j
      BY <2>10, <2>13
    <3>5. \A n \in 1..T : t[n] = list[by[n]]
      BY <2>11, <2>13
    <3> QED BY <2>12, <3>1, <3>2, <3>3, <3>4, <3>5, Zenon DEF LeftFrom, L, T
  <2> QED BY <1>6, <2>1, <2>14 DEF t
<1> QED BY <1>5, <1>6

\* Deleting index by index is deleting a set of indices at once.
LEMMA DeletesExactly ==
  ASSUME NEW A, NEW list \in Seq(A), NEW set
  PROVE  /\ Without(DeleteIndices(list, set), list, set)
         /\ set = {} => DeleteIndices(list, set) = list
<1> DEFINE L == Len(list)
<1>1. L \in Nat
  OBVIOUS
<1>2. PICK f : IsLeft(f, list, set, 1) /\ DeleteIndices(list, set) = f[1]
  <2>1. \E f : IsLeft(f, list, set, 1)
    BY LeftExists
  <2> QED BY <2>1, Zenon DEF DeleteIndices, IsLeft
<1>3. \A i \in 1..(L + 1) :
        f[i] = IF i > L THEN list ELSE IF i \in set THEN RemoveAt(f[i + 1], i) ELSE f[i + 1]
  BY <1>2 DEF IsLeft
<1> HIDE DEF L
<1> DEFINE Wrong == {n \in 0..L : ~(f[L + 1 - n] \in Seq(A) /\ LeftFrom(f[L + 1 - n], list, set, L + 1 - n))}
<1>4. 0 \notin Wrong
  <2>1. L + 1 - 0 = L + 1 /\ L + 1 \in 1..(L + 1) /\ L + 1 > L
    BY <1>1
  <2>2. f[L + 1] = list
    BY <1>3, <2>1
  <2>3. LeftFrom(list, list, set, L + 1)
    BY LeftAtEnd DEF L
  <2> QED BY <2>1, <2>2, <2>3
<1>5. ASSUME NEW n \in 0..L, n + 1 \in 0..L, n \notin Wrong PROVE n + 1 \notin Wrong
  <2> DEFINE i == L + 1 - (n + 1)
  <2>1. i \in 1..L /\ L + 1 - n = i + 1 /\ i \in 1..(L + 1) /\ ~(i > L)
    BY <1>1, <1>5
  <2>2. f[L + 1 - n] \in Seq(A) /\ LeftFrom(f[L + 1 - n], list, set, L + 1 - n)
    BY <1>5
  <2> HIDE DEF i
  <2>3. f[i + 1] \in Seq(A) /\ LeftFrom(f[i + 1], list, set, i + 1)
    BY <2>1, <2>2
  <2>4. f[i] = IF i \in set THEN RemoveAt(f[i + 1], i) ELSE f[i + 1]
    BY <1>3, <2>1
  <2>5. f[i] \in Seq(A) /\ LeftFrom(f[i], list, set, i)
    <3> DEFINE t == IF i \in set THEN RemoveAt(f[i + 1], i) ELSE f[i + 1]
    <3>1. i \in 1..Len(list)
      BY <2>1 DEF L
    <3>2. t \in Seq(A) /\ LeftFrom(t, list, set, i)
      BY <2>3, <3>1, LeftNext
    <3> QED BY <2>4, <3>2
  <2> QED BY <2>5 DEF i
<1>6. Wrong = {}
  <2> SUFFICES ASSUME Wrong # {} PROVE FALSE
    OBVIOUS
  <2>1. Wrong \subseteq 0..L
    OBVIOUS
  <2> HIDE DEF Wrong
  <2>2. PICK m \in Wrong : \A k \in Wrong : m <= k
    BY <1>1, <2>1, LeastOf
  <2>3. m # 0 /\ m \in 0..L
    BY <1>4, <2>1
  <2>4. m - 1 \in 0..L /\ (m - 1) + 1 = m /\ ~(m <= m - 1)
    BY <1>1, <2>3
  <2>5. m - 1 \notin Wrong
    BY <2>2, <2>4
  <2> QED BY <1>5, <2>3, <2>4, <2>5
<1>7. f[1] \in Seq(A) /\ LeftFrom(f[1], list, set, 1)
  <2>1. L \in 0..L /\ L + 1 - L = 1
    BY <1>1
  <2>2. L \notin Wrong
    BY <1>6, Zenon
  <2>3. f[L + 1 - L] \in Seq(A) /\ LeftFrom(f[L + 1 - L], list, set, L + 1 - L)
    BY <2>1, <2>2
  <2> QED BY <2>1, <2>3
<1>8. DOMAIN list = 1..L /\ DOMAIN f[1] = 1..Len(f[1])
  BY <1>7 DEF L
<1>9. {j \in 1..L : j < 1 \/ j \notin set} = DOMAIN list \ set
  BY <1>1, <1>8
<1>10. Without(f[1], list, set)
  <2>1. PICK at \in [1..Len(f[1]) -> {j \in 1..L : j < 1 \/ j \notin set}] :
          /\ \A m, n \in 1..Len(f[1]) : m < n => at[m] < at[n]
          /\ \A j \in 1..L : j < 1 \/ j \notin set => \E n \in 1..Len(f[1]) : at[n] = j
          /\ \A n \in 1..Len(f[1]) : f[1][n] = list[at[n]]
    BY <1>7 DEF LeftFrom, L
  <2>2. at \in [DOMAIN f[1] -> DOMAIN list \ set]
    BY <1>8, <1>9, <2>1
  <2>3. \A j \in DOMAIN list \ set : \E n \in DOMAIN f[1] : at[n] = j
    BY <1>8, <2>1
  <2>4. \A m, n \in DOMAIN f[1] : m < n => at[m] < at[n]
    BY <1>8, <2>1
  <2>5. \A n \in DOMAIN f[1] : f[1][n] = list[at[n]]
    BY <1>8, <2>1
  <2> QED BY <2>2, <2>3, <2>4, <2>5 DEF Without
<1>11. set = {} => f[1] = list
  BY <1>7 DEF LeftFrom
<1> QED BY <1>2, <1>10, <1>11

-----------------------------------------------------------------------------
(* The tables.                                                              *)

\* A check's endpoints are deleted from the list its jobs were read from, and
\* no two endpoint types share a check or a list.
LEMMA TablesAgree ==
  /\ \A t \in EndpointType : /\ LivenessCheckName[t] \in DOMAIN CheckCategory
                             /\ CheckCategory[LivenessCheckName[t]] = ListOf[t]
  /\ \A t, u \in EndpointType : ListOf[t] = ListOf[u] => t = u
<1>1. \A t \in EndpointType : /\ LivenessCheckName[t] \in DOMAIN CheckCategory
                              /\ CheckCategory[LivenessCheckName[t]] = ListOf[t]
  BY DEF EndpointType, LivenessCheckName, CheckCategory, ListOf
<1>2. \A t, u \in EndpointType : ListOf[t] = ListOf[u] => t = u
  BY DEF EndpointType, ListOf
<1> QED BY <1>1, <1>2

LEMMA ProbedTypes == \A chainType : Probed(chainType) \subseteq EndpointType
BY DEF Probed, EndpointType

\* What is collected for the list of an endpoint type are the entries whose
\* probes are among the dead.
LEMMA Collected ==
  ASSUME NEW apis, NEW chainType, NEW dead, dead \subseteq JobKeys(chainType, apis),
         NEW list
  PROVE  /\ \A t \in EndpointType :
              ToDelete(ListOf[t], list, dead)
                = {i \in DOMAIN list : <<LivenessCheckName[t], list[i]>> \in dead}
         /\ \A cat : cat \notin {ListOf[t] : t \in EndpointType} => ToDelete(cat, list, dead) = {}
<1>1. ASSUME NEW k \in dead
      PROVE  \E u \in EndpointType : \E a : /\ k = <<LivenessCheckName[u], a>>
                                            /\ k[1] \in DOMAIN CheckCategory
                                            /\ CheckCategory[k[1]] = ListOf[u]
  <2>1. PICK u \in Probed(chainType) :
          k \in {<<LivenessCheckName[u], a>> : a \in ToSet(apis[ListOf[u]])}
    BY <1>1 DEF JobKeys
  <2>2. PICK a : k = <<LivenessCheckName[u], a>>
    BY <2>1
  <2>3. u \in EndpointType
    BY <2>1, ProbedTypes
  <2>4. k[1] = LivenessCheckName[u]
    BY <2>2
  <2>5. k[1] \in DOMAIN CheckCategory /\ CheckCategory[k[1]] = ListOf[u]
    BY <2>3, <2>4, TablesAgree, Zenon
  <2> QED BY <2>2, <2>3, <2>5
<1>2. ASSUME NEW t \in EndpointType
      PROVE  ToDelete(ListOf[t], list, dead)
               = {i \in DOMAIN list : <<LivenessCheckName[t], list[i]>> \in dead}
  <2>1. ASSUME NEW i \in DOMAIN list, NEW k \in dead,
               CheckCategory[k[1]] = ListOf[t], k[2] = list[i]
        PROVE  <<LivenessCheckName[t], list[i]>> \in dead
    <3>1. PICK u \in EndpointType :
            /\ \E a : k = <<LivenessCheckName[u], a>>
            /\ CheckCategory[k[1]] = ListOf[u]
      BY <1>1, <2>1
    <3>2. u = t
      BY <2>1, <3>1, TablesAgree, Zenon
    <3>3. PICK a : k = <<LivenessCheckName[u], a>>
      BY <3>1
    <3>4. a = list[i]
      BY <2>1, <3>3
    <3> QED BY <3>2, <3>3, <3>4
  <2>2. ASSUME NEW i \in DOMAIN list, <<LivenessCheckName[t], list[i]>> \in dead
        PROVE  \E k \in dead : /\ k[1] \in DOMAIN CheckCategory
                               /\ CheckCategory[k[1]] = ListOf[t] /\ k[2] = list[i]
    <3> DEFINE k == <<LivenessCheckName[t], list[i]>>
    <3>1. k[1] = LivenessCheckName[t] /\ k[2] = list[i]
      OBVIOUS
    <3>2. LivenessCheckName[t] \in DOMAIN CheckCategory /\ CheckCategory[LivenessCheckName[t]] = ListOf[t]
      BY TablesAgree, Zenon
    <3>3. k[1] \in DOMAIN CheckCategory /\ CheckCategory[k[1]] = ListOf[t] /\ k[2] = list[i]
      BY <3>1, <3>2
    <3>4. k \in dead
      BY <2>2
    <3> HIDE DEF k
    <3> QED BY <3>3, <3>4
  <2> QED BY <2>1, <2>2 DEF ToDelete
<1>3. ASSUME NEW cat, cat \notin {ListOf[t] : t \in EndpointType}
      PROVE  ToDelete(cat, list, dead) = {}
  <2>1. \A k \in dead : CheckCategory[k[1]] # cat
    BY <1>1, <1>3
  <2> QED BY <2>1 DEF ToDelete
<1> QED BY <1>2, <1>3

-----------------------------------------------------------------------------
(* The edit.                                                                *)

\* The keys of a check's jobs on a list, and the indices of those flagged.
KeysOf(check, list) == {<<check, a>> : a \in ToSet(list)}

FlaggedAt(check, list, dead) == {i \in DOMAIN list : <<check, list[i]>> \in dead}

\* The jobs of a list of which the flagged entries are gone.
LEMMA JobsOfTheRest ==
  ASSUME NEW new, NEW old, NEW check, NEW dead, Without(new, old, FlaggedAt(check, old, dead))
  PROVE  KeysOf(check, new) = KeysOf(check, old) \ dead
<1> DEFINE gone == FlaggedAt(check, old, dead)
<1>1. PICK at \in [DOMAIN new -> DOMAIN old \ gone] :
        /\ \A i \in DOMAIN old \ gone : \E n \in DOMAIN new : at[n] = i
        /\ \A n \in DOMAIN new : new[n] = old[at[n]]
  BY DEF Without
<1>2. ASSUME NEW n \in DOMAIN new
      PROVE  <<check, new[n]>> \in KeysOf(check, old) \ dead
  <2>1. at[n] \in DOMAIN old /\ at[n] \notin gone /\ new[n] = old[at[n]]
    BY <1>1
  <2>2. <<check, old[at[n]]>> \notin dead
    BY <2>1 DEF FlaggedAt
  <2>3. old[at[n]] \in ToSet(old)
    BY <2>1 DEF ToSet
  <2> QED BY <2>1, <2>2, <2>3 DEF KeysOf
<1>3. ASSUME NEW i \in DOMAIN old, <<check, old[i]>> \notin dead
      PROVE  old[i] \in ToSet(new)
  <2>1. i \in DOMAIN old \ gone
    BY <1>3 DEF FlaggedAt
  <2>2. PICK n \in DOMAIN new : at[n] = i
    BY <1>1, <2>1
  <2> QED BY <1>1, <2>2 DEF ToSet
<1>4. ASSUME NEW k \in KeysOf(check, new)
      PROVE  k \in KeysOf(check, old) \ dead
  <2>1. PICK n \in DOMAIN new : k = <<check, new[n]>>
    BY <1>4 DEF KeysOf, ToSet
  <2> QED BY <1>2, <2>1
<1>5. ASSUME NEW k \in KeysOf(check, old) \ dead
      PROVE  k \in KeysOf(check, new)
  <2>1. PICK i \in DOMAIN old : k = <<check, old[i]>>
    BY <1>5 DEF KeysOf, ToSet
  <2>2. old[i] \in ToSet(new)
    BY <1>3, <1>5, <2>1
  <2> QED BY <2>1, <2>2 DEF KeysOf
<1> QED BY <1>4, <1>5

\* Of any chain's lists, whatever they hold and how often, EditChainJSON deletes
\* exactly the entries of the flagged probes: the rest keep their order, the
\* lists no job is read from stay as they are, and the jobs of the edited chain
\* are those that were not flagged.  The lists of the six types are in apis (an
\* absent one is read as an empty one by both buildJobs and the edit).
THEOREM EveryEditIsExact ==
  ASSUME NEW A, NEW samples,
         \A apis \in samples : /\ \A t \in EndpointType : ListOf[t] \in DOMAIN apis
                               /\ \A cat \in DOMAIN apis : apis[cat] \in Seq(A)
  PROVE  RemovalExact(samples)
<1> SUFFICES ASSUME NEW apis \in samples, NEW chainType \in {"cosmos", "eip155", "other"},
                    NEW dead \in SUBSET JobKeys(chainType, apis)
             PROVE  LET new == EditChainJSON(apis, dead)
                    IN  /\ new.edited <=> dead # {}
                        /\ JobKeys(chainType, new.apis) = JobKeys(chainType, apis) \ dead
                        /\ \A t \in EndpointType :
                             LET list == apis[ListOf[t]]
                             IN  Without(new.apis[ListOf[t]], list,
                                         {i \in DOMAIN list : <<LivenessCheckName[t], list[i]>> \in dead})
                        /\ \A cat \in DOMAIN apis \ {ListOf[t] : t \in EndpointType} :
                             new.apis[cat] = apis[cat]
  BY DEF RemovalExact
<1> DEFINE new == EditChainJSON(apis, dead)
           Gone(t) == FlaggedAt(LivenessCheckName[t], apis[ListOf[t]], dead)
<1>1. /\ \A t \in EndpointType : ListOf[t] \in DOMAIN apis
      /\ \A cat \in DOMAIN apis : apis[cat] \in Seq(A)
  OBVIOUS
<1>2. /\ new.edited <=> \E cat \in DOMAIN apis : ToDelete(cat, apis[cat], dead) # {}
      /\ \A cat \in DOMAIN apis :
           new.apis[cat] = DeleteIndices(apis[cat], ToDelete(cat, apis[cat], dead))
  BY DEF EditChainJSON
<1> HIDE DEF new
<1>3. \A t \in EndpointType : ToDelete(ListOf[t], apis[ListOf[t]], dead) = Gone(t)
  BY Collected DEF FlaggedAt
<1>4. ASSUME NEW t \in EndpointType PROVE Without(new.apis[ListOf[t]], apis[ListOf[t]], Gone(t))
  <2>1. ListOf[t] \in DOMAIN apis /\ apis[ListOf[t]] \in Seq(A)
    BY <1>1
  <2>2. Without(DeleteIndices(apis[ListOf[t]], Gone(t)), apis[ListOf[t]], Gone(t))
    <3> HIDE DEF Gone
    <3> QED BY <2>1, DeletesExactly
  <2>3. new.apis[ListOf[t]] = DeleteIndices(apis[ListOf[t]], Gone(t))
    <3> HIDE DEF Gone
    <3> QED BY <1>2, <1>3, <2>1
  <2> QED BY <2>2, <2>3
<1>5. ASSUME NEW cat \in DOMAIN apis, cat \notin {ListOf[t] : t \in EndpointType}
      PROVE  new.apis[cat] = apis[cat]
  <2>1. ToDelete(cat, apis[cat], dead) = {}
    BY <1>5, Collected
  <2>2. DeleteIndices(apis[cat], {}) = apis[cat]
    BY <1>1, DeletesExactly
  <2> QED BY <1>2, <2>1, <2>2
<1>6. JobKeys(chainType, new.apis) = JobKeys(chainType, apis) \ dead
  <2>1. \A t \in EndpointType :
          KeysOf(LivenessCheckName[t], new.apis[ListOf[t]])
            = KeysOf(LivenessCheckName[t], apis[ListOf[t]]) \ dead
    BY <1>4, JobsOfTheRest
  <2>2. \A a : JobKeys(chainType, a)
                 = UNION {KeysOf(LivenessCheckName[t], a[ListOf[t]]) : t \in Probed(chainType)}
    BY DEF JobKeys, KeysOf
  <2>3. \A t \in Probed(chainType) :
          KeysOf(LivenessCheckName[t], new.apis[ListOf[t]])
            = KeysOf(LivenessCheckName[t], apis[ListOf[t]]) \ dead
    BY <2>1, ProbedTypes
  <2> QED BY <2>2, <2>3
<1>7. new.edited <=> dead # {}
  <2>1. ASSUME dead = {} PROVE ~ new.edited
    <3>1. \A cat \in DOMAIN apis : ToDelete(cat, apis[cat], dead) = {}
      BY <2>1 DEF ToDelete
    <3> QED BY <1>2, <3>1
  <2>2. ASSUME NEW k \in dead PROVE new.edited
    <3>1. PICK t \in Probed(chainType) :
            k \in {<<LivenessCheckName[t], a>> : a \in ToSet(apis[ListOf[t]])}
      BY DEF JobKeys
    <3>2. PICK i \in DOMAIN apis[ListOf[t]] : k = <<LivenessCheckName[t], apis[ListOf[t]][i]>>
      BY <3>1 DEF ToSet
    <3>3. t \in EndpointType
      BY <3>1, ProbedTypes
    <3>4. i \in Gone(t)
      BY <3>2 DEF FlaggedAt
    <3>5. ToDelete(ListOf[t], apis[ListOf[t]], dead) # {}
      BY <1>3, <3>3, <3>4
    <3> QED BY <1>1, <1>2, <3>3, <3>5
  <2> QED BY <2>1, <2>2
<1> QED BY <1>4, <1>5, <1>6, <1>7 DEF new, FlaggedAt
=============================================================================
