---------------------------- MODULE ListingProofs ---------------------------
(***************************************************************************)
(* Reading the catalogue page by page, for any number of skills, versions, *)
(* pages and failing requests, while others publish and deprecate: what is *)
(* listed was `latest`, what is missing was not there, and only a skill    *)
(* that the caller lost in the meantime cannot be fetched.                 *)
(***************************************************************************)
EXTENDS Listing, FiniteSetTheorems, SequenceTheorems, WellFoundedInduction, TLAPS

\* A search is about skills: it matches all versions of one or none.
WholeSkillsMatch ==
  \A k \in Skills : \A v, w \in Versions :
    <<k, v>> \in Keys /\ <<k, w>> \in Keys
      => (<<k, v>> \in Matches <=> <<k, w>> \in Matches)

-----------------------------------------------------------------------------
(* The best version.                                                       *)

LEMMA BetterIsAnOrder ==
  ASSUME NEW u \in Versions, NEW v \in Versions, NEW w \in Versions
  PROVE  /\ Better(u, v) /\ Better(v, w) => Better(u, w)
         /\ ~(Better(u, v) /\ Better(v, u))
         /\ u # v => Better(u, v) \/ Better(v, u)
BY VersionAssumption DEF Better

\* Of any versions one is better than all others: the one with the fewest
\* better ones, which finite sets have.
LEMMA BestIsOne ==
  ASSUME NEW vs \in SUBSET Versions, vs # {}
  PROVE  Best(vs) \in vs
<1> DEFINE above(v) == {w \in vs : w # v /\ Better(w, v)}
           T == {above(v) : v \in vs}
           R == StrictSubsetOrdering(Versions)
<1>1. T \subseteq FiniteSubsetsOf(Versions) /\ T # {}
  <2>1. \A v \in vs : above(v) \subseteq Versions
    OBVIOUS
  <2>2. IsFiniteSet(Versions)
    BY VersionAssumption
  <2> HIDE DEF above
  <2>3. \A v \in vs : IsFiniteSet(above(v))
    BY <2>1, <2>2, FS_Subset
  <2> QED
    BY <2>1, <2>3 DEF FiniteSubsetsOf
<1>2. PICK x \in T : \A y \in T : <<y, x>> \notin R
  <2> HIDE DEF T
  <2> QED
    BY <1>1, FS_StrictSubsetOrderingWellFounded, WFMin
<1>3. PICK v \in vs : x = above(v)
  OBVIOUS
<1>4. above(v) = {}
  <2> SUFFICES ASSUME NEW w \in above(v) PROVE FALSE
    OBVIOUS
  <2>1. w \in vs /\ w # v /\ Better(w, v)
    OBVIOUS
  <2>2. above(w) \subseteq above(v) /\ w \notin above(w)
    BY <2>1, BetterIsAnOrder
  <2>3. <<above(w), above(v)>> \in R
    BY <2>1, <2>2 DEF StrictSubsetOrdering
  <2> QED
    BY <1>2, <1>3, <2>1, <2>3
<1>5. IsBest(v, vs)
  BY <1>4, BetterIsAnOrder DEF IsBest
<1> QED
  BY <1>5 DEF Best

LEMMA LatestIs ==
  ASSUME NEW db, NEW k
  PROVE  /\ Fetchable(db, k) \subseteq Versions
         /\ Latest(db, k) \in Fetchable(db, k) \cup {None}
         /\ Latest(db, k) = None => Fetchable(db, k) = {}
<1>1. Fetchable(db, k) \subseteq Versions
  BY DEF Fetchable
<1>2. Fetchable(db, k) # {} => Best(Fetchable(db, k)) \in Fetchable(db, k)
  BY <1>1, BestIsOne
<1>3. None \notin Versions
  BY ListingAssumption
<1> QED
  BY <1>1, <1>2, <1>3 DEF Latest

\* A search that is about skills leaves a skill's `latest` as it is.
LEMMA ListedIs ==
  ASSUME WholeSkillsMatch, NEW k \in Skills
  PROVE  /\ Listed(k) \subseteq Fetchable(rows, k)
         /\ Listed(k) # {} => Best(Listed(k)) = Latest(rows, k) /\ Best(Listed(k)) \in Versions
         /\ Listed(k) = {} /\ (\E v \in Versions : Sought(k, v)) => Latest(rows, k) = None
<1>1. Listed(k) \subseteq Fetchable(rows, k) /\ Fetchable(rows, k) \subseteq Versions
  BY DEF Listed, Fetchable
<1>2. \A v \in Fetchable(rows, k) : <<k, v>> \in Keys
  BY ListingAssumption DEF Fetchable
<1>3. \A v \in Versions : mode = "list" /\ Sought(k, v) => <<k, v>> \in Keys /\ <<k, v>> \in Matches
  BY ListingAssumption DEF Sought
<1>4. (\E v \in Versions : Sought(k, v)) => \A w \in Fetchable(rows, k) : Sought(k, w)
  <2> SUFFICES ASSUME NEW v \in Versions, Sought(k, v), NEW w \in Fetchable(rows, k), mode = "list"
               PROVE  <<k, w>> \in Matches
    BY DEF Sought
  <2>1. <<k, v>> \in Keys /\ <<k, v>> \in Matches /\ <<k, w>> \in Keys /\ w \in Versions
    BY <1>1, <1>2, <1>3
  <2> QED
    BY <2>1 DEF WholeSkillsMatch
<1>5. (\E v \in Versions : Sought(k, v)) => Listed(k) = Fetchable(rows, k)
  BY <1>1, <1>4 DEF Listed
<1>6. Listed(k) # {} => \E v \in Versions : Sought(k, v)
  BY <1>1 DEF Listed
<1>7. Listed(k) # {} => Best(Listed(k)) = Latest(rows, k)
  BY <1>5, <1>6 DEF Latest
<1>8. Listed(k) # {} => Best(Listed(k)) \in Versions
  BY <1>1, BestIsOne
<1> QED
  BY <1>1, <1>5, <1>7, <1>8 DEF Latest

-----------------------------------------------------------------------------
(* Sequences in order.                                                     *)

Ascending(s, R) == \A i, j \in DOMAIN s : i < j => <<s[i], s[j]>> \in R

Seam(s, t, R) == \A i \in DOMAIN s, j \in DOMAIN t : <<s[i], t[j]>> \in R

\* r holds the elements of s and, behind them, those of t.
Joined(s, t, r) ==
  /\ \A i \in DOMAIN s : i \in DOMAIN r /\ r[i] = s[i]
  /\ \A j \in DOMAIN t : \E i \in DOMAIN r : r[i] = t[j]
  /\ \A i \in DOMAIN r : (\E j \in DOMAIN s : r[i] = s[j]) \/ (\E j \in DOMAIN t : r[i] = t[j])

\* One list behind another is in order if both are and the seam is.
LEMMA JoinAscends ==
  ASSUME NEW T, NEW R, NEW s \in Seq(T), NEW t \in Seq(T), Ascending(s, R), Ascending(t, R),
         Seam(s, t, R)
  PROVE  s \o t \in Seq(T) /\ Ascending(s \o t, R) /\ Joined(s, t, s \o t)
<1> DEFINE r == s \o t
           m == Len(s)
           n == Len(t)
<1>1. m \in Nat /\ DOMAIN s = 1..m /\ n \in Nat /\ DOMAIN t = 1..n
  BY LenProperties
<1>2. /\ r \in Seq(T) /\ Len(r) = m + n
      /\ \A j \in 1..(m + n) : r[j] = IF j <= m THEN s[j] ELSE t[j - m]
  BY ConcatProperties
<1>3. DOMAIN r = 1..(m + n)
  BY <1>2, LenProperties
<1> HIDE DEF r, m, n
<1>4. ASSUME NEW i \in 1..(m + n)
      PROVE  \/ i \in 1..m /\ r[i] = s[i]
             \/ i - m \in 1..n /\ ~(i <= m) /\ r[i] = t[i - m]
  BY <1>1, <1>2, <1>4
<1>5. \A i \in 1..m : i \in 1..(m + n) /\ r[i] = s[i]
  BY <1>1, <1>2
<1>6. \A j \in 1..n : m + j \in 1..(m + n) /\ r[m + j] = t[j]
  BY <1>1, <1>2
<1>7. ASSUME NEW i \in 1..(m + n), NEW j \in 1..(m + n), i < j PROVE <<r[i], r[j]>> \in R
  <2>1. CASE j <= m
    <3>1. i \in 1..m /\ j \in 1..m /\ r[i] = s[i] /\ r[j] = s[j]
      BY <1>1, <1>2, <1>7, <2>1
    <3> QED
      BY <1>1, <1>7, <3>1 DEF Ascending
  <2>2. CASE i <= m /\ ~(j <= m)
    <3>1. i \in 1..m /\ j - m \in 1..n /\ r[i] = s[i] /\ r[j] = t[j - m]
      BY <1>1, <1>2, <1>7, <2>2
    <3> QED
      BY <1>1, <3>1 DEF Seam
  <2>3. CASE ~(i <= m)
    <3>1. i - m \in 1..n /\ j - m \in 1..n /\ i - m < j - m /\ r[i] = t[i - m] /\ r[j] = t[j - m]
      BY <1>1, <1>2, <1>7, <2>3
    <3> QED
      BY <1>1, <3>1 DEF Ascending
  <2> QED
    BY <1>1, <2>1, <2>2, <2>3
<1>8. Ascending(r, R)
  BY <1>3, <1>7 DEF Ascending
<1>9. \A i \in DOMAIN s : i \in DOMAIN r /\ r[i] = s[i]
  BY <1>1, <1>3, <1>5
<1>10. \A j \in DOMAIN t : \E i \in DOMAIN r : r[i] = t[j]
  BY <1>1, <1>3, <1>6
<1>11. \A i \in DOMAIN r : (\E j \in DOMAIN s : r[i] = s[j]) \/ (\E j \in DOMAIN t : r[i] = t[j])
  BY <1>1, <1>3, <1>4
<1> QED
  BY <1>2, <1>8, <1>9, <1>10, <1>11 DEF r, Joined

LEMMA TailAscends ==
  ASSUME NEW T, NEW R, NEW s \in Seq(T), s # <<>>, Ascending(s, R)
  PROVE  /\ Head(s) \in T /\ Tail(s) \in Seq(T) /\ Ascending(Tail(s), R)
         /\ 1 \in DOMAIN s /\ s[1] = Head(s)
         /\ \A i \in DOMAIN Tail(s) : i + 1 \in DOMAIN s /\ Tail(s)[i] = s[i + 1]
                                      /\ <<Head(s), Tail(s)[i]>> \in R
         /\ \A j \in DOMAIN s : s[j] = Head(s) \/ \E i \in DOMAIN Tail(s) : Tail(s)[i] = s[j]
<1> DEFINE t == Tail(s)
           n == Len(s)
<1>1. Head(s) \in T /\ t \in Seq(T) /\ Len(t) = n - 1 /\ \A i \in 1..Len(t) : t[i] = s[i + 1]
  BY HeadTailProperties
<1>2. n \in Nat \ {0} /\ DOMAIN s = 1..n
  BY EmptySeq, LenProperties
<1>3. Head(s) = s[1]
  OBVIOUS
<1>4. DOMAIN t = 1..(n - 1) /\ \A i \in 1..(n - 1) : t[i] = s[i + 1]
  BY <1>1, LenProperties
<1> HIDE DEF t, n
<1>5. \A i \in 1..(n - 1) : i + 1 \in 1..n /\ 1 < i + 1
  BY <1>2
<1>6. 1 \in 1..n
  BY <1>2
<1>7. \A i \in DOMAIN t : i + 1 \in DOMAIN s /\ t[i] = s[i + 1] /\ <<s[1], t[i]>> \in R
  BY <1>2, <1>4, <1>5, <1>6 DEF Ascending
<1>8. ASSUME NEW i \in 1..(n - 1), NEW j \in 1..(n - 1), i < j PROVE <<t[i], t[j]>> \in R
  <2>1. i + 1 \in 1..n /\ j + 1 \in 1..n /\ i + 1 < j + 1
    BY <1>2, <1>8
  <2> QED
    BY <1>2, <1>4, <2>1 DEF Ascending
<1>9. ASSUME NEW j \in 1..n, j # 1 PROVE \E i \in DOMAIN t : t[i] = s[j]
  <2>1. j - 1 \in 1..(n - 1) /\ (j - 1) + 1 = j
    BY <1>2, <1>9
  <2> QED
    BY <1>4, <2>1
<1>10. Ascending(t, R)
  BY <1>4, <1>8 DEF Ascending
<1> QED
  BY <1>1, <1>2, <1>3, <1>6, <1>7, <1>9, <1>10 DEF t

-----------------------------------------------------------------------------
(* Pages.                                                                  *)

\* Finitely many skills can be put in order: each has its rank among them.
LEMMA InOrderIs ==
  ASSUME NEW A \in SUBSET Skills
  PROVE  /\ Cardinality(A) \in Nat
         /\ InOrder(A) \in [1..Cardinality(A) -> A]
         /\ \A i, j \in 1..Cardinality(A) : i < j => InOrder(A)[i] < InOrder(A)[j]
         /\ \A k \in A : \E i \in 1..Cardinality(A) : InOrder(A)[i] = k
<1> DEFINE n == Cardinality(A)
           N == 1..n
           upto(k) == {j \in A : j <= k}
           rank == [k \in A |-> Cardinality(upto(k))]
           Right(ks) == \A i, j \in N : i < j => ks[i] < ks[j]
           at == [i \in N |-> CHOOSE k \in A : rank[k] = i]
<1>1. IsFiniteSet(A) /\ A \subseteq Nat /\ n \in Nat
  BY ListingAssumption, FS_Subset, FS_CardinalityType
<1>2. IsFiniteSet(N) /\ Cardinality(N) = n
  BY <1>1, FS_Interval
<1>3. ASSUME NEW k \in A PROVE rank[k] \in N
  <2>1. upto(k) \in SUBSET A /\ k \in upto(k)
    BY <1>1
  <2>2. rank[k] = Cardinality(upto(k))
    OBVIOUS
  <2> HIDE DEF upto, rank
  <2>3. IsFiniteSet(upto(k)) /\ Cardinality(upto(k)) <= n
    BY <1>1, <2>1, FS_Subset
  <2>4. Cardinality(upto(k)) \in Nat /\ Cardinality(upto(k)) # 0
    BY <2>1, <2>3, FS_CardinalityType, FS_EmptySet
  <2> QED
    BY <1>1, <2>2, <2>3, <2>4
<1>4. ASSUME NEW j \in A, NEW k \in A, j < k PROVE rank[j] < rank[k]
  <2>1. j \in Nat /\ k \in Nat /\ ~(k <= j) /\ k <= k
    BY <1>1, <1>4
  <2>2. upto(k) \in SUBSET A /\ k \in upto(k) /\ k \notin upto(j)
    BY <2>1
  <2>3. \A i \in A : i <= j => i <= k
    BY <1>1, <1>4
  <2>4. upto(j) \in SUBSET upto(k)
    BY <2>3
  <2>5. rank[j] = Cardinality(upto(j)) /\ rank[k] = Cardinality(upto(k))
    OBVIOUS
  <2>6. rank[j] \in Nat /\ rank[k] \in Nat
    BY <1>3
  <2> HIDE DEF upto, rank
  <2>7. IsFiniteSet(upto(k))
    BY <1>1, <2>2, FS_Subset
  <2>8. /\ Cardinality(upto(j)) <= Cardinality(upto(k))
        /\ Cardinality(upto(j)) # Cardinality(upto(k))
    BY <2>2, <2>4, <2>7, FS_Subset
  <2> QED
    BY <2>5, <2>6, <2>8
<1> HIDE DEF upto, rank
<1>5. rank \in [A -> N]
  BY <1>3 DEF rank
<1>6. \A j, k \in A : rank[j] = rank[k] => j = k
  <2> SUFFICES ASSUME NEW j \in A, NEW k \in A, j # k PROVE rank[j] # rank[k]
    OBVIOUS
  <2>1. (j < k \/ k < j) /\ rank[j] \in Nat /\ rank[k] \in Nat
    BY <1>1, <1>5
  <2> QED
    BY <1>4, <2>1
<1> HIDE DEF N
<1>7. rank \in Injection(A, N)
  BY <1>5, <1>6 DEF Injection, IsInjective
<1>8. rank \in Surjection(A, N)
  BY <1>2, <1>7, FS_Injection
<1>9. \A i \in N : \E k \in A : rank[k] = i
  BY <1>8 DEF Surjection
<1>10. at \in [N -> A] /\ \A i \in N : rank[at[i]] = i
  BY <1>9
<1> HIDE DEF at
<1>11. Right(at)
  <2> SUFFICES ASSUME NEW i \in N, NEW j \in N, i < j PROVE at[i] < at[j]
    OBVIOUS
  <2>1. at[i] \in A /\ at[j] \in A /\ rank[at[i]] < rank[at[j]] /\ i \in Nat /\ j \in Nat
    BY <1>10 DEF N
  <2>2. rank[at[i]] = i /\ rank[at[j]] = j /\ at[i] \in Nat /\ at[j] \in Nat
    BY <1>1, <1>10, <2>1
  <2>3. ~(at[j] < at[i])
    <3> SUFFICES ASSUME at[j] < at[i] PROVE FALSE
      OBVIOUS
    <3>1. rank[at[j]] < rank[at[i]]
      BY <1>4, <2>1
    <3> QED
      BY <2>1, <2>2, <3>1
  <2>4. at[j] # at[i]
    BY <2>1, <2>2
  <2> QED
    BY <2>2, <2>3, <2>4
<1>12. InOrder(A) = CHOOSE ks \in [N -> A] : \A i, j \in DOMAIN ks : i < j => ks[i] < ks[j]
  BY DEF InOrder, N
<1>13. InOrder(A) \in [N -> A] /\ Right(InOrder(A))
  BY <1>10, <1>11, <1>12
<1> DEFINE ks == InOrder(A)
<1> HIDE DEF ks
<1>14. ks \in [N -> A] /\ Right(ks)
  BY <1>13 DEF ks
<1>15. \A i, j \in N : ks[i] = ks[j] => i = j
  <2> SUFFICES ASSUME NEW i \in N, NEW j \in N, i # j PROVE ks[i] # ks[j]
    OBVIOUS
  <2>1. ks[i] \in Nat /\ ks[j] \in Nat
    BY <1>1, <1>14
  <2>2. i < j \/ j < i
    BY <1>1 DEF N
  <2>3. i < j => ks[i] < ks[j]
    BY <1>14
  <2>4. j < i => ks[j] < ks[i]
    BY <1>14
  <2> QED
    BY <2>1, <2>2, <2>3, <2>4
<1>16. ks \in Injection(N, A)
  BY <1>14, <1>15 DEF Injection, IsInjective
<1>17. ks \in Surjection(N, A)
  BY <1>1, <1>2, <1>16, FS_Injection
<1>18. \A k \in A : \E i \in N : ks[i] = k
  BY <1>17 DEF Surjection
<1> QED
  BY <1>1, <1>14, <1>18 DEF ks, N

Less == {e \in Skills \X Skills : e[1] < e[2]}
Before == {e \in Item \X Item : e[1].skill < e[2].skill}

LEMMA InOrderAscends ==
  ASSUME NEW A \in SUBSET Skills
  PROVE  /\ InOrder(A) \in Seq(A) /\ InOrder(A) \in Seq(Skills) /\ Ascending(InOrder(A), Less)
         /\ \A i \in DOMAIN InOrder(A) : InOrder(A)[i] \in A
         /\ \A k \in A : \E i \in DOMAIN InOrder(A) : InOrder(A)[i] = k
<1> DEFINE ks == InOrder(A)
           n == Cardinality(A)
<1>1. /\ n \in Nat /\ ks \in [1..n -> A]
      /\ \A i, j \in 1..n : i < j => ks[i] < ks[j]
      /\ \A k \in A : \E i \in 1..n : ks[i] = k
  BY InOrderIs
<1> HIDE DEF ks, n
<1>2. ks \in Seq(A)
  <2>1. \E m \in Nat : ks \in [1..m -> A]
    BY <1>1
  <2> QED
    BY <2>1, SeqDef
<1>3. ks \in Seq(Skills)
  BY <1>2, SeqMonotonic
<1>4. DOMAIN ks = 1..n /\ \A i \in 1..n : ks[i] \in A /\ ks[i] \in Skills
  BY <1>1
<1>5. Ascending(ks, Less)
  BY <1>1, <1>4 DEF Ascending, Less
<1> QED
  BY <1>1, <1>2, <1>3, <1>4, <1>5 DEF ks

\* The ends of an order are its least and its greatest element.
LEMMA Ends ==
  ASSUME NEW A \in SUBSET Skills, A # {}
  PROVE  /\ Max(A) \in A /\ \A k \in A : k <= Max(A)
         /\ \E k \in A : \A j \in A : k <= j
<1> DEFINE ks == InOrder(A)
           n == Cardinality(A)
<1>1. /\ n \in Nat /\ ks \in [1..n -> A]
      /\ \A i, j \in 1..n : i < j => ks[i] < ks[j]
      /\ \A k \in A : \E i \in 1..n : ks[i] = k
  BY InOrderIs
<1> HIDE DEF ks, n
<1>2. A \subseteq Nat
  BY ListingAssumption
<1>3. n # 0
  BY <1>1
<1>4. 1 \in 1..n /\ n \in 1..n
  BY <1>1, <1>3
<1>5. \A i \in 1..n : ks[1] <= ks[i] /\ ks[i] <= ks[n]
  <2> SUFFICES ASSUME NEW i \in 1..n PROVE ks[1] <= ks[i] /\ ks[i] <= ks[n]
    OBVIOUS
  <2>1. ks[1] \in Nat /\ ks[i] \in Nat /\ ks[n] \in Nat
    BY <1>1, <1>2, <1>4
  <2>2. (i = 1 \/ 1 < i) /\ (i = n \/ i < n)
    BY <1>1
  <2> QED
    BY <1>1, <1>4, <2>1, <2>2
<1>6. \A k \in A : ks[1] <= k /\ k <= ks[n]
  BY <1>1, <1>5
<1>7. ks[1] \in A /\ ks[n] \in A
  BY <1>1, <1>4
<1>8. \E x \in A : \A y \in A : x >= y
  BY <1>2, <1>6, <1>7
<1>9. Max(A) \in A /\ \A y \in A : Max(A) >= y
  BY <1>8 DEF Max
<1> QED
  BY <1>2, <1>6, <1>7, <1>9

\* A page is the first of the skills behind the cursor; it is empty only when
\* none is left, and the next one starts behind its last.
LEMMA PageIs ==
  ASSUME cursor \in Skills \cup {None}
  PROVE  /\ Page \subseteq Skills
         /\ \A k \in Page : Listed(k) # {} /\ cursor < k
         /\ \A k \in Skills : Listed(k) # {} /\ cursor < k
              /\ (NextCursor # None => k <= NextCursor) => k \in Page
         /\ NextCursor \in Skills \cup {None}
         /\ NextCursor # None => cursor < NextCursor /\ \A k \in Page : k <= NextCursor
<1> DEFINE As == After(cursor)
           less(k) == {j \in As : j < k}
<1>1. As \in SUBSET Skills /\ IsFiniteSet(As) /\ Skills \subseteq Nat \ {None} /\ cursor \in Nat
  <2>1. As \in SUBSET Skills
    BY DEF After
  <2> HIDE DEF As
  <2>2. IsFiniteSet(As)
    BY <2>1, ListingAssumption, FS_Subset
  <2>3. Skills \subseteq Nat \ {None} /\ None \in Nat
    BY ListingAssumption DEF None
  <2> QED
    BY <2>1, <2>2, <2>3
<1>2. \A k \in Skills : k \in As <=> Listed(k) # {} /\ cursor < k
  BY <1>1 DEF After
<1> HIDE DEF As
<1>3. Page = {k \in As : Cardinality(less(k)) < Limit}
  BY DEF Page, As
<1>4. \A k \in As : IsFiniteSet(less(k)) /\ Cardinality(less(k)) \in Nat
  BY <1>1, FS_Subset, FS_CardinalityType
<1>5. ASSUME NEW j \in As, NEW k \in Page, j <= k PROVE j \in Page
  <2>1. less(j) \in SUBSET less(k)
    <3>1. k \in As /\ k \in Nat /\ j \in Nat /\ \A i \in As : i \in Nat
      BY <1>1, <1>3
    <3>2. \A i \in As : i < j => i < k
      BY <1>5, <3>1
    <3> QED
      BY <3>2
  <2>2. k \in As /\ Cardinality(less(k)) < Limit
    BY <1>3
  <2>3. /\ IsFiniteSet(less(k)) /\ Cardinality(less(k)) \in Nat /\ Cardinality(less(j)) \in Nat
    BY <1>4, <2>2
  <2> HIDE DEF less
  <2>4. Cardinality(less(j)) <= Cardinality(less(k))
    BY <2>1, <2>3, FS_Subset
  <2>5. Cardinality(less(j)) < Limit
    BY <2>2, <2>3, <2>4, ListingAssumption
  <2> QED
    BY <1>3, <2>5
<1>6. As # {} => Page # {}
  <2> SUFFICES ASSUME As # {} PROVE Page # {}
    OBVIOUS
  <2>1. PICK k \in As : \A j \in As : k <= j
    BY <1>1, Ends
  <2>2. less(k) = {}
    <3>1. \A j \in As : j \in Nat
      BY <1>1
    <3>2. \A j \in As : ~(j < k)
      BY <2>1, <3>1
    <3> QED
      BY <3>2
  <2>3. Cardinality(less(k)) = 0
    BY <2>2, FS_EmptySet
  <2> QED
    BY <1>3, <2>3, ListingAssumption
<1>7. NextCursor = IF Page = As THEN None ELSE Max(Page)
  BY DEF NextCursor, As
<1>8. Page \in SUBSET Skills /\ Page \subseteq As
  BY <1>1, <1>3
<1>9. Page # As => /\ Page # {} /\ NextCursor = Max(Page)
                   /\ Max(Page) \in Page /\ \A k \in Page : k <= Max(Page)
  BY <1>6, <1>7, <1>8, Ends
<1>10. Page = As => NextCursor = None
  BY <1>7
<1> HIDE DEF less
<1>11. ASSUME NEW k \in Skills, Listed(k) # {}, cursor < k, NextCursor # None => k <= NextCursor
       PROVE  k \in Page
  <2>1. k \in As
    BY <1>2, <1>11
  <2>2. CASE Page = As
    BY <2>1, <2>2
  <2>3. CASE Page # As
    <3>1. Max(Page) \in Skills /\ Max(Page) # None
      BY <1>1, <1>8, <1>9, <2>3
    <3>2. k <= Max(Page)
      BY <1>9, <1>11, <2>3, <3>1
    <3> QED
      BY <1>5, <1>9, <2>1, <2>3, <3>2
  <2> QED
    BY <2>2, <2>3
<1>12. \A k \in Page : Listed(k) # {} /\ cursor < k
  BY <1>1, <1>2, <1>8
<1> QED
  BY <1>1, <1>8, <1>9, <1>10, <1>11, <1>12

-----------------------------------------------------------------------------
(* The invariant.  What has been read is in order and ends at the cursor;  *)
(* every skill up to the cursor is read, or waits to be loaded, or was not *)
(* there for a moment; and what the gateway names as latest stays served.  *)

Partway == pc = "page" \/ (pc = "load" /\ cursor # None)

Stages ==
  /\ pc = "idle" => found = <<>> /\ todo = <<>> /\ cursor = None
  /\ pc = "page" /\ mode = "gateway" => found = <<>>
  /\ pc \in {"meta", "bundle", "failed"} => mode = "gateway"
  /\ pc = "load" => mode = "mcp"
  /\ (mode = "list" \/ pc = "done" \/ (pc = "page" /\ mode = "mcp")) => todo = <<>>
  /\ pc \in {"bundle", "failed"} => todo # <<>>

Ordered ==
  /\ Ascending(found, Before)
  /\ Ascending(todo, Less)
  /\ \A i \in DOMAIN found, j \in DOMAIN todo : found[i].skill < todo[j]
  /\ Partway => /\ \A i \in DOMAIN found : found[i].skill <= cursor
                /\ \A j \in DOMAIN todo : todo[j] <= cursor

Watched == pc # "idle" => \A k \in Skills : Latest(rows, k) \in seen[k]

Promised ==
  /\ pc = "bundle" =>
       /\ meta \in Versions /\ meta \in seen[Head(todo)]
       /\ <<Head(todo), meta>> \in May /\ rows[<<Head(todo), meta>>] # "none"
  /\ pc = "failed" => None \in seen[Head(todo)]

Inv == TypeOK /\ Stages /\ Ordered /\ Watched /\ Promised

LEMMA NothingAscends ==
  ASSUME NEW R PROVE Ascending(<<>>, R) /\ DOMAIN <<>> = {}
BY DEF Ascending

LEMMA InvInit == Init => Inv
<1> SUFFICES ASSUME Init PROVE Inv
  OBVIOUS
<1>1. todo \in Seq(Skills) /\ found \in Seq(Item)
  BY EmptySeq DEF Init
<1>2. TypeOK
  BY <1>1, ListingAssumption DEF Init, TypeOK
<1>3. Ordered
  BY NothingAscends DEF Init, Ordered, Partway
<1> QED
  BY <1>2, <1>3 DEF Init, Inv, Stages, Watched, Promised

\* The entries of a page.
LEMMA EntriesAre ==
  ASSUME NEW A \in SUBSET Skills, \A k \in A : Listed(k) # {}
  PROVE  LET es == Entries(InOrder(A))
         IN /\ es \in Seq(Item) /\ Ascending(es, Before)
            /\ \A i \in DOMAIN es : es[i].skill \in A /\ es[i].version = Best(Listed(es[i].skill))
            /\ \A k \in A : \E i \in DOMAIN es : es[i].skill = k
<1> DEFINE ks == InOrder(A)
           es == Entries(ks)
           n == Len(ks)
<1>1. /\ ks \in Seq(A) /\ Ascending(ks, Less)
      /\ \A k \in A : \E i \in DOMAIN ks : ks[i] = k
  BY InOrderAscends
<1>2. n \in Nat /\ ks \in [1..n -> A] /\ DOMAIN ks = 1..n
  BY <1>1, LenProperties
<1>3. \A k \in A : Best(Listed(k)) \in Versions
  <2>1. \A k \in A : Listed(k) \in SUBSET Versions
    BY DEF Listed, Fetchable
  <2> QED
    BY <2>1, BestIsOne
<1> HIDE DEF ks, n
<1>4. /\ DOMAIN es = 1..n
      /\ \A i \in 1..n : es[i] = [skill |-> ks[i], version |-> Best(Listed(ks[i]))]
  BY <1>2 DEF Entries
<1>5. es = [i \in 1..n |-> es[i]]
  BY <1>2 DEF Entries
<1>6. \A i \in 1..n : ks[i] \in A /\ ks[i] \in Skills
  BY <1>2
<1> HIDE DEF es
<1>7. \A i \in 1..n : /\ es[i] \in Item /\ es[i].skill = ks[i]
                      /\ es[i].version = Best(Listed(ks[i]))
  BY <1>3, <1>4, <1>6 DEF Item
<1>8. es \in Seq(Item)
  <2>1. es \in [1..n -> Item]
    BY <1>5, <1>7
  <2> QED
    BY <1>2, <2>1, SeqDef
<1>9. Ascending(es, Before)
  <2> SUFFICES ASSUME NEW i \in 1..n, NEW j \in 1..n, i < j PROVE <<es[i], es[j]>> \in Before
    BY <1>4 DEF Ascending
  <2>1. <<ks[i], ks[j]>> \in Less
    BY <1>1, <1>2 DEF Ascending
  <2>2. ks[i] < ks[j]
    BY <2>1 DEF Less
  <2> QED
    BY <1>7, <2>2 DEF Before
<1>10. \A i \in DOMAIN es : es[i].skill \in A /\ es[i].version = Best(Listed(es[i].skill))
  BY <1>4, <1>6, <1>7
<1>11. \A k \in A : \E i \in DOMAIN es : es[i].skill = k
  BY <1>1, <1>2, <1>4, <1>7
<1> QED
  BY <1>8, <1>9, <1>10, <1>11 DEF es, ks

\* Both ends of a list that is continued behind the cursor.
LEMMA Continues ==
  ASSUME TypeOK, Ordered, pc = "page"
  PROVE  /\ \A i \in DOMAIN found, k \in Page : found[i].skill < k
         /\ \A j \in DOMAIN todo, k \in Page : todo[j] < k
         /\ \A i \in DOMAIN found : found[i] \in Item
         /\ \A j \in DOMAIN todo : todo[j] \in Skills
         /\ NextCursor # None =>
              /\ \A i \in DOMAIN found : found[i].skill <= NextCursor
              /\ \A j \in DOMAIN todo : todo[j] <= NextCursor
<1>1. /\ Page \subseteq Skills /\ \A k \in Page : cursor < k
      /\ NextCursor \in Skills \cup {None}
      /\ NextCursor # None => cursor < NextCursor
  BY PageIs DEF TypeOK
<1>2. Skills \subseteq Nat /\ cursor \in Nat /\ NextCursor \in Nat
  BY <1>1, ListingAssumption DEF TypeOK, None
<1>3. \A i \in DOMAIN found : found[i] \in Item
  BY ElementOfSeq, LenProperties DEF TypeOK
<1>4. \A j \in DOMAIN todo : todo[j] \in Skills
  BY ElementOfSeq, LenProperties DEF TypeOK
<1>5. \A i \in DOMAIN found : found[i].skill \in Nat /\ found[i].skill <= cursor
  BY <1>2, <1>3 DEF Ordered, Partway, Item
<1>6. \A j \in DOMAIN todo : todo[j] \in Nat /\ todo[j] <= cursor
  BY <1>2, <1>4 DEF Ordered, Partway
<1>7. \A k \in Page : k \in Nat
  BY <1>1, <1>2
<1> QED
  BY <1>1, <1>2, <1>3, <1>4, <1>5, <1>6, <1>7

-----------------------------------------------------------------------------
(* What the steps do to the lists.                                         *)

\* What is on a page is added behind what was read before.
LEMMA PageRead ==
  ASSUME TypeOK, Stages, Ordered, ReadPage
  PROVE  /\ todo' \in Seq(Skills) /\ found' \in Seq(Item) /\ Ordered'
         /\ \A i \in DOMAIN found : i \in DOMAIN found' /\ found'[i] = found[i]
         /\ \A i \in DOMAIN found' :
              \/ \E j \in DOMAIN found : found'[i] = found[j]
              \/ LET k == found'[i].skill
                 IN k \in Page /\ found'[i].version = Best(Listed(k))
         /\ \A j \in DOMAIN todo : \E i \in DOMAIN todo' : todo'[i] = todo[j]
         /\ \A k \in Page : \/ \E i \in DOMAIN found' : found'[i].skill = k
                            \/ \E j \in DOMAIN todo' : todo'[j] = k
<1> DEFINE ks == InOrder(Page)
           es == Entries(ks)
<1>1. /\ Page \subseteq Skills
      /\ \A k \in Page : Listed(k) # {} /\ cursor < k
      /\ NextCursor # None => \A k \in Page : k <= NextCursor
  BY PageIs DEF TypeOK
<1>2. /\ ks \in Seq(Skills) /\ Ascending(ks, Less)
      /\ \A j \in DOMAIN ks : ks[j] \in Page
      /\ \A k \in Page : \E j \in DOMAIN ks : ks[j] = k
  BY <1>1, InOrderAscends
<1>3. /\ es \in Seq(Item) /\ Ascending(es, Before)
      /\ \A i \in DOMAIN es : es[i].skill \in Page /\ es[i].version = Best(Listed(es[i].skill))
      /\ \A k \in Page : \E i \in DOMAIN es : es[i].skill = k
  BY <1>1, EntriesAre
<1>4. /\ pc = "page" /\ cursor' = NextCursor
      /\ mode = "mcp" => todo' = ks /\ found' = found /\ pc' = "load"
      /\ mode = "gateway" => todo' = todo \o ks /\ found' = found /\ pc' = AfterPage
      /\ mode = "list" => todo' = todo /\ found' = found \o es /\ pc' = AfterPage
  BY DEF ReadPage
<1>5. found \in Seq(Item) /\ todo \in Seq(Skills) /\ mode \in {"list", "gateway", "mcp"}
  BY ListingAssumption DEF TypeOK
<1> HIDE DEF ks, es
<1>6. /\ \A i \in DOMAIN found, k \in Page : found[i].skill < k
      /\ \A j \in DOMAIN todo, k \in Page : todo[j] < k
      /\ \A i \in DOMAIN found : found[i] \in Item
      /\ \A j \in DOMAIN todo : todo[j] \in Skills
      /\ NextCursor # None => /\ \A i \in DOMAIN found : found[i].skill <= NextCursor
                              /\ \A j \in DOMAIN todo : todo[j] <= NextCursor
  BY <1>4, Continues
<1>7. Ascending(found, Before) /\ Ascending(todo, Less)
  BY DEF Ordered
<1>8. AfterPage = "page" => NextCursor # None
  BY DEF AfterPage
<1>9. Partway' => NextCursor # None
  <2>1. pc' = "load" \/ pc' = AfterPage
    BY <1>4, <1>5
  <2>2. AfterPage # "load"
    BY DEF AfterPage
  <2> QED
    BY <1>4, <1>8, <2>1, <2>2 DEF Partway
<1>10. CASE mode = "mcp"
  <2>1. todo = <<>> /\ DOMAIN todo = {}
    BY <1>4, <1>10, NothingAscends DEF Stages
  <2>2. todo' = ks /\ found' = found
    BY <1>4, <1>10
  <2>3. \A i \in DOMAIN found, j \in DOMAIN ks : found[i].skill < ks[j]
    BY <1>2, <1>6
  <2>4. Partway' => /\ \A i \in DOMAIN found : found[i].skill <= NextCursor
                    /\ \A j \in DOMAIN ks : ks[j] <= NextCursor
    BY <1>1, <1>2, <1>6, <1>9
  <2>5. Ordered'
    BY <1>2, <1>4, <1>7, <2>2, <2>3, <2>4 DEF Ordered, Ascending
  <2> QED
    BY <1>2, <1>5, <2>1, <2>2, <2>5
<1>11. CASE mode = "gateway"
  <2>1. found = <<>> /\ DOMAIN found = {}
    BY <1>4, <1>11, NothingAscends DEF Stages
  <2>2. todo' = todo \o ks /\ found' = found
    BY <1>4, <1>11
  <2>3. Seam(todo, ks, Less)
    <3> SUFFICES ASSUME NEW j \in DOMAIN todo, NEW i \in DOMAIN ks
                 PROVE  <<todo[j], ks[i]>> \in Less
      BY DEF Seam
    <3>1. todo[j] \in Skills /\ ks[i] \in Skills /\ todo[j] < ks[i]
      BY <1>1, <1>2, <1>6
    <3> QED
      BY <3>1 DEF Less
  <2> DEFINE ts == todo \o ks
  <2>4. ts \in Seq(Skills) /\ Ascending(ts, Less) /\ Joined(todo, ks, ts)
    BY <1>2, <1>5, <1>7, <2>3, JoinAscends
  <2> HIDE DEF ts
  <2>5. /\ \A j \in DOMAIN todo : \E i \in DOMAIN ts : ts[i] = todo[j]
        /\ \A j \in DOMAIN ks : \E i \in DOMAIN ts : ts[i] = ks[j]
        /\ \A i \in DOMAIN ts : (\E j \in DOMAIN todo : ts[i] = todo[j])
                                \/ \E j \in DOMAIN ks : ts[i] = ks[j]
    BY <2>4 DEF Joined
  <2>6. todo' = ts
    BY <2>2 DEF ts
  <2>7. Partway' => \A j \in DOMAIN ts : ts[j] <= NextCursor
    BY <1>1, <1>2, <1>6, <1>9, <2>5
  <2>8. Ordered'
    BY <1>4, <1>7, <2>1, <2>2, <2>4, <2>6, <2>7 DEF Ordered, Ascending
  <2>9. \A k \in Page : \E i \in DOMAIN ts : ts[i] = k
    BY <1>2, <2>5
  <2> QED
    BY <1>5, <2>1, <2>2, <2>4, <2>5, <2>6, <2>8, <2>9
<1>12. CASE mode = "list"
  <2>1. todo = <<>> /\ DOMAIN todo = {}
    BY <1>12, NothingAscends DEF Stages
  <2>2. todo' = todo /\ found' = found \o es
    BY <1>4, <1>12
  <2>3. Seam(found, es, Before)
    <3> SUFFICES ASSUME NEW i \in DOMAIN found, NEW j \in DOMAIN es
                 PROVE  <<found[i], es[j]>> \in Before
      BY DEF Seam
    <3>1. found[i].skill < es[j].skill /\ found[i] \in Item
      BY <1>3, <1>6
    <3>2. es[j] \in Item
      BY <1>3, ElementOfSeq, LenProperties
    <3> QED
      BY <3>1, <3>2 DEF Before
  <2> DEFINE fs == found \o es
  <2>4. fs \in Seq(Item) /\ Ascending(fs, Before) /\ Joined(found, es, fs)
    BY <1>3, <1>5, <1>7, <2>3, JoinAscends
  <2> HIDE DEF fs
  <2>5. found' = fs
    BY <2>2 DEF fs
  <2>6. /\ \A i \in DOMAIN found : i \in DOMAIN fs /\ fs[i] = found[i]
        /\ \A j \in DOMAIN es : \E i \in DOMAIN fs : fs[i] = es[j]
        /\ \A i \in DOMAIN fs : (\E j \in DOMAIN found : fs[i] = found[j])
                                \/ \E j \in DOMAIN es : fs[i] = es[j]
    BY <2>4 DEF Joined
  <2>7. Partway' => \A i \in DOMAIN fs : fs[i].skill <= NextCursor
    BY <1>1, <1>3, <1>6, <1>9, <2>6
  <2>8. Ordered'
    BY <1>4, <1>7, <2>1, <2>2, <2>4, <2>5, <2>7 DEF Ordered, Ascending
  <2>9. \A k \in Page : \E i \in DOMAIN fs : fs[i].skill = k
    BY <1>3, <2>6
  <2>10. \A i \in DOMAIN fs :
          \/ \E j \in DOMAIN found : fs[i] = found[j]
          \/ fs[i].skill \in Page /\ fs[i].version = Best(Listed(fs[i].skill))
    BY <1>3, <2>6
  <2> QED
    BY <1>5, <2>1, <2>2, <2>4, <2>5, <2>6, <2>8, <2>9, <2>10
<1> QED
  BY <1>5, <1>10, <1>11, <1>12

\* The first skill of those that wait leaves the list.
LEMMA HeadLeaves ==
  ASSUME TypeOK, Ordered, todo # <<>>
  PROVE  /\ Head(todo) \in Skills /\ 1 \in DOMAIN todo /\ todo[1] = Head(todo)
         /\ Tail(todo) \in Seq(Skills) /\ Ascending(Tail(todo), Less)
         /\ \A i \in DOMAIN found : found[i].skill < Head(todo)
         /\ \A j \in DOMAIN Tail(todo) : /\ Head(todo) < Tail(todo)[j]
                                         /\ \E i \in DOMAIN todo : Tail(todo)[j] = todo[i]
         /\ \A j \in DOMAIN todo :
              todo[j] = Head(todo) \/ \E i \in DOMAIN Tail(todo) : Tail(todo)[i] = todo[j]
<1>1. todo \in Seq(Skills) /\ Ascending(todo, Less)
  BY DEF TypeOK, Ordered
<1> DEFINE h == Head(todo)
           t == Tail(todo)
<1>2. /\ h \in Skills /\ t \in Seq(Skills) /\ Ascending(t, Less)
      /\ 1 \in DOMAIN todo /\ todo[1] = h
      /\ \A i \in DOMAIN t : i + 1 \in DOMAIN todo /\ t[i] = todo[i + 1] /\ <<h, t[i]>> \in Less
      /\ \A j \in DOMAIN todo : todo[j] = h \/ \E i \in DOMAIN t : t[i] = todo[j]
  BY <1>1, TailAscends
<1> HIDE DEF h, t
<1>3. \A i \in DOMAIN t : h < t[i] /\ \E j \in DOMAIN todo : t[i] = todo[j]
  BY <1>2 DEF Less
<1>4. \A i \in DOMAIN found : found[i].skill < h
  BY <1>2 DEF Ordered
<1> QED
  BY <1>2, <1>3, <1>4 DEF h, t

\* It joins what was found.
LEMMA HeadJoins ==
  ASSUME TypeOK, Ordered, todo # <<>>, NEW v \in Versions
  PROVE  LET e  == [skill |-> Head(todo), version |-> v]
             fs == Append(found, e)
         IN /\ fs \in Seq(Item) /\ Ascending(fs, Before)
            /\ \A i \in DOMAIN found : i \in DOMAIN fs /\ fs[i] = found[i]
            /\ \E i \in DOMAIN fs : fs[i] = e
            /\ \A i \in DOMAIN fs : fs[i] = e \/ \E j \in DOMAIN found : fs[i] = found[j]
            /\ e \in Item /\ e.skill = Head(todo) /\ e.version = v
<1> DEFINE h  == Head(todo)
           e  == [skill |-> h, version |-> v]
           es == <<e>>
           fs == found \o es
<1>1. h \in Skills /\ \A i \in DOMAIN found : found[i].skill < h
  BY HeadLeaves
<1>2. e \in Item /\ e.skill = h /\ e.version = v
  BY <1>1 DEF Item
<1>3. found \in Seq(Item) /\ Ascending(found, Before)
  BY DEF TypeOK, Ordered
<1> HIDE DEF h, e
<1>4. es \in Seq(Item) /\ DOMAIN es = {1} /\ es[1] = e
  BY <1>2
<1>5. Append(found, e) = fs
  BY <1>2, <1>3, AppendIsConcat
<1> HIDE DEF es
<1>6. Ascending(es, Before)
  BY <1>4 DEF Ascending
<1>7. Seam(found, es, Before)
  <2> SUFFICES ASSUME NEW i \in DOMAIN found PROVE <<found[i], e>> \in Before
    BY <1>4 DEF Seam
  <2>1. found[i] \in Item
    BY <1>3, ElementOfSeq, LenProperties
  <2> QED
    BY <1>1, <1>2, <2>1 DEF Before
<1>8. fs \in Seq(Item) /\ Ascending(fs, Before) /\ Joined(found, es, fs)
  BY <1>3, <1>4, <1>6, <1>7, JoinAscends
<1> HIDE DEF fs
<1>9. (\E i \in DOMAIN fs : fs[i] = e)
      /\ \A i \in DOMAIN fs : fs[i] = e \/ \E j \in DOMAIN found : fs[i] = found[j]
  BY <1>4, <1>8 DEF Joined
<1>10. /\ Append(found, e) \in Seq(Item) /\ Ascending(Append(found, e), Before)
       /\ \A i \in DOMAIN found : /\ i \in DOMAIN Append(found, e)
                                  /\ Append(found, e)[i] = found[i]
       /\ \E i \in DOMAIN Append(found, e) : Append(found, e)[i] = e
       /\ \A i \in DOMAIN Append(found, e) :
            Append(found, e)[i] = e \/ \E j \in DOMAIN found : Append(found, e)[i] = found[j]
  BY <1>5, <1>8, <1>9 DEF Joined
<1> QED
  BY <1>2, <1>10 DEF e, h

-----------------------------------------------------------------------------
(* Steps.  Every step of a reading either reads a page, or takes the first *)
(* of the skills that wait, or moves on; a step of another caller changes  *)
(* rows and remembers what `latest` has been.                              *)

\* What the reader does leaves the catalogue and its history alone.
Looks == UNCHANGED <<rows, mode, seen>>

LEMMA LookWatches ==
  ASSUME TypeOK, Watched, Looks, pc # "idle" PROVE Watched'
BY DEF Watched, Looks, Latest, Fetchable

LEMMA StartStep ==
  ASSUME Inv, Start PROVE Inv'
<1>1. TypeOK /\ found = <<>> /\ todo = <<>> /\ cursor = None
  BY DEF Inv, Stages, Start
<1>2. \A k \in Skills : Latest(rows, k) \in Versions \cup {None}
  BY LatestIs
<1>3. seen' = [k \in Skills |-> {Latest(rows, k)}] /\ rows' = rows /\ pc' = "page"
      /\ mode' \in Modes /\ UNCHANGED <<cursor, todo, meta, found, faults>>
  BY DEF Start
<1>4. seen' \in [Skills -> SUBSET (Versions \cup {None})]
  BY <1>2, <1>3
<1>5. TypeOK'
  BY <1>1, <1>3, <1>4 DEF TypeOK
<1>6. Ordered'
  BY <1>1, <1>3, NothingAscends DEF Ordered
<1>7. Watched'
  BY <1>3 DEF Watched, Latest, Fetchable
<1> QED
  BY <1>1, <1>3, <1>5, <1>6, <1>7 DEF Inv, Stages, Promised

LEMMA ReadPageStep ==
  ASSUME Inv, ReadPage PROVE Inv'
<1>1. TypeOK /\ Stages /\ Ordered /\ Watched /\ pc = "page"
  BY DEF Inv, ReadPage
<1>2. todo' \in Seq(Skills) /\ found' \in Seq(Item) /\ Ordered'
  BY <1>1, PageRead
<1>3. /\ Looks /\ UNCHANGED <<meta, faults>> /\ cursor' = NextCursor
      /\ mode = "mcp" => pc' = "load"
      /\ mode # "mcp" => pc' = AfterPage
      /\ mode = "list" => todo' = todo
      /\ mode = "gateway" => found' = found
  BY DEF ReadPage, Looks
<1>4. NextCursor \in Skills \cup {None}
  BY <1>1, PageIs DEF TypeOK
<1>5. AfterPage \in {"page", "meta", "done"}
      /\ (AfterPage = "meta" => mode = "gateway") /\ (AfterPage = "done" => mode # "gateway")
  BY DEF AfterPage
<1>6. mode \in {"list", "gateway", "mcp"}
  BY <1>1, ListingAssumption DEF TypeOK
<1>7. pc' \in {"load", "page", "meta", "done"}
  BY <1>3, <1>5
<1>8. TypeOK'
  BY <1>1, <1>2, <1>3, <1>4, <1>7 DEF TypeOK, Looks
<1>9. Watched'
  BY <1>1, <1>3, LookWatches
<1>10. Stages'
  <2>1. mode' = mode
    BY <1>3 DEF Looks
  <2>2. mode = "list" => todo' = <<>>
    BY <1>1, <1>3 DEF Stages
  <2>3. mode = "gateway" => found' = <<>>
    BY <1>1, <1>3 DEF Stages
  <2>4. pc' = "load" => mode = "mcp"
    BY <1>3, <1>5
  <2>5. pc' = "meta" => mode = "gateway"
    BY <1>3, <1>5
  <2>6. pc' = "done" => mode = "list"
    BY <1>3, <1>5, <1>6
  <2>7. pc' = "page" => mode # "mcp"
    BY <1>3
  <2> QED
    BY <1>7, <2>1, <2>2, <2>3, <2>4, <2>5, <2>6, <2>7 DEF Stages
<1> QED
  BY <1>2, <1>7, <1>8, <1>9, <1>10 DEF Inv, Promised

\* The first of the skills that wait is dropped.
LEMMA DropHead ==
  ASSUME TypeOK, Ordered, todo # <<>>, todo' = Tail(todo), found' = found, cursor' = cursor,
         Partway' => Partway
  PROVE  todo' \in Seq(Skills) /\ found' \in Seq(Item) /\ Ordered'
<1> DEFINE t == Tail(todo)
<1>1. /\ t \in Seq(Skills) /\ Ascending(t, Less)
      /\ \A j \in DOMAIN t : \E i \in DOMAIN todo : t[j] = todo[i]
  BY HeadLeaves
<1> HIDE DEF t
<1>2. todo' = t
  BY DEF t
<1>3. found \in Seq(Item) /\ Ascending(found, Before)
  BY DEF TypeOK, Ordered
<1>4. \A i \in DOMAIN found, j \in DOMAIN t : found[i].skill < t[j]
  BY <1>1 DEF Ordered
<1>5. Partway => /\ \A i \in DOMAIN found : found[i].skill <= cursor
                 /\ \A j \in DOMAIN t : t[j] <= cursor
  BY <1>1 DEF Ordered
<1> QED
  BY <1>1, <1>2, <1>3, <1>4, <1>5 DEF Ordered, Ascending

\* It is added to what was found.
LEMMA AddHead ==
  ASSUME TypeOK, Ordered, todo # <<>>, NEW v \in Versions, Add(v), todo' = Tail(todo),
         cursor' = cursor, Partway' => Partway
  PROVE  todo' \in Seq(Skills) /\ found' \in Seq(Item) /\ Ordered'
<1> DEFINE t  == Tail(todo)
           h  == Head(todo)
           e  == [skill |-> h, version |-> v]
           fs == Append(found, e)
<1>1. /\ t \in Seq(Skills) /\ Ascending(t, Less)
      /\ \A j \in DOMAIN t : h < t[j] /\ \E i \in DOMAIN todo : t[j] = todo[i]
      /\ 1 \in DOMAIN todo /\ todo[1] = h
  BY HeadLeaves
<1>2. /\ fs \in Seq(Item) /\ Ascending(fs, Before) /\ e.skill = h
      /\ \A i \in DOMAIN fs : fs[i] = e \/ \E j \in DOMAIN found : fs[i] = found[j]
  BY HeadJoins
<1>3. todo' = t /\ found' = fs
  BY DEF Add
<1> HIDE DEF t, h, e, fs
<1>4. \A i \in DOMAIN fs, j \in DOMAIN t : fs[i].skill < t[j]
  BY <1>1, <1>2 DEF Ordered
<1>5. Partway => /\ \A i \in DOMAIN fs : fs[i].skill <= cursor
                 /\ \A j \in DOMAIN t : t[j] <= cursor
  BY <1>1, <1>2 DEF Ordered
<1> QED
  BY <1>1, <1>2, <1>3, <1>4, <1>5 DEF Ordered, Ascending

LEMMA LoadStep ==
  ASSUME Inv, Load \/ LoadFails \/ AnswerPage PROVE Inv'
<1>1. TypeOK /\ Stages /\ Ordered /\ Watched /\ pc = "load" /\ mode = "mcp"
  BY DEF Inv, Load, LoadFails, AnswerPage, Stages
<1>2. Looks /\ UNCHANGED <<cursor, meta>> /\ faults' \in 0..MaxFaults
  BY <1>1, ListingAssumption DEF TypeOK, Load, LoadFails, AnswerPage, Looks
<1>3. Watched'
  BY <1>1, <1>2, LookWatches
<1>4. CASE AnswerPage
  <2>1. UNCHANGED <<todo, found>> /\ todo = <<>>
        /\ pc' \in {"page", "done"} /\ (pc' = "page" => cursor # None)
    BY <1>4 DEF AnswerPage
  <2>2. TypeOK'
    BY <1>1, <1>2, <2>1 DEF TypeOK, Looks
  <2>3. Ordered'
    BY <1>1, <1>2, <2>1 DEF Ordered, Partway, Ascending
  <2> QED
    BY <1>1, <1>2, <1>3, <2>1, <2>2, <2>3 DEF Inv, Stages, Promised, Looks
<1>5. CASE Load \/ LoadFails
  <2>1. todo # <<>> /\ todo' = Tail(todo) /\ pc' = "load"
    BY <1>1, <1>5 DEF Load, LoadFails
  <2>2. Partway' => Partway
    BY <1>1, <1>2, <2>1 DEF Partway
  <2>3. found' = found \/ \E v \in Versions : Add(v)
    <3>1. Latest(rows, Head(todo)) \in Versions \cup {None}
      BY LatestIs
    <3> QED
      BY <1>5, <3>1 DEF Load, LoadFails
  <2>4. todo' \in Seq(Skills) /\ found' \in Seq(Item) /\ Ordered'
    BY <1>1, <1>2, <2>1, <2>2, <2>3, DropHead, AddHead
  <2>5. TypeOK'
    BY <1>1, <1>2, <2>1, <2>4 DEF TypeOK, Looks
  <2> QED
    BY <1>1, <1>2, <1>3, <2>1, <2>4, <2>5 DEF Inv, Stages, Promised, Looks
<1> QED
  BY <1>4, <1>5

\* What the gateway has named as latest is served until it is fetched, also
\* when it has been deprecated meanwhile.
LEMMA NamedIsServed ==
  ASSUME Inv, pc = "bundle" PROVE Served(Head(todo)) = meta /\ meta \in Versions
BY DEF Inv, Promised, Served

LEMMA ResolveStep ==
  ASSUME Inv, GetMeta \/ GetBundle \/ ResolvedAll PROVE Inv'
<1>1. TypeOK /\ Stages /\ Ordered /\ Watched /\ pc \in {"meta", "bundle"} /\ mode = "gateway"
  BY DEF Inv, GetMeta, GetBundle, ResolvedAll, Stages
<1>2. Looks /\ UNCHANGED <<cursor, faults>>
  BY DEF GetMeta, GetBundle, ResolvedAll, Looks
<1>3. Watched'
  BY <1>1, <1>2, LookWatches
<1>4. pc' \in {"meta", "bundle", "failed", "done"}
  BY <1>1 DEF GetMeta, GetBundle, ResolvedAll
<1>5. ~Partway'
  BY <1>4 DEF Partway
<1>6. CASE GetMeta
  <2> DEFINE h == Head(todo)
             v == Latest(rows, h)
  <2>1. /\ todo # <<>> /\ UNCHANGED <<todo, found>> /\ meta' = v
        /\ pc' = IF v = None THEN "failed" ELSE "bundle"
    BY <1>6 DEF GetMeta
  <2>2. h \in Skills
    BY <1>1, <2>1, HeadLeaves
  <2> HIDE DEF h
  <2>3. v \in seen[h]
    BY <1>1, <2>2 DEF Watched
  <2>4. v \in Fetchable(rows, h) \cup {None} /\ Fetchable(rows, h) \subseteq Versions
    BY LatestIs
  <2> HIDE DEF v
  <2>5. TypeOK'
    BY <1>1, <1>2, <2>1, <2>4 DEF TypeOK, Looks
  <2>6. Ordered'
    BY <1>1, <1>5, <2>1 DEF Ordered, Ascending
  <2>7. h = Head(todo') /\ rows' = rows /\ seen' = seen
    BY <1>2, <2>1 DEF h, Looks
  <2>8. pc' = "bundle" => /\ v \in Versions /\ <<h, v>> \in May
                          /\ rows[<<h, v>>] = "published"
    BY <2>1, <2>4 DEF Fetchable
  <2>9. Promised'
    BY <2>1, <2>3, <2>7, <2>8 DEF Promised
  <2> QED
    BY <1>1, <1>2, <1>3, <1>4, <2>1, <2>5, <2>6, <2>9 DEF Inv, Stages, Looks
<1>7. CASE GetBundle
  <2>1. Served(Head(todo)) = meta /\ meta \in Versions /\ todo # <<>>
    BY <1>7, NamedIsServed DEF GetBundle, Inv, Stages
  <2>2. Add(meta) /\ todo' = Tail(todo) /\ pc' = "meta" /\ meta' = None
    BY <1>7, <2>1 DEF GetBundle
  <2>3. todo' \in Seq(Skills) /\ found' \in Seq(Item) /\ Ordered'
    BY <1>1, <1>2, <1>5, <2>1, <2>2, AddHead
  <2>4. TypeOK'
    BY <1>1, <1>2, <2>2, <2>3 DEF TypeOK, Looks
  <2> QED
    BY <1>1, <1>2, <1>3, <2>2, <2>3, <2>4 DEF Inv, Stages, Promised, Looks
<1>8. CASE ResolvedAll
  <2>1. todo = <<>> /\ UNCHANGED <<todo, found, meta>> /\ pc' = "done"
    BY <1>8 DEF ResolvedAll
  <2>2. TypeOK'
    BY <1>1, <1>2, <2>1 DEF TypeOK, Looks
  <2>3. Ordered'
    BY <1>1, <1>5, <2>1 DEF Ordered, Ascending
  <2> QED
    BY <1>1, <1>2, <1>3, <2>1, <2>2, <2>3 DEF Inv, Stages, Promised, Looks
<1> QED
  BY <1>6, <1>7, <1>8

LEMMA LeaveStep ==
  ASSUME Inv, Leave, faults' \in 0..MaxFaults PROVE Inv'
<1>1. TypeOK /\ pc' = "idle" /\ cursor' = None /\ todo' = <<>> /\ meta' = None /\ found' = <<>>
      /\ seen' = [k \in Skills |-> {}] /\ UNCHANGED <<rows, mode>>
  BY DEF Inv, Leave
<1>2. todo' \in Seq(Skills) /\ found' \in Seq(Item)
  BY <1>1, EmptySeq
<1>3. TypeOK'
  BY <1>1, <1>2 DEF TypeOK
<1>4. Ordered'
  BY <1>1, NothingAscends DEF Ordered, Partway
<1> QED
  BY <1>1, <1>3, <1>4 DEF Inv, Stages, Watched, Promised

\* Others publish and deprecate: what was seen stays seen, and a version that
\* has been published never goes away.
LEMMA ChangeIs ==
  ASSUME TypeOK, NEW k \in Keys, Publish(k) \/ Deprecate(k)
  PROVE  /\ rows' \in [Keys -> {"none", "published", "deprecated"}]
         /\ \A i \in Keys : rows[i] # "none" => rows'[i] # "none"
         /\ seen' \in [Skills -> SUBSET (Versions \cup {None})]
         /\ pc # "idle" => \A s \in Skills : /\ seen[s] \subseteq seen'[s]
                                             /\ Latest(rows', s) \in seen'[s]
         /\ UNCHANGED <<pc, mode, cursor, todo, meta, found, faults>>
<1>1. PICK from \in {"none", "published"}, to \in {"published", "deprecated"} : Change(k, from, to)
  BY DEF Publish, Deprecate
<1>2. /\ rows' = [rows EXCEPT ![k] = to]
      /\ seen' = [s \in Skills |-> IF pc = "idle" THEN {} ELSE seen[s] \cup {Latest(rows', s)}]
      /\ UNCHANGED <<pc, mode, cursor, todo, meta, found, faults>>
  BY <1>1 DEF Change, readVars
<1>3. rows \in [Keys -> {"none", "published", "deprecated"}]
  BY DEF TypeOK
<1>4. /\ rows' \in [Keys -> {"none", "published", "deprecated"}]
      /\ \A i \in Keys : rows[i] # "none" => rows'[i] # "none"
  BY <1>2, <1>3
<1>5. \A db, s : Latest(db, s) \in Versions \cup {None}
  BY LatestIs
<1>6. \A s \in Skills : Latest(rows', s) \in Versions \cup {None}
  BY <1>5
<1>7. seen' \in [Skills -> SUBSET (Versions \cup {None})]
  BY <1>2, <1>6 DEF TypeOK
<1>8. pc # "idle" => \A s \in Skills : seen[s] \subseteq seen'[s] /\ Latest(rows', s) \in seen'[s]
  BY <1>2
<1> QED
  BY <1>2, <1>4, <1>7, <1>8

LEMMA ChangeStep ==
  ASSUME Inv, NEW k \in Keys, Publish(k) \/ Deprecate(k) PROVE Inv'
<1>1. /\ rows' \in [Keys -> {"none", "published", "deprecated"}]
      /\ \A i \in Keys : rows[i] # "none" => rows'[i] # "none"
      /\ seen' \in [Skills -> SUBSET (Versions \cup {None})]
      /\ pc # "idle" => \A s \in Skills : seen[s] \subseteq seen'[s]
      /\ pc # "idle" => \A s \in Skills : Latest(rows', s) \in seen'[s]
      /\ UNCHANGED <<pc, mode, cursor, todo, meta, found, faults>>
  BY ChangeIs DEF Inv
<1>2. TypeOK'
  BY <1>1 DEF Inv, TypeOK
<1>3. Stages' /\ Ordered'
  BY <1>1 DEF Inv, Stages, Ordered, Partway, Ascending
<1>4. Watched'
  BY <1>1 DEF Watched
<1>5. pc \in {"bundle", "failed"} => Head(todo) \in Skills
  BY HeadLeaves DEF Inv, Stages
<1>6. May \subseteq Keys
  BY ListingAssumption
<1>7. Promised'
  <2> DEFINE h == Head(todo)
  <2>1. h = Head(todo')
    BY <1>1
  <2> HIDE DEF h
  <2>2. pc \in {"bundle", "failed"} => seen[h] \subseteq seen'[h]
    BY <1>1, <1>5 DEF h
  <2>3. /\ pc = "bundle" => /\ meta \in Versions /\ meta \in seen[h]
                            /\ <<h, meta>> \in May /\ rows[<<h, meta>>] # "none"
        /\ pc = "failed" => None \in seen[h]
    BY DEF Inv, Promised, h
  <2>4. pc = "bundle" => rows'[<<h, meta>>] # "none"
    BY <1>1, <1>6, <2>3
  <2> QED
    BY <1>1, <2>1, <2>2, <2>3, <2>4 DEF Promised
<1> QED
  BY <1>2, <1>3, <1>4, <1>7 DEF Inv

LEMMA InvStep == Inv /\ [Next]_vars => Inv'
<1> SUFFICES ASSUME Inv, [Next]_vars PROVE Inv'
  OBVIOUS
<1>1. CASE Finish \/ Fail
  <2>1. faults' \in 0..MaxFaults
    BY <1>1, ListingAssumption DEF Finish, Fail, Inv, TypeOK
  <2> QED
    BY <1>1, <2>1, LeaveStep DEF Finish, Fail
<1>2. CASE UNCHANGED vars
  BY <1>2 DEF vars, readVars, Inv, TypeOK, Stages, Ordered, Partway, Ascending, Watched, Promised,
     Latest, Fetchable
<1> QED
  BY <1>1, <1>2, StartStep, ReadPageStep, LoadStep, ResolveStep, ChangeStep DEF Next, Read

\* Every reachable state of a reading is well typed, whatever others publish
\* and deprecate meanwhile (registry.go:270-308, gateway.go:30-60).
THEOREM TypeCorrect == Spec => []TypeOK
<1>1. Inv => TypeOK
  BY DEF Inv
<1> QED
  BY InvInit, InvStep, <1>1, PTL DEF Spec

\* Fetching what was listed fails only over a skill that the caller lost in the
\* meantime: a version that was named as latest is still served when it is
\* fetched, for any number of skills, versions and pages (gateway.go:45-47).
THEOREM OnlyLostSkillsFail == Spec => []OnlyVanishedSkillsFail
<1>1. Inv => OnlyVanishedSkillsFail
  BY DEF Inv, Promised, OnlyVanishedSkillsFail
<1> QED
  BY InvInit, InvStep, <1>1, PTL DEF Spec

-----------------------------------------------------------------------------
(* Entries are of versions that have been latest.                          *)

LEMMA LatestInit == Init => ListsTheLatest
BY NothingAscends DEF Init, ListsTheLatest

LEMMA LatestStep ==
  WholeSkillsMatch /\ Inv /\ ListsTheLatest /\ [Next]_vars => ListsTheLatest'
<1> SUFFICES ASSUME WholeSkillsMatch, Inv, ListsTheLatest, [Next]_vars PROVE ListsTheLatest'
  OBVIOUS
<1>1. TypeOK /\ Stages /\ Ordered /\ Watched
  BY DEF Inv
<1>2. \A i \in DOMAIN found : found[i] \in Item /\ found[i].skill \in Skills
  <2>1. \A i \in DOMAIN found : found[i] \in Item
    BY <1>1, ElementOfSeq, LenProperties DEF TypeOK
  <2> QED
    BY <2>1 DEF Item
<1>3. CASE found' = <<>>
  BY <1>3, NothingAscends DEF ListsTheLatest
<1>4. CASE UNCHANGED <<found, seen>>
  BY <1>4 DEF ListsTheLatest
<1>5. CASE ReadPage
  <2>1. pc # "idle" /\ seen' = seen
    BY <1>5 DEF ReadPage
  <2>2. \A i \in DOMAIN found' :
          \/ \E j \in DOMAIN found : found'[i] = found[j]
          \/ found'[i].skill \in Page /\ found'[i].version = Best(Listed(found'[i].skill))
    BY <1>1, <1>5, PageRead
  <2>3. \A k \in Page : k \in Skills /\ Listed(k) # {}
    BY <1>1, PageIs DEF TypeOK
  <2>4. \A k \in Page : Best(Listed(k)) = Latest(rows, k)
    BY <2>3, ListedIs
  <2>5. \A k \in Page : Best(Listed(k)) \in seen[k]
    BY <1>1, <2>1, <2>3, <2>4 DEF Watched
  <2> QED
    BY <2>1, <2>2, <2>5 DEF ListsTheLatest
<1>6. ASSUME NEW v \in Versions, Add(v), todo # <<>>, v \in seen[Head(todo)], seen' = seen
      PROVE  ListsTheLatest'
  <2> DEFINE e  == [skill |-> Head(todo), version |-> v]
             fs == Append(found, e)
  <2>1. /\ \A i \in DOMAIN fs : fs[i] = e \/ \E j \in DOMAIN found : fs[i] = found[j]
        /\ e.skill = Head(todo) /\ e.version = v
    BY <1>1, <1>6, HeadJoins
  <2>2. found' = fs
    BY <1>6 DEF Add
  <2> HIDE DEF e, fs
  <2>3. \A i \in DOMAIN fs : fs[i].version \in seen[fs[i].skill]
    BY <1>6, <2>1 DEF ListsTheLatest
  <2> QED
    BY <1>6, <2>2, <2>3 DEF ListsTheLatest
<1>7. CASE Load /\ found' # found
  <2> DEFINE v == Latest(rows, Head(todo))
  <2>1. pc # "idle" /\ todo # <<>> /\ v # None /\ Add(v) /\ seen' = seen
    BY <1>7 DEF Load
  <2>2. Head(todo) \in Skills
    BY <1>1, <2>1, HeadLeaves
  <2>3. v \in seen[Head(todo)]
    BY <1>1, <2>1, <2>2 DEF Watched
  <2>4. v \in Versions
    BY <2>1, LatestIs
  <2> HIDE DEF v
  <2> QED
    BY <1>6, <2>1, <2>3, <2>4
<1>8. CASE GetBundle
  <2>1. Served(Head(todo)) = meta /\ meta \in Versions /\ todo # <<>> /\ meta \in seen[Head(todo)]
    BY <1>8, NamedIsServed DEF GetBundle, Inv, Stages, Promised
  <2>2. Add(meta) /\ seen' = seen
    BY <1>8, <2>1 DEF GetBundle
  <2> QED
    BY <1>6, <2>1, <2>2
<1>9. ASSUME NEW k \in Keys, Publish(k) \/ Deprecate(k) PROVE ListsTheLatest'
  <2>1. /\ pc # "idle" => \A s \in Skills : seen[s] \subseteq seen'[s]
        /\ found' = found
    BY <1>1, <1>9, ChangeIs
  <2>2. pc = "idle" => DOMAIN found = {}
    BY <1>1, NothingAscends DEF Stages
  <2>3. \A i \in DOMAIN found : found[i].version \in seen'[found[i].skill]
    BY <1>2, <2>1, <2>2 DEF ListsTheLatest
  <2> QED
    BY <2>1, <2>3 DEF ListsTheLatest
<1>10. Start => found' = <<>>
  BY <1>1 DEF Start, Stages
<1>11. Finish \/ Fail => found' = <<>>
  BY DEF Finish, Fail, Leave
<1>12. LoadFails \/ AnswerPage \/ GetMeta \/ ResolvedAll \/ UNCHANGED vars
         \/ (Load /\ found' = found) => UNCHANGED <<found, seen>>
  BY DEF LoadFails, AnswerPage, GetMeta, ResolvedAll, vars, readVars, Load
<1> QED
  BY <1>3, <1>4, <1>5, <1>7, <1>8, <1>9, <1>10, <1>11, <1>12 DEF Next, Read

\* If a search is about skills, every version listed was the caller's latest
\* while the listing was read: List and Resolve agree (registry.go:142-144,
\* 270-271), for any number of skills, versions and pages.
THEOREM ListedWasLatest == ASSUME WholeSkillsMatch PROVE Spec => []ListsTheLatest
<1>1. ListsTheLatest /\ Inv /\ [Next]_vars => ListsTheLatest'
  BY LatestStep
<1> QED
  BY InvInit, InvStep, LatestInit, <1>1, PTL DEF Spec

-----------------------------------------------------------------------------
(* No skill is passed over.                                                *)

Has(k) ==
  \/ \E i \in DOMAIN found : found[i].skill = k
  \/ \E j \in DOMAIN todo : todo[j] = k
  \/ None \in seen[k]
  \/ mode = "mcp" /\ faults > 0

Covered ==
  pc \in {"page", "load", "meta", "bundle", "done"} =>
    \A k \in Skills : (\E v \in Versions : Sought(k, v)) /\ (Partway => k <= cursor) => Has(k)

LEMMA CoveredInit == Init => Covered
BY DEF Init, Covered

\* A skill stays covered when what is known of it only grows.
LEMMA StaysCovered ==
  ASSUME Covered, pc' # "idle" => pc \in {"page", "load", "meta", "bundle", "done"},
         mode' = mode, Partway => Partway' /\ cursor' = cursor,
         \A k \in Skills : Has(k) => Has(k)'
  PROVE  Covered'
<1>1. \A k \in Skills, v \in Versions : Sought(k, v)' <=> Sought(k, v)
  BY DEF Sought
<1> QED
  BY <1>1 DEF Covered

LEMMA PageCovers ==
  ASSUME WholeSkillsMatch, Inv, Covered, ReadPage PROVE Covered'
<1>1. /\ TypeOK /\ Stages /\ Ordered /\ Watched /\ pc = "page" /\ Partway
      /\ UNCHANGED <<rows, mode, seen, faults>> /\ cursor' = NextCursor
  BY DEF Inv, ReadPage, Partway
<1>2. /\ \A i \in DOMAIN found : i \in DOMAIN found' /\ found'[i] = found[i]
      /\ \A j \in DOMAIN todo : \E i \in DOMAIN todo' : todo'[i] = todo[j]
      /\ \A k \in Page : \/ \E i \in DOMAIN found' : found'[i].skill = k
                         \/ \E j \in DOMAIN todo' : todo'[j] = k
  BY <1>1, PageRead
<1>3. \A k \in Skills : Has(k) => Has(k)'
  BY <1>1, <1>2 DEF Has
<1>4. \A k \in Skills, v \in Versions : Sought(k, v)' <=> Sought(k, v)
  BY <1>1 DEF Sought
<1>5. NextCursor # None => Partway' \/ pc' \in {"meta", "bundle", "done"}
  BY <1>1 DEF ReadPage, AfterPage, Partway
<1>6. pc' \in {"meta", "bundle", "done"} => NextCursor = None
  BY DEF ReadPage, AfterPage
<1>7. Skills \subseteq Nat /\ cursor \in Nat
  BY <1>1, ListingAssumption DEF TypeOK, None
<1>8. ASSUME NEW k \in Skills, NEW v \in Versions, Sought(k, v), Partway' => k <= cursor'
      PROVE  Has(k)'
  <2>1. CASE k <= cursor
    BY <1>1, <1>3, <1>8, <2>1 DEF Covered
  <2>2. CASE Listed(k) = {}
    <3>1. Latest(rows, k) = None
      BY <1>8, <2>2, ListedIs
    <3>2. None \in seen[k]
      BY <1>1, <3>1 DEF Watched
    <3> QED
      BY <1>3, <3>2 DEF Has
  <2>3. CASE ~(k <= cursor) /\ Listed(k) # {}
    <3>1. cursor < k
      BY <1>7, <2>3
    <3>2. NextCursor # None => k <= NextCursor
      BY <1>1, <1>5, <1>6, <1>8
    <3>3. k \in Page
      BY <1>1, <2>3, <3>1, <3>2, PageIs DEF TypeOK
    <3> QED
      BY <1>2, <3>3 DEF Has
  <2> QED
    BY <2>1, <2>2, <2>3
<1> QED
  BY <1>4, <1>8 DEF Covered

\* Taking the first of the skills that wait loses none but one that has
\* vanished, or that skills/list could not load.
LEMMA TakingCovers ==
  ASSUME Inv, Covered, Load \/ LoadFails \/ GetBundle PROVE Covered'
<1>1. TypeOK /\ Stages /\ Ordered /\ Watched /\ todo # <<>> /\ pc \in {"load", "bundle"}
  BY DEF Inv, Load, LoadFails, GetBundle, Stages
<1>2. /\ UNCHANGED <<rows, mode, cursor, seen>> /\ todo' = Tail(todo)
      /\ pc = "load" => pc' = "load"
      /\ pc = "bundle" => pc' = "meta"
  BY <1>1, NamedIsServed DEF Load, LoadFails, GetBundle
<1>3. /\ Head(todo) \in Skills
      /\ \A j \in DOMAIN todo :
           todo[j] = Head(todo) \/ \E i \in DOMAIN Tail(todo) : Tail(todo)[i] = todo[j]
  BY <1>1, HeadLeaves
<1>4. \A j \in DOMAIN todo : todo[j] = Head(todo) \/ \E i \in DOMAIN todo' : todo'[i] = todo[j]
  BY <1>2, <1>3
<1>5. faults > 0 => faults' > 0
  BY <1>1, ListingAssumption DEF TypeOK, Load, LoadFails, GetBundle
<1>6. ASSUME NEW v \in Versions, Add(v)
      PROVE  /\ \A i \in DOMAIN found : i \in DOMAIN found' /\ found'[i] = found[i]
             /\ \E i \in DOMAIN found' : found'[i].skill = Head(todo)
  <2> DEFINE e  == [skill |-> Head(todo), version |-> v]
             fs == Append(found, e)
  <2>1. /\ \A i \in DOMAIN found : i \in DOMAIN fs /\ fs[i] = found[i]
        /\ \E i \in DOMAIN fs : fs[i] = e
        /\ e.skill = Head(todo)
    BY <1>1, HeadJoins
  <2>2. found' = fs
    BY <1>6 DEF Add
  <2> HIDE DEF e, fs
  <2> QED
    BY <2>1, <2>2
<1>7. \/ \E v \in Versions : Add(v)
      \/ found' = found /\ (None \in seen[Head(todo)] \/ (mode = "mcp" /\ faults' > 0))
  <2>1. CASE Load
    <3>1. Latest(rows, Head(todo)) \in Versions \cup {None}
      BY LatestIs
    <3>2. Latest(rows, Head(todo)) \in seen[Head(todo)]
      BY <1>1, <1>3 DEF Watched
    <3> QED
      BY <2>1, <3>1, <3>2 DEF Load
  <2>2. CASE LoadFails
    <3>1. found' = found /\ faults' = faults + 1 /\ mode = "mcp" /\ faults \in Nat
      BY <1>1, <2>2, ListingAssumption DEF LoadFails, Stages, TypeOK
    <3> QED
      BY <3>1
  <2>3. CASE GetBundle
    BY <2>3, NamedIsServed DEF GetBundle
  <2> QED
    BY <2>1, <2>2, <2>3
<1>8. /\ \A i \in DOMAIN found : i \in DOMAIN found' /\ found'[i] = found[i]
      /\ \A k \in Skills : k = Head(todo) => Has(k)'
  <2>1. CASE \E v \in Versions : Add(v)
    BY <1>6, <2>1 DEF Has
  <2>2. CASE found' = found /\ (None \in seen[Head(todo)] \/ (mode = "mcp" /\ faults' > 0))
    BY <1>2, <2>2 DEF Has
  <2> QED
    BY <1>7, <2>1, <2>2
<1>9. ASSUME NEW k \in Skills, Has(k) PROVE Has(k)'
  <2>1. CASE \E i \in DOMAIN found : found[i].skill = k
    BY <1>8, <2>1 DEF Has
  <2>2. CASE \E j \in DOMAIN todo : todo[j] = k
    BY <1>4, <1>8, <2>2 DEF Has
  <2>3. CASE None \in seen[k] \/ (mode = "mcp" /\ faults > 0)
    BY <1>2, <1>5, <2>3 DEF Has
  <2> QED
    BY <1>9, <2>1, <2>2, <2>3 DEF Has
<1>10. Partway <=> Partway'
  BY <1>1, <1>2 DEF Partway
<1> QED
  BY <1>1, <1>2, <1>9, <1>10, StaysCovered

LEMMA CoveredStep == WholeSkillsMatch /\ Inv /\ Covered /\ [Next]_vars => Covered'
<1> SUFFICES ASSUME WholeSkillsMatch, Inv, Covered, [Next]_vars PROVE Covered'
  OBVIOUS
<1>1. CASE Start
  <2>1. pc' = "page" /\ cursor' = None
    BY <1>1 DEF Start, Inv, Stages
  <2>2. \A k \in Skills : ~(k <= None)
    BY ListingAssumption DEF None
  <2> QED
    BY <2>1, <2>2 DEF Covered, Partway
<1>2. CASE AnswerPage \/ GetMeta \/ ResolvedAll \/ UNCHANGED vars
  <2>1. /\ UNCHANGED <<mode, cursor, todo, found, seen, faults>>
        /\ Partway => Partway'
        /\ pc' \in {"page", "load", "meta", "bundle", "done"} => pc' = pc
             \/ pc \in {"page", "load", "meta", "bundle", "done"}
    BY <1>2 DEF AnswerPage, GetMeta, ResolvedAll, vars, readVars, Partway
  <2>2. \A k \in Skills : Has(k) <=> Has(k)'
    BY <2>1 DEF Has
  <2>3. \A k \in Skills, v \in Versions : Sought(k, v)' <=> Sought(k, v)
    BY <2>1 DEF Sought
  <2> QED
    BY <2>1, <2>2, <2>3 DEF Covered
<1>3. ASSUME NEW k \in Keys, Publish(k) \/ Deprecate(k) PROVE Covered'
  <2>1. /\ pc # "idle" => \A s \in Skills : seen[s] \subseteq seen'[s]
        /\ UNCHANGED <<pc, mode, cursor, todo, found, faults>>
    BY <1>3, ChangeIs DEF Inv
  <2>2. pc # "idle" => \A s \in Skills : Has(s) => Has(s)'
    BY <2>1 DEF Has
  <2>3. \A s \in Skills, v \in Versions : Sought(s, v)' <=> Sought(s, v)
    BY <2>1 DEF Sought
  <2> QED
    BY <2>1, <2>2, <2>3 DEF Covered, Partway
<1>4. CASE Finish \/ Fail
  BY <1>4 DEF Finish, Fail, Leave, Covered
<1> QED
  BY <1>1, <1>2, <1>3, <1>4, PageCovers, TakingCovers DEF Next, Read

LEMMA CoveredIsFaithful == Inv /\ Covered => ListingIsFaithful
<1> SUFFICES ASSUME Inv, Covered, pc = "done"
             PROVE  /\ \A i, j \in DOMAIN found : i < j => found[i].skill < found[j].skill
                    /\ (mode = "mcp" => faults = 0) => Missing \subseteq Vanished
  BY DEF ListingIsFaithful
<1>1. \A i, j \in DOMAIN found : i < j => found[i].skill < found[j].skill
  BY DEF Inv, Ordered, Ascending, Before
<1>2. DOMAIN todo = {} /\ ~Partway /\ faults \in Nat
  BY NothingAscends, ListingAssumption DEF Inv, TypeOK, Stages, Partway
<1>3. ASSUME mode = "mcp" => faults = 0, NEW k \in Missing PROVE k \in Vanished
  <2>1. /\ k \in Skills /\ (\E v \in Versions : Sought(k, v))
        /\ \A i \in DOMAIN found : found[i].skill # k
    BY DEF Missing
  <2>2. Has(k)
    BY <1>2, <2>1 DEF Covered
  <2>3. None \in seen[k]
    BY <1>2, <1>3, <2>1, <2>2 DEF Has
  <2> QED
    BY <2>1, <2>3 DEF Vanished
<1> QED
  BY <1>1, <1>3

\* A listing is true of the time it took, although its pages are of different
\* catalogues: in order, without doubles, and without a skill that was there
\* all the time (registry.go:270-308, mcp.go:414-424).
THEOREM ListingTellsTheTruth == ASSUME WholeSkillsMatch PROVE Spec => []ListingIsFaithful
<1>1. Covered /\ Inv /\ [Next]_vars => Covered'
  BY CoveredStep
<1> QED
  BY InvInit, InvStep, CoveredInit, <1>1, CoveredIsFaithful, PTL DEF Spec
=============================================================================
