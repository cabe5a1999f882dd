---------------------------- MODULE AnalyticsProofs ----------------------------
(***************************************************************************)
(* The reports of the analytics commands, for every set of validators and  *)
(* heights, every content of the database the monitor can write, and every *)
(* time window.                                                            *)
(***************************************************************************)
EXTENDS Analytics, FiniteSetTheorems, WellFoundedInduction, TLAPS

--------------------------------------------------------------------------------
(* Least and greatest elements.                                            *)

\* A nonempty set of natural numbers has a least element.
LEMMA LeastNat ==
  ASSUME NEW T, T \subseteq Nat, T # {}
  PROVE  \E m \in T : \A n \in T : m <= n
<1>1. PICK m \in T : \A n \in T : ~(<<n, m>> \in OpToRel(<, Nat))
  BY NatLessThanWellFounded, WFMin
<1>2. \A n \in T : ~(n < m)
  BY <1>1 DEF OpToRel
<1> QED
  BY <1>2

\* A bounded one has a greatest.
LEMMA GreatestNat ==
  ASSUME NEW T, T \subseteq Nat, T # {}, NEW b \in Nat, \A n \in T : n <= b
  PROVE  \E m \in T : \A n \in T : m >= n
<1> DEFINE B == {n \in Nat : \A t \in T : t <= n}
<1>1. PICK m \in B : \A n \in B : m <= n
  BY LeastNat
<1>2. m \in T
  <2> SUFFICES ASSUME m \notin T PROVE FALSE
    OBVIOUS
  <2>1. PICK t \in T : TRUE
    OBVIOUS
  <2>2. m - 1 \in Nat /\ \A n \in T : n <= m - 1
    BY <2>1
  <2> QED
    BY <1>1, <2>2
<1> QED
  BY <1>2

\* A finite set of natural numbers is bounded: past the point where its initial
\* segments stop growing there is no element.
LEMMA FiniteBounded ==
  ASSUME NEW T, T \subseteq Nat, IsFiniteSet(T)
  PROVE  \E b \in Nat : \A n \in T : n <= b
<1> DEFINE Upto(n) == {x \in T : x <= n}
           C == {Cardinality(Upto(n)) : n \in Nat}
<1>1. \A n \in Nat : IsFiniteSet(Upto(n)) /\ Cardinality(Upto(n)) \in Nat
                     /\ Cardinality(Upto(n)) <= Cardinality(T)
  BY FS_Subset, FS_CardinalityType
<1>2. Cardinality(T) \in Nat
  BY FS_CardinalityType
<1>3. C \subseteq Nat /\ C # {} /\ \A c \in C : c <= Cardinality(T)
  BY <1>1
<1>4. PICK m \in C : \A c \in C : m >= c
  BY <1>2, <1>3, GreatestNat
<1>5. PICK b \in Nat : m = Cardinality(Upto(b))
  BY <1>4
<1>6. ASSUME NEW n \in T, n > b PROVE FALSE
  <2>0. n \in Nat /\ \A x \in T : x \in Nat
    OBVIOUS
  <2>a. \A x \in T : x <= b => x <= n
    BY <1>6, <2>0
  <2>b. n <= n /\ ~(n <= b)
    BY <1>6, <2>0
  <2>1. Upto(b) \subseteq Upto(n) /\ n \in Upto(n) /\ n \notin Upto(b)
    BY <2>a, <2>b
  <2>2. Cardinality(Upto(b)) < Cardinality(Upto(n))
    BY <1>1, <1>6, <2>1, FS_Subset
  <2>3. m >= Cardinality(Upto(n))
    BY <1>4, <1>6
  <2> QED
    BY <1>1, <1>5, <1>6, <2>2, <2>3
<1> QED
  BY <1>6

\* Max and Min are what their names say.
LEMMA MaxMin ==
  ASSUME NEW T, T \subseteq Nat, T # {}, IsFiniteSet(T)
  PROVE  /\ Max(T) \in T /\ Max(T) \in Nat /\ \A n \in T : n <= Max(T)
         /\ Min(T) \in T /\ Min(T) \in Nat /\ \A n \in T : Min(T) <= n
<1>1. \E m \in T : \A n \in T : m >= n
  BY FiniteBounded, GreatestNat
<1>2. Max(T) \in T /\ \A n \in T : Max(T) >= n
  BY <1>1 DEF Max
<1>3. \E m \in T : \A n \in T : m =< n
  BY LeastNat
<1>4. Min(T) \in T /\ \A n \in T : Min(T) =< n
  BY <1>3 DEF Min
<1>5. Max(T) \in Nat /\ Min(T) \in Nat
  BY <1>2, <1>4, Zenon
<1> QED
  BY <1>2, <1>4, <1>5

--------------------------------------------------------------------------------
(* Gaps and islands.  V is a set of rows that name a height first, M the   *)
(* heights among hs without such a row.                                    *)

Below(V, h)     == {x \in V : x[1] < h}
Island(V, M, m) == {h \in M : Cardinality(Below(V, h)) = Cardinality(Below(V, m))}

Between(hs, S)  == {h \in hs : Min(S) <= h /\ h <= Max(S)}
Runs(hs, M)     == {S \in (SUBSET M) \ {{}} : Between(hs, S) = S}
MaximalRuns(hs, M) == {R \in Runs(hs, M) : \A Q \in Runs(hs, M) : R \subseteq Q => R = Q}

\* Counting the rows below two heights compares the rows themselves.
LEMMA BelowCount ==
  ASSUME NEW V, IsFiniteSet(V), \A x \in V : x[1] \in Nat,
         NEW h \in Nat, NEW k \in Nat, h <= k
  PROVE  /\ Cardinality(Below(V, h)) \in Nat /\ Cardinality(Below(V, k)) \in Nat
         /\ Cardinality(Below(V, h)) <= Cardinality(Below(V, k))
         /\ Cardinality(Below(V, h)) = Cardinality(Below(V, k)) <=>
              \A x \in V : ~(h <= x[1] /\ x[1] < k)
<1>1. Below(V, h) \subseteq Below(V, k) /\ Below(V, k) \subseteq V
  BY DEF Below
<1>2. IsFiniteSet(Below(V, k)) /\ IsFiniteSet(Below(V, h))
  BY <1>1, FS_Subset
<1>3. /\ Cardinality(Below(V, h)) <= Cardinality(Below(V, k))
      /\ Cardinality(Below(V, h)) = Cardinality(Below(V, k)) => Below(V, h) = Below(V, k)
  BY <1>1, <1>2, FS_Subset
<1>4. Below(V, h) = Below(V, k) <=> \A x \in V : ~(h <= x[1] /\ x[1] < k)
  BY DEF Below
<1> QED
  BY <1>2, <1>3, <1>4, FS_CardinalityType

\* The islands are the maximal runs.
LEMMA IslandsAreRuns ==
  ASSUME NEW hs, hs \subseteq Nat, IsFiniteSet(hs), NEW M \in SUBSET hs,
         NEW V, IsFiniteSet(V), \A x \in V : x[1] \in hs \ M,
         \A h \in hs \ M : \E x \in V : x[1] = h
  PROVE  {Island(V, M, m) : m \in M} = MaximalRuns(hs, M)
<1>0. \A S \in SUBSET M : S # {} =>
        /\ Max(S) \in S /\ \A n \in S : n <= Max(S)
        /\ Min(S) \in S /\ \A n \in S : Min(S) <= n
  <2> SUFFICES ASSUME NEW S \in SUBSET M, S # {}
               PROVE  /\ Max(S) \in S /\ \A n \in S : n <= Max(S)
                      /\ Min(S) \in S /\ \A n \in S : Min(S) <= n
    OBVIOUS
  <2>1. S \subseteq Nat /\ IsFiniteSet(S)
    BY FS_Subset
  <2> QED
    BY <2>1, MaxMin
<1>v. \A x \in V : x[1] \in Nat
  OBVIOUS
<1>1. ASSUME NEW m \in M PROVE Island(V, M, m) \in Runs(hs, M)
  <2> DEFINE I == Island(V, M, m)
  <2>1. I \in SUBSET M /\ m \in I
    BY DEF Island
  <2>2. /\ Max(I) \in I /\ \A n \in I : n <= Max(I)
        /\ Min(I) \in I /\ \A n \in I : Min(I) <= n
    BY <1>0, <2>1
  <2>3. ASSUME NEW h \in hs, Min(I) <= h, h <= Max(I) PROVE h \in I
    <3>1. /\ Min(I) \in Nat /\ Max(I) \in Nat /\ h \in Nat
          /\ Min(I) \in M /\ Max(I) \in M
      BY <2>1, <2>2
    <3>2. Cardinality(Below(V, Min(I))) = Cardinality(Below(V, m))
          /\ Cardinality(Below(V, Max(I))) = Cardinality(Below(V, m))
      BY <2>2 DEF Island
    <3>3. /\ Cardinality(Below(V, Min(I))) <= Cardinality(Below(V, h))
          /\ Cardinality(Below(V, Min(I))) \in Nat
      BY <1>v, <2>3, <3>1, BelowCount
    <3>4. /\ Cardinality(Below(V, h)) <= Cardinality(Below(V, Max(I)))
          /\ Cardinality(Below(V, h)) \in Nat
          /\ Cardinality(Below(V, h)) = Cardinality(Below(V, Max(I))) =>
               \A x \in V : ~(h <= x[1] /\ x[1] < Max(I))
      BY <1>v, <2>3, <3>1, BelowCount
    <3>5. Cardinality(Below(V, h)) = Cardinality(Below(V, m))
      BY <3>2, <3>3, <3>4
    <3>6. h \in M
      <4> SUFFICES ASSUME h \notin M PROVE FALSE
        OBVIOUS
      <4>1. PICK x \in V : x[1] = h
        OBVIOUS
      <4>2. h < Max(I)
        BY <2>3, <3>1
      <4> QED
        BY <3>1, <3>2, <3>4, <3>5, <4>1, <4>2
    <3> QED
      BY <3>5, <3>6 DEF Island
  <2>4. Between(hs, I) = I
    BY <2>1, <2>2, <2>3 DEF Between
  <2> QED
    BY <2>1, <2>4 DEF Runs
\* A run is part of the island of each of its elements.
<1>2. ASSUME NEW Q \in Runs(hs, M), NEW m \in Q PROVE m \in M /\ Q \subseteq Island(V, M, m)
  <2>1. Q \in SUBSET M /\ Q # {} /\ Between(hs, Q) = Q
    BY DEF Runs
  <2>2. /\ Max(Q) \in Q /\ \A n \in Q : n <= Max(Q)
        /\ Min(Q) \in Q /\ \A n \in Q : Min(Q) <= n
    BY <1>0, <2>1
  <2>3. ASSUME NEW k \in Q, NEW l \in Q, k <= l
        PROVE  Cardinality(Below(V, k)) = Cardinality(Below(V, l))
    <3>1. k \in Nat /\ l \in Nat /\ Min(Q) \in Nat /\ Max(Q) \in Nat
      BY <2>1, <2>2
    <3>2. ASSUME NEW x \in V, k <= x[1], x[1] < l PROVE FALSE
      <4>1. x[1] \in hs /\ x[1] \notin M /\ x[1] \in Nat
        BY <1>v
      <4>2. Min(Q) <= x[1] /\ x[1] <= Max(Q)
        BY <2>2, <3>1, <3>2, <4>1
      <4>3. x[1] \in Q
        BY <2>1, <4>1, <4>2 DEF Between
      <4> QED
        BY <2>1, <4>1, <4>3
    <3> QED
      BY <1>v, <2>3, <3>1, <3>2, BelowCount
  <2>4. ASSUME NEW q \in Q PROVE q \in Island(V, M, m)
    <3>1. q \in Nat /\ m \in Nat /\ q \in M
      BY <2>1
    <3>2. Cardinality(Below(V, q)) = Cardinality(Below(V, m))
      BY <2>3, <3>1
    <3> QED
      BY <3>1, <3>2 DEF Island
  <2> QED
    BY <2>1, <2>4
<1>3. ASSUME NEW m \in M PROVE Island(V, M, m) \in MaximalRuns(hs, M)
  <2>1. m \in Island(V, M, m)
    BY DEF Island
  <2>2. ASSUME NEW Q \in Runs(hs, M), Island(V, M, m) \subseteq Q
        PROVE  Island(V, M, m) = Q
    BY <1>2, <2>1, <2>2
  <2> QED
    BY <1>1, <2>2 DEF MaximalRuns
<1>4. ASSUME NEW R \in MaximalRuns(hs, M) PROVE \E m \in M : R = Island(V, M, m)
  <2>1. R \in Runs(hs, M) /\ \A Q \in Runs(hs, M) : R \subseteq Q => R = Q
    BY DEF MaximalRuns
  <2>2. PICK m \in R : TRUE
    BY <2>1 DEF Runs
  <2>3. m \in M /\ R \subseteq Island(V, M, m)
    BY <1>2, <2>1
  <2> QED
    BY <1>1, <2>1, <2>3
<1> QED
  BY <1>3, <1>4

--------------------------------------------------------------------------------
(* The joins.                                                              *)

\* What the queries need of a database.
DbOK(d) ==
  /\ DOMAIN d.heights \subseteq Nat \ {0} /\ IsFiniteSet(DOMAIN d.heights)
  /\ IsFiniteSet(DOMAIN d.rounds) /\ IsFiniteSet(DOMAIN d.votes)
  /\ IsFiniteSet(DOMAIN d.validators) /\ NULL \notin DOMAIN d.votes

\* The image of a finite set under a function.
LEMMA FiniteImage ==
  ASSUME NEW S, IsFiniteSet(S), NEW f, DOMAIN f = S, f = [x \in S |-> f[x]]
  PROVE  /\ IsFiniteSet({f[x] : x \in S})
         /\ Cardinality({f[x] : x \in S}) <= Cardinality(S)
<1>1. f \in Surjection(S, {f[x] : x \in S})
  BY DEF Surjection
<1> QED
  BY <1>1, FS_Surjection

\* The heights with a vote.
Signed(d, hs, a) == {h \in hs : VotesAt(d, h, a) # {}}

\* The rows of the left join: one per vote, and one with NULL for a height
\* without a vote.
LEMMA JoinRows ==
  ASSUME NEW d, DbOK(d), NEW hs \in SUBSET DOMAIN d.heights, NEW a
  PROVE  LET rows == LeftJoin(d, hs, a)
             signed == Signed(d, hs, a)
         IN  /\ IsFiniteSet(rows) /\ \A r \in rows : r[1] \in hs
             /\ rows \ Voted(rows) = {<<h, NULL>> : h \in hs \ signed}
             /\ Voted(rows) = {r \in hs \X DOMAIN d.votes : r[2] \in VotesAt(d, r[1], a)}
             /\ HeightsOf(rows) = hs /\ HeightsOf(Voted(rows)) = signed
<1> USE DEF Signed
<1> DEFINE rows == LeftJoin(d, hs, a)
           signed == Signed(d, hs, a)
           V == {r \in hs \X DOMAIN d.votes : r[2] \in VotesAt(d, r[1], a)}
           N == {<<h, NULL>> : h \in hs \ signed}
<1>1. \A h : VotesAt(d, h, a) \subseteq DOMAIN d.votes /\ NULL \notin VotesAt(d, h, a)
  BY DEF VotesAt, DbOK
<1>2. ASSUME NEW r \in rows PROVE r \in V \cup N
  <2>1. PICK h \in hs : r \in {h} \X (IF VotesAt(d, h, a) = {} THEN {NULL} ELSE VotesAt(d, h, a))
    BY DEF LeftJoin
  <2> QED
    BY <1>1, <2>1
<1>3. ASSUME NEW r \in V \cup N PROVE r \in rows
  <2>1. r[1] \in hs
    OBVIOUS
  <2>2. r \in {r[1]} \X (IF VotesAt(d, r[1], a) = {} THEN {NULL} ELSE VotesAt(d, r[1], a))
    BY <1>1
  <2> QED
    BY <2>1, <2>2 DEF LeftJoin
<1>4. rows = V \cup N
  BY <1>2, <1>3
<1>5. (\A r \in V : r[2] # NULL) /\ (\A r \in N : r[2] = NULL)
  BY <1>1
<1>6. Voted(rows) = V /\ rows \ Voted(rows) = N
  BY <1>4, <1>5 DEF Voted
<1>7. IsFiniteSet(rows)
  <2>1. IsFiniteSet(hs) /\ IsFiniteSet(DOMAIN d.votes \cup {NULL})
    BY FS_Subset, FS_AddElement DEF DbOK
  <2>2. IsFiniteSet(hs \X (DOMAIN d.votes \cup {NULL}))
    BY <2>1, FS_Product
  <2>3. rows \in SUBSET (hs \X (DOMAIN d.votes \cup {NULL}))
    BY <1>4
  <2> QED
    BY <2>2, <2>3, FS_Subset
<1>8. HeightsOf(V) = signed
  <2>1. ASSUME NEW h \in signed PROVE h \in HeightsOf(V)
    <3>1. PICK x \in VotesAt(d, h, a) : TRUE
      OBVIOUS
    <3>2. <<h, x>> \in V /\ <<h, x>>[1] = h
      BY <1>1
    <3> QED
      BY <3>2 DEF HeightsOf
  <2>2. ASSUME NEW h \in HeightsOf(V) PROVE h \in signed
    BY DEF HeightsOf
  <2> QED
    BY <2>1, <2>2
<1>9. HeightsOf(N) = hs \ signed
  <2>1. \A h \in hs \ signed : <<h, NULL>> \in N /\ <<h, NULL>>[1] = h
    OBVIOUS
  <2>2. \A r \in N : r[1] \in hs \ signed
    OBVIOUS
  <2> HIDE DEF N, signed
  <2> QED
    BY <2>1, <2>2 DEF HeightsOf
<1>10. HeightsOf(rows) = HeightsOf(V) \cup HeightsOf(N)
  BY <1>4 DEF HeightsOf
<1>11. \A r \in rows : r[1] \in hs
  BY <1>4
<1> HIDE DEF rows, signed, V, N
<1>12. HeightsOf(rows) = hs
  BY <1>8, <1>9, <1>10 DEF signed
<1> QED
  BY <1>6, <1>7, <1>8, <1>11, <1>12 DEF rows, signed, V, N

--------------------------------------------------------------------------------
(* The miss streaks.                                                       *)

Missed(d, a, w) == {h \in InWindow(d, w) : VotesAt(d, h, a) = {}}

\* The difference of the two row numbers of a missed row counts the votes at
\* the heights below it.
LEMMA RowNumbers ==
  ASSUME NEW rows, IsFiniteSet(rows), NEW V \in SUBSET rows, NEW r
  PROVE  (1 + Cardinality({x \in rows : x[1] < r[1]}))
           - (1 + Cardinality({x \in rows \ V : x[1] < r[1]}))
         = Cardinality(Below(V, r[1]))
<1> DEFINE A == {x \in rows : x[1] < r[1]}
           B == {x \in rows \ V : x[1] < r[1]}
<1>1. IsFiniteSet(A) /\ A \cap Below(V, r[1]) = Below(V, r[1]) /\ B = A \ Below(V, r[1])
  BY FS_Subset DEF Below
<1>2. Cardinality(B) = Cardinality(A) - Cardinality(Below(V, r[1]))
  BY <1>1, FS_Difference
<1>3. Cardinality(A) \in Nat /\ Cardinality(Below(V, r[1])) \in Nat
  <2>1. Below(V, r[1]) \in SUBSET A
    BY DEF Below
  <2> QED
    BY <1>1, <2>1, FS_Subset, FS_CardinalityType
<1> HIDE DEF A, B
<1>4. (1 + Cardinality(A)) - (1 + Cardinality(B)) = Cardinality(Below(V, r[1]))
  BY <1>2, <1>3
<1> QED
  BY <1>4 DEF A, B

\* GetValidatorMissedBlockStreaks returns the islands ...
LEMMA StreaksAreIslands ==
  ASSUME NEW d, DbOK(d), NEW a, NEW w
  PROVE  LET V == Voted(LeftJoin(d, InWindow(d, w), a))
             M == Missed(d, a, w)
         IN  GetValidatorMissedBlockStreaks(d, a, w) = {Streak(Island(V, M, m)) : m \in M}
<1> DEFINE hs == InWindow(d, w)
           rows == LeftJoin(d, hs, a)
           V == Voted(rows)
           M == Missed(d, a, w)
           missed == rows \ V
           number(R, r) == 1 + Cardinality({x \in R : x[1] < r[1]})
           grp(r) == number(rows, r) - number(missed, r)
<1>1. hs \in SUBSET DOMAIN d.heights
  BY DEF InWindow
<1>2. IsFiniteSet(rows) /\ missed = {<<h, NULL>> : h \in M}
  <2>1. M = hs \ Signed(d, hs, a)
    BY DEF Missed, Signed
  <2> QED
    BY <1>1, <2>1, JoinRows
<1>3. V \in SUBSET rows
  BY DEF Voted
<1>4. \A r : grp(r) = Cardinality(Below(V, r[1]))
  BY <1>2, <1>3, RowNumbers
<1>5. GetValidatorMissedBlockStreaks(d, a, w)
        = {Streak(HeightsOf({r \in missed : grp(r) = g})) : g \in {grp(r) : r \in missed}}
  BY DEF GetValidatorMissedBlockStreaks
<1> HIDE DEF rows, V, M, missed, grp
<1>6. ASSUME NEW m \in M PROVE HeightsOf({r \in missed : grp(r) = grp(<<m, NULL>>)}) = Island(V, M, m)
  <2>1. \A h \in M : <<h, NULL>> \in missed /\ <<h, NULL>>[1] = h
    BY <1>2
  <2>2. \A r \in missed : r[1] \in M /\ r = <<r[1], NULL>>
    BY <1>2
  <2>3. \A r \in missed : grp(r) = grp(<<m, NULL>>) <=>
           Cardinality(Below(V, r[1])) = Cardinality(Below(V, m))
    BY <1>4
  <2>4. ASSUME NEW h \in HeightsOf({r \in missed : grp(r) = grp(<<m, NULL>>)})
        PROVE  h \in Island(V, M, m)
    BY <2>2, <2>3 DEF HeightsOf, Island
  <2>5. ASSUME NEW h \in Island(V, M, m)
        PROVE  h \in HeightsOf({r \in missed : grp(r) = grp(<<m, NULL>>)})
    <3>1. h \in M /\ Cardinality(Below(V, h)) = Cardinality(Below(V, m))
      BY DEF Island
    <3>2. <<h, NULL>> \in missed /\ grp(<<h, NULL>>) = grp(<<m, NULL>>) /\ <<h, NULL>>[1] = h
      BY <2>1, <2>3, <3>1
    <3> QED
      BY <3>2 DEF HeightsOf
  <2> QED
    BY <2>4, <2>5
<1>7. {grp(r) : r \in missed} = {grp(<<m, NULL>>) : m \in M}
  BY <1>2
<1>8. {Streak(HeightsOf({r \in missed : grp(r) = g})) : g \in {grp(r) : r \in missed}}
        = {Streak(HeightsOf({r \in missed : grp(r) = grp(<<m, NULL>>)})) : m \in M}
  <2> DEFINE at(g) == Streak(HeightsOf({r \in missed : grp(r) = g}))
  <2> HIDE DEF at
  <2>1. {at(g) : g \in {grp(r) : r \in missed}} = {at(grp(<<m, NULL>>)) : m \in M}
    BY <1>7
  <2> QED
    BY <2>1 DEF at
<1> QED
  BY <1>5, <1>6, <1>8 DEF rows, V, M

\* ... the islands are the maximal runs of missed heights ...
LEMMA WindowRuns ==
  ASSUME NEW d, DbOK(d), NEW a, NEW w
  PROVE  LET hs == InWindow(d, w)
             V == Voted(LeftJoin(d, hs, a))
             M == Missed(d, a, w)
         IN  /\ hs \subseteq Nat /\ IsFiniteSet(hs) /\ M \in SUBSET hs
             /\ {Island(V, M, m) : m \in M} = MaximalRuns(hs, M)
<1> DEFINE hs == InWindow(d, w)
           V == Voted(LeftJoin(d, hs, a))
           M == Missed(d, a, w)
<1>1. hs \in SUBSET DOMAIN d.heights /\ M \in SUBSET hs
  BY DEF InWindow, Missed
<1>2. hs \subseteq Nat /\ IsFiniteSet(hs)
  BY <1>1, FS_Subset DEF DbOK
<1>3. IsFiniteSet(LeftJoin(d, hs, a)) /\ HeightsOf(V) = Signed(d, hs, a)
  BY <1>1, JoinRows
<1>4. IsFiniteSet(V)
  BY <1>3, FS_Subset DEF Voted
<1>5. hs \ M = HeightsOf(V)
  BY <1>3 DEF Missed, Signed
<1>6. (\A x \in V : x[1] \in hs \ M) /\ (\A h \in hs \ M : \E x \in V : x[1] = h)
  BY <1>5 DEF HeightsOf
<1> HIDE DEF hs, V, M
<1>7. {Island(V, M, m) : m \in M} = MaximalRuns(hs, M)
  BY <1>1, <1>2, <1>4, <1>6, IslandsAreRuns
<1> QED
  BY <1>1, <1>2, <1>7 DEF hs, V, M

\* ... and so are the streaks.
LEMMA StreaksAreRuns ==
  ASSUME NEW d, DbOK(d), NEW a, NEW w
  PROVE  GetValidatorMissedBlockStreaks(d, a, w)
           = {Streak(S) : S \in MaximalRuns(InWindow(d, w), Missed(d, a, w))}
<1> DEFINE V == Voted(LeftJoin(d, InWindow(d, w), a))
           M == Missed(d, a, w)
<1>1. {Island(V, M, m) : m \in M} = MaximalRuns(InWindow(d, w), M)
  BY WindowRuns
<1>2. GetValidatorMissedBlockStreaks(d, a, w) = {Streak(Island(V, M, m)) : m \in M}
  BY StreaksAreIslands
<1> HIDE DEF V, M
<1>3. {Streak(Island(V, M, m)) : m \in M} = {Streak(S) : S \in {Island(V, M, m) : m \in M}}
  OBVIOUS
<1> QED
  BY <1>1, <1>2, <1>3 DEF M

--------------------------------------------------------------------------------
(* The tables.                                                             *)

\* The type invariant, made inductive: heights is a function (an empty table is
\* the empty function, which computeCutoffHeight tests) and snapshots hold
\* natural numbers, the powers the rankings compare.
TableInv ==
  /\ TypeOK
  /\ heights = [h \in DOMAIN heights |-> heights[h]]
  /\ \A x \in DOMAIN snapshots : snapshots[x] \in Nat

\* The cutoff is taken from a height that exists.
LEMMA CutoffNat ==
  ASSUME TableInv, computeCutoffHeight > 0
  PROVE  computeCutoffHeight \in Nat
<1>1. CASE MaxRetainBlocks > 0 /\ heights # Empty
  <2>1. DOMAIN heights # {}
    BY <1>1 DEF TableInv, Empty
  <2>2. DOMAIN heights \subseteq Nat /\ IsFiniteSet(DOMAIN heights)
    BY AnalyticsAssumption, FS_Subset DEF TableInv, TypeOK
  <2>3. Max(DOMAIN heights) \in Nat
    BY <2>1, <2>2, MaxMin
  <2>4. computeCutoffHeight = Max(DOMAIN heights) - MaxRetainBlocks
    BY <1>1 DEF computeCutoffHeight, GetLatestHeight
  <2> QED
    BY <2>3, <2>4, AnalyticsAssumption
<1>2. CASE ~(MaxRetainBlocks > 0 /\ heights # Empty)
  BY <1>2 DEF computeCutoffHeight
<1> QED
  BY <1>1, <1>2

LEMMA InitTables == Init => TableInv
<1> SUFFICES ASSUME Init PROVE TableInv
  OBVIOUS
<1>1. DOMAIN Empty = {}
  BY DEF Empty
<1>2. 0 \in 0..MaxRaces
  BY AnalyticsAssumption
<1>3. Empty = [x \in DOMAIN Empty |-> Empty[x]]
  BY DEF Empty
<1> QED
  BY <1>1, <1>2, <1>3 DEF Init, TableInv, TypeOK

\* A write leaves the command where it is and counts itself within the bound.
LEMMA WriteRaces ==
  ASSUME TypeOK, Write
  PROVE  races' \in 0..MaxRaces /\ cli' = cli
  BY AnalyticsAssumption DEF TypeOK, Write

\* The rows left by a DELETE.
LEMMA YoungRows ==
  ASSUME NEW t
  PROVE  /\ DOMAIN Young(t) \subseteq DOMAIN t
         /\ \A x \in DOMAIN Young(t) : Young(t)[x] = t[x]
  BY DEF Young

LEMMA StepTables == TableInv /\ [Next]_vars => TableInv'
<1> SUFFICES ASSUME TableInv, [Next]_vars PROVE TableInv'
  OBVIOUS
<1>t. TypeOK
  BY DEF TableInv
<1>1. ASSUME NEW h \in Heights, NEW t \in BlockTimes, NEW i \in Infos, StoreValidators(h, t, i)
      PROVE  TableInv'
  <2> DEFINE f == [x \in {h} |-> t]
             s == [x \in {h} \X Validators |-> i[x[2]].power]
  <2>1. races' \in 0..MaxRaces /\ cli' = cli
    BY <1>t, <1>1, WriteRaces DEF StoreValidators
  <2>2. heights' = Over(f, heights) /\ snapshots' = Over(s, snapshots) /\ validators' = Over(i, validators)
    BY <1>1 DEF StoreValidators, UpsertHeight, UpsertValidator, UpsertValidatorSnapshot
  <2>3. UNCHANGED <<rounds, votes, cleaner, cutoff>>
    BY <1>1 DEF StoreValidators
  <2>4. /\ DOMAIN heights' \subseteq Heights /\ \A k \in DOMAIN heights' : heights'[k] \in BlockTimes
        /\ heights' = [k \in DOMAIN heights' |-> heights'[k]]
    BY <1>t, <2>2 DEF TypeOK, Over
  <2>5. DOMAIN validators' \subseteq Validators
    BY <1>t, <2>2, AnalyticsAssumption DEF TypeOK, Over
  <2>6. DOMAIN s = {h} \X Validators /\ \A x \in DOMAIN s : s[x] \in Nat
    <3>1. \A x \in {h} \X Validators : x[2] \in Validators
      OBVIOUS
    <3> QED
      BY <3>1, AnalyticsAssumption
  <2> HIDE DEF f, s
  <2>7. DOMAIN snapshots' = DOMAIN s \cup DOMAIN snapshots
    BY <2>2 DEF Over
  <2>8. \A x \in DOMAIN snapshots' : snapshots'[x] \in Nat
    BY <2>2, <2>6 DEF TableInv, Over
  <2>9. DOMAIN snapshots' \subseteq Heights \X Validators
    BY <1>t, <2>6, <2>7 DEF TypeOK
  <2> QED
    BY <1>t, <2>1, <2>3, <2>4, <2>5, <2>8, <2>9 DEF TableInv, TypeOK
<1>2. ASSUME NEW h \in Heights, NEW r \in Numbers, NEW rd \in RoundDatas, StoreRoundData(h, r, rd)
      PROVE  TableInv'
  <2>1. races' \in 0..MaxRaces /\ cli' = cli
    BY <1>t, <1>2, WriteRaces DEF StoreRoundData
  <2>2. PICK fk \in BOOLEAN, p \in IF rd.proposers = {} THEN {NULL} ELSE rd.proposers :
             /\ UpsertRound(h, r, p)
             /\ UpsertVote(h, r, [y \in {x \in DOMAIN rd.votes :
                                     fk => x[1] \in DOMAIN validators} |-> rd.votes[y]])
    BY <1>2 DEF StoreRoundData
  <2>3. UNCHANGED <<heights, validators, snapshots, cleaner, cutoff>>
    BY <1>2 DEF StoreRoundData
  <2>4. p \in Validators \cup {NULL}
    BY <2>2, AnalyticsAssumption
  <2>5. /\ DOMAIN rounds' \subseteq Heights \X Numbers
        /\ \A hr \in DOMAIN rounds' : rounds'[hr] \in Validators \cup {NULL}
    <3> DEFINE f == [x \in {<<h, r>>} |-> p]
    <3>1. rounds' = Over(f, rounds)
      BY <2>2 DEF UpsertRound
    <3>2. DOMAIN f = {<<h, r>>} /\ f[<<h, r>>] = p /\ <<h, r>> \in Heights \X Numbers
      OBVIOUS
    <3> HIDE DEF f
    <3> QED
      BY <1>t, <2>4, <3>1, <3>2 DEF TypeOK, Over
  <2>6. DOMAIN votes' \subseteq Heights \X Numbers \X Validators \X {Prevote, Precommit}
    <3> DEFINE vs == [y \in {x \in DOMAIN rd.votes :
                                     fk => x[1] \in DOMAIN validators} |-> rd.votes[y]]
    <3>1. votes' = Over(VoteRows(h, r, vs), votes)
      BY <2>2 DEF UpsertVote
    <3>2. DOMAIN vs \subseteq Validators \X {Prevote, Precommit}
      BY AnalyticsAssumption
    <3> HIDE DEF vs
    <3>3. DOMAIN VoteRows(h, r, vs) = {<<h, r, y[1], y[2]>> : y \in DOMAIN vs}
      BY DEF VoteRows
    <3>4. \A y \in DOMAIN vs : y[1] \in Validators /\ y[2] \in {Prevote, Precommit}
      BY <3>2
    <3>5. DOMAIN VoteRows(h, r, vs) \subseteq Heights \X Numbers \X Validators \X {Prevote, Precommit}
      BY <3>3, <3>4
    <3> QED
      BY <1>t, <3>1, <3>5 DEF TypeOK, Over
  <2> QED
    BY <1>t, <2>1, <2>3, <2>5, <2>6 DEF TableInv, TypeOK
<1>3. ASSUME CleanupStart PROVE TableInv'
  <2>1. races' \in 0..MaxRaces /\ cli' = cli
    BY <1>t, <1>3, WriteRaces DEF CleanupStart
  <2>2. cutoff' \in Nat /\ cleaner' = "votes" /\ UNCHANGED tables
    BY <1>3, CutoffNat DEF CleanupStart
  <2> QED
    BY <1>t, <2>1, <2>2 DEF TableInv, TypeOK, tables
<1>4. ASSUME DeleteVotesOlderThan PROVE TableInv'
  <2>1. races' \in 0..MaxRaces /\ cli' = cli
    BY <1>t, <1>4, WriteRaces DEF DeleteVotesOlderThan
  <2>2. DOMAIN votes' \subseteq DOMAIN votes
    BY <1>4, YoungRows DEF DeleteVotesOlderThan
  <2> QED
    BY <1>t, <1>4, <2>1, <2>2 DEF TableInv, TypeOK, DeleteVotesOlderThan
<1>5. ASSUME DeleteValidatorSnapshotsOlderThan PROVE TableInv'
  <2>1. races' \in 0..MaxRaces /\ cli' = cli
    BY <1>t, <1>5, WriteRaces DEF DeleteValidatorSnapshotsOlderThan
  <2>2. /\ DOMAIN snapshots' \subseteq DOMAIN snapshots
        /\ \A x \in DOMAIN snapshots' : snapshots'[x] = snapshots[x]
    BY <1>5, YoungRows DEF DeleteValidatorSnapshotsOlderThan
  <2> QED
    BY <1>t, <1>5, <2>1, <2>2 DEF TableInv, TypeOK, DeleteValidatorSnapshotsOlderThan
<1>6. ASSUME DeleteRoundsOlderThan PROVE TableInv'
  <2>1. races' \in 0..MaxRaces /\ cli' = cli
    BY <1>t, <1>6, WriteRaces DEF DeleteRoundsOlderThan
  <2>2. /\ DOMAIN rounds' \subseteq DOMAIN rounds
        /\ \A x \in DOMAIN rounds' : rounds'[x] = rounds[x]
    BY <1>6, YoungRows DEF DeleteRoundsOlderThan
  <2> QED
    BY <1>t, <1>6, <2>1, <2>2 DEF TableInv, TypeOK, DeleteRoundsOlderThan
<1>7. ASSUME DeleteHeightsOlderThan PROVE TableInv'
  <2>1. races' \in 0..MaxRaces /\ cli' = cli
    BY <1>t, <1>7, WriteRaces DEF DeleteHeightsOlderThan
  <2>2. \/ heights' = [h \in DOMAIN heights \ {k \in DOMAIN heights : k < cutoff} |-> heights[h]]
        \/ heights' = heights
    BY <1>7 DEF DeleteHeightsOlderThan
  <2>3. /\ DOMAIN heights' \subseteq Heights /\ \A k \in DOMAIN heights' : heights'[k] \in BlockTimes
        /\ heights' = [k \in DOMAIN heights' |-> heights'[k]]
    BY <1>t, <2>2 DEF TypeOK, TableInv
  <2> QED
    BY <1>t, <1>7, <2>1, <2>3 DEF TableInv, TypeOK, DeleteHeightsOlderThan
<1>8. ASSUME Cli PROVE TableInv'
  <2>1. UNCHANGED <<tables, cleaner, cutoff, races>>
    BY <1>8 DEF Cli, Reading, Run, QueryFails, QueryEfficiency, QueryParticipation,
                GetSigningEfficiency, GetMissedBlockStreaks, GetUptime, PrintValidatorRankings,
                PrintPerformanceTimeSeries, PrintDatabaseSummary, DiagnoseValidatorData
  <2>2. cli' \in {"idle", "efficiency", "participation", "streaks", "detail", "uptime",
                  "rankings", "timeseries", "debug", "diagnose", "exit"}
    BY <1>8 DEF Cli, Run, QueryFails, QueryEfficiency, QueryParticipation, Found, Finish, Commands,
                GetSigningEfficiency, GetMissedBlockStreaks, GetUptime, PrintValidatorRankings,
                PrintPerformanceTimeSeries, PrintDatabaseSummary, DiagnoseValidatorData
  <2> QED
    BY <1>t, <2>1, <2>2 DEF TableInv, TypeOK, tables
<1>9. ASSUME UNCHANGED vars PROVE TableInv'
  BY <1>t, <1>9 DEF TableInv, TypeOK, vars, tables
<1> QED
  BY <1>1, <1>2, <1>3, <1>4, <1>5, <1>6, <1>7, <1>8, <1>9 DEF Next, Monitor

\* The tables stay well-formed under every interleaving of the monitor's upserts, the
\* cleanup's deletes and the commands: the inductive invariant of the proofs below.
THEOREM TablesInvariant == Spec => []TableInv
  BY InitTables, StepTables, PTL DEF Spec

\* The types of the variables, for every number of heights, rounds and
\* validators.
THEOREM TypeCorrect == Spec => []TypeOK
<1>1. TableInv => TypeOK
  BY DEF TableInv
<1> QED
  BY <1>1, TablesInvariant, PTL

\* The tables are finite and their keys are not NULL.
LEMMA DbTyped ==
  ASSUME TableInv
  PROVE  DbOK(db)
<1>1. DOMAIN heights \subseteq Nat \ {0} /\ IsFiniteSet(DOMAIN heights)
  BY AnalyticsAssumption, FS_Subset DEF TableInv, TypeOK
<1>2. IsFiniteSet(DOMAIN rounds)
  <2>1. IsFiniteSet(Heights \X Numbers)
    BY AnalyticsAssumption, FS_Product
  <2> QED
    BY <2>1, FS_Subset DEF TableInv, TypeOK
<1>3. IsFiniteSet(DOMAIN validators)
  BY AnalyticsAssumption, FS_Subset DEF TableInv, TypeOK
<1>4. IsFiniteSet(DOMAIN votes)
  <2> DEFINE T == {Prevote, Precommit}
             S == (Heights \X Numbers) \X (Validators \X T)
             f == [y \in S |-> <<y[1][1], y[1][2], y[2][1], y[2][2]>>]
             U == Heights \X Numbers \X Validators \X T
  <2>1. IsFiniteSet(T)
    <3>1. T = {Prevote} \cup {Precommit}
      OBVIOUS
    <3>2. IsFiniteSet({Prevote})
      BY FS_Singleton
    <3> HIDE DEF T
    <3> QED
      BY <3>1, <3>2, FS_AddElement
  <2>2. IsFiniteSet(Heights \X Numbers) /\ IsFiniteSet(Validators \X T)
    BY <2>1, AnalyticsAssumption, FS_Product
  <2>3. IsFiniteSet(S)
    BY <2>2, FS_Product
  <2>4. f = [x \in S |-> f[x]] /\ DOMAIN f = S
    OBVIOUS
  <2>5. IsFiniteSet({f[x] : x \in S})
    <3> HIDE DEF f, S
    <3> QED
      BY <2>3, <2>4, FiniteImage
  <2>6. ASSUME NEW x \in U PROVE x \in {f[y] : y \in S}
    <3> DEFINE y == <<<<x[1], x[2]>>, <<x[3], x[4]>>>>
    <3>1. x[1] \in Heights /\ x[2] \in Numbers /\ x[3] \in Validators /\ x[4] \in T
          /\ x = <<x[1], x[2], x[3], x[4]>>
      OBVIOUS
    <3>2. y \in S
      BY <3>1
    <3>3. f[y] = x
      BY <3>1, <3>2
    <3> QED
      BY <3>2, <3>3
  <2>7. DOMAIN votes \in SUBSET {f[y] : y \in S}
    BY <2>6 DEF TableInv, TypeOK
  <2> QED
    BY <2>5, <2>7, FS_Subset
<1>5. NULL \notin DOMAIN votes
  BY AnalyticsAssumption DEF TableInv, TypeOK
<1> QED
  BY <1>1, <1>2, <1>3, <1>4, <1>5 DEF DbOK, db

\* GetValidatorMissedBlockStreaks returns the maximal runs of missed heights.
THEOREM StreaksCorrect == Spec => []StreaksAreMaximalRuns
<1>1. TableInv => StreaksAreMaximalRuns
  <2> SUFFICES ASSUME TableInv, NEW a \in Validators
               PROVE  GetValidatorMissedBlockStreaks(db, a, Window)
                        = {Streak(S) : S \in MaximalRuns(InWindow(db, Window), Missed(db, a, Window))}
    BY DEF StreaksAreMaximalRuns, MaximalRuns, Runs, Between, Missed
  <2> QED
    BY DbTyped, StreaksAreRuns
<1> QED
  BY <1>1, TablesInvariant, PTL

\* What StoreRoundData wrote is what LoadRoundDataMap returns, on a connection
\* that enforces foreign keys and on one that does not: the hash makes the way into
\* its column and back, nil votes become NULL and nil votes again.
THEOREM LoadCorrect == Spec => LoadReturnsStored
<1> DEFINE Loaded(h, r, rd) ==
             \A failing \in SUBSET (({h} \X Numbers) \ {<<h, r>>}) :
               LET m == LoadRoundDataMap(db', h, h, failing)
                   back == m[<<h, r>>]
               IN  /\ <<h, r>> \in DOMAIN m
                   /\ back.proposers \subseteq rd.proposers
                   /\ rd.proposers # {} => back.proposers # {}
                   /\ \A y \in DOMAIN rd.votes : y \in DOMAIN back.votes
                                                /\ back.votes[y].hash = rd.votes[y].hash
<1>1. ASSUME NEW h \in Heights, NEW r \in Numbers, NEW rd \in RoundDatas,
             StoreRoundData(h, r, rd), Full(rd), Accepted(rd)
      PROVE  Loaded(h, r, rd)
  <2> SUFFICES ASSUME NEW failing \in SUBSET (({h} \X Numbers) \ {<<h, r>>})
               PROVE  LET m == LoadRoundDataMap(db', h, h, failing)
                          back == m[<<h, r>>]
                      IN  /\ <<h, r>> \in DOMAIN m
                          /\ back.proposers \subseteq rd.proposers
                          /\ rd.proposers # {} => back.proposers # {}
                          /\ \A y \in DOMAIN rd.votes :
                               y \in DOMAIN back.votes /\ back.votes[y].hash = rd.votes[y].hash
    OBVIOUS
  <2> DEFINE d == db'
             m == LoadRoundDataMap(d, h, h, failing)
             back == m[<<h, r>>]
  <2>1. PICK fk \in BOOLEAN, p \in IF rd.proposers = {} THEN {NULL} ELSE rd.proposers :
             /\ UpsertRound(h, r, p)
             /\ UpsertVote(h, r, [y \in {x \in DOMAIN rd.votes :
                                     fk => x[1] \in DOMAIN validators} |-> rd.votes[y]])
    BY <1>1 DEF StoreRoundData
  <2> DEFINE vs == [y \in {x \in DOMAIN rd.votes :
                                     fk => x[1] \in DOMAIN validators} |-> rd.votes[y]]
  <2>2. d.rounds = rounds' /\ d.votes = votes'
    BY DEF db
  <2>3. DOMAIN vs = DOMAIN rd.votes /\ \A y \in DOMAIN rd.votes : vs[y] = rd.votes[y]
    BY <1>1 DEF Accepted
  <2>4. votes' = Over(VoteRows(h, r, vs), votes)
    BY <2>1 DEF UpsertVote
  <2>5. <<h, r>> \in DOMAIN rounds' /\ rounds'[<<h, r>>] = p
    BY <2>1 DEF UpsertRound, Over
  <2> HIDE DEF vs, d
  <2>6. <<h, r>> \in GetRoundsInRange(d, h, h) \ failing
    BY <2>2, <2>5, AnalyticsAssumption DEF GetRoundsInRange
  <2>p. NULL \notin rd.proposers
    BY <1>1, AnalyticsAssumption
  \* The row of a vote.
  <2>7. ASSUME NEW y \in DOMAIN rd.votes
        PROVE  /\ <<h, r, y[1], y[2]>> \in GetVotesForRound(d, <<h, r>>) /\ y = <<y[1], y[2]>>
               /\ BlockIDOf(votes'[<<h, r, y[1], y[2]>>]).hash = rd.votes[y].hash
    <3> DEFINE k == <<h, r, y[1], y[2]>>
    <3>1. y = <<y[1], y[2]>>
      BY <1>1, AnalyticsAssumption
    <3>2. /\ k \in DOMAIN VoteRows(h, r, vs)
          /\ VoteRows(h, r, vs)[k] = IF vs[y] = ZeroBlockID THEN NULL ELSE vs[y].hash
      BY <2>3, <3>1 DEF VoteRows
    <3>3. /\ k \in DOMAIN votes'
          /\ votes'[k] = IF rd.votes[y] = ZeroBlockID THEN NULL ELSE rd.votes[y].hash
      BY <2>3, <2>4, <3>2 DEF Over
    <3>4. k \in GetVotesForRound(d, <<h, r>>)
      BY <2>2, <3>3 DEF GetVotesForRound
    <3>5. rd.votes[y] = ZeroBlockID \/ rd.votes[y].hash \notin Garbled \cup {NULL}
      BY <1>1, AnalyticsAssumption
    <3> HIDE DEF k
    <3>6. BlockIDOf(votes'[k]).hash = rd.votes[y].hash
      <4>1. CASE rd.votes[y] = ZeroBlockID
        BY <3>3, <4>1 DEF BlockIDOf, ZeroBlockID
      <4>2. CASE rd.votes[y] # ZeroBlockID
        BY <3>3, <3>5, <4>2 DEF BlockIDOf
      <4> QED
        BY <4>1, <4>2
    <3> QED
      BY <3>1, <3>4, <3>6 DEF k
  <2>8. rounds'[<<h, r>>] # NULL \/ GetVotesForRound(d, <<h, r>>) # {}
    BY <1>1, <2>1, <2>5, <2>7, <2>p DEF Full
  <2>9. /\ <<h, r>> \in DOMAIN m
        /\ back.proposers = {p} \ {NULL}
        /\ back.votes = [y \in {<<k[3], k[4]>> : k \in GetVotesForRound(d, <<h, r>>)} |->
                           BlockIDOf(votes'[<<h, r, y[1], y[2]>>])]
    BY <2>2, <2>5, <2>6, <2>8 DEF LoadRoundDataMap
  <2>10. ASSUME NEW y \in DOMAIN rd.votes
         PROVE  y \in DOMAIN back.votes /\ back.votes[y].hash = rd.votes[y].hash
    <3> DEFINE k == <<h, r, y[1], y[2]>>
    <3>1. k \in GetVotesForRound(d, <<h, r>>) /\ y = <<k[3], k[4]>>
      BY <2>7
    <3> HIDE DEF k
    <3>2. y \in {<<x[3], x[4]>> : x \in GetVotesForRound(d, <<h, r>>)}
      BY <3>1
    <3> QED
      BY <2>7, <2>9, <3>2
  <2>11. /\ back.proposers \subseteq rd.proposers
         /\ rd.proposers # {} => back.proposers # {}
    BY <2>1, <2>9, <2>p
  <2> QED
    BY <2>9, <2>10, <2>11 DEF d
<1>2. \A h \in Heights, r \in Numbers, rd \in RoundDatas :
        StoreRoundData(h, r, rd) /\ Full(rd) /\ Accepted(rd) => Loaded(h, r, rd)
  BY <1>1
<1> QED
  BY <1>2, PTL DEF LoadReturnsStored

--------------------------------------------------------------------------------
(* Sums.  SumOf folds over a set in an order it chooses; the recursive     *)
(* function of the fold exists, by extension from the sets of n elements   *)
(* to those of n + 1, and the sum of the sizes of disjoint sets is the     *)
(* size of their union.                                                    *)

Pick(s) == CHOOSE x \in s : TRUE
SumAt(f, it, s) == IF s = {} THEN 0 ELSE f[Pick(s)] + it[s \ {Pick(s)}]

Sums(f, S, it) == it = [s \in SUBSET S |-> SumAt(f, it, s)]

LEMMA SumFold ==
  ASSUME NEW f
  PROVE  SumOf(f) = (CHOOSE it : Sums(f, DOMAIN f, it))[DOMAIN f]
  BY DEF SumOf, MapThenSumSet, MapThenFoldSet, Sums, SumAt, Pick

LEMMA SumExists ==
  ASSUME NEW f, NEW S, IsFiniteSet(S)
  PROVE  \E it : Sums(f, S, it)
<1> DEFINE Small(n) == {s \in SUBSET S : Cardinality(s) <= n}
           Good(n) == \E it : it = [s \in Small(n) |-> SumAt(f, it, s)]
<1>1. \A s \in SUBSET S : IsFiniteSet(s) /\ Cardinality(s) \in Nat /\ Cardinality(s) <= Cardinality(S)
  BY FS_Subset, FS_CardinalityType
<1>2. \A s \in SUBSET S : s # {} =>
        /\ Pick(s) \in s /\ s \ {Pick(s)} \in SUBSET S
        /\ Cardinality(s \ {Pick(s)}) = Cardinality(s) - 1
  <2> SUFFICES ASSUME NEW s \in SUBSET S, s # {}
               PROVE  /\ Pick(s) \in s /\ s \ {Pick(s)} \in SUBSET S
                      /\ Cardinality(s \ {Pick(s)}) = Cardinality(s) - 1
    OBVIOUS
  <2>1. Pick(s) \in s
    BY DEF Pick
  <2> QED
    BY <1>1, <2>1, FS_RemoveElement
<1>3. Good(0)
  <2> DEFINE it == [s \in Small(0) |-> 0]
  <2>1. \A s \in Small(0) : s = {}
    BY <1>1, FS_EmptySet
  <2>2. \A s \in Small(0) : SumAt(f, it, s) = 0
    BY <2>1 DEF SumAt
  <2>3. it = [s \in Small(0) |-> SumAt(f, it, s)]
    BY <2>2
  <2> QED
    BY <2>3
<1>4. ASSUME NEW n \in Nat, Good(n) PROVE Good(n + 1)
  <2>1. PICK it : it = [s \in Small(n) |-> SumAt(f, it, s)]
    BY <1>4
  <2> DEFINE up == [s \in Small(n + 1) |-> SumAt(f, it, s)]
  <2>2. ASSUME NEW s \in Small(n + 1), s # {} PROVE up[s \ {Pick(s)}] = it[s \ {Pick(s)}]
    <3> DEFINE u == s \ {Pick(s)}
    <3>1. u \in SUBSET S /\ Cardinality(u) = Cardinality(s) - 1 /\ Cardinality(s) \in Nat
      BY <1>1, <1>2, <2>2
    <3>2. u \in Small(n) /\ u \in Small(n + 1)
      BY <3>1
    <3> HIDE DEF u, Small
    <3> QED
      BY <2>1, <3>2 DEF u
  <2>3. \A s \in Small(n + 1) : SumAt(f, up, s) = SumAt(f, it, s)
    <3> HIDE DEF up, Small
    <3> QED
      BY <2>2 DEF SumAt
  <2> HIDE DEF Small
  <2>4. up = [s \in Small(n + 1) |-> SumAt(f, up, s)]
    BY <2>3
  <2> QED
    BY <2>4 DEF Small
<1>5. ASSUME NEW n \in Nat PROVE Good(n)
  <2> DEFINE Bad == {k \in Nat : ~Good(k)}
  <2> HIDE DEF Good
  <2> SUFFICES ASSUME Bad # {} PROVE FALSE
    OBVIOUS
  <2>1. PICK m \in Bad : \A k \in Bad : m <= k
    <3>1. Bad \subseteq Nat
      OBVIOUS
    <3> HIDE DEF Bad
    <3> QED
      BY <3>1, LeastNat
  <2>2. m # 0 /\ m - 1 \in Nat
    BY <1>3, <2>1
  <2>3. Good(m - 1)
    BY <2>1, <2>2
  <2>4. Good((m - 1) + 1)
    BY <1>4, <2>2, <2>3
  <2>5. (m - 1) + 1 = m
    BY <2>1
  <2> QED
    BY <2>1, <2>4, <2>5
<1>6. Cardinality(S) \in Nat /\ Small(Cardinality(S)) = SUBSET S
  BY <1>1, FS_CardinalityType
<1>7. Good(Cardinality(S))
  BY <1>5, <1>6
<1> QED
  BY <1>6, <1>7 DEF Sums

\* The sum of the sizes of disjoint sets.
LEMMA SumOfCounts ==
  ASSUME NEW S, IsFiniteSet(S), NEW P, NEW f, f = [x \in S |-> Cardinality(P[x])],
         \A x \in S : IsFiniteSet(P[x]),
         \A x \in S : \A y \in S : x # y => P[x] \cap P[y] = {}
  PROVE  SumOf(f) = Cardinality(UNION {P[x] : x \in S})
<1> DEFINE it == CHOOSE g : Sums(f, S, g)
           All(s) == UNION {P[x] : x \in s}
           Good(s) == IsFiniteSet(All(s)) /\ it[s] = Cardinality(All(s))
<1>1. Sums(f, S, it)
  <2>1. \E g : Sums(f, S, g)
    BY SumExists
  <2> QED
    BY <2>1, Zenon
<1>2. SumOf(f) = it[S]
  <2>1. DOMAIN f = S
    OBVIOUS
  <2> QED
    BY <2>1, SumFold
<1> HIDE DEF it
<1>3. \A s \in SUBSET S : it[s] = SumAt(f, it, s)
  BY <1>1 DEF Sums
<1>4. \A s \in SUBSET S : IsFiniteSet(s) /\ Cardinality(s) \in Nat
  BY FS_Subset, FS_CardinalityType
<1>5. ASSUME NEW s \in SUBSET S, \A u \in SUBSET S : Cardinality(u) < Cardinality(s) => Good(u)
      PROVE  Good(s)
  <2>1. CASE s = {}
    <3>1. All(s) = {} /\ it[s] = 0
      BY <1>3, <2>1 DEF SumAt
    <3> QED
      BY <3>1, FS_EmptySet
  <2>2. CASE s # {}
    <3> DEFINE x == Pick(s)
               u == s \ {x}
    <3>1. x \in s /\ x \in S /\ u \in SUBSET S
      BY <2>2 DEF Pick
    <3>2. Cardinality(u) < Cardinality(s)
      <4>1. Cardinality(u) = Cardinality(s) - 1
        <5> HIDE DEF x
        <5> QED
          BY <1>4, <3>1, FS_RemoveElement
      <4> QED
        BY <1>4, <4>1
    <3>3. Good(u)
      BY <1>5, <3>1, <3>2
    <3>4. it[s] = f[x] + it[u]
      BY <1>3, <2>2 DEF SumAt
    <3> HIDE DEF x
    <3>5. All(s) = P[x] \cup All(u)
      BY <3>1
    <3>6. P[x] \cap All(u) = {}
      BY <3>1
    <3>7. f[x] = Cardinality(P[x]) /\ IsFiniteSet(P[x])
      BY <3>1
    <3> HIDE DEF u, All
    <3>8. /\ IsFiniteSet(P[x] \cup All(u))
          /\ Cardinality(P[x] \cup All(u)) = Cardinality(P[x]) + Cardinality(All(u)) - Cardinality({})
      BY <3>3, <3>6, <3>7, FS_Union
    <3>9. Cardinality({}) = 0 /\ Cardinality(P[x]) \in Nat /\ Cardinality(All(u)) \in Nat
      BY <3>3, <3>7, FS_EmptySet, FS_CardinalityType
    <3> QED
      BY <3>3, <3>4, <3>5, <3>7, <3>8, <3>9
  <2> QED
    BY <2>1, <2>2
<1> HIDE DEF Good
<1>6. \A s \in SUBSET S : Good(s)
  <2> DEFINE Bad == {s \in SUBSET S : ~Good(s)}
             C == {Cardinality(s) : s \in Bad}
  <2> SUFFICES ASSUME Bad # {} PROVE FALSE
    OBVIOUS
  <2>1. C \subseteq Nat /\ C # {}
    BY <1>4
  <2>2. PICK m \in C : \A c \in C : m <= c
    BY <2>1, LeastNat
  <2>3. PICK s \in Bad : m = Cardinality(s)
    BY <2>2
  <2>4. ASSUME NEW u \in SUBSET S, Cardinality(u) < Cardinality(s) PROVE Good(u)
    <3> SUFFICES ASSUME u \in Bad PROVE FALSE
      OBVIOUS
    <3>1. Cardinality(s) <= Cardinality(u)
      BY <2>2, <2>3
    <3> QED
      BY <1>4, <2>3, <2>4, <3>1
  <2> QED
    BY <1>5, <2>3, <2>4
<1> QED
  BY <1>2, <1>6 DEF Good

--------------------------------------------------------------------------------
(* Rates.                                                                  *)

LEMMA DivBounds ==
  ASSUME NEW n \in Nat, NEW m \in Nat \ {0}
  PROVE  n \div m \in Nat /\ (n \div m) * m <= n /\ n < (n \div m) * m + m
  OBVIOUS

LEMMA TimesMonotone ==
  ASSUME NEW x \in Nat, NEW y \in Nat, NEW z \in Nat, x <= y
  PROVE  z * x \in Nat /\ z * x <= z * y
  OBVIOUS

LEMMA PercentNat ==
  ASSUME NEW x \in Nat, NEW y \in Nat
  PROVE  Percent(x, y) \in Nat
<1>1. 20000 * x + y \in Nat /\ 2 * y \in Nat
  OBVIOUS
<1>2. y # 0 => 2 * y # 0
  OBVIOUS
<1> QED
  BY <1>1, <1>2, DivBounds DEF Percent

\* All blocks signed is a rate of 100.00.
LEMMA PercentFull ==
  ASSUME NEW y \in Nat \ {0}
  PROVE  Percent(y, y) = 10000
<1> DEFINE q == (20000 * y + y) \div (2 * y)
<1>1. q \in Nat /\ q * (2 * y) <= 20000 * y + y /\ 20000 * y + y < q * (2 * y) + 2 * y
  BY DivBounds
<1> HIDE DEF q
<1>2. CASE q <= 9999
  <2>1. (2 * y) * q <= (2 * y) * 9999
    BY <1>1, <1>2, TimesMonotone
  <2> QED
    BY <1>1, <2>1
<1>3. CASE q >= 10001
  <2>1. (2 * y) * 10001 <= (2 * y) * q
    BY <1>1, <1>3, TimesMonotone
  <2> QED
    BY <1>1, <2>1
<1>4. q = 10000
  BY <1>1, <1>2, <1>3
<1> QED
  BY <1>4 DEF q, Percent

\* A part of fewer is not a smaller rate.
LEMMA PercentMonotone ==
  ASSUME NEW x \in Nat, NEW y \in Nat \ {0}, NEW z \in Nat, y <= z
  PROVE  Percent(x, z) <= Percent(x, y)
<1> DEFINE a == 20000 * x + z
           b == 20000 * x + y
           q == a \div (2 * z)
           p == b \div (2 * y)
<1>0. a \in Nat /\ b \in Nat /\ 2 * z \in Nat \ {0} /\ 2 * y \in Nat \ {0}
  OBVIOUS
<1> HIDE DEF a, b
<1>a. q \in Nat /\ q * (2 * z) <= a
  BY <1>0, DivBounds
<1>b. p \in Nat /\ b < p * (2 * y) + 2 * y
  BY <1>0, DivBounds
<1> HIDE DEF p, q
<1>1. q \in Nat /\ q * (2 * z) <= 20000 * x + z
  BY <1>a DEF a
<1>2. p \in Nat /\ 20000 * x + y < p * (2 * y) + 2 * y
  BY <1>b DEF b
<1>3. ASSUME q >= p + 1 PROVE FALSE
  <2> DEFINE k == 2 * q - 1
  <2>1. k \in Nat /\ k >= 2 * p + 1
    BY <1>1, <1>2, <1>3
  <2>2. k * z <= 20000 * x
    BY <1>1
  <2>3. k * y <= k * z
    BY <2>1, TimesMonotone
  <2>4. y * (2 * p + 1) <= y * k
    BY <1>2, <2>1, TimesMonotone
  <2>5. 20000 * x < y * (2 * p + 1)
    BY <1>2
  <2> HIDE DEF k
  <2>6. k * z \in Nat /\ k * y \in Nat /\ y * k = k * y /\ y * (2 * p + 1) \in Nat
    BY <1>2, <2>1
  <2> QED
    BY <2>2, <2>3, <2>4, <2>5, <2>6
<1>4. q <= p
  BY <1>1, <1>2, <1>3
<1> QED
  BY <1>4 DEF p, q, a, b, Percent

--------------------------------------------------------------------------------
(* The figures of one validator.                                           *)

\* The streaks partition the missed heights.
LEMMA RunsPartition ==
  ASSUME NEW d, DbOK(d), NEW a, NEW w
  PROVE  LET hs == InWindow(d, w)
             M == Missed(d, a, w)
             MR == MaximalRuns(hs, M)
         IN  /\ M \in SUBSET hs /\ M \subseteq Nat /\ IsFiniteSet(M) /\ IsFiniteSet(MR)
             /\ \A R \in MR : R \in SUBSET M /\ R # {} /\ Between(hs, R) = R
             /\ \A R \in MR : \A Q \in MR : R # Q => R \cap Q = {}
             /\ UNION MR = M
<1> DEFINE hs == InWindow(d, w)
           V == Voted(LeftJoin(d, hs, a))
           M == Missed(d, a, w)
           MR == MaximalRuns(hs, M)
<1>1. hs \subseteq Nat /\ IsFiniteSet(hs) /\ M \in SUBSET hs /\ MR = {Island(V, M, m) : m \in M}
  BY WindowRuns
<1> HIDE DEF hs, V, M
<1>2. IsFiniteSet(M)
  BY <1>1, FS_Subset
<1>3. \A R \in MR : R \in SUBSET M /\ R # {} /\ Between(hs, R) = R
  BY DEF MaximalRuns, Runs
<1>4. MR \in SUBSET (SUBSET M)
  BY <1>3
<1>5. IsFiniteSet(MR)
  BY <1>2, <1>4, FS_SUBSET, FS_Subset
<1>6. \A R \in MR : \A Q \in MR : R # Q => R \cap Q = {}
  BY <1>1 DEF Island
<1>7. UNION MR = M
  <2>1. \A m \in M : m \in Island(V, M, m)
    BY DEF Island
  <2>2. \A m \in M : \E R \in MR : m \in R
    BY <1>1, <2>1
  <2> QED
    BY <1>3, <2>2
<1> QED
  BY <1>1, <1>2, <1>3, <1>5, <1>6, <1>7 DEF hs, M

\* GetValidatorSigningEfficiency and GetValidatorUptime count the same heights.
LEMMA SigningFigures ==
  ASSUME NEW d, DbOK(d), NEW a, NEW w
  PROVE  LET hs == InWindow(d, w)
             e == Signing(Cardinality(hs), Cardinality(Signed(d, hs, a)))
         IN  /\ GetValidatorSigningEfficiency(d, a, w) = e
             /\ GetValidatorUptime(d, a, w) = e
             /\ IsFiniteSet(hs) /\ Cardinality(hs) \in Nat
             /\ IsFiniteSet(Signed(d, hs, a)) /\ Cardinality(Signed(d, hs, a)) \in Nat
             /\ Cardinality(hs) - Cardinality(Signed(d, hs, a)) = Cardinality(Missed(d, a, w))
             /\ Cardinality(Missed(d, a, w)) \in Nat
<1> DEFINE hs == InWindow(d, w)
           rows == LeftJoin(d, hs, a)
           cast == [h \in hs |-> Cardinality(VotesAt(d, h, a))]
<1>1. hs \in SUBSET DOMAIN d.heights
  BY DEF InWindow
<1>2. IsFiniteSet(hs) /\ IsFiniteSet(Signed(d, hs, a))
  BY <1>1, FS_Subset DEF DbOK, Signed
<1>3. \A h : Cardinality(VotesAt(d, h, a)) > 0 <=> VotesAt(d, h, a) # {}
  <2>1. \A h : IsFiniteSet(VotesAt(d, h, a))
    BY FS_Subset DEF VotesAt, DbOK
  <2> QED
    BY <2>1, FS_EmptySet, FS_CardinalityType
<1>4. DOMAIN cast = hs /\ {h \in DOMAIN cast : cast[h] > 0} = Signed(d, hs, a)
  BY <1>3 DEF Signed
<1>5. GetValidatorSigningEfficiency(d, a, w)
        = Signing(Cardinality(DOMAIN cast), Cardinality({h \in DOMAIN cast : cast[h] > 0}))
  BY DEF GetValidatorSigningEfficiency
<1>6. HeightsOf(rows) = hs /\ HeightsOf(Voted(rows)) = Signed(d, hs, a)
  <2> HIDE DEF hs
  <2> QED
    BY <1>1, JoinRows
<1>7. GetValidatorUptime(d, a, w) = Signing(Cardinality(HeightsOf(rows)), Cardinality(HeightsOf(Voted(rows))))
  BY DEF GetValidatorUptime
<1>8. Missed(d, a, w) = hs \ Signed(d, hs, a) /\ hs \cap Signed(d, hs, a) = Signed(d, hs, a)
  BY DEF Missed, Signed
<1> HIDE DEF hs, rows, cast
<1>9. /\ Cardinality(Missed(d, a, w)) = Cardinality(hs) - Cardinality(Signed(d, hs, a))
      /\ IsFiniteSet(Missed(d, a, w))
  BY <1>2, <1>8, FS_Difference
<1>10. /\ Cardinality(hs) \in Nat /\ Cardinality(Signed(d, hs, a)) \in Nat
       /\ Cardinality(Missed(d, a, w)) \in Nat
  BY <1>2, <1>9, FS_CardinalityType
<1> QED
  BY <1>2, <1>4, <1>5, <1>6, <1>7, <1>9, <1>10 DEF hs

\* The longest streak and the sum of the streaks against the missed blocks.
LEMMA StreakFigures ==
  ASSUME NEW d, DbOK(d), NEW a, NEW w
  PROVE  LET S == GetValidatorMissedBlockStreaks(d, a, w)
             n == Cardinality(Missed(d, a, w))
         IN  /\ Longest(S) <= n /\ (Longest(S) = 0 <=> n = 0)
             /\ SumOf([s \in S |-> s.misses]) = n
<1> DEFINE hs == InWindow(d, w)
           M == Missed(d, a, w)
           MR == MaximalRuns(hs, M)
           S == GetValidatorMissedBlockStreaks(d, a, w)
<1>1. /\ M \in SUBSET hs /\ M \subseteq Nat /\ IsFiniteSet(M) /\ IsFiniteSet(MR)
      /\ \A R \in MR : R \in SUBSET M /\ R # {} /\ Between(hs, R) = R
      /\ \A R \in MR : \A Q \in MR : R # Q => R \cap Q = {}
      /\ UNION MR = M
  BY RunsPartition
<1>2. S = {Streak(R) : R \in MR}
  BY StreaksAreRuns
<1> HIDE DEF hs, M, MR, S
<1>3. \A R \in MR : /\ Streak(R).misses = Cardinality(R)
                    /\ Streak(R).start = Min(R) /\ Streak(R).end = Max(R)
  BY DEF Streak
<1>4. ASSUME NEW R \in MR
      PROVE  IsFiniteSet(R) /\ Cardinality(R) \in Nat /\ Cardinality(R) > 0
             /\ Cardinality(R) <= Cardinality(M)
  <2>1. IsFiniteSet(R) /\ Cardinality(R) <= Cardinality(M)
    BY <1>1, FS_Subset
  <2> QED
    BY <1>1, <2>1, FS_CardinalityType, FS_EmptySet
<1>5. Cardinality(M) \in Nat /\ (Cardinality(M) = 0 <=> M = {})
  BY <1>1, FS_CardinalityType, FS_EmptySet
<1>6. M = {} <=> S = {}
  <2>1. ASSUME M = {} PROVE MR = {}
    <3>1. \A R \in MR : R # {} /\ R \subseteq M
      BY <1>1
    <3> QED
      BY <2>1, <3>1
  <2>2. ASSUME M # {} PROVE MR # {}
    <3>1. PICK m \in M : TRUE
      BY <2>2
    <3>2. m \in UNION MR
      BY <1>1
    <3> QED
      BY <3>2
  <2> QED
    BY <1>2, <2>1, <2>2
<1>7. IsFiniteSet(S)
  <2> DEFINE f == [R \in MR |-> Streak(R)]
  <2>1. DOMAIN f = MR /\ f = [R \in MR |-> f[R]] /\ S = {f[R] : R \in MR}
    BY <1>2
  <2> HIDE DEF f
  <2> QED
    BY <1>1, <2>1, FiniteImage
<1>8. Longest(S) <= Cardinality(M) /\ (Longest(S) = 0 <=> Cardinality(M) = 0)
  <2>1. CASE S = {}
    BY <1>5, <1>6, <2>1 DEF Longest
  <2>2. CASE S # {}
    <3> DEFINE T == {s.misses : s \in S}
               g == [s \in S |-> s.misses]
    <3>1. \A s \in S : s.misses \in Nat /\ s.misses > 0 /\ s.misses <= Cardinality(M)
      BY <1>2, <1>3, <1>4
    <3>2. T \subseteq Nat /\ T # {}
      BY <2>2, <3>1
    <3>3. IsFiniteSet(T)
      <4>1. T = {g[s] : s \in S} /\ DOMAIN g = S /\ g = [s \in S |-> g[s]]
        OBVIOUS
      <4> HIDE DEF g, T
      <4> QED
        BY <1>7, <4>1, FiniteImage
    <3>4. Max(T) \in T
      BY <3>2, <3>3, MaxMin
    <3>5. Max(T) \in Nat /\ Max(T) > 0 /\ Max(T) <= Cardinality(M)
      BY <3>1, <3>4
    <3>6. Longest(S) = Max(T)
      BY <2>2 DEF Longest
    <3> HIDE DEF T
    <3> QED
      BY <1>5, <1>6, <2>2, <3>5, <3>6
  <2> QED
    BY <2>1, <2>2
<1>9. SumOf([s \in S |-> s.misses]) = Cardinality(M)
  <2> DEFINE P == [s \in S |-> {h \in M : s.start <= h /\ h <= s.end}]
             f == [s \in S |-> s.misses]
  <2>1. ASSUME NEW R \in MR PROVE P[Streak(R)] = R
    <3>1. Streak(R) \in S
      BY <1>2
    <3>2. P[Streak(R)] = {h \in M : Min(R) <= h /\ h <= Max(R)}
      BY <1>3, <3>1
    <3>3. R = {h \in hs : Min(R) <= h /\ h <= Max(R)} /\ R \in SUBSET M
      BY <1>1 DEF Between
    <3> QED
      BY <1>1, <3>2, <3>3, ZenonT(60)
  <2> HIDE DEF P
  <2>2. \A s \in S : IsFiniteSet(P[s]) /\ s.misses = Cardinality(P[s])
    BY <1>2, <1>3, <1>4, <2>1
  <2>3. \A s \in S : \A t \in S : s # t => P[s] \cap P[t] = {}
    BY <1>1, <1>2, <2>1
  <2>4. UNION {P[s] : s \in S} = M
    <3>1. {P[s] : s \in S} = MR
      BY <1>2, <2>1
    <3> QED
      BY <1>1, <3>1
  <2>5. f = [s \in S |-> Cardinality(P[s])]
    BY <2>2
  <2> HIDE DEF f
  <2>6. SumOf(f) = Cardinality(UNION {P[s] : s \in S})
    BY <1>7, <2>2, <2>3, <2>5, SumOfCounts
  <2> QED
    BY <2>4, <2>6 DEF f
<1> QED
  BY <1>8, <1>9 DEF M, S

\* A validator with a vote in one of the counted rounds signed a block.
LEMMA ParticipationSigned ==
  ASSUME NEW d, DbOK(d), NEW a, NEW w,
         LET p == GetValidatorConsensusParticipation(d, a, w)
         IN  p.prevotes + p.precommits > 0
  PROVE  Cardinality(Signed(d, InWindow(d, w), a)) > 0
<1> DEFINE hs == InWindow(d, w)
           groups == {hr \in DOMAIN d.rounds : hr[1] \in hs}
           with(t) == {hr \in groups : <<hr[1], hr[2], a, t>> \in DOMAIN d.votes}
           p == GetValidatorConsensusParticipation(d, a, w)
<1>1. p.prevotes = Cardinality(with(Prevote)) /\ p.precommits = Cardinality(with(Precommit))
  BY DEF GetValidatorConsensusParticipation
<1>2. \A t : IsFiniteSet(with(t)) /\ Cardinality(with(t)) \in Nat
  BY FS_Subset, FS_CardinalityType DEF DbOK
<1>3. with(Prevote) # {} \/ with(Precommit) # {}
  <2> HIDE DEF with
  <2> QED
    BY <1>1, <1>2, FS_EmptySet
<1>4. PICK t, hr : hr \in with(t)
  BY <1>3
<1>5. hr[1] \in hs /\ <<hr[1], hr[2], a, t>> \in VotesAt(d, hr[1], a)
  BY <1>4 DEF VotesAt
<1>6. hr[1] \in Signed(d, hs, a)
  BY <1>5 DEF Signed
<1>7. IsFiniteSet(Signed(d, hs, a)) /\ Cardinality(Signed(d, hs, a)) \in Nat
  BY SigningFigures
<1> QED
  BY <1>6, <1>7, FS_EmptySet

--------------------------------------------------------------------------------
(* The performance report.  Until the monitor writes, every figure of the  *)
(* report is what its query answers on the tables as they still are; the   *)
(* command reaches its later queries only with at least one block.         *)

\* The queries after the first one, and the end of a command that printed.
After(stages) == cli \in stages \/ (cli = "exit" /\ report.result = "printed")

\* The fields a report has at each query.
ReportShape ==
  /\ {"cmd", "arg", "result"} \subseteq DOMAIN report
  /\ cli = "idle" => report = Blank
  /\ report.cmd = "performance" =>
       cli \in {"efficiency", "participation", "streaks", "detail", "uptime", "exit"}
  /\ cli \in {"participation", "streaks", "detail", "uptime"} =>
       {"total", "signed", "missed", "rate"} \subseteq DOMAIN report
  /\ cli \in {"streaks", "detail", "uptime"} => "part" \in DOMAIN report
  /\ cli \in {"detail", "uptime"} => "longest" \in DOMAIN report
  /\ cli \in {"efficiency", "participation", "streaks", "detail"} => "detail" \notin DOMAIN report
  /\ cli \in {"efficiency", "participation", "streaks", "detail", "uptime"} =>
       "up" \notin DOMAIN report

\* What they hold while nobody writes.
ReportFigures ==
  (report.cmd = "performance" /\ races = 0) =>
    LET e == GetValidatorSigningEfficiency(db, report.arg, Window)
        streaks == GetValidatorMissedBlockStreaks(db, report.arg, Window)
    IN  /\ After({"participation", "streaks", "detail", "uptime"}) =>
             /\ report.total = e.total /\ report.signed = e.signed
             /\ report.missed = e.missed /\ report.rate = e.rate
        /\ After({"streaks", "detail", "uptime"}) =>
             report.part = GetValidatorConsensusParticipation(db, report.arg, Window)
        /\ After({"detail", "uptime"}) =>
             report.longest = Longest(streaks) /\ report.total # 0
        /\ (After({"uptime"}) /\ "detail" \in DOMAIN report /\ report.detail # {}) =>
             report.detail = streaks
        /\ (After({}) /\ "up" \in DOMAIN report) =>
             report.up = GetValidatorUptime(db, report.arg, Window)

PerformanceInv == ReportShape /\ ReportFigures

LEMMA InitPerformance == Init => PerformanceInv
  BY DEF Init, PerformanceInv, ReportShape, ReportFigures, Blank, After

\* A write during a command counts as a race, so it promises nothing more.
LEMMA WritePerformance ==
  ASSUME TableInv, PerformanceInv, Write
  PROVE  PerformanceInv'
<1>1. cli' = cli /\ report' = report /\ cli # "exit"
  BY DEF Write
<1>2. cli = "idle" \/ races' # 0
  BY DEF Write, TableInv, TypeOK
<1>3. cli = "idle" => report'.cmd # "performance"
  BY <1>1 DEF PerformanceInv, ReportShape, Blank
<1>4. ~(report'.cmd = "performance" /\ races' = 0)
  BY <1>1, <1>2, <1>3 DEF PerformanceInv, ReportShape
<1> QED
  BY <1>1, <1>4 DEF PerformanceInv, ReportShape, ReportFigures

\* The fields of the first query.
LEMMA SigningFields ==
  ASSUME NEW d, NEW a, NEW w
  PROVE  DOMAIN GetValidatorSigningEfficiency(d, a, w) = {"total", "signed", "missed", "rate"}
  BY DEF GetValidatorSigningEfficiency, Signing

LEMMA CliPerformance ==
  ASSUME PerformanceInv, Cli
  PROVE  PerformanceInv'
<1>r. races' = races /\ db' = db
  BY DEF Cli, Reading, Run, QueryFails, QueryEfficiency, QueryParticipation, db, tables,
         GetSigningEfficiency, GetMissedBlockStreaks, GetUptime, PrintValidatorRankings,
         PrintPerformanceTimeSeries, PrintDatabaseSummary, DiagnoseValidatorData
<1>s. ReportShape
  BY DEF PerformanceInv
\* A step that ends the command without having printed a performance report.
<1>e. ASSUME {"cmd", "arg", "result"} \subseteq DOMAIN report', cli' = "exit",
             report'.cmd # "performance" \/ report'.result # "printed"
      PROVE  PerformanceInv'
  BY <1>e DEF PerformanceInv, ReportShape, ReportFigures, After
<1>1. ASSUME NEW cmd \in Commands, Run(cmd, Subject) PROVE PerformanceInv'
  <2>1. /\ DOMAIN report' = {"cmd", "arg", "result"}
        /\ report'.cmd = cmd
        /\ \/ report'.result = "error" /\ cli' = "exit"
           \/ cli' = IF cmd = "performance" THEN "efficiency" ELSE cmd
    BY <1>1 DEF Run
  <2>2. CASE report'.result = "error" /\ cli' = "exit"
    BY <1>e, <2>1, <2>2
  <2>3. CASE cli' = IF cmd = "performance" THEN "efficiency" ELSE cmd
    BY <2>1, <2>3 DEF Commands, PerformanceInv, ReportShape, ReportFigures, After
  <2> QED
    BY <2>1, <2>2, <2>3
<1>2. ASSUME QueryFails PROVE PerformanceInv'
  <2>1. report' = [report EXCEPT !.result = "error"] /\ cli' = "exit"
    BY <1>2 DEF QueryFails, Finish
  <2>2. DOMAIN report' = DOMAIN report /\ report'.result = "error"
    BY <1>s, <2>1 DEF ReportShape
  <2> QED
    BY <1>e, <1>s, <2>1, <2>2 DEF ReportShape
<1>3. ASSUME QueryEfficiency PROVE PerformanceInv'
  <2> DEFINE e == GetValidatorSigningEfficiency(db, report.arg, Window)
  <2>1. cli = "efficiency" /\ report' = Over(e, report) /\ cli' = "participation"
    BY <1>3 DEF QueryEfficiency, Found
  <2>2. DOMAIN e = {"total", "signed", "missed", "rate"}
    BY SigningFields
  <2> HIDE DEF e
  <2>3. /\ DOMAIN report' = DOMAIN e \cup DOMAIN report
        /\ report'.total = e.total /\ report'.signed = e.signed
        /\ report'.missed = e.missed /\ report'.rate = e.rate
        /\ report'.cmd = report.cmd /\ report'.arg = report.arg
    BY <1>s, <2>1, <2>2 DEF ReportShape, Over
  <2>4. ReportShape'
    BY <1>s, <2>1, <2>2, <2>3 DEF ReportShape
  <2>5. ReportFigures'
    BY <1>r, <2>1, <2>3 DEF ReportFigures, After, e
  <2> QED
    BY <2>4, <2>5 DEF PerformanceInv
<1>4. ASSUME QueryParticipation PROVE PerformanceInv'
  <2> DEFINE q == GetValidatorConsensusParticipation(db, report.arg, Window)
             f == [part |-> q]
  <2>1. cli = "participation" /\ report' = Over(f, report) /\ cli' = "streaks"
    BY <1>4 DEF QueryParticipation, Found
  <2>2. DOMAIN f = {"part"} /\ f.part = q
    OBVIOUS
  <2> HIDE DEF f, q
  <2>3. /\ DOMAIN report' = DOMAIN f \cup DOMAIN report /\ report'.part = q
        /\ report'.total = report.total /\ report'.signed = report.signed
        /\ report'.missed = report.missed /\ report'.rate = report.rate
        /\ report'.cmd = report.cmd /\ report'.arg = report.arg
    BY <1>s, <2>1, <2>2 DEF ReportShape, Over
  <2>4. ReportShape'
    BY <1>s, <2>1, <2>2, <2>3 DEF ReportShape
  <2>5. ReportFigures'
    BY <1>r, <2>1, <2>3 DEF PerformanceInv, ReportFigures, After, q
  <2> QED
    BY <2>4, <2>5 DEF PerformanceInv
<1>5. ASSUME GetSigningEfficiency PROVE PerformanceInv'
  <2> DEFINE l == Longest(GetValidatorMissedBlockStreaks(db, report.arg, Window))
             f == [longest |-> l, result |-> IF report.total = 0 THEN "no data" ELSE report.result]
  <2>1. /\ cli = "streaks" /\ report' = Over(f, report)
        /\ cli' = IF report.total = 0 THEN "exit" ELSE IF l > 0 THEN "detail" ELSE "uptime"
    BY <1>5 DEF GetSigningEfficiency
  <2>2. /\ DOMAIN f = {"longest", "result"} /\ f.longest = l
        /\ report.total = 0 => f.result = "no data"
    OBVIOUS
  <2> HIDE DEF f, l
  <2>3. /\ DOMAIN report' = DOMAIN f \cup DOMAIN report /\ report'.longest = l
        /\ report'.total = report.total /\ report'.signed = report.signed
        /\ report'.missed = report.missed /\ report'.rate = report.rate
        /\ report'.part = report.part /\ report'.result = f.result
        /\ report'.cmd = report.cmd /\ report'.arg = report.arg
    BY <1>s, <2>1, <2>2 DEF ReportShape, Over
  <2>4. CASE report.total = 0
    BY <1>e, <1>s, <2>1, <2>2, <2>3, <2>4 DEF ReportShape
  <2>5. CASE report.total # 0
    <3>1. ReportShape'
      BY <1>s, <2>1, <2>2, <2>3, <2>5 DEF ReportShape
    <3>2. "detail" \notin DOMAIN report' /\ "up" \notin DOMAIN report'
      BY <1>s, <2>1, <2>2, <2>3 DEF ReportShape
    <3>3. ReportFigures'
      BY <1>r, <2>1, <2>3, <2>5, <3>2 DEF PerformanceInv, ReportFigures, After, l
    <3> QED
      BY <3>1, <3>3 DEF PerformanceInv
  <2> QED
    BY <2>4, <2>5
<1>6. ASSUME GetMissedBlockStreaks PROVE PerformanceInv'
  <2> DEFINE streaks == GetValidatorMissedBlockStreaks(db, report.arg, Window)
  <2>1. PICK D \in {streaks, {}} : report' = Over([detail |-> D], report)
    BY <1>6 DEF GetMissedBlockStreaks, Found
  <2>2. cli = "detail" /\ cli' = "uptime"
    BY <1>6 DEF GetMissedBlockStreaks, Found
  <2> DEFINE f == [detail |-> D]
  <2>3. DOMAIN f = {"detail"} /\ f.detail = D /\ report' = Over(f, report)
    BY <2>1
  <2> HIDE DEF f, streaks
  <2>4. /\ DOMAIN report' = DOMAIN f \cup DOMAIN report /\ report'.detail = D
        /\ report'.total = report.total /\ report'.signed = report.signed
        /\ report'.missed = report.missed /\ report'.rate = report.rate
        /\ report'.part = report.part /\ report'.longest = report.longest
        /\ report'.cmd = report.cmd /\ report'.arg = report.arg
    BY <1>s, <2>2, <2>3 DEF ReportShape, Over
  <2>5. ReportShape'
    BY <1>s, <2>2, <2>3, <2>4 DEF ReportShape
  <2>6. ReportFigures'
    BY <1>r, <2>1, <2>2, <2>4 DEF PerformanceInv, ReportFigures, After, streaks
  <2> QED
    BY <2>5, <2>6 DEF PerformanceInv
<1>7. ASSUME GetUptime PROVE PerformanceInv'
  <2> DEFINE u == GetValidatorUptime(db, report.arg, Window)
             f == [result |-> "printed", up |-> u]
  <2>1. /\ cli = "uptime" /\ cli' = "exit"
        /\ report' = Over(f, report) \/ report' = [report EXCEPT !.result = "printed"]
    BY <1>7 DEF GetUptime
  <2>2. DOMAIN f = {"result", "up"} /\ f.result = "printed" /\ f.up = u
    OBVIOUS
  <2> HIDE DEF f, u
  <2>3. /\ DOMAIN report' \in {DOMAIN f \cup DOMAIN report, DOMAIN report}
        /\ "up" \in DOMAIN report' => report'.up = u
        /\ report'.total = report.total /\ report'.signed = report.signed
        /\ report'.missed = report.missed /\ report'.rate = report.rate
        /\ report'.part = report.part /\ report'.longest = report.longest
        /\ report'.cmd = report.cmd /\ report'.arg = report.arg
        /\ "detail" \in DOMAIN report' => "detail" \in DOMAIN report /\ report'.detail = report.detail
    <3>1. CASE report' = Over(f, report)
      BY <1>s, <2>1, <2>2, <3>1 DEF ReportShape, Over
    <3>2. CASE report' = [report EXCEPT !.result = "printed"]
      BY <1>s, <2>1, <3>2 DEF ReportShape
    <3> QED
      BY <2>1, <3>1, <3>2
  <2>4. ReportShape'
    BY <1>s, <2>1, <2>2, <2>3 DEF ReportShape
  <2>5. ReportFigures'
    BY <1>r, <2>1, <2>3 DEF PerformanceInv, ReportFigures, After, u
  <2> QED
    BY <2>4, <2>5 DEF PerformanceInv
<1>8. ASSUME PrintValidatorRankings \/ PrintPerformanceTimeSeries PROVE PerformanceInv'
  <2>1. /\ cli \in {"rankings", "timeseries"} /\ cli' = "exit"
        /\ \E x : report' = [report EXCEPT !.result = x]
    BY <1>8 DEF PrintValidatorRankings, PrintPerformanceTimeSeries, Finish
  <2>2. DOMAIN report' = DOMAIN report /\ report'.cmd = report.cmd /\ report.cmd # "performance"
    BY <1>s, <2>1 DEF ReportShape
  <2> QED
    BY <1>e, <1>s, <2>1, <2>2 DEF ReportShape
<1>9. ASSUME PrintDatabaseSummary \/ DiagnoseValidatorData PROVE PerformanceInv'
  <2>1. /\ cli \in {"debug", "diagnose"} /\ cli' = "exit"
        /\ \E f : report' = Over(f, report) /\ "cmd" \notin DOMAIN f
    <3>1. CASE PrintDatabaseSummary
      <4> DEFINE f == [result |-> "printed", heights |-> CountHeights(db),
                       rounds |-> CountRounds(db), votes |-> CountVotes(db),
                       validators |-> CountValidators(db),
                       snapshots |-> CountValidatorSnapshots(db)]
      <4>1. "cmd" \notin DOMAIN f
        OBVIOUS
      <4>2. cli = "debug" /\ cli' = "exit" /\ report' = Over(f, report)
        BY <3>1 DEF PrintDatabaseSummary
      <4> HIDE DEF f
      <4> QED
        BY <4>1, <4>2
    <3>2. CASE DiagnoseValidatorData
      <4> DEFINE f == [exists |-> ValidatorExistsByOperator(db, report.arg),
                       blocks |-> CountHeightsInTimeWindow(db, Window),
                       cast |-> CountVotesForValidatorInTimeWindow(db, report.arg, Window),
                       result |-> IF SampleVotesForValidator(db, report.arg, 5) = <<>>
                                  THEN "no votes" ELSE "printed"]
      <4>1. "cmd" \notin DOMAIN f
        OBVIOUS
      <4>2. cli = "diagnose" /\ cli' = "exit" /\ report' = Over(f, report)
        BY <3>2 DEF DiagnoseValidatorData
      <4> HIDE DEF f
      <4> QED
        BY <4>1, <4>2
    <3> QED
      BY <1>9, <3>1, <3>2
  <2>2. /\ DOMAIN report \subseteq DOMAIN report' /\ report'.cmd = report.cmd
        /\ report.cmd # "performance"
    BY <1>s, <2>1 DEF ReportShape, Over
  <2> QED
    BY <1>e, <1>s, <2>1, <2>2 DEF ReportShape
<1> QED
  BY <1>1, <1>2, <1>3, <1>4, <1>5, <1>6, <1>7, <1>8, <1>9 DEF Cli

\* Every step keeps the tables and the report together.
LEMMA StepPerformance ==
  TableInv /\ PerformanceInv /\ [Next]_vars => PerformanceInv'
<1> SUFFICES ASSUME TableInv, PerformanceInv, [Next]_vars PROVE PerformanceInv'
  OBVIOUS
<1>1. CASE Monitor
  <2>1. Write
    BY <1>1 DEF Monitor, StoreValidators, StoreRoundData, CleanupStart, DeleteVotesOlderThan,
                DeleteValidatorSnapshotsOlderThan, DeleteRoundsOlderThan, DeleteHeightsOlderThan
  <2> QED
    BY <2>1, WritePerformance
<1>2. CASE Cli
  BY <1>2, CliPerformance
<1>3. CASE UNCHANGED vars
  <2>1. db' = db /\ cli' = cli /\ report' = report /\ races' = races
    BY <1>3 DEF vars, tables, db
  <2> QED
    BY <2>1 DEF PerformanceInv, ReportShape, ReportFigures, After
<1> QED
  BY <1>1, <1>2, <1>3 DEF Next

\* The streaks of a report add up to its missed blocks, its longest streak is
\* one of them, and its rate and uptime come from the same counts.
LEMMA PerformanceFollows == TableInv /\ PerformanceInv => PerformanceCoherent
<1> SUFFICES ASSUME TableInv, PerformanceInv,
                    cli = "exit", report.cmd = "performance", report.result = "printed", races = 0
             PROVE  /\ report.longest <= report.missed /\ (report.longest = 0 <=> report.missed = 0)
                    /\ (report.missed = 0 => report.rate = 10000)
                    /\ (report.part.prevotes + report.part.precommits > 0 => report.signed > 0)
                    /\ ("detail" \in DOMAIN report /\ report.detail # {}) =>
                          /\ report.longest = Longest(report.detail)
                          /\ report.missed = SumOf([s \in report.detail |-> s.misses])
                    /\ "up" \in DOMAIN report => /\ report.up.total = report.total
                                                 /\ report.up.signed = report.signed
  BY DEF PerformanceCoherent
<1> DEFINE a == report.arg
           hs == InWindow(db, Window)
           total == Cardinality(hs)
           signed == Cardinality(Signed(db, hs, a))
           missed == Cardinality(Missed(db, a, Window))
           streaks == GetValidatorMissedBlockStreaks(db, a, Window)
           e == GetValidatorSigningEfficiency(db, a, Window)
           part == GetValidatorConsensusParticipation(db, a, Window)
           up == GetValidatorUptime(db, a, Window)
<1>1. DbOK(db)
  BY DbTyped
<1>2. /\ report.total = e.total /\ report.signed = e.signed
      /\ report.missed = e.missed /\ report.rate = e.rate
      /\ report.part = part /\ report.longest = Longest(streaks) /\ report.total # 0
      /\ ("detail" \in DOMAIN report /\ report.detail # {}) => report.detail = streaks
      /\ "up" \in DOMAIN report => report.up = up
  BY DEF PerformanceInv, ReportFigures, After
<1>3. /\ e = Signing(total, signed) /\ up = Signing(total, signed)
      /\ total \in Nat /\ signed \in Nat /\ missed \in Nat /\ total - signed = missed
  BY <1>1, SigningFigures
<1>4. /\ Longest(streaks) <= missed /\ (Longest(streaks) = 0 <=> missed = 0)
      /\ SumOf([s \in streaks |-> s.misses]) = missed
  BY <1>1, StreakFigures
<1>5. part.prevotes + part.precommits > 0 => signed > 0
  BY <1>1, ParticipationSigned
<1> HIDE DEF a, hs, total, signed, missed, streaks, e, part, up
<1>6. /\ e.total = total /\ e.signed = signed /\ e.missed = missed
      /\ e.rate = Percent(signed, total)
      /\ up.total = total /\ up.signed = signed
  BY <1>3 DEF Signing
<1>7. missed = 0 => Percent(signed, total) = 10000
  <2>1. total # 0
    BY <1>2, <1>6
  <2>2. missed = 0 => signed = total
    BY <1>3
  <2> QED
    BY <1>3, <2>1, <2>2, PercentFull
<1> QED
  BY <1>2, <1>4, <1>5, <1>6, <1>7

\* A performance report printed while nobody wrote is consistent in itself.
THEOREM PerformanceCorrect == Spec => []PerformanceCoherent
<1>1. Init => PerformanceInv
  BY InitPerformance
<1>2. TableInv /\ PerformanceInv /\ [Next]_vars => PerformanceInv'
  BY StepPerformance
<1>3. TableInv /\ PerformanceInv => PerformanceCoherent
  BY PerformanceFollows
<1> QED
  BY <1>1, <1>2, <1>3, TablesInvariant, PTL DEF Spec

--------------------------------------------------------------------------------
(* The rankings.                                                           *)

Better(m, b, a) == \/ m[b].rate > m[a].rate
                   \/ m[b].rate = m[a].rate /\ m[b].power > m[a].power

\* RANK() orders the validators by rate, then power: those in front of a better
\* one are a proper part of those in front of a worse one.
LEMMA RankOrder ==
  ASSUME NEW m, IsFiniteSet(DOMAIN m),
         \A x \in DOMAIN m : m[x].rate \in Nat /\ m[x].power \in Nat,
         NEW a \in DOMAIN m, NEW b \in DOMAIN m
  PROVE  EfficiencyRank(m, b) < EfficiencyRank(m, a) <=> Better(m, b, a)
<1> DEFINE Ahead(x) == {y \in DOMAIN m : Better(m, y, x)}
<1>1. \A x : EfficiencyRank(m, x) = 1 + Cardinality(Ahead(x))
  BY DEF EfficiencyRank, Better
<1>2. \A x : IsFiniteSet(Ahead(x)) /\ Cardinality(Ahead(x)) \in Nat
  BY FS_Subset, FS_CardinalityType
<1>3. ASSUME NEW x \in DOMAIN m, NEW y \in DOMAIN m, Better(m, x, y)
      PROVE  Cardinality(Ahead(x)) < Cardinality(Ahead(y))
  <2>1. \A z \in DOMAIN m : Better(m, z, x) => Better(m, z, y)
    BY <1>3 DEF Better
  <2>2. ~Better(m, x, x)
    BY DEF Better
  <2>3. Ahead(x) \in SUBSET Ahead(y) /\ Ahead(x) # Ahead(y)
    BY <1>3, <2>1, <2>2
  <2> HIDE DEF Ahead
  <2> QED
    BY <1>2, <2>3, FS_Subset
<1>4. ASSUME ~Better(m, a, b), ~Better(m, b, a) PROVE Ahead(a) = Ahead(b)
  <2>1. m[a].rate = m[b].rate /\ m[a].power = m[b].power
    BY <1>4 DEF Better
  <2> QED
    BY <2>1 DEF Better
<1> HIDE DEF Ahead
<1>5. CASE Better(m, b, a)
  BY <1>1, <1>2, <1>3, <1>5
<1>6. CASE Better(m, a, b)
  <2>1. Cardinality(Ahead(a)) < Cardinality(Ahead(b))
    BY <1>3, <1>6
  <2>2. ~Better(m, b, a)
    BY <1>6 DEF Better
  <2> QED
    BY <1>1, <1>2, <2>1, <2>2
<1>7. CASE ~Better(m, a, b) /\ ~Better(m, b, a)
  BY <1>1, <1>2, <1>4, <1>7
<1> QED
  BY <1>5, <1>6, <1>7

\* The aggregate of one validator over heights of the database.
LEMMA MetricsFigures ==
  ASSUME TableInv, NEW hs \in SUBSET DOMAIN heights, NEW a
  PROVE  LET m == ValidatorMetrics(db, hs, a)
             e == Signing(Cardinality(hs), Cardinality(Signed(db, hs, a)))
             rows == LeftJoin(db, hs, a)
         IN  /\ DOMAIN m = {"prevotes", "precommits", "power", "total", "signed", "missed", "rate"}
             /\ m.total = e.total /\ m.signed = e.signed /\ m.missed = e.missed /\ m.rate = e.rate
             /\ m.prevotes = Cardinality(OfType(rows, Prevote))
             /\ m.precommits = Cardinality(OfType(rows, Precommit))
             /\ m.rate \in Nat /\ m.power \in Nat
<1> DEFINE m == ValidatorMetrics(db, hs, a)
           rows == LeftJoin(db, hs, a)
           e == Signing(Cardinality(hs), Cardinality(Signed(db, hs, a)))
           at == {x \in hs : <<x, a>> \in DOMAIN db.snapshots}
           powers == {db.snapshots[<<h, a>>] : h \in at}
           power == IF powers = {} THEN 0 ELSE Max(powers)
           f == [prevotes |-> Cardinality(OfType(rows, Prevote)),
                 precommits |-> Cardinality(OfType(rows, Precommit)),
                 power |-> power]
<1>1. DbOK(db) /\ hs \in SUBSET DOMAIN db.heights /\ db.snapshots = snapshots
  BY DbTyped DEF db
<1>2. HeightsOf(rows) = hs /\ HeightsOf(Voted(rows)) = Signed(db, hs, a)
  BY <1>1, JoinRows
<1>3. m = Over(f, Signing(Cardinality(HeightsOf(rows)), Cardinality(HeightsOf(Voted(rows)))))
  BY DEF ValidatorMetrics
<1>4. m = Over(f, e)
  <2> HIDE DEF m, f, rows
  <2> QED
    BY <1>2, <1>3
<1>5. power \in Nat
  <2>1. IsFiniteSet(at)
    BY <1>1, FS_Subset DEF DbOK
  <2> DEFINE g == [h \in at |-> db.snapshots[<<h, a>>]]
  <2>2. DOMAIN g = at /\ g = [h \in at |-> g[h]] /\ powers = {g[h] : h \in at}
    OBVIOUS
  <2>3. powers \subseteq Nat
    BY <1>1 DEF TableInv
  <2> HIDE DEF g, at, powers
  <2>4. IsFiniteSet(powers)
    BY <2>1, <2>2, FiniteImage
  <2> QED
    BY <2>3, <2>4, MaxMin
<1>6. /\ DOMAIN f = {"prevotes", "precommits", "power"} /\ f.power = power
      /\ f.prevotes = Cardinality(OfType(rows, Prevote))
      /\ f.precommits = Cardinality(OfType(rows, Precommit))
  OBVIOUS
<1>7. DOMAIN e = {"total", "signed", "missed", "rate"}
  BY DEF Signing
<1>8. e.rate \in Nat
  <2>1. IsFiniteSet(hs) /\ IsFiniteSet(Signed(db, hs, a))
    BY <1>1, FS_Subset DEF DbOK, Signed
  <2>2. Cardinality(hs) \in Nat /\ Cardinality(Signed(db, hs, a)) \in Nat
    BY <2>1, FS_CardinalityType
  <2> QED
    BY <2>2, PercentNat DEF Signing
<1> HIDE DEF m, e, f, power, rows
<1>9. /\ DOMAIN m = DOMAIN f \cup DOMAIN e
      /\ m.total = e.total /\ m.signed = e.signed /\ m.missed = e.missed /\ m.rate = e.rate
      /\ m.prevotes = f.prevotes /\ m.precommits = f.precommits /\ m.power = f.power
  BY <1>4, <1>6, <1>7 DEF Over
<1> QED
  BY <1>5, <1>6, <1>7, <1>8, <1>9 DEF m, e, rows

\* Where every vote has its round, counting the votes of a type in the join of
\* heights and votes and counting the rounds with such a vote is the same.
LEMMA VotesOfType ==
  ASSUME TableInv, NEW hs \in SUBSET DOMAIN heights, NEW a, NEW t,
         {<<x[1], x[2]>> : x \in DOMAIN votes} \subseteq DOMAIN rounds
  PROVE  Cardinality(OfType(LeftJoin(db, hs, a), t))
           = Cardinality({hr \in DOMAIN rounds : hr[1] \in hs
                                                 /\ <<hr[1], hr[2], a, t>> \in DOMAIN votes})
<1> DEFINE rows == LeftJoin(db, hs, a)
           T == OfType(rows, t)
           W == {hr \in DOMAIN rounds : hr[1] \in hs /\ <<hr[1], hr[2], a, t>> \in DOMAIN votes}
           f == [r \in T |-> <<r[2][1], r[2][2]>>]
<1>1. DbOK(db) /\ db.votes = votes /\ db.heights = heights
  BY DbTyped DEF db
<1>2. /\ IsFiniteSet(rows)
      /\ Voted(rows) = {r \in hs \X DOMAIN db.votes : r[2] \in VotesAt(db, r[1], a)}
  BY <1>1, JoinRows
<1>3. \A x \in DOMAIN votes : x = <<x[1], x[2], x[3], x[4]>>
  BY DEF TableInv, TypeOK
<1>4. \A x \in DOMAIN rounds : x = <<x[1], x[2]>>
  BY DEF TableInv, TypeOK
<1>5. ASSUME NEW r \in T
      PROVE  /\ r = <<r[1], r[2]>> /\ r[1] \in hs /\ r[2] \in DOMAIN votes
             /\ r[2] = <<r[1], r[2][2], a, t>>
  <2>1. r \in Voted(rows) /\ r[2][4] = t
    BY DEF OfType
  <2>2. r \in hs \X DOMAIN votes /\ r[2] \in VotesAt(db, r[1], a)
    BY <1>1, <1>2, <2>1
  <2>3. r[2][1] = r[1] /\ r[2][3] = a
    BY <2>2 DEF VotesAt
  <2> QED
    BY <1>3, <2>1, <2>2, <2>3
<1>6. ASSUME NEW hr \in W
      PROVE  <<hr[1], <<hr[1], hr[2], a, t>>>> \in T
  <2> DEFINE k == <<hr[1], hr[2], a, t>>
             r == <<hr[1], k>>
  <2>1. k \in VotesAt(db, hr[1], a)
    BY <1>1 DEF VotesAt
  <2>2. r \in Voted(rows)
    BY <1>1, <1>2, <2>1
  <2> QED
    BY <2>2 DEF OfType
<1> HIDE DEF T
<1>7. IsFiniteSet(T)
  BY <1>2, FS_Subset DEF T, OfType, Voted
<1>8. ASSUME NEW r \in T PROVE f[r] = <<r[1], r[2][2]>> /\ f[r] \in W
  <2>1. f[r] = <<r[2][1], r[2][2]>>
    OBVIOUS
  <2>2. f[r] = <<r[1], r[2][2]>>
    BY <1>5, <2>1
  <2>3. f[r] \in DOMAIN rounds
    BY <1>5, <2>1
  <2> HIDE DEF f
  <2> QED
    BY <1>5, <2>2, <2>3
<1>9. \A r \in T : \A q \in T : f[r] = f[q] => r = q
  <2> SUFFICES ASSUME NEW r \in T, NEW q \in T, f[r] = f[q] PROVE r = q
    OBVIOUS
  <2>1. r[1] = q[1] /\ r[2][2] = q[2][2]
    <3>1. <<r[1], r[2][2]>> = <<q[1], q[2][2]>>
      <4> HIDE DEF f
      <4> QED
        BY <1>8
    <3> QED
      BY <3>1
  <2>2. r[2] = q[2]
    BY <1>5, <2>1
  <2> QED
    BY <1>5, <2>1, <2>2
<1>10. \A hr \in W : \E r \in T : f[r] = hr
  <2> SUFFICES ASSUME NEW hr \in W PROVE \E r \in T : f[r] = hr
    OBVIOUS
  <2> DEFINE r == <<hr[1], <<hr[1], hr[2], a, t>>>>
  <2>1. r \in T /\ r[1] = hr[1] /\ r[2][2] = hr[2]
    BY <1>6
  <2> HIDE DEF r, f
  <2>2. f[r] = <<hr[1], hr[2]>>
    BY <1>8, <2>1
  <2> QED
    BY <1>4, <2>1, <2>2
<1>11. f \in Bijection(T, W)
  <2>1. f \in [T -> W]
    BY <1>8
  <2> HIDE DEF f, W
  <2> QED
    BY <1>9, <1>10, <2>1 DEF Bijection, Injection, Surjection, IsInjective
<1>12. ExistsBijection(T, W)
  BY <1>11 DEF ExistsBijection
<1> HIDE DEF W
<1>13. Cardinality(W) = Cardinality(T)
  BY <1>7, <1>12, FS_Bijection
<1> QED
  BY <1>13 DEF T, W

\* The rounds with a known proposer, and those of one.
Known(d, lo, hi) == {hr \in DOMAIN d.rounds : lo <= hr[1] /\ hr[1] <= hi /\ d.rounds[hr] # NULL}
KnownOf(d, lo, hi, a) == {hr \in Known(d, lo, hi) : d.rounds[hr] = a}

\* The proposers' counts add up to the rounds with a known proposer.
LEMMA ProposerTotal ==
  ASSUME NEW d, IsFiniteSet(DOMAIN d.rounds), NEW lo, NEW hi
  PROVE  LET known == Known(d, lo, hi)
             n == GetProposerPerformanceByHeight(d, lo, hi)
         IN  /\ DOMAIN n = {d.rounds[hr] : hr \in known}
             /\ \A a \in DOMAIN n : n[a] = Cardinality(KnownOf(d, lo, hi, a))
             /\ SumOf(n) = Cardinality(known)
<1> USE DEF Known, KnownOf
<1> DEFINE known == Known(d, lo, hi)
           n == GetProposerPerformanceByHeight(d, lo, hi)
           S == {d.rounds[hr] : hr \in known}
           P == [a \in S |-> KnownOf(d, lo, hi, a)]
           g == [hr \in known |-> d.rounds[hr]]
<1>1. n = [a \in S |-> Cardinality(P[a])]
  BY DEF GetProposerPerformanceByHeight
<1>2. IsFiniteSet(known)
  BY FS_Subset
<1>3. g = [hr \in known |-> g[hr]] /\ DOMAIN g = known /\ S = {g[hr] : hr \in known}
  OBVIOUS
<1>4. \A a \in S : P[a] = KnownOf(d, lo, hi, a) /\ P[a] = {hr \in known : d.rounds[hr] = a}
  OBVIOUS
<1>5. \A hr \in known : d.rounds[hr] \in S
  OBVIOUS
<1> HIDE DEF known, n, S, P, g, Known, KnownOf
<1>6. IsFiniteSet(S)
  BY <1>2, <1>3, FiniteImage
<1>7. \A a \in S : IsFiniteSet(P[a])
  BY <1>2, <1>4, FS_Subset
<1>8. \A a \in S : \A b \in S : a # b => P[a] \cap P[b] = {}
  BY <1>4
<1>9. UNION {P[a] : a \in S} = known
  BY <1>4, <1>5
<1>10. SumOf(n) = Cardinality(known)
  <2>1. SumOf(n) = Cardinality(UNION {P[a] : a \in S})
    BY <1>1, <1>6, <1>7, <1>8, SumOfCounts
  <2> QED
    BY <1>9, <2>1
<1> QED
  BY <1>1, <1>4, <1>10 DEF known, n, S

--------------------------------------------------------------------------------
(* The reports agree.                                                      *)

\* The ranking's rows: a rank on top of the aggregate.
LEMMA RankingRows ==
  ASSUME TableInv, NEW a \in DOMAIN GetValidatorRanking(db, Window)
  PROVE  LET hs == InWindow(db, Window)
             m == RankingOver(db, hs)
             row == GetValidatorRanking(db, Window)[a]
         IN  /\ DOMAIN m = DOMAIN GetValidatorRanking(db, Window)
             /\ m[a] = ValidatorMetrics(db, hs, a)
             /\ DOMAIN row = {"rank"} \cup DOMAIN m[a]
             /\ row.rank = EfficiencyRank(m, a)
             /\ \A f \in DOMAIN m[a] : row[f] = m[a][f]
<1> DEFINE hs == InWindow(db, Window)
           m == RankingOver(db, hs)
           row == GetValidatorRanking(db, Window)[a]
           g == [rank |-> EfficiencyRank(m, a)]
<1>1. GetValidatorRanking(db, Window) = [x \in DOMAIN m |-> Over([rank |-> EfficiencyRank(m, x)], m[x])]
  BY DEF GetValidatorRanking
<1>2. DOMAIN m = DOMAIN GetValidatorRanking(db, Window) /\ row = Over(g, m[a])
  <2> HIDE DEF m
  <2> QED
    BY <1>1
<1>3. m[a] = ValidatorMetrics(db, hs, a)
  BY <1>2 DEF RankingOver
<1>4. DOMAIN g = {"rank"} /\ g.rank = EfficiencyRank(m, a)
  OBVIOUS
<1>5. hs \in SUBSET DOMAIN heights
  BY DEF InWindow, db
<1>6. "rank" \notin DOMAIN m[a]
  <2>1. DOMAIN m[a] = {"prevotes", "precommits", "power", "total", "signed", "missed", "rate"}
    BY <1>3, <1>5, MetricsFigures
  <2> HIDE DEF m
  <2> QED
    BY <2>1
<1> HIDE DEF m, g, row, hs
<1>7. /\ DOMAIN row = {"rank"} \cup DOMAIN m[a] /\ row.rank = EfficiencyRank(m, a)
      /\ \A f \in DOMAIN m[a] : row[f] = m[a][f]
  BY <1>2, <1>4, <1>6 DEF Over
<1> QED
  BY <1>2, <1>3, <1>7 DEF m, row, hs

\* One validator: the counts of five queries, and its place among the others.
LEMMA ValidatorAgrees ==
  ASSUME TableInv, NEW a \in DOMAIN GetAllValidatorsSigningEfficiency(db, Window)
  PROVE  LET w == Window
             all == GetAllValidatorsSigningEfficiency(db, w)
             ranking == GetValidatorRanking(db, w)
             e == GetValidatorSigningEfficiency(db, a, w)
             part == GetValidatorConsensusParticipation(db, a, w)
         IN  /\ all[a] = e /\ GetValidatorUptime(db, a, w) = e
             /\ \A f \in DOMAIN e : ranking[a][f] = e[f]
             /\ e.total = CountHeightsInTimeWindow(db, w)
             /\ \A b \in DOMAIN all : ranking[b].rank < ranking[a].rank <=>
                  \/ ranking[b].rate > ranking[a].rate
                  \/ ranking[b].rate = ranking[a].rate /\ ranking[b].power > ranking[a].power
             /\ part.rounds = GetProposerPerformance(db, a, w).total
             /\ {<<x[1], x[2]>> : x \in DOMAIN votes} \subseteq DOMAIN rounds =>
                  /\ ranking[a].prevotes = part.prevotes
                  /\ ranking[a].precommits = part.precommits
<1> DEFINE w == Window
           hs == InWindow(db, w)
           all == GetAllValidatorsSigningEfficiency(db, w)
           ranking == GetValidatorRanking(db, w)
           m == RankingOver(db, hs)
           e == GetValidatorSigningEfficiency(db, a, w)
           s == Signing(Cardinality(hs), Cardinality(Signed(db, hs, a)))
           part == GetValidatorConsensusParticipation(db, a, w)
<1>0. a \in DOMAIN all
  OBVIOUS
<1>1. DbOK(db) /\ db.votes = votes /\ db.rounds = rounds /\ hs \in SUBSET DOMAIN heights
  BY DbTyped DEF InWindow, db
<1>2. DOMAIN ranking = DOMAIN all /\ DOMAIN m = DOMAIN all /\ DOMAIN all \subseteq DOMAIN db.validators
  BY DEF GetValidatorRanking, RankingOver, GetAllValidatorsSigningEfficiency
<1>3. e = s /\ GetValidatorUptime(db, a, w) = s
  BY <1>1, SigningFigures
<1>4. all[a] = s
  BY DEF GetAllValidatorsSigningEfficiency, Signed
<1>5. DOMAIN s = {"total", "signed", "missed", "rate"} /\ s.total = Cardinality(hs)
  BY DEF Signing
<1>6. CountHeightsInTimeWindow(db, w) = Cardinality(hs)
  BY DEF CountHeightsInTimeWindow
<1>7. part.rounds = GetProposerPerformance(db, a, w).total
  BY DEF GetValidatorConsensusParticipation, GetProposerPerformance
<1>8. ASSUME NEW b \in DOMAIN all
      PROVE  /\ m[b] = ValidatorMetrics(db, hs, b) /\ ranking[b].rank = EfficiencyRank(m, b)
             /\ \A f \in DOMAIN m[b] : ranking[b][f] = m[b][f]
  BY <1>2, RankingRows
<1>9. ASSUME NEW b \in DOMAIN all
      PROVE  /\ DOMAIN m[b] = {"prevotes", "precommits", "power", "total", "signed", "missed", "rate"}
             /\ m[b].rate \in Nat /\ m[b].power \in Nat
             /\ ranking[b].rate = m[b].rate /\ ranking[b].power = m[b].power
  <2>1. /\ DOMAIN m[b] = {"prevotes", "precommits", "power", "total", "signed", "missed", "rate"}
        /\ m[b].rate \in Nat /\ m[b].power \in Nat
    <3> HIDE DEF m, ranking, all, hs
    <3>1. m[b] = ValidatorMetrics(db, hs, b)
      BY <1>8
    <3> QED
      BY <1>1, <3>1, MetricsFigures
  <2> HIDE DEF m, ranking, all
  <2> QED
    BY <1>8, <2>1
<1>10. /\ m[a].total = s.total /\ m[a].signed = s.signed /\ m[a].missed = s.missed /\ m[a].rate = s.rate
       /\ m[a].prevotes = Cardinality(OfType(LeftJoin(db, hs, a), Prevote))
       /\ m[a].precommits = Cardinality(OfType(LeftJoin(db, hs, a), Precommit))
  BY <1>1, <1>8, MetricsFigures
<1> HIDE DEF m, ranking, all, s
<1>11. \A f \in DOMAIN s : ranking[a][f] = s[f]
  BY <1>0, <1>5, <1>8, <1>9, <1>10
<1>12. ASSUME NEW b \in DOMAIN all
       PROVE  ranking[b].rank < ranking[a].rank <=>
                  \/ ranking[b].rate > ranking[a].rate
                  \/ ranking[b].rate = ranking[a].rate /\ ranking[b].power > ranking[a].power
  <2>1. IsFiniteSet(DOMAIN m)
    BY <1>1, <1>2, FS_Subset DEF DbOK
  <2>2. EfficiencyRank(m, b) < EfficiencyRank(m, a) <=> Better(m, b, a)
    BY <1>0, <1>2, <1>9, <2>1, RankOrder
  <2> QED
    BY <1>0, <1>8, <1>9, <2>2 DEF Better
<1>13. ASSUME {<<x[1], x[2]>> : x \in DOMAIN votes} \subseteq DOMAIN rounds
       PROVE  ranking[a].prevotes = part.prevotes /\ ranking[a].precommits = part.precommits
  <2> DEFINE W(t) == {hr \in DOMAIN rounds : hr[1] \in hs /\ <<hr[1], hr[2], a, t>> \in DOMAIN votes}
  <2>1. part.prevotes = Cardinality(W(Prevote)) /\ part.precommits = Cardinality(W(Precommit))
    <3>1. \A t : {hr \in {x \in DOMAIN rounds : x[1] \in hs} : <<hr[1], hr[2], a, t>> \in DOMAIN votes} = W(t)
      OBVIOUS
    <3> QED
      BY <1>1, <3>1 DEF GetValidatorConsensusParticipation
  <2>2. /\ Cardinality(OfType(LeftJoin(db, hs, a), Prevote)) = Cardinality(W(Prevote))
        /\ Cardinality(OfType(LeftJoin(db, hs, a), Precommit)) = Cardinality(W(Precommit))
    BY <1>1, <1>13, VotesOfType
  <2>3. ranking[a].prevotes = m[a].prevotes /\ ranking[a].precommits = m[a].precommits
    BY <1>0, <1>8, <1>9
  <2> QED
    BY <1>10, <2>1, <2>2, <2>3
<1> QED
  BY <1>3, <1>4, <1>5, <1>6, <1>7, <1>11, <1>12, <1>13 DEF ranking, all, s

\* Every stored height lies between 1 and the greatest one.
LEMMA AllInRange ==
  ASSUME TableInv
  PROVE  /\ InRange(db, 1, GetMaxStoredHeight(db)) = DOMAIN heights
         /\ \A h \in DOMAIN heights : 1 <= h /\ h <= GetMaxStoredHeight(db)
<1>1. DbOK(db) /\ db.heights = heights
  BY DbTyped DEF db
<1>2. DOMAIN heights \subseteq Nat \ {0} /\ IsFiniteSet(DOMAIN heights)
  BY <1>1 DEF DbOK
<1>3. \A h \in DOMAIN heights : 1 <= h
  BY <1>2
<1>4. \A h \in DOMAIN heights : h <= GetMaxStoredHeight(db)
  <2>1. CASE DOMAIN heights = {}
    BY <2>1
  <2>2. CASE DOMAIN heights # {}
    <3>1. DOMAIN heights \subseteq Nat
      BY <1>2
    <3>2. \A h \in DOMAIN heights : h <= Max(DOMAIN heights)
      BY <1>2, <2>2, <3>1, MaxMin
    <3> QED
      BY <1>1, <2>2, <3>2 DEF GetMaxStoredHeight
  <2> QED
    BY <2>1, <2>2
<1> QED
  BY <1>1, <1>3, <1>4 DEF InRange

\* A window over all of them ranks as the range of heights does.
LEMMA RangeAgrees ==
  ASSUME TableInv, InWindow(db, Window) = DOMAIN heights,
         NEW a \in DOMAIN GetAllValidatorsSigningEfficiency(db, Window)
  PROVE  LET byHeight == GetValidatorRankingByHeight(db, 1, GetMaxStoredHeight(db))
         IN  \A f \in DOMAIN byHeight[a] : byHeight[a][f] = GetValidatorRanking(db, Window)[a][f]
<1> DEFINE hs == InWindow(db, Window)
           m == RankingOver(db, hs)
           byHeight == GetValidatorRankingByHeight(db, 1, GetMaxStoredHeight(db))
           ranking == GetValidatorRanking(db, Window)
<1>1. byHeight = m
  BY AllInRange DEF GetValidatorRankingByHeight
<1>2. a \in DOMAIN ranking
  BY DEF GetValidatorRanking, RankingOver, GetAllValidatorsSigningEfficiency
<1>3. \A f \in DOMAIN m[a] : ranking[a][f] = m[a][f]
  BY <1>2, RankingRows
<1> HIDE DEF m, byHeight, ranking
<1>4. \A f \in DOMAIN byHeight[a] : byHeight[a][f] = ranking[a][f]
  BY <1>1, <1>3
<1> QED
  BY <1>4 DEF byHeight, ranking

\* A proposer's share of the known rounds, rounded as the rate is, is not below the
\* rate over all rounds.
LEMMA SharesAgree ==
  ASSUME TableInv, InWindow(db, Window) = DOMAIN heights,
         {hr[1] : hr \in DOMAIN rounds} \subseteq DOMAIN heights,
         NEW a \in DOMAIN GetProposerShareByHeight(db, 1, GetMaxStoredHeight(db))
  PROVE  LET p == GetProposerPerformance(db, a, Window)
             s == GetProposerShareByHeight(db, 1, GetMaxStoredHeight(db))[a]
         IN  p.proposed > 0 /\ p.rate <= Percent(s[1], s[2])
<1> DEFINE max == GetMaxStoredHeight(db)
           shares == GetProposerShareByHeight(db, 1, max)
           n == GetProposerPerformanceByHeight(db, 1, max)
           known == Known(db, 1, max)
           all == {hr \in DOMAIN db.rounds : hr[1] \in InWindow(db, Window)}
           own == {hr \in all : db.rounds[hr] = a}
           p == GetProposerPerformance(db, a, Window)
<1>1. DbOK(db) /\ db.rounds = rounds
  BY DbTyped DEF db
<1>2. all = DOMAIN rounds
  BY <1>1
<1>3. known = {hr \in DOMAIN rounds : rounds[hr] # NULL}
  <2>1. \A hr \in DOMAIN rounds : 1 <= hr[1] /\ hr[1] <= max
    <3> HIDE DEF max
    <3> QED
      BY AllInRange DEF max
  <2> QED
    BY <1>1, <2>1 DEF Known
<1>4. IsFiniteSet(DOMAIN db.rounds)
  BY <1>1 DEF DbOK
<1>5. /\ DOMAIN n = {db.rounds[hr] : hr \in known}
      /\ \A x \in DOMAIN n : n[x] = Cardinality(KnownOf(db, 1, max, x))
      /\ SumOf(n) = Cardinality(known)
  BY <1>4, ProposerTotal
<1>6. shares = [x \in DOMAIN n |-> <<n[x], SumOf(n)>>]
  BY DEF GetProposerShareByHeight
<1>7. p.proposed = Cardinality(own) /\ p.rate = Percent(Cardinality(own), Cardinality(all))
  BY DEF GetProposerPerformance
<1>8. a \in DOMAIN shares
  OBVIOUS
<1> HIDE DEF n, shares, known, all, own, p, max
<1>9. a \in DOMAIN n /\ shares[a] = <<n[a], Cardinality(known)>>
  BY <1>5, <1>6, <1>8
<1>10. PICK hr \in known : db.rounds[hr] = a
  BY <1>5, <1>9
<1>11. a # NULL /\ hr \in own
  BY <1>1, <1>2, <1>3, <1>10 DEF own
<1>12. own = {x \in known : db.rounds[x] = a} /\ own = KnownOf(db, 1, max, a)
  BY <1>1, <1>2, <1>3, <1>11 DEF own, known, KnownOf
<1>13. n[a] = Cardinality(own)
  BY <1>5, <1>9, <1>12
<1>14. /\ IsFiniteSet(all) /\ IsFiniteSet(known) /\ IsFiniteSet(own)
       /\ Cardinality(known) <= Cardinality(all)
  <2>1. known \in SUBSET all /\ own \in SUBSET known
    BY <1>2, <1>3, <1>12
  <2> QED
    BY <1>1, <1>2, <1>4, <2>1, FS_Subset
<1>15. /\ Cardinality(own) \in Nat /\ Cardinality(known) \in Nat \ {0} /\ Cardinality(all) \in Nat
       /\ Cardinality(own) > 0
  BY <1>10, <1>11, <1>14, FS_CardinalityType, FS_EmptySet
<1>16. Percent(Cardinality(own), Cardinality(all)) <= Percent(Cardinality(own), Cardinality(known))
  BY <1>14, <1>15, PercentMonotone
<1> QED
  BY <1>7, <1>9, <1>13, <1>15, <1>16 DEF p, shares, max

\* The reports agree: five ways to count a validator's blocks, its rank, its
\* votes and rounds, and the proposers' shares.
THEOREM ReportsCorrect == Spec => []ReportsAgree
<1>1. TableInv => ReportsAgree
  <2> SUFFICES ASSUME TableInv PROVE ReportsAgree
    OBVIOUS
  <2> DEFINE w == Window
             all == GetAllValidatorsSigningEfficiency(db, w)
             ranking == GetValidatorRanking(db, w)
             byHeight == GetValidatorRankingByHeight(db, 1, GetMaxStoredHeight(db))
             shares == GetProposerShareByHeight(db, 1, GetMaxStoredHeight(db))
             hasHeight == {hr[1] : hr \in DOMAIN rounds} \subseteq DOMAIN heights
  <2>1. DOMAIN all = DOMAIN ranking
    BY DEF GetValidatorRanking, RankingOver, GetAllValidatorsSigningEfficiency
  <2>2. \A a \in DOMAIN all :
           LET e == GetValidatorSigningEfficiency(db, a, w)
               part == GetValidatorConsensusParticipation(db, a, w)
           IN  /\ all[a] = e /\ GetValidatorUptime(db, a, w) = e
               /\ \A f \in DOMAIN e : ranking[a][f] = e[f]
               /\ e.total = CountHeightsInTimeWindow(db, w)
               /\ \A b \in DOMAIN all : ranking[b].rank < ranking[a].rank <=>
                    \/ ranking[b].rate > ranking[a].rate
                    \/ ranking[b].rate = ranking[a].rate /\ ranking[b].power > ranking[a].power
               /\ part.rounds = GetProposerPerformance(db, a, w).total
               /\ {<<x[1], x[2]>> : x \in DOMAIN votes} \subseteq DOMAIN rounds =>
                    /\ ranking[a].prevotes = part.prevotes
                    /\ ranking[a].precommits = part.precommits
    BY ValidatorAgrees
  <2>3. (InWindow(db, w) = DOMAIN heights) =>
           /\ \A a \in DOMAIN all : \A f \in DOMAIN byHeight[a] : byHeight[a][f] = ranking[a][f]
           /\ \A a \in DOMAIN shares :
                LET p == GetProposerPerformance(db, a, w)
                IN  hasHeight => p.proposed > 0 /\ p.rate <= Percent(shares[a][1], shares[a][2])
    BY RangeAgrees, SharesAgree
  <2> QED
    BY <2>1, <2>2, <2>3 DEF ReportsAgree
<1> QED
  BY <1>1, TablesInvariant, PTL
================================================================================
