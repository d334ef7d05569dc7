-------------------------- MODULE SertosDataProofs --------------------------
(***************************************************************************)
(* Facts about the data that the models are made of, for every set and     *)
(* every list: least elements, minimal sets, counters that wrap, and what  *)
(* inserting into, appending to and removing from a list does to it.       *)
(***************************************************************************)
EXTENDS Integers, Sequences, SequencesExt, SequenceTheorems, FiniteSetTheorems,
        WellFoundedInduction, TLAPS

-----------------------------------------------------------------------------
(* Greatest and least elements.                                            *)

\* A non-empty bounded set of naturals has a greatest element, which is what
\* bitmap_find_last_set returns.
LEMMA MaxExists ==
  ASSUME NEW n \in Nat, NEW T \in SUBSET (0 .. n), T # {}
  PROVE  Max(T) \in T /\ \A x \in T : x <= Max(T)
<1> DEFINE R == {ss \in Nat \X Nat : ss[1] < ss[2]}
           N == {n - x : x \in T}
<1>1. IsWellFoundedOn(R, Nat)
  BY NatLessThanWellFounded DEF OpToRel
<1>2. N \subseteq Nat
  OBVIOUS
<1>3. N # {}
  OBVIOUS
<1>4. PICK m \in N : \A y \in N : ~ (<<y, m>> \in R)
  <2> HIDE DEF R, N
  <2> QED  BY <1>1, <1>2, <1>3, WFMin
<1>5. PICK z \in T : m = n - z
  BY <1>4
<1>6. ASSUME NEW x \in T PROVE x <= z
  <2>1. n - x \in N
    OBVIOUS
  <2>2. n - x \in Nat /\ m \in Nat
    BY <1>2, <2>1
  <2>3. ~(n - x < m)
    BY <2>1, <2>2, <1>4
  <2>4. QED  BY <2>2, <2>3, <1>5
<1>7. QED  BY <1>6 DEF Max

\* A non-empty set of positions has a least one.
LEMMA MinExists ==
  ASSUME NEW T \in SUBSET Nat, T # {}
  PROVE  Min(T) \in T /\ \A x \in T : Min(T) <= x
<1> DEFINE R == {ss \in Nat \X Nat : ss[1] < ss[2]}
<1>1. IsWellFoundedOn(R, Nat)
  BY NatLessThanWellFounded DEF OpToRel
<1>2. PICK m \in T : \A y \in T : ~ (<<y, m>> \in R)
  <2> HIDE DEF R
  <2> QED  BY <1>1, WFMin
<1>3. ASSUME NEW y \in T PROVE m <= y
  <2>1. y \in Nat /\ m \in Nat
    OBVIOUS
  <2>2. ~(y < m)
    BY <1>2, <2>1
  <2>3. QED  BY <2>1, <2>2
<1>4. QED  BY <1>3 DEF Min

\* A non-empty family of finite sets has a member that contains no other: what
\* holds of a set whenever it holds of its proper subsets holds of all.
LEMMA MinimalMember ==
  ASSUME NEW S, IsFiniteSet(S), NEW B \in SUBSET (SUBSET S), B # {}
  PROVE  \E s \in B : \A r \in B : r \subseteq s => r = s
<1> DEFINE T == {Cardinality(s) : s \in B}
<1>1. \A s \in B : IsFiniteSet(s) /\ Cardinality(s) \in Nat
  BY FS_Subset, FS_CardinalityType
<1>2. T \in SUBSET Nat /\ T # {}
  BY <1>1
<1>3. Min(T) \in T /\ \A x \in T : Min(T) <= x
  <2> HIDE DEF T
  <2> QED  BY <1>2, MinExists
<1>4. PICK s \in B : Min(T) = Cardinality(s)
  BY <1>3
<1>5. ASSUME NEW r \in B, r \subseteq s
      PROVE  r = s
  <2>1. Cardinality(r) <= Cardinality(s) /\ (Cardinality(s) = Cardinality(r) => s = r)
    BY <1>1, <1>5, FS_Subset
  <2>2. Cardinality(s) <= Cardinality(r)
    BY <1>3, <1>4
  <2>3. QED  BY <1>1, <2>1, <2>2
<1>6. QED  BY <1>5

-----------------------------------------------------------------------------
(* The tick counter wraps.                                                 *)

\* Division by M has one remainder.
LEMMA Remainder ==
  ASSUME NEW M \in Nat \ {0}, NEW q \in Int, NEW r \in 0 .. M - 1
  PROVE  (M * q + r) % M = r
OBVIOUS

LEMMA ModWraps ==
  ASSUME NEW M \in Nat \ {0}, NEW x \in Nat
  PROVE  /\ x < M => x % M = x
         /\ x >= M /\ x < 2 * M => x % M = x - M
<1>1. x < M => x % M = x
  OBVIOUS
<1>2. x >= M /\ x < 2 * M => x % M = x - M
  OBVIOUS
<1>3. QED  BY <1>1, <1>2

\* Counting the tick before or after the countdown gives the same deadline.
LEMMA TickThenCount ==
  ASSUME NEW M \in Nat \ {0}, NEW x \in 0 .. M - 1, NEW d \in 1 .. M - 1
  PROVE  (((x + 1) % M) + d - 1) % M = (x + d) % M
<1>1. CASE x + 1 < M
  <2>1. x + 1 \in Nat
    OBVIOUS
  <2>2. (x + 1) % M = x + 1
    BY <1>1, <2>1, ModWraps
  <2>3. QED  BY <2>2
<1>2. CASE x + 1 = M
  <2>1. (x + 1) % M = 0
    BY <1>2, ModWraps
  <2>2. (x + d) % M = d - 1
    <3> DEFINE y == x + d
    <3>1. y \in Nat /\ y >= M /\ y < 2 * M /\ y - M = d - 1
      BY <1>2
    <3> HIDE DEF y
    <3>2. y % M = d - 1
      BY <3>1, ModWraps
    <3>3. QED  BY <3>2 DEF y
  <2>3. (d - 1) % M = d - 1
    <3>1. d - 1 \in Nat /\ d - 1 < M
      OBVIOUS
    <3>2. QED  BY <3>1, ModWraps
  <2>4. QED  BY <2>1, <2>2, <2>3
<1>3. QED  BY <1>1, <1>2

-----------------------------------------------------------------------------
(* Sequences.                                                              *)

\* RemoveAt takes out one position and closes the gap.
LEMMA RemoveAtProperties ==
  ASSUME NEW S, NEW s \in Seq(S), NEW i \in 1 .. Len(s)
  PROVE  /\ RemoveAt(s, i) \in Seq(S)
         /\ Len(RemoveAt(s, i)) = Len(s) - 1
         /\ \A j \in 1 .. Len(s) - 1 :
                RemoveAt(s, i)[j] = IF j < i THEN s[j] ELSE s[j + 1]
<1> DEFINE l == SubSeq(s, 1, i - 1)
           r == SubSeq(s, i + 1, Len(s))
<1>1. /\ l \in Seq(S) /\ Len(l) = i - 1
      /\ \A j \in 1 .. i - 1 : l[j] = s[j]
  BY SubSeqProperties
<1>2. /\ r \in Seq(S) /\ Len(r) = Len(s) - i
      /\ \A j \in 1 .. Len(s) - i : r[j] = s[i + j]
  BY SubSeqProperties
<1>3. RemoveAt(s, i) = l \o r
  BY DEF RemoveAt
<1> HIDE DEF l, r
<1>4. /\ l \o r \in Seq(S) /\ Len(l \o r) = Len(s) - 1
      /\ \A j \in 1 .. Len(s) - 1 :
            (l \o r)[j] = IF j <= i - 1 THEN l[j] ELSE r[j - (i - 1)]
  <2>1. /\ l \o r \in Seq(S) /\ Len(l \o r) = Len(l) + Len(r)
        /\ \A j \in 1 .. Len(l) + Len(r) :
              (l \o r)[j] = IF j <= Len(l) THEN l[j] ELSE r[j - Len(l)]
    BY <1>1, <1>2, ConcatProperties
  <2>2. Len(l) = i - 1 /\ Len(l) + Len(r) = Len(s) - 1
    BY <1>1, <1>2
  <2>3. QED  BY <2>1, <2>2
<1>5. QED  BY <1>1, <1>2, <1>3, <1>4

\* InsertAt opens a gap at a position.
LEMMA InsertAtProperties ==
  ASSUME NEW S, NEW s \in Seq(S), NEW i \in 1 .. Len(s), NEW e \in S
  PROVE  /\ InsertAt(s, i, e) \in Seq(S)
         /\ Len(InsertAt(s, i, e)) = Len(s) + 1
         /\ \A j \in 1 .. Len(s) + 1 :
                InsertAt(s, i, e)[j] =
                    IF j < i THEN s[j] ELSE IF j = i THEN e ELSE s[j - 1]
<1> DEFINE l == SubSeq(s, 1, i - 1)
           r == SubSeq(s, i, Len(s))
           m == <<e>>
<1>1. /\ l \in Seq(S) /\ Len(l) = i - 1
      /\ \A j \in 1 .. i - 1 : l[j] = s[j]
  BY SubSeqProperties
<1>2. /\ r \in Seq(S) /\ Len(r) = Len(s) - i + 1
      /\ \A j \in 1 .. Len(s) - i + 1 : r[j] = s[i + j - 1]
  BY SubSeqProperties
<1>3. m \in Seq(S) /\ Len(m) = 1 /\ m[1] = e
  OBVIOUS
<1>4. InsertAt(s, i, e) = (l \o m) \o r
  BY DEF InsertAt
<1> HIDE DEF l, r, m
<1>5. /\ l \o m \in Seq(S) /\ Len(l \o m) = i
      /\ \A j \in 1 .. i : (l \o m)[j] = IF j <= i - 1 THEN l[j] ELSE m[j - (i - 1)]
  <2>1. /\ l \o m \in Seq(S) /\ Len(l \o m) = Len(l) + Len(m)
        /\ \A j \in 1 .. Len(l) + Len(m) :
              (l \o m)[j] = IF j <= Len(l) THEN l[j] ELSE m[j - Len(l)]
    BY <1>1, <1>3, ConcatProperties
  <2>2. Len(l) = i - 1 /\ Len(l) + Len(m) = i
    BY <1>1, <1>3
  <2>3. QED  BY <2>1, <2>2
<1> DEFINE lm == l \o m
<1> HIDE DEF lm
<1>6. lm \in Seq(S) /\ Len(lm) = i
  BY <1>5 DEF lm
<1>7. /\ lm \o r \in Seq(S) /\ Len(lm \o r) = Len(s) + 1
      /\ \A j \in 1 .. Len(s) + 1 : (lm \o r)[j] = IF j <= i THEN lm[j] ELSE r[j - i]
  <2>1. /\ lm \o r \in Seq(S) /\ Len(lm \o r) = Len(lm) + Len(r)
        /\ \A j \in 1 .. Len(lm) + Len(r) :
              (lm \o r)[j] = IF j <= Len(lm) THEN lm[j] ELSE r[j - Len(lm)]
    BY <1>2, <1>6, ConcatProperties
  <2>2. Len(lm) = i /\ Len(lm) + Len(r) = Len(s) + 1
    BY <1>2, <1>6
  <2>3. QED  BY <2>1, <2>2
<1>8. \A j \in 1 .. i : lm[j] = IF j < i THEN s[j] ELSE e
  BY <1>1, <1>3, <1>5 DEF lm
<1>9. InsertAt(s, i, e) = lm \o r
  BY <1>4 DEF lm
<1>10. \A j \in 1 .. Len(s) + 1 : j > i => r[j - i] = s[j - 1]
  BY <1>2
<1>11. QED  BY <1>7, <1>8, <1>9, <1>10

\* RemoveFirst either leaves the list alone or takes one position out.
LEMMA RemoveFirstIndex ==
  ASSUME NEW S, NEW s \in Seq(S), NEW e, Contains(s, e)
  PROVE  \E i \in 1 .. Len(s) : s[i] = e /\ RemoveFirst(s, e) = RemoveAt(s, i)
<1> DEFINE I == {j \in 1 .. Len(s) : s[j] = e}
<1>1. I # {} /\ I \in SUBSET Nat
  BY DEF Contains
<1>2. Min(I) \in I
  <2> HIDE DEF I
  <2> QED  BY <1>1, MinExists
<1>3. RemoveFirst(s, e) = RemoveAt(s, Min(I))
  BY <1>1 DEF RemoveFirst, SelectInSeq, Contains
<1>4. QED  BY <1>2, <1>3

-----------------------------------------------------------------------------
(* Lists without repetition, described by their elements.                  *)

\* Removing a task from a list leaves a list.
LEMMA RemoveType ==
  ASSUME NEW S, NEW s \in Seq(S), NEW e
  PROVE  RemoveFirst(s, e) \in Seq(S)
<1>1. CASE Contains(s, e)
  BY <1>1, RemoveFirstIndex, RemoveAtProperties
<1>2. CASE ~Contains(s, e)
  BY <1>2 DEF RemoveFirst, Contains
<1>3. QED  BY <1>1, <1>2

\* linked_list_remove_direct takes out that task and no other.
LEMMA RemoveElements ==
  ASSUME NEW S, NEW s \in Seq(S), NEW e, IsInjective(s)
  PROVE  /\ IsInjective(RemoveFirst(s, e))
         /\ \A u : Contains(RemoveFirst(s, e), u) <=> (Contains(s, u) /\ u # e)
<1>1. CASE ~Contains(s, e)
  BY <1>1 DEF RemoveFirst, Contains
<1>2. CASE Contains(s, e)
  <2>1. PICK i \in 1 .. Len(s) : s[i] = e /\ RemoveFirst(s, e) = RemoveAt(s, i)
    BY <1>2, RemoveFirstIndex
  <2> DEFINE r == RemoveFirst(s, e)
  <2>2. /\ r \in Seq(S) /\ Len(r) = Len(s) - 1
        /\ \A j \in 1 .. Len(s) - 1 : r[j] = IF j < i THEN s[j] ELSE s[j + 1]
    BY <2>1, RemoveAtProperties
  <2> HIDE DEF r
  <2>3. DOMAIN r = 1 .. Len(s) - 1 /\ DOMAIN s = 1 .. Len(s) /\ Len(s) \in Nat
    BY <2>2
  <2>4. IsInjective(r)
    <3>1. \A m, n \in 1 .. Len(s) : s[m] = s[n] => m = n
      BY <2>3 DEF IsInjective
    <3>2. ASSUME NEW m \in 1 .. Len(s) - 1, NEW n \in 1 .. Len(s) - 1, r[m] = r[n]
          PROVE  m = n
      BY <3>1, <3>2, <2>2, <2>3
    <3>3. QED  BY <3>2, <2>3 DEF IsInjective
  <2>5. ASSUME NEW u, Contains(r, u) PROVE Contains(s, u) /\ u # e
    <3>1. PICK j \in 1 .. Len(s) - 1 : r[j] = u
      BY <2>5, <2>2 DEF Contains
    <3>2. PICK n \in 1 .. Len(s) : n # i /\ s[n] = u
      BY <3>1, <2>2, <2>3
    <3>3. QED  BY <3>2, <2>1, <2>3 DEF Contains, IsInjective
  <2>6. ASSUME NEW u, Contains(s, u), u # e PROVE Contains(r, u)
    <3>1. PICK n \in 1 .. Len(s) : s[n] = u
      BY <2>6 DEF Contains
    <3>2. n # i
      BY <3>1, <2>6, <2>1
    <3>3. CASE n < i
      <4>1. n \in 1 .. Len(s) - 1 /\ r[n] = u
        BY <3>1, <3>3, <2>2, <2>3
      <4>2. QED  BY <4>1, <2>2 DEF Contains
    <3>4. CASE n > i
      <4>1. n - 1 \in 1 .. Len(s) - 1 /\ r[n - 1] = u
        BY <3>1, <3>4, <2>2, <2>3
      <4>2. QED  BY <4>1, <2>2 DEF Contains
    <3>5. QED  BY <3>2, <3>3, <3>4, <2>3
  <2>7. QED  BY <2>4, <2>5, <2>6 DEF r
<1>3. QED  BY <1>1, <1>2

\* linked_list_insert_tail_direct adds a task that is not on the list.
LEMMA AppendElements ==
  ASSUME NEW S, NEW s \in Seq(S), NEW e \in S
  PROVE  /\ Append(s, e) \in Seq(S)
         /\ Append(s, e) # <<>>
         /\ \A u : Contains(Append(s, e), u) <=> (Contains(s, u) \/ u = e)
         /\ IsInjective(s) /\ ~Contains(s, e) => IsInjective(Append(s, e))
<1> DEFINE r == Append(s, e)
<1>1. /\ r \in Seq(S) /\ Len(r) = Len(s) + 1 /\ Len(s) \in Nat
      /\ \A j \in 1 .. Len(s) : r[j] = s[j]
      /\ r[Len(s) + 1] = e
      /\ DOMAIN r = 1 .. Len(s) + 1 /\ DOMAIN s = 1 .. Len(s)
  OBVIOUS
<1> HIDE DEF r
<1>2. r # <<>>
  BY <1>1
<1>3. ASSUME NEW u PROVE Contains(r, u) <=> (Contains(s, u) \/ u = e)
  <2>1. ASSUME Contains(r, u) PROVE Contains(s, u) \/ u = e
    <3>1. PICK j \in 1 .. Len(s) + 1 : r[j] = u
      BY <2>1, <1>1 DEF Contains
    <3>2. CASE j = Len(s) + 1
      BY <3>1, <3>2, <1>1
    <3>3. CASE j # Len(s) + 1
      <4>1. j \in 1 .. Len(s) /\ s[j] = u
        BY <3>1, <3>3, <1>1
      <4>2. QED  BY <4>1 DEF Contains
    <3>4. QED  BY <3>2, <3>3
  <2>2. ASSUME Contains(s, u) PROVE Contains(r, u)
    <3>1. PICK j \in 1 .. Len(s) : s[j] = u
      BY <2>2 DEF Contains
    <3>2. j \in 1 .. Len(r) /\ r[j] = u
      BY <3>1, <1>1
    <3>3. QED  BY <3>2 DEF Contains
  <2>3. ASSUME u = e PROVE Contains(r, u)
    <3>1. Len(s) + 1 \in 1 .. Len(r) /\ r[Len(s) + 1] = u
      BY <2>3, <1>1
    <3>2. QED  BY <3>1 DEF Contains
  <2>4. QED  BY <2>1, <2>2, <2>3
<1>4. IsInjective(s) /\ ~Contains(s, e) => IsInjective(r)
  BY <1>1 DEF IsInjective, Contains
<1>5. QED  BY <1>1, <1>2, <1>3, <1>4 DEF r

\* Insertion by priority adds the waiter and moves no other off the list.
LEMMA InsertElements ==
  ASSUME NEW S, NEW s \in Seq(S), NEW i \in 1 .. Len(s), NEW e \in S
  PROVE  /\ InsertAt(s, i, e) \in Seq(S)
         /\ \A u : Contains(InsertAt(s, i, e), u) <=> (Contains(s, u) \/ u = e)
         /\ IsInjective(s) /\ ~Contains(s, e) => IsInjective(InsertAt(s, i, e))
<1> DEFINE r == InsertAt(s, i, e)
<1>1. /\ r \in Seq(S) /\ Len(r) = Len(s) + 1
      /\ \A j \in 1 .. Len(s) + 1 :
            r[j] = IF j < i THEN s[j] ELSE IF j = i THEN e ELSE s[j - 1]
  BY InsertAtProperties
<1> HIDE DEF r
<1>2. Len(s) \in Nat /\ DOMAIN r = 1 .. Len(s) + 1 /\ DOMAIN s = 1 .. Len(s)
  BY <1>1
<1>3. ASSUME NEW u PROVE Contains(r, u) <=> (Contains(s, u) \/ u = e)
  <2>1. ASSUME Contains(r, u) PROVE Contains(s, u) \/ u = e
    <3>1. PICK j \in 1 .. Len(s) + 1 : r[j] = u
      BY <2>1, <1>1 DEF Contains
    <3>2. u = e \/ \E n \in 1 .. Len(s) : s[n] = u
      <4>1. CASE j < i
        BY <4>1, <3>1, <1>1, <1>2
      <4>2. CASE j = i
        BY <4>2, <3>1, <1>1, <1>2
      <4>3. CASE j > i
        <5>1. j - 1 \in 1 .. Len(s) /\ s[j - 1] = u
          BY <4>3, <3>1, <1>1, <1>2
        <5>2. QED  BY <5>1
      <4>4. QED  BY <4>1, <4>2, <4>3, <1>2
    <3>3. QED  BY <3>2 DEF Contains
  <2>2. ASSUME Contains(s, u) PROVE Contains(r, u)
    <3>1. PICK n \in 1 .. Len(s) : s[n] = u
      BY <2>2 DEF Contains
    <3>2. CASE n < i
      <4>1. n \in 1 .. Len(r) /\ r[n] = u
        BY <3>1, <3>2, <1>1, <1>2
      <4>2. QED  BY <4>1 DEF Contains
    <3>3. CASE ~(n < i)
      <4>1. n + 1 \in 1 .. Len(r) /\ r[n + 1] = u
        BY <3>1, <3>3, <1>1, <1>2
      <4>2. QED  BY <4>1 DEF Contains
    <3>4. QED  BY <3>2, <3>3
  <2>3. ASSUME u = e PROVE Contains(r, u)
    <3>1. i \in 1 .. Len(r) /\ r[i] = u
      BY <2>3, <1>1, <1>2
    <3>2. QED  BY <3>1 DEF Contains
  <2>4. QED  BY <2>1, <2>2, <2>3
<1>4. ASSUME IsInjective(s), ~Contains(s, e) PROVE IsInjective(r)
  <2>1. \A n \in 1 .. Len(s) : s[n] # e
    BY <1>4 DEF Contains
  <2>2. \A m, n \in 1 .. Len(s) : s[m] = s[n] => m = n
    BY <1>4, <1>2 DEF IsInjective
  <2>3. ASSUME NEW m \in 1 .. Len(s) + 1, NEW n \in 1 .. Len(s) + 1, r[m] = r[n]
        PROVE  m = n
    BY <2>1, <2>2, <2>3, <1>1, <1>2
  <2>4. QED  BY <2>3, <1>2 DEF IsInjective
<1>5. QED  BY <1>1, <1>3, <1>4 DEF r

\* A list is empty iff no task is on it; its head is on it.
LEMMA HeadElement ==
  ASSUME NEW S, NEW s \in Seq(S)
  PROVE  /\ s # <<>> => Head(s) \in S /\ Contains(s, Head(s))
         /\ s = <<>> => \A u : ~Contains(s, u)
         /\ \A u : Contains(s, u) => u \in S
BY DEF Contains

\* The rest of a list without repetition.
LEMMA TailElements ==
  ASSUME NEW S, NEW s \in Seq(S), s # <<>>, IsInjective(s)
  PROVE  /\ Tail(s) \in Seq(S)
         /\ IsInjective(Tail(s))
         /\ \A u : Contains(Tail(s), u) => Contains(s, u) /\ u # Head(s)
<1> DEFINE r == Tail(s)
<1>1. /\ r \in Seq(S) /\ Len(r) = Len(s) - 1 /\ Len(s) \in Nat \ {0}
      /\ \A j \in 1 .. Len(s) - 1 : r[j] = s[j + 1]
      /\ DOMAIN r = 1 .. Len(s) - 1 /\ DOMAIN s = 1 .. Len(s)
      /\ Head(s) = s[1]
  OBVIOUS
<1> HIDE DEF r
<1>2. IsInjective(r)
  BY <1>1 DEF IsInjective
<1>3. ASSUME NEW u, Contains(r, u) PROVE Contains(s, u) /\ u # Head(s)
  <2>1. PICK j \in 1 .. Len(s) - 1 : r[j] = u
    BY <1>1, <1>3 DEF Contains
  <2>2. j + 1 \in 1 .. Len(s) /\ s[j + 1] = u /\ 1 \in 1 .. Len(s) /\ j + 1 # 1
    BY <2>1, <1>1
  <2>3. QED  BY <2>2, <1>1 DEF Contains, IsInjective
<1>4. QED  BY <1>1, <1>2, <1>3 DEF r
=============================================================================
