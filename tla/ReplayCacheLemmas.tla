-------------------------- MODULE ReplayCacheLemmas --------------------------
(* What the helpers of ReplayCache preserve, as facts about cache values. *)
EXTENDS ReplayCache, FiniteSetTheorems, TLAPS

-----------------------------------------------------------------------------
(* Sequences.                                                               *)

\* An element of a sequence over S is in S.
LEMMA SeqElement ==
    ASSUME NEW S, NEW s \in Seq(S), NEW n \in 1..Len(s)
    PROVE  s[n] \in S
OBVIOUS

\* A sequence over S is a function on 1..Len(s) into S.
LEMMA SeqLength ==
    ASSUME NEW S, NEW s \in Seq(S)
    PROVE  Len(s) \in Nat /\ s \in [1..Len(s) -> S] /\ DOMAIN s = 1..Len(s)
OBVIOUS

\* A function on 1..n into S is a sequence over S.
LEMMA SeqFromFunction ==
    ASSUME NEW S, NEW n \in Nat, NEW f \in [1..n -> S]
    PROVE  f \in Seq(S)
OBVIOUS

\* Length and elements of SubSeq, which pops the front of completed_order.
LEMMA SeqPart ==
    ASSUME NEW S, NEW s, NEW m \in Int, NEW n \in Int, \A i \in m..n : s[i] \in S
    PROVE  /\ SubSeq(s, m, n) \in Seq(S)
           /\ Len(SubSeq(s, m, n)) = IF m <= n THEN n - m + 1 ELSE 0
           /\ \A i \in 1..(n - m + 1) : SubSeq(s, m, n)[i] = s[m + i - 1]
OBVIOUS

\* Length and elements of Append, which pushes a key on completed_order.
LEMMA SeqAppend ==
    ASSUME NEW S, NEW s \in Seq(S), NEW e \in S
    PROVE  /\ Append(s, e) \in Seq(S) /\ Len(Append(s, e)) = Len(s) + 1
           /\ \A i \in 1..Len(s) : Append(s, e)[i] = s[i]
           /\ Append(s, e)[Len(s) + 1] = e
OBVIOUS

-----------------------------------------------------------------------------
(* Minima, induction, finite images and ranks.                              *)

\* Every nonempty set of naturals has a least element.
LEMMA LeastNatural ==
    ASSUME NEW S, S \subseteq Nat, S # {}
    PROVE  \E x \in S : \A y \in S : x <= y
<1> DEFINE F == {1..n : n \in S}
<1>1. F \subseteq FiniteSubsetsOf(Nat)
  BY FS_Interval DEF FiniteSubsetsOf
<1>2. F # {}
  BY Zenon
<1>3. PICK I \in F : \A J \in F : ~(<<J, I>> \in StrictSubsetOrdering(Nat))
  BY <1>1, <1>2, FS_StrictSubsetOrderingWellFounded, WFMin, Zenon
<1>4. PICK x \in S : I = 1..x
  BY Zenon
<1>5. ASSUME NEW y \in S, y < x PROVE FALSE
  <2>1. 1..y \in F
    BY Zenon
  <2>2. 1..y \subseteq 1..x
    BY <1>5
  <2>3. x \in 1..x /\ x \notin 1..y
    BY <1>5
  <2>4. 1..x \in SUBSET Nat /\ 1..y \in SUBSET Nat /\ 1..y # 1..x
    BY <2>3
  <2>5. <<1..y, 1..x>> \in StrictSubsetOrdering(Nat)
    BY <2>2, <2>4, Zenon DEF StrictSubsetOrdering
  <2> QED BY <1>3, <1>4, <2>1, <2>5, Zenon
<1> QED BY <1>5

\* The operator Min picks it.
LEMMA MinOfNaturals ==
    ASSUME NEW S, S \subseteq Nat, S # {}
    PROVE  Min(S) \in S /\ \A y \in S : Min(S) <= y
BY LeastNatural, Zenon DEF Min

\* Induction, stated with a set instead of a predicate.
LEMMA NatSetInduction ==
    ASSUME NEW T, T \subseteq Nat, 0 \in T, \A n \in T : n + 1 \in T
    PROVE  T = Nat
<1> SUFFICES ASSUME Nat \ T # {} PROVE FALSE
  BY Zenon
<1>1. PICK m \in Nat \ T : \A y \in Nat \ T : m <= y
  BY LeastNatural, Zenon
<1>2. m - 1 \in Nat /\ ~(m <= m - 1)
  OBVIOUS
<1>3. m - 1 \in T
  BY <1>1, <1>2, Zenon
<1>4. (m - 1) + 1 \in T
  BY <1>3, Zenon
<1> QED BY <1>1, <1>4

\* The image of a finite set under a function is finite and no larger.
LEMMA FiniteImage ==
    ASSUME NEW S, IsFiniteSet(S), NEW f, DOMAIN f = S
    PROVE  LET T == {f[x] : x \in S}
           IN IsFiniteSet(T) /\ Cardinality(T) <= Cardinality(S)
<1> DEFINE T == {f[x] : x \in S}
           g == [x \in S |-> f[x]]
<1>1. g \in Surjection(S, T)
  BY Zenon DEF Surjection
<1> QED BY <1>1, FS_Surjection, Zenon

\* The positions of a set of indices, counted from its least element
Rank(I, i) == Cardinality({h \in I : h <= i})

\* A finite set of indices has an element of every rank.
LEMMA RankExists ==
    ASSUME NEW n \in Nat, NEW I \in SUBSET (1..n), NEW j \in 1..Cardinality(I)
    PROVE  \E i \in I : Rank(I, i) = j
<1> DEFINE P(m) == \A J \in SUBSET (1..m) : \A k \in 1..Cardinality(J) :
                      \E i \in J : Rank(J, i) = k
           T == {m \in Nat : P(m)}
<1>1. 0 \in T
  <2> SUFFICES ASSUME NEW J \in SUBSET (1..0) PROVE Cardinality(J) = 0
    OBVIOUS
  <2>1. J = {}
    OBVIOUS
  <2> QED BY <2>1, FS_EmptySet, Zenon
<1>2. ASSUME NEW m \in T PROVE m + 1 \in T
  <2> SUFFICES ASSUME NEW J \in SUBSET (1..(m + 1)), NEW k \in 1..Cardinality(J)
               PROVE  \E i \in J : Rank(J, i) = k
    OBVIOUS
  <2>0. IsFiniteSet(J)
    <3>1. m + 1 \in Int /\ IsFiniteSet(1..(m + 1))
      BY FS_Interval
    <3> QED BY <3>1, FS_Subset, Zenon
  <2>a. \A h \in J : h \in Int /\ h <= m + 1
    OBVIOUS
  <2>1. CASE m + 1 \notin J
    <3>1. J \in SUBSET (1..m)
      BY <2>1
    <3> QED BY <3>1, Zenon
  <2>2. CASE m + 1 \in J
    <3> DEFINE H == J \ {m + 1}
    <3>1. H \in SUBSET (1..m)
      OBVIOUS
    <3>2. IsFiniteSet(H) /\ Cardinality(H) = Cardinality(J) - 1
      BY <2>0, <2>2, FS_RemoveElement, Zenon
    <3>3. CASE k = Cardinality(J)
      <4>1. {h \in J : h <= m + 1} = J
        BY <2>a, Zenon
      <4> QED BY <2>2, <3>3, <4>1, Zenon DEF Rank
    <3>4. CASE k # Cardinality(J)
      <4>1. k \in 1..Cardinality(H)
        BY <3>2, <3>4, <2>0, FS_CardinalityType
      <4>2. PICK i \in H : Rank(H, i) = k
        BY <3>1, <4>1, Zenon
      <4>3. {h \in H : h <= i} = {h \in J : h <= i}
        BY <3>1
      <4> QED BY <4>2, <4>3, Zenon DEF Rank
    <3> QED BY <3>3, <3>4, Zenon
  <2> QED BY <2>1, <2>2, Zenon
<1>3. T = Nat
  <2> HIDE DEF T
  <2>1. T \subseteq Nat
    BY Zenon DEF T
  <2> QED BY <1>1, <1>2, <2>1, NatSetInduction, Zenon
<1> QED BY <1>3, Zenon

\* Larger indices have larger ranks.
LEMMA RankMonotone ==
    ASSUME NEW n \in Nat, NEW I \in SUBSET (1..n), NEW i \in I, NEW j \in I, i < j
    PROVE  Rank(I, i) < Rank(I, j)
<1> DEFINE A == {h \in I : h <= i}
           B == {h \in I : h <= j}
<1>0. I \subseteq Int
  OBVIOUS
<1>1. IsFiniteSet(B)
  <2>1. IsFiniteSet(1..n)
    BY FS_Interval
  <2>2. B \in SUBSET (1..n)
    BY Zenon
  <2> QED BY <2>1, <2>2, FS_Subset, Zenon
<1>2. A \in SUBSET B /\ j \in B /\ j \notin A
  <2>1. i \in Int /\ j \in Int /\ j <= j /\ ~(j <= i)
    BY <1>0
  <2>2. ASSUME NEW h \in A PROVE h \in B
    <3>1. h \in I /\ h \in Int /\ h <= i
      BY <1>0, Zenon
    <3>2. h <= j
      BY <2>1, <3>1
    <3> QED BY <3>1, <3>2, Zenon
  <2> QED BY <2>1, <2>2, Zenon
<1>3. Cardinality(A) \in Nat /\ Cardinality(B) \in Nat /\ Cardinality(A) # Cardinality(B)
  BY <1>1, <1>2, FS_Subset, FS_CardinalityType, Zenon
<1>4. Cardinality(A) <= Cardinality(B)
  BY <1>1, <1>2, FS_Subset, Zenon
<1> QED BY <1>3, <1>4 DEF Rank

-----------------------------------------------------------------------------
(* The cache between two critical sections.                                 *)

\* What one critical section relies on and re-establishes, for a cache value
\* whose requests in R may have a dangling latest generation: complete removes
\* the in-flight entry first and settles `latest` last.
CacheInv(cache, R) ==
    /\ CacheTyped(cache)
    /\ IsFiniteSet(DOMAIN cache.entries)
    /\ \A r \in DOMAIN cache.latest \ R : LatestKey(cache, r) \in DOMAIN cache.entries
    /\ \A k \in CompletedKeys(cache) : IsLatest(cache, k)
    /\ \A k \in DOMAIN cache.entries : k.generation < cache.next_generation
    /\ cache.completed_bytes = RetainedBytes(cache, CompletedKeys(cache))

\* b is a with some retained replies dropped.
Shrinks(a, b) ==
    /\ DOMAIN b.entries \subseteq DOMAIN a.entries
    /\ \A k \in DOMAIN b.entries : b.entries[k] = a.entries[k]
    /\ DOMAIN a.entries \ DOMAIN b.entries \subseteq CompletedKeys(a)
    /\ DOMAIN b.latest \subseteq DOMAIN a.latest
    /\ \A r \in DOMAIN b.latest : b.latest[r] = a.latest[r]
    /\ \A r \in DOMAIN a.latest \ DOMAIN b.latest : LatestKey(a, r) \in CompletedKeys(a)
    /\ b.next_generation = a.next_generation
    /\ b.completed_bytes <= a.completed_bytes

-----------------------------------------------------------------------------
(* Functions and charged bytes.                                             *)

\* Removing keys from a map.
LEMMA WithoutFacts ==
    ASSUME NEW f, NEW S
    PROVE  /\ DOMAIN Without(f, S) = DOMAIN f \ S
           /\ \A x \in DOMAIN f \ S : Without(f, S)[x] = f[x]
BY Zenon DEF Without, Restrict

\* Inserting a key in a map.
LEMMA PutFacts ==
    ASSUME NEW f, NEW x, NEW v
    PROVE  /\ DOMAIN Put(f, x, v) = DOMAIN f \cup {x}
           /\ Put(f, x, v)[x] = v
           /\ \A y \in DOMAIN f \ {x} : Put(f, x, v)[y] = f[y]
BY Zenon DEF Put

\* Caches that agree on the replies of K charge the same bytes for them.
LEMMA SameCharge ==
    ASSUME NEW a, NEW b, NEW K, \A k \in K : a.entries[k] = b.entries[k]
    PROVE  RetainedBytes(a, K) = RetainedBytes(b, K)
<1>1. ChargedBytes(a, K) = ChargedBytes(b, K)
  BY Zenon DEF ChargedBytes
<1> QED BY <1>1, Zenon DEF RetainedBytes

\* The charge of a finite set of retained replies is finite.
LEMMA ChargeFinite ==
    ASSUME NEW cache, CacheTyped(cache), IsFiniteSet(DOMAIN cache.entries),
           NEW K \in SUBSET CompletedKeys(cache)
    PROVE  /\ IsFiniteSet(ChargedBytes(cache, K))
           /\ RetainedBytes(cache, K) \in Nat
<1> DEFINE B == [k \in K |-> {k} \X (1..cache.entries[k].retained_bytes)]
<1>1. IsFiniteSet(K)
  BY FS_Subset, Zenon DEF CompletedKeys
<1>2. IsFiniteSet({B[k] : k \in K})
  <2>1. DOMAIN B = K
    BY Zenon
  <2> HIDE DEF B
  <2> QED BY <1>1, <2>1, FiniteImage, Zenon
<1>3. ASSUME NEW k \in K PROVE IsFiniteSet(B[k])
  <2>1. cache.entries[k].retained_bytes \in Nat
    BY Zenon DEF CompletedKeys, CacheTyped, InFlightState, CompletedState
  <2>2. IsFiniteSet(1..cache.entries[k].retained_bytes)
    BY <2>1, FS_Interval
  <2> QED BY <2>2, FS_Singleton, FS_Product, Zenon
<1>4. IsFiniteSet(UNION {B[k] : k \in K})
  BY <1>2, <1>3, FS_UNION, Zenon
<1>5. ChargedBytes(cache, K) = UNION {B[k] : k \in K}
  BY Zenon DEF ChargedBytes
<1> QED BY <1>4, <1>5, FS_CardinalityType, Zenon DEF RetainedBytes

\* One reply of n bytes is charged n.
LEMMA OneCharge ==
    ASSUME NEW k, NEW n \in Nat
    PROVE  Cardinality({k} \X (1..n)) = n
<1>1. IsFiniteSet(1..n) /\ Cardinality(1..n) = n
  BY FS_Interval
<1>2. IsFiniteSet({k}) /\ Cardinality({k}) = 1
  BY FS_Singleton, Zenon
<1>3. Cardinality({k} \X (1..n)) = Cardinality({k}) * Cardinality(1..n)
  BY <1>1, <1>2, FS_Product, Zenon
<1> QED BY <1>1, <1>2, <1>3

\* Charges add up over disjoint sets of replies.
LEMMA ChargeSplit ==
    ASSUME NEW cache, CacheTyped(cache), IsFiniteSet(DOMAIN cache.entries),
           NEW K \in SUBSET CompletedKeys(cache)
    PROVE  RetainedBytes(cache, CompletedKeys(cache)) =
               RetainedBytes(cache, K) + RetainedBytes(cache, CompletedKeys(cache) \ K)
<1> DEFINE A == CompletedKeys(cache)
           CA == ChargedBytes(cache, A)
           CK == ChargedBytes(cache, K)
           CR == ChargedBytes(cache, A \ K)
<1>1. CA = CK \cup CR
  BY Zenon DEF ChargedBytes
<1>2. CK \cap CR = {}
  BY DEF ChargedBytes
<1>3. IsFiniteSet(CK) /\ IsFiniteSet(CR)
  BY ChargeFinite, Zenon
<1>4. Cardinality(CA) = Cardinality(CK) + Cardinality(CR) - Cardinality({})
  BY <1>1, <1>2, <1>3, FS_Union
<1> QED BY <1>3, <1>4, FS_EmptySet, FS_CardinalityType DEF RetainedBytes

-----------------------------------------------------------------------------
(* Dropping retained replies: remove_completed and the loops built on it.   *)

\* A key that is latest is the latest key of its request.
LEMMA LatestKeyUnique ==
    ASSUME NEW cache, NEW k \in EntryKey, IsLatest(cache, k)
    PROVE  k = LatestKey(cache, k.request)
BY DEF EntryKey, IsLatest, LatestKey

\* The fields of the cache after the removal of completed entries: the order
\* keeps its items, as tombstones.
LEMMA RemoveCompletedShape ==
    ASSUME NEW cache, CacheTyped(cache), NEW K
    PROVE  LET b == RemoveCompleted(cache, K)
           IN /\ DOMAIN b = DOMAIN cache
              /\ b.entries = Without(cache.entries, K)
              /\ b.latest = ForgetLatest(cache, K)
              /\ b.completed_order = cache.completed_order
              /\ b.completed_bytes = Monus(cache.completed_bytes, RetainedBytes(cache, K))
              /\ b.next_generation = cache.next_generation
BY Zenon DEF RemoveCompleted, CacheTyped

\* The latest index loses exactly the requests whose newest generation is
\* removed.
LEMMA ForgetLatestFacts ==
    ASSUME NEW cache, NEW K
    PROVE  /\ DOMAIN ForgetLatest(cache, K) \subseteq DOMAIN cache.latest
           /\ \A r \in DOMAIN ForgetLatest(cache, K) :
                 ForgetLatest(cache, K)[r] = cache.latest[r]
           /\ \A r \in DOMAIN cache.latest :
                 r \in DOMAIN ForgetLatest(cache, K) <=>
                     ~\E k \in K : IsLatest(cache, k) /\ k.request = r
<1> DEFINE S == {k.request : k \in {j \in K : IsLatest(cache, j)}}
<1>1. ForgetLatest(cache, K) = Without(cache.latest, S)
  BY Zenon DEF ForgetLatest
<1>2. DOMAIN ForgetLatest(cache, K) = DOMAIN cache.latest \ S
  BY <1>1, WithoutFacts, Zenon
<1>3. \A r : r \in S <=> \E k \in K : IsLatest(cache, k) /\ k.request = r
  BY Zenon
<1> HIDE DEF S
<1>4. ASSUME NEW r \in DOMAIN cache.latest \ S PROVE ForgetLatest(cache, K)[r] = cache.latest[r]
  BY <1>1, Zenon DEF Without, Restrict
<1> QED BY <1>2, <1>3, <1>4, Zenon

\* Removing retained replies keeps the cache consistent and touches nothing else.
LEMMA RemoveCompletedOK ==
    ASSUME NEW cache, NEW R, CacheInv(cache, R), NEW K \in SUBSET CompletedKeys(cache)
    PROVE  LET b == RemoveCompleted(cache, K)
           IN /\ CacheInv(b, R)
              /\ Shrinks(cache, b)
              /\ DOMAIN b.entries = DOMAIN cache.entries \ K
              /\ b.completed_order = cache.completed_order
<1> DEFINE b == RemoveCompleted(cache, K)
           A == CompletedKeys(cache)
<1>t. CacheTyped(cache) /\ IsFiniteSet(DOMAIN cache.entries)
  BY Zenon DEF CacheInv
<1>s. /\ DOMAIN b = DOMAIN cache
      /\ b.entries = Without(cache.entries, K)
      /\ b.latest = ForgetLatest(cache, K)
      /\ b.completed_order = cache.completed_order
      /\ b.completed_bytes = Monus(cache.completed_bytes, RetainedBytes(cache, K))
      /\ b.next_generation = cache.next_generation
  BY <1>t, RemoveCompletedShape, Zenon
<1> HIDE DEF b
<1>1. /\ DOMAIN b.entries = DOMAIN cache.entries \ K
      /\ \A k \in DOMAIN b.entries : b.entries[k] = cache.entries[k]
      /\ b.entries = [k \in DOMAIN b.entries |-> b.entries[k]]
  BY <1>s, WithoutFacts, Zenon DEF Without, Restrict
<1>2. /\ DOMAIN b.latest \subseteq DOMAIN cache.latest
      /\ \A r \in DOMAIN b.latest : b.latest[r] = cache.latest[r]
      /\ b.latest = [r \in DOMAIN b.latest |-> b.latest[r]]
      /\ \A r \in DOMAIN cache.latest :
            r \in DOMAIN b.latest <=> ~\E k \in K : IsLatest(cache, k) /\ k.request = r
  BY <1>s, ForgetLatestFacts DEF ForgetLatest, Without, Restrict
<1>3. CompletedKeys(b) = A \ K
  BY <1>1, Zenon DEF CompletedKeys
<1>4. /\ b.completed_bytes = RetainedBytes(b, CompletedKeys(b))
      /\ b.completed_bytes \in Nat
      /\ b.completed_bytes <= cache.completed_bytes
  <2>1. /\ RetainedBytes(cache, K) \in Nat
        /\ RetainedBytes(cache, A \ K) \in Nat
    BY <1>t, ChargeFinite, Zenon
  <2>2. cache.completed_bytes = RetainedBytes(cache, K) + RetainedBytes(cache, A \ K)
    BY <1>t, ChargeSplit, Zenon DEF CacheInv
  <2>3. RetainedBytes(cache, A \ K) = RetainedBytes(b, A \ K)
    <3>1. \A k \in A \ K : cache.entries[k] = b.entries[k]
      BY <1>1, Zenon DEF CompletedKeys
    <3> QED BY <3>1, SameCharge, Zenon
  <2> QED BY <1>3, <1>s, <2>1, <2>2, <2>3 DEF Monus
<1>5. CacheTyped(b)
  BY <1>t, <1>s, <1>1, <1>2, <1>4 DEF CacheTyped
<1>6. IsFiniteSet(DOMAIN b.entries)
  BY <1>t, <1>1, FS_Subset, Zenon
<1>7. ASSUME NEW r \in DOMAIN b.latest \ R
      PROVE  LatestKey(b, r) \in DOMAIN b.entries
  <2>1. r \in DOMAIN cache.latest \ R /\ LatestKey(b, r) = LatestKey(cache, r)
    BY <1>2, Zenon DEF LatestKey
  <2>2. LatestKey(cache, r) \in DOMAIN cache.entries
    BY <2>1, Zenon DEF CacheInv
  <2>3. IsLatest(cache, LatestKey(cache, r)) /\ LatestKey(cache, r).request = r
    BY <1>t, <2>1, Zenon DEF IsLatest, LatestKey, CacheTyped, LatestGeneration
  <2>4. LatestKey(cache, r) \notin K
    BY <1>2, <2>1, <2>3, Zenon
  <2> QED BY <1>1, <2>1, <2>2, <2>4, Zenon
<1>8. ASSUME NEW k \in CompletedKeys(b) PROVE IsLatest(b, k)
  <2>1. k \in A \ K /\ k \in EntryKey /\ IsLatest(cache, k)
    BY <1>3, <1>t, Zenon DEF CacheInv, CompletedKeys, CacheTyped
  <2>2. ASSUME NEW j \in K, IsLatest(cache, j), j.request = k.request PROVE FALSE
    <3>1. j \in EntryKey
      BY <1>t, Zenon DEF CompletedKeys, CacheTyped
    <3> QED BY <2>1, <2>2, <3>1, LatestKeyUnique, Zenon
  <2>3. k.request \in DOMAIN b.latest
    BY <1>2, <2>1, <2>2, Zenon DEF IsLatest
  <2> QED BY <1>2, <2>1, <2>3, Zenon DEF IsLatest
<1>9. \A k \in DOMAIN b.entries : k.generation < b.next_generation
  BY <1>1, <1>s, Zenon DEF CacheInv
<1>10. CacheInv(b, R)
  BY <1>4, <1>5, <1>6, <1>7, <1>8, <1>9, Zenon DEF CacheInv
<1>11. ASSUME NEW r \in DOMAIN cache.latest \ DOMAIN b.latest
       PROVE  LatestKey(cache, r) \in CompletedKeys(cache)
  <2>1. PICK k \in K : IsLatest(cache, k) /\ k.request = r
    BY <1>2, Zenon
  <2>2. k \in EntryKey
    BY <1>t, Zenon DEF CompletedKeys, CacheTyped
  <2> QED BY <2>1, <2>2, LatestKeyUnique, Zenon
<1>12. Shrinks(cache, b)
  BY <1>1, <1>2, <1>4, <1>s, <1>11, Zenon DEF Shrinks, CompletedKeys
<1> QED BY <1>1, <1>10, <1>12, <1>s, Zenon DEF b

\* Expiry followed by eviction still only drops completed entries.
LEMMA ShrinksTransitive ==
    ASSUME NEW a, NEW b, NEW c, Shrinks(a, b), Shrinks(b, c),
           a.completed_bytes \in Nat, b.completed_bytes \in Nat, c.completed_bytes \in Nat
    PROVE  Shrinks(a, c)
BY DEF Shrinks, CompletedKeys, LatestKey

\* Dropping nothing is a way to drop completed entries.
LEMMA ShrinksReflexive ==
    ASSUME NEW a, a.completed_bytes \in Nat
    PROVE  Shrinks(a, a)
BY DEF Shrinks

\* Changing only the completion order keeps the rest of the invariant.
LEMMA ReorderOK ==
    ASSUME NEW cache, NEW R, CacheInv(cache, R), NEW s \in Seq(EntryKey)
    PROVE  LET b == [cache EXCEPT !.completed_order = s]
           IN /\ CacheInv(b, R)
              /\ b.entries = cache.entries /\ b.latest = cache.latest
              /\ b.completed_order = s
              /\ b.completed_bytes = cache.completed_bytes
              /\ b.next_generation = cache.next_generation
<1> DEFINE b == [cache EXCEPT !.completed_order = s]
<1>1. /\ DOMAIN b = DOMAIN cache
      /\ b.entries = cache.entries /\ b.latest = cache.latest
      /\ b.completed_order = s
      /\ b.completed_bytes = cache.completed_bytes
      /\ b.next_generation = cache.next_generation
  BY Zenon DEF CacheInv, CacheTyped
<1> HIDE DEF b
<1>2. CompletedKeys(b) = CompletedKeys(cache)
  BY <1>1, Zenon DEF CompletedKeys
<1>3. RetainedBytes(b, CompletedKeys(cache)) = RetainedBytes(cache, CompletedKeys(cache))
  BY <1>1, SameCharge, Zenon
<1>4. CacheTyped(b)
  BY <1>1, Zenon DEF CacheInv, CacheTyped
<1>5. CacheInv(b, R)
  BY <1>1, <1>2, <1>3, <1>4, Zenon DEF CacheInv, LatestKey, IsLatest
<1> QED BY <1>1, <1>5, Zenon DEF b

\* Popping the completion order keeps the cache consistent.
LEMMA PopOldestOK ==
    ASSUME NEW cache, NEW R, CacheInv(cache, R), NEW n \in Nat
    PROVE  LET b == PopOldest(cache, n)
               popped == {cache.completed_order[i] : i \in 1..n}
           IN /\ CacheInv(b, R)
              /\ Shrinks(cache, b)
              /\ DOMAIN b.entries = DOMAIN cache.entries \ (CompletedKeys(cache) \cap popped)
              /\ b.completed_order =
                    SubSeq(cache.completed_order, n + 1, Len(cache.completed_order))
<1> DEFINE b == PopOldest(cache, n)
           popped == {cache.completed_order[i] : i \in 1..n}
           K == CompletedKeys(cache) \cap popped
           a == RemoveCompleted(cache, K)
           s == SubSeq(cache.completed_order, n + 1, Len(cache.completed_order))
<1>1. /\ CacheInv(a, R) /\ Shrinks(cache, a)
      /\ DOMAIN a.entries = DOMAIN cache.entries \ K
      /\ a.completed_order = cache.completed_order
  <2> HIDE DEF K, popped
  <2>1. K \in SUBSET CompletedKeys(cache)
    BY Zenon DEF K
  <2> QED BY <2>1, RemoveCompletedOK, Zenon
<1> HIDE DEF a
<1>2. s \in Seq(EntryKey)
  <2>1. cache.completed_order \in Seq(EntryKey)
    BY Zenon DEF CacheInv, CacheTyped
  <2> QED BY <2>1, SeqPart
<1>3. b = [a EXCEPT !.completed_order = s]
  BY <1>1, Zenon DEF PopOldest, a
<1> HIDE DEF s, b
<1>4. /\ CacheInv(b, R)
      /\ b.entries = a.entries /\ b.latest = a.latest
      /\ b.completed_order = s
      /\ b.completed_bytes = a.completed_bytes
      /\ b.next_generation = a.next_generation
  BY <1>1, <1>2, <1>3, ReorderOK
<1>5. Shrinks(cache, b)
  BY <1>1, <1>4, Zenon DEF Shrinks
<1> QED BY <1>1, <1>4, <1>5, Zenon DEF s, b, K

\* The three users of PopOldest pop a natural number of items.
LEMMA ExpireOK ==
    ASSUME NEW cache, NEW R, CacheInv(cache, R), NEW t
    PROVE  CacheInv(Expire(cache, t), R) /\ Shrinks(cache, Expire(cache, t))
<1> DEFINE order == cache.completed_order
           S == {i \in DOMAIN order : Fresh(cache, order[i], t)} \cup {Len(order) + 1}
           n == Min(S) - 1
<1>1. order \in Seq(EntryKey)
  BY Zenon DEF CacheInv, CacheTyped
<1>2. S \subseteq Nat \ {0} /\ S # {}
  BY <1>1, SeqLength
<1>3. Min(S) \in Nat \ {0}
  <2> HIDE DEF S
  <2> QED BY <1>2, MinOfNaturals, Zenon
<1>4. n \in Nat
  <2> HIDE DEF S
  <2> QED BY <1>3
<1>5. Expire(cache, t) = PopOldest(cache, n)
  BY Zenon DEF Expire
<1> HIDE DEF n
<1> QED BY <1>4, <1>5, PopOldestOK

\* Evicting the oldest reply removes one whenever there is one.
LEMMA EvictOldestOK ==
    ASSUME NEW cache, NEW R, CacheInv(cache, R)
    PROVE  LET b == EvictOldestCompleted(cache)
           IN /\ CacheInv(b, R)
              /\ Shrinks(cache, b)
              /\ Evictable(cache) # {} => DOMAIN b.entries # DOMAIN cache.entries
<1> DEFINE order == cache.completed_order
           E == Evictable(cache)
           n == IF E = {} THEN Len(order) ELSE Min(E)
           b == EvictOldestCompleted(cache)
<1>1. order \in Seq(EntryKey) /\ Len(order) \in Nat /\ DOMAIN order = 1..Len(order)
  BY SeqLength, Zenon DEF CacheInv, CacheTyped
<1>2. E \subseteq 1..Len(order)
  BY <1>1, Zenon DEF Evictable
<1>3. ASSUME E # {} PROVE Min(E) \in E
  BY <1>2, <1>3, MinOfNaturals
<1>4. n \in Nat
  BY <1>1, <1>2, <1>3
<1>5. b = PopOldest(cache, n)
  BY Zenon DEF EvictOldestCompleted
<1>6. /\ CacheInv(b, R) /\ Shrinks(cache, b)
      /\ DOMAIN b.entries = DOMAIN cache.entries \
            (CompletedKeys(cache) \cap {cache.completed_order[i] : i \in 1..n})
  <2> HIDE DEF n, b
  <2> QED BY <1>4, <1>5, PopOldestOK, Zenon
<1>7. ASSUME E # {} PROVE DOMAIN b.entries # DOMAIN cache.entries
  <2> DEFINE k == order[Min(E)]
  <2>1. Min(E) \in 1..n
    BY <1>2, <1>3, <1>7
  <2>2. k \in CompletedKeys(cache)
    BY <1>3, <1>7, Zenon DEF Evictable, Completed, CompletedKeys
  <2>3. k \in DOMAIN cache.entries
    BY <2>2, Zenon DEF CompletedKeys
  <2>4. k \notin DOMAIN b.entries
    <3> HIDE DEF n, b, E
    <3> QED BY <1>6, <2>1, <2>2, Zenon
  <2> QED BY <2>3, <2>4, Zenon
<1> QED BY <1>6, <1>7, Zenon

\* Making room for a reply keeps the cache in order and only drops completed
\* entries.
LEMMA EvictToFitOK ==
    ASSUME NEW cache, NEW R, CacheInv(cache, R), NEW bytes
    PROVE  CacheInv(EvictToFit(cache, bytes), R) /\ Shrinks(cache, EvictToFit(cache, bytes))
<1> DEFINE order == cache.completed_order
           S == {n \in 0..Len(order) :
                    PopOldest(cache, n).completed_bytes + bytes <= MaxCompletedBytes}
                \cup {Len(order)}
<1>1. Len(order) \in Nat
  BY SeqLength, Zenon DEF CacheInv, CacheTyped
<1>2. S \subseteq Nat /\ S # {}
  BY <1>1
<1>3. EvictToFit(cache, bytes) = PopOldest(cache, Min(S))
  BY Zenon DEF EvictToFit
<1> HIDE DEF S
<1>4. Min(S) \in Nat
  BY <1>2, MinOfNaturals, Zenon
<1> QED BY <1>3, <1>4, PopOldestOK

\* Dropping the reply of a reused XID keeps the cache in order.
LEMMA RemoveForRequestOK ==
    ASSUME NEW cache, NEW R, CacheInv(cache, R), NEW r
    PROVE  LET b == RemoveCompletedForRequest(cache, r)
           IN CacheInv(b, R) /\ Shrinks(cache, b)
<1> DEFINE k == LatestKey(cache, r)
<1>1. CASE r \in DOMAIN cache.latest /\ Completed(cache, k)
  <2>1. {k} \in SUBSET CompletedKeys(cache)
    BY <1>1, Zenon DEF Completed, CompletedKeys
  <2>2. RemoveCompletedForRequest(cache, r) = RemoveCompleted(cache, {k})
    BY <1>1, Zenon DEF RemoveCompletedForRequest
  <2> QED BY <2>1, <2>2, RemoveCompletedOK
<1>2. CASE ~(r \in DOMAIN cache.latest /\ Completed(cache, k))
  <2>1. RemoveCompletedForRequest(cache, r) = cache
    BY <1>2, Zenon DEF RemoveCompletedForRequest
  <2>2. cache.completed_bytes \in Nat
    BY Zenon DEF CacheInv, CacheTyped
  <2> QED BY <2>1, <2>2, ShrinksReflexive, Zenon
<1> QED BY <1>1, <1>2, Zenon

-----------------------------------------------------------------------------
(* Starting a generation, and storing or dropping the reply of a leader.    *)

\* A new generation is a fresh in-flight entry and becomes the newest of its
\* request.
LEMMA StartGenerationOK ==
    ASSUME NEW cache, CacheInv(cache, {}), NEW k \in EntryKey,
           k.generation = cache.next_generation,
           ~(k.request \in DOMAIN cache.latest /\ Completed(cache, LatestKey(cache, k.request)))
    PROVE  LET b == StartGeneration(cache, k)
           IN /\ CacheInv(b, {})
              /\ k \notin DOMAIN cache.entries
              /\ b.entries = Put(cache.entries, k, [state |-> "InFlight", waiters |-> {}])
              /\ b.latest = Put(cache.latest, k.request,
                                [fingerprint |-> k.fingerprint, generation |-> k.generation])
              /\ b.completed_order = cache.completed_order
              /\ b.completed_bytes = cache.completed_bytes
              /\ b.next_generation = cache.next_generation + 1
<1> DEFINE b == StartGeneration(cache, k)
           new == [state |-> "InFlight", waiters |-> {}]
           lat == [fingerprint |-> k.fingerprint, generation |-> k.generation]
<1>t. CacheTyped(cache) /\ IsFiniteSet(DOMAIN cache.entries)
  BY Zenon DEF CacheInv
<1>1. /\ DOMAIN b = DOMAIN cache
      /\ b.entries = Put(cache.entries, k, new)
      /\ b.latest = Put(cache.latest, k.request, lat)
      /\ b.completed_order = cache.completed_order
      /\ b.completed_bytes = cache.completed_bytes
      /\ b.next_generation = cache.next_generation + 1
  BY <1>t, Zenon DEF StartGeneration, CacheTyped
<1> HIDE DEF b
<1>2. k \notin DOMAIN cache.entries
  BY <1>t DEF CacheInv, CacheTyped
<1>3. /\ DOMAIN b.entries = DOMAIN cache.entries \cup {k}
      /\ b.entries[k] = new
      /\ \A j \in DOMAIN cache.entries : b.entries[j] = cache.entries[j]
      /\ b.entries = [j \in DOMAIN b.entries |-> b.entries[j]]
  BY <1>1, <1>2, Zenon DEF Put
<1>4. /\ DOMAIN b.latest = DOMAIN cache.latest \cup {k.request}
      /\ b.latest[k.request] = lat
      /\ \A r \in DOMAIN cache.latest \ {k.request} : b.latest[r] = cache.latest[r]
      /\ b.latest = [r \in DOMAIN b.latest |-> b.latest[r]]
  BY <1>1, Zenon DEF Put
<1>5. new \in InFlightState /\ lat \in LatestGeneration /\ k.request \in Requests
  BY Zenon DEF InFlightState, LatestGeneration, EntryKey
<1>6. CacheTyped(b)
  <2>1. b.entries \in [DOMAIN b.entries -> InFlightState \cup CompletedState]
    BY <1>t, <1>3, <1>5, Zenon DEF CacheTyped
  <2>2. b.latest \in [DOMAIN b.latest -> LatestGeneration]
    BY <1>t, <1>4, <1>5 DEF CacheTyped
  <2> QED BY <1>t, <1>1, <1>3, <1>4, <1>5, <2>1, <2>2 DEF CacheTyped
<1>7. IsFiniteSet(DOMAIN b.entries)
  BY <1>t, <1>3, FS_AddElement
<1>8. CompletedKeys(b) = CompletedKeys(cache)
  BY <1>2, <1>3 DEF CompletedKeys
<1>9. ASSUME NEW r \in DOMAIN b.latest PROVE LatestKey(b, r) \in DOMAIN b.entries
  <2>1. CASE r = k.request
    BY <1>3, <1>4, <2>1 DEF LatestKey, EntryKey
  <2>2. CASE r # k.request
    BY <1>3, <1>4, <2>2, Zenon DEF LatestKey, CacheInv
  <2> QED BY <2>1, <2>2, Zenon
<1>10. ASSUME NEW j \in CompletedKeys(b) PROVE IsLatest(b, j)
  <2>1. j \in CompletedKeys(cache) /\ IsLatest(cache, j) /\ j \in EntryKey
    BY <1>8, <1>t, Zenon DEF CacheInv, CompletedKeys, CacheTyped
  <2>2. j.request # k.request
    BY <2>1, LatestKeyUnique, Zenon DEF IsLatest, Completed, CompletedKeys
  <2> QED BY <1>4, <2>1, <2>2, Zenon DEF IsLatest
<1>11. \A j \in DOMAIN b.entries : j.generation < b.next_generation
  <2>1. \A j \in DOMAIN cache.entries : j.generation \in Nat /\ j.generation < cache.next_generation
    BY <1>t, Zenon DEF CacheInv, CacheTyped, EntryKey
  <2>2. cache.next_generation \in Nat
    BY <1>t, Zenon DEF CacheTyped
  <2> QED BY <1>1, <1>3, <2>1, <2>2
<1>12. b.completed_bytes = RetainedBytes(b, CompletedKeys(b))
  <2>1. \A j \in CompletedKeys(cache) : b.entries[j] = cache.entries[j]
    BY <1>3, Zenon DEF CompletedKeys
  <2>2. RetainedBytes(b, CompletedKeys(cache)) = RetainedBytes(cache, CompletedKeys(cache))
    BY <2>1, SameCharge, Zenon
  <2> QED BY <1>1, <1>8, <2>2, Zenon DEF CacheInv
<1>13. CacheInv(b, {})
  BY <1>6, <1>7, <1>9, <1>10, <1>11, <1>12, Zenon DEF CacheInv
<1> QED BY <1>1, <1>2, <1>13, Zenon DEF b

\* A leader's entry leaves the cache; only its own request may now dangle.
LEMMA DepartedOK ==
    ASSUME NEW cache, CacheInv(cache, {}), NEW k, InFlight(cache, k)
    PROVE  LET b == Departed(cache, k)
           IN /\ CacheInv(b, {k.request})
              /\ DOMAIN b.entries = DOMAIN cache.entries \ {k}
              /\ \A j \in DOMAIN b.entries : b.entries[j] = cache.entries[j]
              /\ b.latest = cache.latest
              /\ b.completed_order = cache.completed_order
              /\ b.completed_bytes = cache.completed_bytes
              /\ b.next_generation = cache.next_generation
              /\ CompletedKeys(b) = CompletedKeys(cache)
              /\ IsLatest(b, k) \/ CacheInv(b, {})
<1> DEFINE b == Departed(cache, k)
<1>t. CacheTyped(cache) /\ IsFiniteSet(DOMAIN cache.entries)
  BY Zenon DEF CacheInv
<1>1. /\ DOMAIN b = DOMAIN cache
      /\ b.entries = Without(cache.entries, {k})
      /\ b.latest = cache.latest
      /\ b.completed_order = cache.completed_order
      /\ b.completed_bytes = cache.completed_bytes
      /\ b.next_generation = cache.next_generation
  BY <1>t, Zenon DEF Departed, CacheTyped
<1> HIDE DEF b
<1>2. /\ DOMAIN b.entries = DOMAIN cache.entries \ {k}
      /\ \A j \in DOMAIN b.entries : b.entries[j] = cache.entries[j]
      /\ b.entries = [j \in DOMAIN b.entries |-> b.entries[j]]
  BY <1>1, Zenon DEF Without, Restrict
<1>3. CompletedKeys(b) = CompletedKeys(cache)
  BY <1>2, Zenon DEF CompletedKeys, InFlight
<1>4. CacheTyped(b)
  BY <1>t, <1>1, <1>2, Zenon DEF CacheTyped
<1>5. IsFiniteSet(DOMAIN b.entries)
  BY <1>t, <1>2, FS_Subset, Zenon
<1>6. \A r \in DOMAIN b.latest \ {k.request} : LatestKey(b, r) \in DOMAIN b.entries
  BY <1>1, <1>2 DEF CacheInv, LatestKey
<1>7. \A j \in CompletedKeys(b) : IsLatest(b, j)
  BY <1>1, <1>3, Zenon DEF CacheInv, IsLatest
<1>8. \A j \in DOMAIN b.entries : j.generation < b.next_generation
  BY <1>1, <1>2, Zenon DEF CacheInv
<1>9. b.completed_bytes = RetainedBytes(b, CompletedKeys(b))
  <2>1. \A j \in CompletedKeys(cache) : b.entries[j] = cache.entries[j]
    BY <1>2, <1>3, Zenon DEF CompletedKeys
  <2>2. RetainedBytes(b, CompletedKeys(cache)) = RetainedBytes(cache, CompletedKeys(cache))
    BY <2>1, SameCharge, Zenon
  <2> QED BY <1>1, <1>3, <2>2, Zenon DEF CacheInv
<1>10. CacheInv(b, {k.request})
  BY <1>4, <1>5, <1>6, <1>7, <1>8, <1>9, Zenon DEF CacheInv
<1>11. ASSUME ~IsLatest(b, k), NEW r \in DOMAIN b.latest
       PROVE  LatestKey(b, r) \in DOMAIN b.entries
  <2>1. LatestKey(b, r) \in DOMAIN cache.entries
    BY <1>1, Zenon DEF CacheInv, LatestKey
  <2>2. b.latest[r] \in LatestGeneration
    BY <1>4, Zenon DEF CacheTyped
  <2>3. LatestKey(b, r) # k
    BY <1>11, <2>2 DEF IsLatest, LatestKey, LatestGeneration
  <2> QED BY <1>2, <2>1, <2>3, Zenon
<1>12. ~IsLatest(b, k) => CacheInv(b, {})
  BY <1>4, <1>5, <1>7, <1>8, <1>9, <1>11, Zenon DEF CacheInv
<1> QED BY <1>1, <1>2, <1>3, <1>10, <1>12, Zenon DEF b

\* b has exactly the in-flight entries of a, unchanged.
SameFlights(a, b) ==
    /\ \A j : InFlight(a, j) => j \in DOMAIN b.entries /\ b.entries[j] = a.entries[j]
    /\ \A j : InFlight(b, j) => InFlight(a, j)

\* Dropping completed entries leaves the executions in flight alone.
LEMMA ShrinksSameFlights ==
    ASSUME NEW a, NEW b, Shrinks(a, b)
    PROVE  SameFlights(a, b)
BY Zenon DEF Shrinks, SameFlights, InFlight, CompletedKeys

\* Forgetting the generation that just left repairs the dangling request.
LEMMA SettledOK ==
    ASSUME NEW cache, NEW k \in EntryKey, CacheInv(cache, {k.request}),
           k \notin DOMAIN cache.entries,
           IsLatest(cache, k) \/ CacheInv(cache, {})
    PROVE  LET b == Settled(cache, k)
           IN /\ CacheInv(b, {})
              /\ b.entries = cache.entries
              /\ b.completed_order = cache.completed_order
              /\ b.completed_bytes = cache.completed_bytes
              /\ b.next_generation = cache.next_generation
              /\ DOMAIN b.latest \subseteq DOMAIN cache.latest
              /\ \A r \in DOMAIN b.latest : b.latest[r] = cache.latest[r]
              /\ \A r \in DOMAIN cache.latest :
                    r \in DOMAIN b.latest <=> ~(IsLatest(cache, k) /\ r = k.request)
<1> DEFINE b == Settled(cache, k)
<1>t. CacheTyped(cache)
  BY Zenon DEF CacheInv
<1>1. /\ DOMAIN b = DOMAIN cache
      /\ b.entries = cache.entries
      /\ b.latest = ForgetLatest(cache, {k})
      /\ b.completed_order = cache.completed_order
      /\ b.completed_bytes = cache.completed_bytes
      /\ b.next_generation = cache.next_generation
  BY <1>t, Zenon DEF Settled, CacheTyped
<1> HIDE DEF b
<1>2. /\ DOMAIN b.latest \subseteq DOMAIN cache.latest
      /\ \A r \in DOMAIN b.latest : b.latest[r] = cache.latest[r]
      /\ b.latest = [r \in DOMAIN b.latest |-> b.latest[r]]
      /\ \A r \in DOMAIN cache.latest :
            r \in DOMAIN b.latest <=> ~(IsLatest(cache, k) /\ r = k.request)
  <2>1. b.latest = [r \in DOMAIN b.latest |-> b.latest[r]]
    BY <1>1, Zenon DEF ForgetLatest, Without, Restrict
  <2>2. \A r \in DOMAIN cache.latest :
            r \in DOMAIN b.latest <=> ~(\E j \in {k} : IsLatest(cache, j) /\ j.request = r)
    BY <1>1, ForgetLatestFacts
  <2>3. /\ DOMAIN b.latest \subseteq DOMAIN cache.latest
        /\ \A r \in DOMAIN b.latest : b.latest[r] = cache.latest[r]
    BY <1>1, ForgetLatestFacts
  <2> QED BY <2>1, <2>2, <2>3, Zenon
<1>3. CacheTyped(b)
  BY <1>t, <1>1, <1>2 DEF CacheTyped
<1>4. CompletedKeys(b) = CompletedKeys(cache)
  BY <1>1, Zenon DEF CompletedKeys
<1>5. b.completed_bytes = RetainedBytes(b, CompletedKeys(b))
  <2>1. RetainedBytes(b, CompletedKeys(cache)) = RetainedBytes(cache, CompletedKeys(cache))
    BY <1>1, SameCharge, Zenon
  <2> QED BY <1>1, <1>4, <2>1, Zenon DEF CacheInv
<1>6. ASSUME NEW r \in DOMAIN b.latest PROVE LatestKey(b, r) \in DOMAIN b.entries
  <2>1. r \in DOMAIN cache.latest /\ LatestKey(b, r) = LatestKey(cache, r)
    BY <1>2, Zenon DEF LatestKey
  <2>2. CASE CacheInv(cache, {})
    BY <1>1, <2>1, <2>2, Zenon DEF CacheInv
  <2>3. CASE IsLatest(cache, k)
    <3>1. r # k.request
      BY <1>2, <2>1, <2>3, Zenon
    <3> QED BY <1>1, <2>1, <3>1, Zenon DEF CacheInv
  <2> QED BY <2>2, <2>3, Zenon
<1>7. ASSUME NEW j \in CompletedKeys(b) PROVE IsLatest(b, j)
  <2>1. j \in EntryKey /\ j # k /\ IsLatest(cache, j)
    BY <1>1, <1>4, <1>t, Zenon DEF CacheInv, CompletedKeys, CacheTyped
  <2>2. ~(IsLatest(cache, k) /\ j.request = k.request)
    BY <2>1, LatestKeyUnique, Zenon
  <2> QED BY <1>2, <2>1, <2>2, Zenon DEF IsLatest
<1>8. CacheInv(b, {})
  BY <1>1, <1>3, <1>5, <1>6, <1>7, Zenon DEF CacheInv
<1> QED BY <1>1, <1>2, <1>8, Zenon DEF b

\* Compaction keeps a sequence of keys.
LEMMA RetainTyped ==
    ASSUME NEW T, NEW s \in Seq(T), NEW K
    PROVE  Retain(s, K) \in Seq(T)
<1> DEFINE I == {i \in DOMAIN s : s[i] \in K}
           pos(j) == CHOOSE i \in I : Cardinality({h \in I : h <= i}) = j
<1>1. Len(s) \in Nat /\ DOMAIN s = 1..Len(s) /\ I \in SUBSET (1..Len(s))
  BY SeqLength, Zenon
<1>2. IsFiniteSet(I)
  <2>1. IsFiniteSet(1..Len(s))
    BY <1>1, FS_Interval
  <2> HIDE DEF I
  <2> QED BY <1>1, <2>1, FS_Subset, Zenon
<1>3. Cardinality(I) \in Nat
  BY <1>2, FS_CardinalityType, Zenon
<1>4. ASSUME NEW j \in 1..Cardinality(I) PROVE s[pos(j)] \in T
  <2>1. \E i \in I : Cardinality({h \in I : h <= i}) = j
    <3> HIDE DEF I
    <3> QED BY <1>1, RankExists, Zenon DEF Rank
  <2>2. pos(j) \in I
    <3> HIDE DEF I
    <3> QED BY <2>1, Zenon
  <2>3. pos(j) \in DOMAIN s
    <3> HIDE DEF pos
    <3> QED BY <2>2, Zenon
  <2> HIDE DEF pos
  <2> QED BY <1>1, <2>3, SeqElement, Zenon
<1>5. Retain(s, K) = [j \in 1..Cardinality(I) |-> s[pos(j)]]
  BY Zenon DEF Retain
<1> HIDE DEF I, pos
<1> QED BY <1>3, <1>4, <1>5, SeqFromFunction, Zenon

\* What complete's caller may rely on: b is the cache after the reply rep of
\* the departed generation k was retained or not.
Stores(cache, b, k, rep) ==
    /\ CacheInv(b, {})
    /\ SameFlights(cache, b)
    /\ DOMAIN b.entries \subseteq DOMAIN cache.entries \cup {k}
    /\ \A j \in CompletedKeys(b) :
          \/ j = k /\ b.entries[j].encoded_reply = rep
          \/ j \in CompletedKeys(cache) /\ b.entries[j] = cache.entries[j]
    /\ DOMAIN b.latest \subseteq DOMAIN cache.latest
    /\ \A r \in DOMAIN b.latest : b.latest[r] = cache.latest[r]
    /\ \A r \in DOMAIN cache.latest \ DOMAIN b.latest :
          (IsLatest(cache, k) /\ r = k.request) \/ LatestKey(cache, r) \in CompletedKeys(cache)
    /\ b.next_generation = cache.next_generation

\* Inserting a reply of the newest generation keeps the cache in order and
\* charges its bytes.
LEMMA InsertOK ==
    ASSUME NEW cache, NEW k \in EntryKey, CacheInv(cache, {k.request}),
           k \notin DOMAIN cache.entries, IsLatest(cache, k),
           k.generation < cache.next_generation,
           NEW rep \in Reply, rep.shape.retained_bytes \in Nat, now \in Nat
    PROVE  LET b == Insert(cache, k, rep, Append(cache.completed_order, k),
                           rep.shape.retained_bytes)
           IN Stores(cache, b, k, rep)
              /\ b.completed_bytes = cache.completed_bytes + rep.shape.retained_bytes
<1> DEFINE bytes == rep.shape.retained_bytes
           b == Insert(cache, k, rep, Append(cache.completed_order, k), bytes)
           new == [state |-> "Completed", encoded_reply |-> rep,
                   retained_bytes |-> bytes, completed_at |-> now]
           A == CompletedKeys(cache)
<1>t. CacheTyped(cache) /\ IsFiniteSet(DOMAIN cache.entries)
  BY Zenon DEF CacheInv
<1>1. /\ DOMAIN b = DOMAIN cache
      /\ b.entries = Put(cache.entries, k, new)
      /\ b.latest = cache.latest
      /\ b.completed_order = Append(cache.completed_order, k)
      /\ b.completed_bytes = cache.completed_bytes + bytes
      /\ b.next_generation = cache.next_generation
  BY <1>t, Zenon DEF Insert, CacheTyped
<1> HIDE DEF b
<1>2. /\ DOMAIN b.entries = DOMAIN cache.entries \cup {k}
      /\ b.entries[k] = new
      /\ \A j \in DOMAIN cache.entries : b.entries[j] = cache.entries[j]
      /\ b.entries = [j \in DOMAIN b.entries |-> b.entries[j]]
  BY <1>1, Zenon DEF Put
<1>3. new \in CompletedState
  BY Zenon DEF CompletedState
<1>4. CompletedKeys(b) = A \cup {k} /\ k \notin A
  BY <1>2 DEF CompletedKeys
<1>5. CacheTyped(b)
  <2>1. b.entries \in [DOMAIN b.entries -> InFlightState \cup CompletedState]
    BY <1>t, <1>2, <1>3, Zenon DEF CacheTyped
  <2>2. b.completed_order \in Seq(EntryKey)
    BY <1>t, <1>1, SeqAppend DEF CacheTyped
  <2>3. b.completed_bytes \in Nat
    BY <1>t, <1>1 DEF CacheTyped
  <2> QED BY <1>t, <1>1, <1>2, <2>1, <2>2, <2>3, Zenon DEF CacheTyped
<1>6. IsFiniteSet(DOMAIN b.entries)
  BY <1>t, <1>2, FS_AddElement
<1>7. b.completed_bytes = RetainedBytes(b, CompletedKeys(b))
  <2>1. {k} \in SUBSET CompletedKeys(b) /\ CompletedKeys(b) \ {k} = A
    BY <1>4, Zenon
  <2>2. RetainedBytes(b, CompletedKeys(b)) = RetainedBytes(b, {k}) + RetainedBytes(b, A)
    BY <1>5, <1>6, <2>1, ChargeSplit, Zenon
  <2>3. RetainedBytes(b, A) = cache.completed_bytes
    <3>1. \A j \in A : b.entries[j] = cache.entries[j]
      BY <1>2, Zenon DEF CompletedKeys
    <3> QED BY <3>1, SameCharge DEF CacheInv
  <2>4. RetainedBytes(b, {k}) = bytes
    <3>1. ChargedBytes(b, {k}) = {k} \X (1..bytes)
      BY <1>2 DEF ChargedBytes
    <3> QED BY <3>1, OneCharge, Zenon DEF RetainedBytes
  <2> QED BY <1>1, <1>t, <2>2, <2>3, <2>4 DEF CacheTyped
<1>8. ASSUME NEW r \in DOMAIN b.latest PROVE LatestKey(b, r) \in DOMAIN b.entries
  <2>1. LatestKey(b, r) = LatestKey(cache, r) /\ r \in DOMAIN cache.latest
    BY <1>1, Zenon DEF LatestKey
  <2>2. CASE r = k.request
    BY <1>2, <2>1, <2>2, LatestKeyUnique, Zenon
  <2>3. CASE r # k.request
    BY <1>2, <2>1, <2>3, Zenon DEF CacheInv
  <2> QED BY <2>2, <2>3, Zenon
<1>9. \A j \in CompletedKeys(b) : IsLatest(b, j)
  BY <1>1, <1>4, Zenon DEF CacheInv, IsLatest
<1>10. \A j \in DOMAIN b.entries : j.generation < b.next_generation
  BY <1>1, <1>2, Zenon DEF CacheInv
<1>11. CacheInv(b, {})
  BY <1>5, <1>6, <1>7, <1>8, <1>9, <1>10, Zenon DEF CacheInv
<1>12. SameFlights(cache, b)
  BY <1>2 DEF SameFlights, InFlight
<1>13. Stores(cache, b, k, rep)
  BY <1>1, <1>2, <1>4, <1>11, <1>12, SMTT(20) DEF Stores, CompletedKeys
<1> QED BY <1>1, <1>13, Zenon DEF b

\* Compaction changes the order only.
LEMMA CompactOK ==
    ASSUME NEW cache, NEW R, CacheInv(cache, R)
    PROVE  LET b == CompactCompletionOrder(cache)
           IN /\ CacheInv(b, R)
              /\ b.entries = cache.entries /\ b.latest = cache.latest
              /\ b.completed_bytes = cache.completed_bytes
              /\ b.next_generation = cache.next_generation
<1> DEFINE s == Retain(cache.completed_order, CompletedKeys(cache))
<1>1. s \in Seq(EntryKey)
  BY RetainTyped, Zenon DEF CacheInv, CacheTyped
<1> DEFINE a == [cache EXCEPT !.completed_order = s]
<1>2. CompactCompletionOrder(cache) = cache \/ CompactCompletionOrder(cache) = a
  BY Zenon DEF CompactCompletionOrder
<1> HIDE DEF s
<1>3. /\ CacheInv(a, R)
      /\ a.entries = cache.entries /\ a.latest = cache.latest
      /\ a.completed_bytes = cache.completed_bytes
      /\ a.next_generation = cache.next_generation
  BY <1>1, ReorderOK, Zenon
<1> HIDE DEF a
<1> QED BY <1>2, <1>3, Zenon

\* Insertion and the compaction after it store the reply and charge its bytes.
LEMMA RetainReplyOK ==
    ASSUME NEW cache, NEW k \in EntryKey, CacheInv(cache, {k.request}),
           k \notin DOMAIN cache.entries, IsLatest(cache, k),
           k.generation < cache.next_generation,
           NEW rep \in Reply, rep.shape.retained_bytes \in Nat, now \in Nat
    PROVE  LET b == RetainReply(cache, k, rep)
           IN Stores(cache, b, k, rep)
              /\ b.completed_bytes = cache.completed_bytes + rep.shape.retained_bytes
<1> DEFINE a == Insert(cache, k, rep, Append(cache.completed_order, k),
                       rep.shape.retained_bytes)
           b == RetainReply(cache, k, rep)
<1>1. /\ Stores(cache, a, k, rep)
      /\ a.completed_bytes = cache.completed_bytes + rep.shape.retained_bytes
  BY InsertOK, Zenon
<1>2. b = CompactCompletionOrder(a)
  BY Zenon DEF RetainReply
<1> HIDE DEF a, b
<1>3. /\ CacheInv(b, {})
      /\ b.entries = a.entries /\ b.latest = a.latest
      /\ b.completed_bytes = a.completed_bytes
      /\ b.next_generation = a.next_generation
  BY <1>1, <1>2, CompactOK, Zenon DEF Stores
<1>4. Stores(cache, b, k, rep)
  BY <1>1, <1>3 DEF Stores, CompletedKeys, SameFlights, InFlight
<1> QED BY <1>1, <1>3, <1>4, Zenon DEF b

\* Making room first and storing then is one storing step.
LEMMA ShrinkThenStore ==
    ASSUME NEW a, NEW b, NEW c, NEW k, NEW rep, Shrinks(a, b), Stores(b, c, k, rep)
    PROVE  Stores(a, c, k, rep)
<1>1. SameFlights(a, b) /\ SameFlights(b, c)
  BY ShrinksSameFlights, Zenon DEF Stores
<1>2. SameFlights(a, c)
  BY <1>1, Zenon DEF SameFlights, InFlight
<1>3. \A j \in CompletedKeys(b) : j \in CompletedKeys(a) /\ b.entries[j] = a.entries[j]
  BY Zenon DEF Shrinks, CompletedKeys
<1>4. \A j \in CompletedKeys(c) :
          \/ j = k /\ c.entries[j].encoded_reply = rep
          \/ j \in CompletedKeys(a) /\ c.entries[j] = a.entries[j]
  BY <1>3, Zenon DEF Stores
<1>5. DOMAIN c.entries \subseteq DOMAIN a.entries \cup {k}
  BY Zenon DEF Stores, Shrinks
<1>6. /\ DOMAIN c.latest \subseteq DOMAIN a.latest
      /\ \A r \in DOMAIN c.latest : c.latest[r] = a.latest[r]
      /\ c.next_generation = a.next_generation
  BY Zenon DEF Stores, Shrinks
<1>7. ASSUME NEW r \in DOMAIN a.latest \ DOMAIN c.latest
      PROVE  (IsLatest(a, k) /\ r = k.request) \/ LatestKey(a, r) \in CompletedKeys(a)
  <2>1. CASE r \notin DOMAIN b.latest
    BY <2>1, Zenon DEF Shrinks
  <2>2. CASE r \in DOMAIN b.latest
    <3>1. b.latest[r] = a.latest[r] /\ LatestKey(b, r) = LatestKey(a, r)
      BY <2>2, Zenon DEF Shrinks, LatestKey
    <3>2. (IsLatest(b, k) /\ r = k.request) \/ LatestKey(b, r) \in CompletedKeys(b)
      BY <2>2, Zenon DEF Stores
    <3>3. IsLatest(b, k) /\ r = k.request => IsLatest(a, k)
      BY <2>2, <3>1, Zenon DEF IsLatest
    <3> QED BY <1>3, <3>1, <3>2, <3>3, Zenon
  <2> QED BY <2>1, <2>2, Zenon
<1> QED BY <1>2, <1>4, <1>5, <1>6, <1>7, Zenon DEF Stores

\* Whatever complete decides, the cache is consistent again, within its byte
\* budget, and no other call's in-flight entry was touched.
LEMMA StoreIfOK ==
    ASSUME NEW cache, NEW k \in EntryKey, CacheInv(cache, {k.request}),
           k \notin DOMAIN cache.entries, IsLatest(cache, k) \/ CacheInv(cache, {}),
           k.generation < cache.next_generation, cache.completed_bytes <= MaxCompletedBytes,
           NEW rep \in Reply, rep.shape.retained_bytes \in Nat, now \in Nat,
           NEW wanted \in BOOLEAN, wanted => IsLatest(cache, k)
    PROVE  LET b == StoreIf(cache, k, rep, wanted)
           IN Stores(cache, b, k, rep) /\ b.completed_bytes <= MaxCompletedBytes
<1> DEFINE bytes == rep.shape.retained_bytes
           room == IF wanted THEN EvictToFit(cache, bytes) ELSE cache
           fits == wanted /\ room.completed_bytes + bytes <= MaxCompletedBytes
           b == StoreIf(cache, k, rep, wanted)
<1>t. /\ CacheTyped(cache) /\ cache.completed_bytes \in Nat
      /\ MaxCompletedBytes \in Nat
  BY ReplayConstants, Zenon DEF CacheInv, CacheTyped
<1>1. CacheInv(room, {k.request}) /\ Shrinks(cache, room)
  BY <1>t, EvictToFitOK, ShrinksReflexive, Zenon
<1>2. b = IF fits THEN RetainReply(room, k, rep) ELSE Settled(room, k)
  BY Zenon DEF StoreIf
<1>3. ~wanted => room = cache
  BY Zenon
<1> HIDE DEF room, b
<1>4. room.completed_bytes \in Nat /\ room.completed_bytes <= MaxCompletedBytes
  BY <1>t, <1>1, SMTT(20) DEF CacheInv, CacheTyped, Shrinks
<1>5. k \notin DOMAIN room.entries /\ k.generation < room.next_generation
  BY <1>1, Zenon DEF Shrinks
<1>6. IsLatest(cache, k) => IsLatest(room, k)
  <2> SUFFICES ASSUME IsLatest(cache, k) PROVE IsLatest(room, k)
    BY Zenon
  <2>1. LatestKey(cache, k.request) = k
    BY LatestKeyUnique, Zenon
  <2>2. k.request \in DOMAIN room.latest
    BY <1>1, <2>1, Zenon DEF Shrinks, IsLatest, CompletedKeys
  <2> QED BY <1>1, <2>2, Zenon DEF Shrinks, IsLatest
<1>7. SameFlights(cache, room)
  BY <1>1, ShrinksSameFlights, Zenon
<1>8. CASE fits
  <2>1. /\ Stores(room, b, k, rep)
        /\ b.completed_bytes = room.completed_bytes + bytes
    BY <1>1, <1>2, <1>5, <1>6, <1>8, RetainReplyOK, Zenon
  <2>2. Stores(cache, b, k, rep)
    BY <1>1, <2>1, ShrinkThenStore, Zenon
  <2> QED BY <1>8, <2>1, <2>2, Zenon DEF b
<1>9. CASE ~fits
  <2>0. IsLatest(room, k) \/ CacheInv(room, {})
    BY <1>3, <1>6, Zenon
  <2>1. /\ CacheInv(b, {})
        /\ b.entries = room.entries
        /\ b.completed_bytes = room.completed_bytes
        /\ b.next_generation = room.next_generation
        /\ DOMAIN b.latest \subseteq DOMAIN room.latest
        /\ \A r \in DOMAIN b.latest : b.latest[r] = room.latest[r]
        /\ \A r \in DOMAIN room.latest :
              r \in DOMAIN b.latest <=> ~(IsLatest(room, k) /\ r = k.request)
    BY <1>1, <1>2, <1>5, <1>9, <2>0, SettledOK
  <2>2. SameFlights(cache, b)
    BY <1>7, <2>1, Zenon DEF SameFlights, InFlight
  <2>3. Stores(cache, b, k, rep)
    BY <1>1, <2>1, <2>2 DEF Stores, Shrinks, CompletedKeys, IsLatest, LatestKey
  <2> QED BY <1>4, <2>1, <2>3, Zenon DEF b
<1> QED BY <1>8, <1>9, Zenon
=============================================================================
