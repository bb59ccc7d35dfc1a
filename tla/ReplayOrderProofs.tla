-------------------------- MODULE ReplayOrderProofs --------------------------
(***************************************************************************)
(* The completion order of ReplayCache: it lists every retained reply once *)
(* and oldest first, it stays within the threshold of compaction, and a    *)
(* reply leaves the cache only for the reasons the code has.               *)
(*                                                                         *)
(* The order is not a sorted list of the cache: it also holds tombstones,  *)
(* items whose reply left on another way.  A tombstone must never come to  *)
(* life again, so the invariant adds that no item of the order is in       *)
(* flight and that all are of generations that have begun.                 *)
(***************************************************************************)
EXTENDS ReplayCacheProofs

OrderInv(cache, t) ==
    /\ \A k \in CompletedKeys(cache) : \E i \in Evictable(cache) : cache.completed_order[i] = k
    /\ \A i, j \in Evictable(cache) : i < j =>
          /\ cache.completed_order[i] # cache.completed_order[j]
          /\ cache.entries[cache.completed_order[i]].completed_at
             <= cache.entries[cache.completed_order[j]].completed_at
    /\ \A i \in DOMAIN cache.completed_order :
          /\ ~InFlight(cache, cache.completed_order[i])
          /\ cache.completed_order[i].generation < cache.next_generation
    /\ \A k \in CompletedKeys(cache) : cache.entries[k].completed_at <= t

Short(cache) == Len(cache.completed_order) <= Max({2 * Capacity, CompactFloor})

\* b is a with the n oldest items of the order popped.
Pops(a, b, n) ==
    /\ n \in 0..Len(a.completed_order)
    /\ Len(b.completed_order) = Len(a.completed_order) - n
    /\ \A i \in 1..Len(b.completed_order) : b.completed_order[i] = a.completed_order[i + n]
    /\ \A k \in CompletedKeys(b) : k \in CompletedKeys(a) /\ b.entries[k] = a.entries[k]
    /\ \A k \in CompletedKeys(b) : \A i \in 1..n : a.completed_order[i] # k
    /\ \A k \in CompletedKeys(a) \ CompletedKeys(b) : \E i \in 1..n : a.completed_order[i] = k

-----------------------------------------------------------------------------
(* What the helpers do to the order.                                        *)

\* completed_order is a sequence of keys, and its live positions are positions.
LEMMA OrderTyped ==
    ASSUME NEW cache, NEW R, CacheInv(cache, R)
    PROVE  /\ cache.completed_order \in Seq(EntryKey)
           /\ Len(cache.completed_order) \in Nat
           /\ DOMAIN cache.completed_order = 1..Len(cache.completed_order)
           /\ Evictable(cache) \subseteq 1..Len(cache.completed_order)
<1>1. cache.completed_order \in Seq(EntryKey)
  BY Zenon DEF CacheInv, CacheTyped
<1>2. Len(cache.completed_order) \in Nat /\ DOMAIN cache.completed_order = 1..Len(cache.completed_order)
  BY <1>1, SeqLength, Zenon
<1> QED BY <1>1, <1>2, Zenon DEF Evictable

\* A completed entry has a completion time.
LEMMA CompletedAtTyped ==
    ASSUME NEW cache, NEW R, CacheInv(cache, R), NEW k \in CompletedKeys(cache)
    PROVE  cache.entries[k].completed_at \in Nat
<1>1. k \in DOMAIN cache.entries /\ cache.entries[k] \in InFlightState \cup CompletedState
      /\ cache.entries[k].state = "Completed"
  BY Zenon DEF CacheInv, CacheTyped, CompletedKeys
<1> QED BY <1>1, Zenon DEF InFlightState, CompletedState

\* Popping n items of completed_order is what Pops says.
LEMMA PopOldestPops ==
    ASSUME NEW cache, NEW R, CacheInv(cache, R), NEW n \in 0..Len(cache.completed_order)
    PROVE  Pops(cache, PopOldest(cache, n), n)
<1> DEFINE s == cache.completed_order
           b == PopOldest(cache, n)
           popped == {s[i] : i \in 1..n}
<1>1. s \in Seq(EntryKey) /\ Len(s) \in Nat
  BY OrderTyped, Zenon
<1>2. /\ Shrinks(cache, b)
      /\ DOMAIN b.entries = DOMAIN cache.entries \ (CompletedKeys(cache) \cap popped)
      /\ b.completed_order = SubSeq(s, n + 1, Len(s))
  <2>1. n \in Nat
    BY <1>1
  <2> QED BY <2>1, PopOldestOK, Zenon
<1> HIDE DEF b
<1>3. /\ Len(b.completed_order) = Len(s) - n
      /\ \A i \in 1..Len(b.completed_order) : b.completed_order[i] = s[i + n]
  <2> HIDE DEF s
  <2>1. n \in Nat /\ n <= Len(s) /\ n + 1 \in Int /\ Len(s) \in Int
    BY <1>1 DEF s
  <2>2. /\ n + 1 <= Len(s) + 1
        /\ \A i \in (n + 1)..Len(s) : i \in DOMAIN s
    BY <1>1, <2>1, SeqLength
  <2>3. /\ Len(SubSeq(s, n + 1, Len(s))) = IF n + 1 <= Len(s) THEN Len(s) - (n + 1) + 1 ELSE 0
        /\ \A i \in 1..(Len(s) - (n + 1) + 1) : SubSeq(s, n + 1, Len(s))[i] = s[(n + 1) + i - 1]
    BY <1>1, <2>1, <2>2, SeqPart
  <2>4. Len(b.completed_order) = Len(s) - n
    BY <1>2, <2>1, <2>3 DEF s
  <2>5. ASSUME NEW i \in 1..(Len(s) - n) PROVE b.completed_order[i] = s[i + n]
    <3>1. i \in 1..(Len(s) - (n + 1) + 1) /\ (n + 1) + i - 1 = i + n
      BY <2>1
    <3> QED BY <1>2, <2>3, <3>1, Zenon DEF s
  <2> QED BY <2>4, <2>5, Zenon
<1>4. \A k \in CompletedKeys(b) : k \in CompletedKeys(cache) /\ b.entries[k] = cache.entries[k]
  BY <1>2, Zenon DEF Shrinks, CompletedKeys
<1>5. \A k \in CompletedKeys(b) : k \notin popped
  BY <1>2, <1>4, Zenon DEF CompletedKeys
<1>6. ASSUME NEW k \in CompletedKeys(cache) \ CompletedKeys(b) PROVE k \in popped
  BY <1>2, Zenon DEF Shrinks, CompletedKeys
<1> QED BY <1>3, <1>4, <1>5, <1>6, Zenon DEF Pops, b

\* An invariant order stays one when items are popped with their replies,
LEMMA PopsOrder ==
    ASSUME NEW a, NEW b, NEW n, NEW R, NEW t, CacheInv(a, R), CacheInv(b, R), Shrinks(a, b),
           Pops(a, b, n), OrderInv(a, t)
    PROVE  OrderInv(b, t)
<1> DEFINE s == a.completed_order
           o == b.completed_order
<1>1. /\ Len(s) \in Nat /\ DOMAIN s = 1..Len(s) /\ Evictable(a) \subseteq 1..Len(s)
      /\ Len(o) \in Nat /\ DOMAIN o = 1..Len(o) /\ Evictable(b) \subseteq 1..Len(o)
  BY OrderTyped, Zenon
<1>2. /\ n \in 0..Len(s) /\ Len(o) = Len(s) - n
      /\ \A i \in 1..Len(o) : o[i] = s[i + n]
      /\ \A k \in CompletedKeys(b) : k \in CompletedKeys(a) /\ b.entries[k] = a.entries[k]
      /\ \A k \in CompletedKeys(b) : \A i \in 1..n : s[i] # k
  BY Zenon DEF Pops
<1>3. ASSUME NEW i \in Evictable(b)
      PROVE  i + n \in Evictable(a) /\ o[i] = s[i + n] /\ o[i] \in CompletedKeys(b)
  <2>1. i \in 1..Len(o) /\ o[i] \in CompletedKeys(b)
    BY <1>1, Zenon DEF Evictable, Completed, CompletedKeys
  <2>2. i + n \in DOMAIN s /\ o[i] = s[i + n]
    BY <1>1, <1>2, <2>1
  <2>3. s[i + n] \in CompletedKeys(a)
    BY <1>2, <2>1, <2>2, Zenon
  <2> QED BY <2>1, <2>2, <2>3, Zenon DEF Evictable, Completed, CompletedKeys
<1>4. ASSUME NEW k \in CompletedKeys(b) PROVE \E i \in Evictable(b) : o[i] = k
  <2>1. PICK i \in Evictable(a) : s[i] = k
    BY <1>2, Zenon DEF OrderInv
  <2>2. i \in Nat /\ i > n /\ i <= Len(s)
    BY <1>1, <1>2, <2>1
  <2>3. i - n \in 1..Len(o) /\ o[i - n] = k
    BY <1>1, <1>2, <2>1, <2>2
  <2>4. i - n \in Evictable(b)
    BY <1>1, <2>3, Zenon DEF Evictable, Completed, CompletedKeys
  <2> QED BY <2>3, <2>4, Zenon
<1>5. ASSUME NEW i \in Evictable(b), NEW j \in Evictable(b), i < j
      PROVE  o[i] # o[j] /\ b.entries[o[i]].completed_at <= b.entries[o[j]].completed_at
  <2>1. i + n < j + n
    BY <1>1, <1>2, <1>5
  <2>2. s[i + n] # s[j + n] /\ a.entries[s[i + n]].completed_at <= a.entries[s[j + n]].completed_at
    BY <1>3, <2>1, Zenon DEF OrderInv
  <2> QED BY <1>2, <1>3, <2>2, Zenon
<1>6. ASSUME NEW i \in DOMAIN o
      PROVE  ~InFlight(b, o[i]) /\ o[i].generation < b.next_generation
  <2>1. o[i] = s[i + n] /\ i + n \in DOMAIN s
    BY <1>1, <1>2, SMTT(20)
  <2>2. ~InFlight(a, o[i]) /\ o[i].generation < a.next_generation
    BY <2>1, Zenon DEF OrderInv
  <2> QED BY <2>2, Zenon DEF Shrinks, InFlight
<1>7. \A k \in CompletedKeys(b) : b.entries[k].completed_at <= t
  BY <1>2, Zenon DEF OrderInv
<1> QED BY <1>4, <1>5, <1>6, <1>7, Zenon DEF OrderInv

\* and when replies leave without their items.
LEMMA SameOrder ==
    ASSUME NEW a, NEW b, NEW t, OrderInv(a, t),
           b.completed_order = a.completed_order,
           \A k \in CompletedKeys(b) : k \in CompletedKeys(a) /\ b.entries[k] = a.entries[k],
           \A i \in DOMAIN a.completed_order :
              InFlight(b, a.completed_order[i]) => InFlight(a, a.completed_order[i]),
           \A i \in DOMAIN a.completed_order : a.completed_order[i].generation < b.next_generation
    PROVE  OrderInv(b, t)
<1> DEFINE s == a.completed_order
<1>1. \A i \in DOMAIN s : i \in Evictable(b) <=> s[i] \in CompletedKeys(b)
  BY Zenon DEF Evictable, Completed, CompletedKeys
<1>2. \A i \in DOMAIN s : i \in Evictable(a) <=> s[i] \in CompletedKeys(a)
  BY Zenon DEF Evictable, Completed, CompletedKeys
<1>3. Evictable(b) \subseteq Evictable(a) /\ Evictable(a) \subseteq DOMAIN s
  BY <1>1, <1>2, Zenon DEF Evictable
<1>4. \A k \in CompletedKeys(b) : \E i \in Evictable(b) : s[i] = k
  BY <1>1, <1>3, Zenon DEF OrderInv
<1>5. ASSUME NEW i \in Evictable(b), NEW j \in Evictable(b), i < j
      PROVE  s[i] # s[j] /\ b.entries[s[i]].completed_at <= b.entries[s[j]].completed_at
  <2>1. s[i] # s[j] /\ a.entries[s[i]].completed_at <= a.entries[s[j]].completed_at
    BY <1>3, <1>5, Zenon DEF OrderInv
  <2>2. b.entries[s[i]] = a.entries[s[i]] /\ b.entries[s[j]] = a.entries[s[j]]
    BY <1>1, <1>3, Zenon
  <2> QED BY <2>1, <2>2, Zenon
<1>6. \A i \in DOMAIN s : ~InFlight(b, s[i]) /\ s[i].generation < b.next_generation
  BY Zenon DEF OrderInv
<1>7. \A k \in CompletedKeys(b) : b.entries[k].completed_at <= t
  BY Zenon DEF OrderInv
<1> QED BY <1>4, <1>5, <1>6, <1>7 DEF OrderInv

\* expire pops items up to the first reply that is younger than the TTL.
LEMMA ExpirePops ==
    ASSUME NEW cache, NEW R, CacheInv(cache, R), NEW t
    PROVE  \E n : /\ Pops(cache, Expire(cache, t), n)
                  /\ \A i \in 1..n : ~Fresh(cache, cache.completed_order[i], t)
<1> DEFINE s == cache.completed_order
           F == {i \in DOMAIN s : Fresh(cache, s[i], t)}
           S == F \cup {Len(s) + 1}
           n == Min(S) - 1
<1>1. s \in Seq(EntryKey) /\ Len(s) \in Nat /\ DOMAIN s = 1..Len(s)
  BY OrderTyped, Zenon
<1>2. S \subseteq Nat \ {0} /\ S # {} /\ Len(s) + 1 \in S
  BY <1>1
<1>5. Expire(cache, t) = PopOldest(cache, n)
  BY Zenon DEF Expire
<1> HIDE DEF S
<1>3. PICK m \in S : m = Min(S) /\ \A y \in S : m <= y
  BY <1>2, MinOfNaturals, Zenon
<1>8. m \in Nat \ {0} /\ m <= Len(s) + 1 /\ n = m - 1
  BY <1>2, <1>3, Zenon
<1> HIDE DEF n
<1>4. n \in 0..Len(s)
  BY <1>1, <1>8
<1>6. ASSUME NEW i \in 1..n PROVE ~Fresh(cache, s[i], t)
  <2>1. i \in DOMAIN s /\ i \in Nat /\ ~(m <= i)
    BY <1>1, <1>8
  <2>2. i \notin S
    BY <1>3, <2>1, Zenon
  <2> QED BY <2>1, <2>2, Zenon DEF S
<1>7. Pops(cache, PopOldest(cache, n), n)
  BY <1>4, PopOldestPops, Zenon
<1> QED BY <1>5, <1>6, <1>7, Zenon

\* evict_oldest_completed pops items, and drops no reply if none is listed.
LEMMA EvictOldestPops ==
    ASSUME NEW cache, NEW R, CacheInv(cache, R)
    PROVE  \E n : /\ Pops(cache, EvictOldestCompleted(cache), n)
                  /\ Evictable(cache) = {} =>
                        CompletedKeys(EvictOldestCompleted(cache)) = CompletedKeys(cache)
<1> DEFINE s == cache.completed_order
           E == Evictable(cache)
           n == IF E = {} THEN Len(s) ELSE Min(E)
           b == EvictOldestCompleted(cache)
<1>1. Len(s) \in Nat /\ DOMAIN s = 1..Len(s) /\ E \subseteq 1..Len(s)
  BY OrderTyped, Zenon
<1>2. n \in 0..Len(s)
  <2>1. CASE E = {}
    BY <1>1, <2>1
  <2>2. CASE E # {}
    <3> HIDE DEF E
    <3>0. E \subseteq Nat
      BY <1>1
    <3>1. Min(E) \in E
      BY <2>2, <3>0, MinOfNaturals, Zenon
    <3>2. \A e \in E : e \in 0..Len(s)
      BY <1>1
    <3>3. Min(E) \in 0..Len(s)
      BY <3>1, <3>2, Zenon
    <3> QED BY <2>2, <3>3, Zenon
  <2> QED BY <2>1, <2>2, Zenon
<1>3. b = PopOldest(cache, n)
  BY Zenon DEF EvictOldestCompleted
<1> HIDE DEF n, b
<1>4. Pops(cache, b, n)
  BY <1>2, <1>3, PopOldestPops, Zenon
<1>5. ASSUME E = {}, NEW k \in CompletedKeys(cache) \ CompletedKeys(b) PROVE FALSE
  <2>1. PICK i \in 1..n : s[i] = k
    BY <1>4, Zenon DEF Pops
  <2>2. i \in DOMAIN s
    BY <1>1, <1>2
  <2> QED BY <1>5, <2>1, <2>2, Zenon DEF Evictable, Completed, CompletedKeys
<1>6. CompletedKeys(b) \subseteq CompletedKeys(cache)
  BY <1>4, Zenon DEF Pops
<1> QED BY <1>4, <1>5, <1>6 DEF b

\* The bytes of a cache that retains the same replies
LEMMA SameBytes ==
    ASSUME NEW a, NEW b, NEW R, CacheInv(a, R), CacheInv(b, R), CompletedKeys(b) = CompletedKeys(a),
           \A k \in CompletedKeys(b) : b.entries[k] = a.entries[k]
    PROVE  b.completed_bytes = a.completed_bytes
<1>1. RetainedBytes(b, CompletedKeys(b)) = RetainedBytes(a, CompletedKeys(b))
  BY SameCharge, Zenon
<1> QED BY <1>1, Zenon DEF CacheInv

\* A cache without completed entries retains no bytes.
LEMMA NoBytes ==
    ASSUME NEW a, NEW R, CacheInv(a, R), CompletedKeys(a) = {}
    PROVE  a.completed_bytes = 0
<1>1. ChargedBytes(a, {}) = {}
  BY Zenon DEF ChargedBytes
<1> QED BY <1>1, FS_EmptySet, Zenon DEF CacheInv, RetainedBytes

\* The eviction loop of complete pops items only if the reply does not fit, and
\* then makes room for every reply that is not larger than the whole budget.
LEMMA EvictToFitPops ==
    ASSUME NEW cache, NEW R, NEW t, CacheInv(cache, R), OrderInv(cache, t), NEW bytes \in Nat
    PROVE  LET b == EvictToFit(cache, bytes)
           IN /\ \E n : /\ Pops(cache, b, n)
                        /\ n # 0 => cache.completed_bytes + bytes > MaxCompletedBytes
              /\ bytes <= MaxCompletedBytes => b.completed_bytes + bytes <= MaxCompletedBytes
<1> DEFINE s == cache.completed_order
           Fits(m) == PopOldest(cache, m).completed_bytes + bytes <= MaxCompletedBytes
           F == {m \in 0..Len(s) : Fits(m)}
           S == F \cup {Len(s)}
           n == Min(S)
           b == EvictToFit(cache, bytes)
<1>1. Len(s) \in Nat /\ DOMAIN s = 1..Len(s) /\ Evictable(cache) \subseteq 1..Len(s)
  BY OrderTyped, Zenon
<1>2. S \subseteq 0..Len(s) /\ S # {}
  BY <1>1
<1>3. n \in S /\ \A y \in S : n <= y
  <2> HIDE DEF S
  <2>1. S \subseteq Nat
    BY <1>1, <1>2
  <2> QED BY <1>2, <2>1, MinOfNaturals, Zenon
<1>4. b = PopOldest(cache, n)
  BY Zenon DEF EvictToFit
<1>5. Pops(cache, b, n)
  <2> HIDE DEF n, S, b
  <2> QED BY <1>2, <1>3, <1>4, PopOldestPops, Zenon
<1>6. ASSUME n # 0 PROVE cache.completed_bytes + bytes > MaxCompletedBytes
  <2>1. 0 \notin S
    <3> HIDE DEF S, n
    <3> QED BY <1>1, <1>2, <1>3, <1>6
  <2>2. ~Fits(0)
    BY <1>1, <2>1
  <2> DEFINE z == PopOldest(cache, 0)
  <2>3. Pops(cache, z, 0) /\ CacheInv(z, R)
    BY <1>1, PopOldestPops, PopOldestOK
  <2> HIDE DEF z
  <2>4. CompletedKeys(z) = CompletedKeys(cache) /\ \A k \in CompletedKeys(z) : z.entries[k] = cache.entries[k]
    BY <2>3 DEF Pops
  <2>5. z.completed_bytes = cache.completed_bytes
    BY <2>3, <2>4, SameBytes, Zenon
  <2>6. cache.completed_bytes \in Nat /\ MaxCompletedBytes \in Nat
    BY ReplayConstants, Zenon DEF CacheInv, CacheTyped
  <2> QED BY <2>2, <2>5, <2>6 DEF z
<1>7. ASSUME bytes <= MaxCompletedBytes PROVE b.completed_bytes + bytes <= MaxCompletedBytes
  <2> DEFINE z == PopOldest(cache, Len(s))
  <2>1. Pops(cache, z, Len(s)) /\ CacheInv(z, R)
    BY <1>1, PopOldestPops, PopOldestOK
  <2> HIDE DEF z
  <2>2. CompletedKeys(z) = {}
    <3> SUFFICES ASSUME NEW k \in CompletedKeys(z) PROVE FALSE
      BY Zenon
    <3>1. k \in CompletedKeys(cache) /\ \A i \in 1..Len(s) : s[i] # k
      BY <2>1, Zenon DEF Pops
    <3>2. PICK i \in Evictable(cache) : s[i] = k
      BY <3>1, Zenon DEF OrderInv
    <3> QED BY <1>1, <3>1, <3>2, Zenon
  <2>3. z.completed_bytes = 0
    BY <2>1, <2>2, NoBytes, Zenon
  <2>4. Fits(Len(s))
    BY <1>7, <2>3 DEF z
  <2>5. S = F
    BY <1>1, <2>4
  <2>6. Fits(n)
    <3> HIDE DEF n, Fits
    <3> QED BY <1>3, <2>5, Zenon
  <2> QED BY <1>4, <2>6, Zenon
<1> QED BY <1>5, <1>6, <1>7, Zenon DEF b

-----------------------------------------------------------------------------
(* Compaction and insertion.                                                *)

\* o lists the items of s at the positions I, in order: p enumerates I.
Picks(s, I, o) ==
    /\ Len(o) = Cardinality(I) /\ Len(o) \in Nat /\ DOMAIN o = 1..Len(o)
    /\ \E p : /\ \A j \in 1..Len(o) : p[j] \in I /\ o[j] = s[p[j]]
              /\ \A i, j \in 1..Len(o) : i < j => p[i] < p[j]
              /\ \A i \in I : \E j \in 1..Len(o) : p[j] = i

\* VecDeque::retain picks the items of K.
LEMMA RetainPicks ==
    ASSUME NEW T, NEW s \in Seq(T), NEW K
    PROVE  Picks(s, {i \in DOMAIN s : s[i] \in K}, Retain(s, K))
<1> DEFINE I == {i \in DOMAIN s : s[i] \in K}
           o == Retain(s, K)
           n == Cardinality(I)
           pos(j) == CHOOSE i \in I : Rank(I, i) = j
           p == [j \in 1..n |-> pos(j)]
<1>1. Len(s) \in Nat /\ I \in SUBSET (1..Len(s))
  BY SeqLength, Zenon
<1>2. o = [j \in 1..n |-> s[pos(j)]]
  BY Zenon DEF Retain, Rank
<1>3. o \in Seq(T)
  BY RetainTyped, Zenon
<1> HIDE DEF I, o
<1>4. IsFiniteSet(I) /\ n \in Nat
  <2>1. IsFiniteSet(1..Len(s))
    BY <1>1, FS_Interval
  <2> QED BY <1>1, <2>1, FS_Subset, FS_CardinalityType, Zenon
<1>5. Len(o) = n /\ DOMAIN o = 1..n
  BY <1>2, <1>3, <1>4, SeqLength
<1>6. ASSUME NEW j \in 1..n PROVE pos(j) \in I /\ Rank(I, pos(j)) = j
  <2>1. \E i \in I : Rank(I, i) = j
    BY <1>1, RankExists, Zenon
  <2> QED BY <2>1, Zenon
<1> HIDE DEF pos, n
<1>7. ASSUME NEW i \in I, NEW j \in I, Rank(I, i) = Rank(I, j) PROVE i = j
  <2>1. Rank(I, i) \in Nat
    <3>1. {h \in I : h <= i} \in SUBSET I
      BY Zenon
    <3> QED BY <1>4, <3>1, FS_Subset, FS_CardinalityType, Zenon DEF Rank
  <2>2. i \in Nat /\ j \in Nat
    BY <1>1
  <2>3. ~(i < j)
    <3> SUFFICES ASSUME i < j PROVE FALSE
      BY Zenon
    <3>1. Rank(I, i) < Rank(I, j)
      BY <1>1, RankMonotone, Zenon
    <3> QED BY <1>7, <2>1, <3>1
  <2>4. ~(j < i)
    <3> SUFFICES ASSUME j < i PROVE FALSE
      BY Zenon
    <3>1. Rank(I, j) < Rank(I, i)
      BY <1>1, RankMonotone, Zenon
    <3> QED BY <1>7, <2>1, <3>1
  <2> QED BY <2>2, <2>3, <2>4
<1>8. ASSUME NEW i \in 1..n, NEW j \in 1..n, i < j PROVE pos(i) < pos(j)
  <2>1. pos(i) \in I /\ pos(j) \in I /\ Rank(I, pos(i)) = i /\ Rank(I, pos(j)) = j
    BY <1>6, Zenon
  <2>5. pos(i) \in Nat /\ pos(j) \in Nat
    <3>1. \A x \in I : x \in Nat
      BY <1>1
    <3> QED BY <2>1, <3>1, Zenon
  <2>6. i \in Nat /\ j \in Nat
    OBVIOUS
  <2>2. pos(i) \in Nat /\ pos(j) \in Nat /\ i \in Nat /\ j \in Nat
    BY <2>5, <2>6, Zenon
  <2>3. pos(i) # pos(j)
    BY <1>8, <2>1, <2>2
  <2>4. ~(pos(j) < pos(i))
    <3> SUFFICES ASSUME pos(j) < pos(i) PROVE FALSE
      BY Zenon
    <3>1. Rank(I, pos(j)) < Rank(I, pos(i))
      BY <1>1, <2>1, RankMonotone, Zenon
    <3> QED BY <1>8, <2>1, <2>2, <3>1
  <2> QED BY <2>2, <2>3, <2>4
<1>9. ASSUME NEW i \in I PROVE \E j \in 1..n : pos(j) = i
  <2> DEFINE A == {h \in I : h <= i}
  <2>1. A \in SUBSET I /\ i \in A
    BY <1>1
  <2>2. IsFiniteSet(A) /\ Cardinality(A) <= n /\ Cardinality(A) \in Nat /\ A # {}
    <3> HIDE DEF A
    <3> QED BY <1>4, <2>1, FS_Subset, FS_CardinalityType, Zenon DEF n
  <2>3. Cardinality(A) # 0
    <3> HIDE DEF A
    <3> QED BY <2>2, FS_EmptySet, Zenon
  <2>4. Rank(I, i) \in 1..n
    <3>1. Rank(I, i) = Cardinality(A)
      BY Zenon DEF Rank
    <3> HIDE DEF A
    <3> QED BY <1>4, <2>2, <2>3, <3>1 DEF n
  <2>5. pos(Rank(I, i)) = i
    BY <1>6, <1>7, <2>4, Zenon
  <2> QED BY <2>4, <2>5, Zenon
<1>10. \A j \in 1..n : p[j] \in I /\ o[j] = s[p[j]]
  BY <1>2, <1>6, Zenon
<1>11. \A i, j \in 1..n : i < j => p[i] < p[j]
  BY <1>8, Zenon
<1>12. \A i \in I : \E j \in 1..n : p[j] = i
  BY <1>9, Zenon
<1> HIDE DEF p
<1>13. \E q : /\ \A j \in 1..Len(o) : q[j] \in I /\ o[j] = s[q[j]]
              /\ \A i, j \in 1..Len(o) : i < j => q[i] < q[j]
              /\ \A i \in I : \E j \in 1..Len(o) : q[j] = i
  BY <1>5, <1>10, <1>11, <1>12, Zenon
<1>14. Picks(s, I, o)
  BY <1>4, <1>5, <1>13, Zenon DEF Picks, n
<1> QED BY <1>14, Zenon DEF I, o

\* The maximum of two numbers is one of them and not below either.
LEMMA MaxPair ==
    ASSUME NEW a \in Nat, NEW b \in Nat
    PROVE  /\ Max({a, b}) \in Nat /\ a <= Max({a, b}) /\ b <= Max({a, b})
           /\ Max({a, b}) = a \/ Max({a, b}) = b
<1>1. \E x \in {a, b} : \A y \in {a, b} : x >= y
  OBVIOUS
<1>2. Max({a, b}) \in {a, b} /\ \A y \in {a, b} : Max({a, b}) >= y
  BY <1>1, Zenon DEF Max
<1>3. PICK m : m = Max({a, b})
  BY Zenon
<1>4. m \in {a, b} /\ m >= a /\ m >= b
  BY <1>2, <1>3, Zenon
<1> QED BY <1>3, <1>4, Zenon

\* Every listed reply is listed once, so there are no more of them than entries.
LEMMA EvictableBounded ==
    ASSUME NEW cache, NEW R, NEW t, CacheInv(cache, R), OrderInv(cache, t)
    PROVE  /\ Cardinality(Evictable(cache)) <= Cardinality(DOMAIN cache.entries)
           /\ Cardinality(Evictable(cache)) \in Nat
           /\ Cardinality(DOMAIN cache.entries) \in Nat
<1> DEFINE s == cache.completed_order
           E == Evictable(cache)
           D == DOMAIN cache.entries
           g == [i \in E |-> s[i]]
<1>1. Len(s) \in Nat /\ E \subseteq 1..Len(s)
  BY OrderTyped, Zenon
<1>2. \A i \in E : s[i] \in D
  BY Zenon DEF Evictable, Completed
<1>3. \A i, j \in E : i < j => s[i] # s[j]
  BY Zenon DEF OrderInv
<1>4. IsFiniteSet(D)
  BY Zenon DEF CacheInv
<1> HIDE DEF E, D
<1>5. g \in Injection(E, D)
  <2>1. g \in [E -> D]
    BY <1>2, Zenon
  <2>2. ASSUME NEW i \in E, NEW j \in E, i # j PROVE g[i] # g[j]
    <3>1. i < j \/ j < i
      BY <1>1, <2>2
    <3> QED BY <1>3, <3>1, Zenon
  <2> QED BY <2>1, <2>2, Zenon DEF Injection, IsInjective
<1> HIDE DEF g
<1>6. IsFiniteSet(E) /\ Cardinality(E) <= Cardinality(D)
  BY <1>4, <1>5, FS_Injection, Zenon
<1> QED BY <1>4, <1>6, FS_CardinalityType, Zenon DEF E, D

\* compact_completion_order drops the tombstones if the order is too long.
LEMMA CompactOrder ==
    ASSUME NEW cache, NEW R, NEW t, CacheInv(cache, R), OrderInv(cache, t)
    PROVE  LET b == CompactCompletionOrder(cache)
           IN /\ OrderInv(b, t)
              /\ Len(b.completed_order) <= Max({2 * Cardinality(DOMAIN cache.entries), CompactFloor})
<1> DEFINE s == cache.completed_order
           size == Cardinality(DOMAIN cache.entries)
           K == CompletedKeys(cache)
           b == CompactCompletionOrder(cache)
           o == b.completed_order
<1>1. s \in Seq(EntryKey) /\ Len(s) \in Nat /\ DOMAIN s = 1..Len(s)
  BY OrderTyped, Zenon
<1>2. /\ Cardinality(Evictable(cache)) <= size /\ Cardinality(Evictable(cache)) \in Nat
      /\ size \in Nat
  BY EvictableBounded, Zenon
<1>3. PICK m : m = Max({2 * size, CompactFloor})
  BY Zenon
<1>4. m \in Nat /\ 2 * size <= m
  <2> HIDE DEF size
  <2>1. 2 * size \in Nat /\ CompactFloor \in Nat
    BY <1>2, ReplayConstants
  <2> QED BY <1>3, <2>1, MaxPair, Zenon
<1>5. CASE ~(Len(s) > m)
  <2>1. b = cache
    BY <1>3, <1>5, Zenon DEF CompactCompletionOrder
  <2>2. Len(s) <= m
    BY <1>1, <1>4, <1>5
  <2> QED BY <1>3, <2>1, <2>2, Zenon
<1>6. CASE Len(s) > m
  <2>1. b = [cache EXCEPT !.completed_order = Retain(s, K)]
    BY <1>3, <1>6, Zenon DEF CompactCompletionOrder
  <2>2. /\ b.entries = cache.entries /\ b.next_generation = cache.next_generation
        /\ o = Retain(s, K)
    <3>1. DOMAIN cache = {"entries", "latest", "completed_order", "completed_bytes", "next_generation"}
      BY Zenon DEF CacheInv, CacheTyped
    <3> QED BY <2>1, <3>1, Zenon
  <2> HIDE DEF b
  <2>3. Evictable(cache) = {i \in DOMAIN s : s[i] \in K}
    BY Zenon DEF Evictable, Completed, CompletedKeys
  <2>4. /\ Len(o) = Cardinality(Evictable(cache)) /\ Len(o) \in Nat /\ DOMAIN o = 1..Len(o)
        /\ \E p : /\ \A j \in 1..Len(o) : p[j] \in Evictable(cache) /\ o[j] = s[p[j]]
                  /\ \A i, j \in 1..Len(o) : i < j => p[i] < p[j]
                  /\ \A i \in Evictable(cache) : \E j \in 1..Len(o) : p[j] = i
    <3>1. Picks(s, {i \in DOMAIN s : s[i] \in K}, Retain(s, K))
      BY <1>1, RetainPicks, Zenon
    <3>2. Picks(s, Evictable(cache), o)
      BY <2>2, <2>3, <3>1, Zenon
    <3> HIDE DEF o, s
    <3> QED BY <3>2, Zenon DEF Picks
  <2>5. PICK p : /\ \A j \in 1..Len(o) : p[j] \in Evictable(cache) /\ o[j] = s[p[j]]
                 /\ \A i, j \in 1..Len(o) : i < j => p[i] < p[j]
                 /\ \A i \in Evictable(cache) : \E j \in 1..Len(o) : p[j] = i
    BY <2>4, Zenon
  <2>6. Evictable(b) = 1..Len(o) /\ CompletedKeys(b) = K
    BY <2>2, <2>3, <2>4, <2>5, ZenonT(60) DEF Evictable, Completed, CompletedKeys
  <2>7. \A k \in CompletedKeys(b) : \E j \in Evictable(b) : o[j] = k
    <3> SUFFICES ASSUME NEW k \in CompletedKeys(b) PROVE \E j \in Evictable(b) : o[j] = k
      BY Zenon
    <3>1. PICK i \in Evictable(cache) : s[i] = k
      BY <2>6, Zenon DEF OrderInv
    <3>2. PICK j \in 1..Len(o) : p[j] = i
      BY <2>5, Zenon
    <3> QED BY <2>5, <2>6, <3>1, <3>2, Zenon
  <2>8. ASSUME NEW i \in Evictable(b), NEW j \in Evictable(b), i < j
        PROVE  o[i] # o[j] /\ b.entries[o[i]].completed_at <= b.entries[o[j]].completed_at
    <3>1. /\ p[i] \in Evictable(cache) /\ p[j] \in Evictable(cache) /\ p[i] < p[j]
          /\ o[i] = s[p[i]] /\ o[j] = s[p[j]]
      BY <2>5, <2>6, <2>8, Zenon
    <3>2. /\ s[p[i]] # s[p[j]]
          /\ cache.entries[s[p[i]]].completed_at <= cache.entries[s[p[j]]].completed_at
      BY <3>1, Zenon DEF OrderInv
    <3> QED BY <2>2, <3>1, <3>2, Zenon
  <2>9. ASSUME NEW j \in DOMAIN o
        PROVE  ~InFlight(b, o[j]) /\ o[j].generation < b.next_generation
    <3>1. p[j] \in DOMAIN s /\ o[j] = s[p[j]]
      BY <2>4, <2>5, Zenon DEF Evictable
    <3>2. ~InFlight(cache, s[p[j]]) /\ s[p[j]].generation < cache.next_generation
      BY <3>1, Zenon DEF OrderInv
    <3> QED BY <2>2, <3>1, <3>2 DEF InFlight
  <2>10. \A k \in CompletedKeys(b) : b.entries[k].completed_at <= t
    BY <2>2, <2>6, Zenon DEF OrderInv
  <2>11. OrderInv(b, t)
    BY <2>7, <2>8, <2>9, <2>10, Zenon DEF OrderInv
  <2>12. Len(o) <= m
    <3> HIDE DEF size, o
    <3> QED BY <1>2, <1>4, <2>4
  <2> QED BY <1>3, <2>11, <2>12, Zenon DEF b
<1> QED BY <1>5, <1>6, Zenon

\* A reply that is retained now goes to the end of the order.
LEMMA InsertOrder ==
    ASSUME NEW cache, NEW R, CacheInv(cache, R), OrderInv(cache, now),
           NEW k \in EntryKey, k.generation < cache.next_generation,
           \A i \in DOMAIN cache.completed_order : cache.completed_order[i] # k,
           NEW rep, NEW bytes, now \in Nat
    PROVE  OrderInv(Insert(cache, k, rep, Append(cache.completed_order, k), bytes), now)
<1> DEFINE s == cache.completed_order
           b == Insert(cache, k, rep, Append(s, k), bytes)
           o == b.completed_order
           n == Len(s)
<1>1. s \in Seq(EntryKey) /\ n \in Nat /\ DOMAIN s = 1..n /\ Evictable(cache) \subseteq 1..n
  BY OrderTyped, Zenon
<1>2. /\ b.entries = Put(cache.entries, k, [state |-> "Completed", encoded_reply |-> rep,
                                            retained_bytes |-> rep.shape.retained_bytes,
                                            completed_at |-> now])
      /\ o = Append(s, k) /\ b.next_generation = cache.next_generation
  <2>1. DOMAIN cache = {"entries", "latest", "completed_order", "completed_bytes", "next_generation"}
    BY Zenon DEF CacheInv, CacheTyped
  <2> QED BY <2>1, Zenon DEF Insert
<1>3. /\ DOMAIN b.entries = DOMAIN cache.entries \cup {k}
      /\ b.entries[k].state = "Completed" /\ b.entries[k].completed_at = now
      /\ \A j \in DOMAIN cache.entries \ {k} : b.entries[j] = cache.entries[j]
  BY <1>2 DEF Put
<1> HIDE DEF b
<1>4. Len(o) = n + 1 /\ DOMAIN o = 1..(n + 1) /\ o[n + 1] = k /\ \A i \in 1..n : o[i] = s[i]
  <2> HIDE DEF s
  <2>1. Append(s, k) \in Seq(EntryKey) /\ Len(Append(s, k)) = n + 1
        /\ (\A i \in 1..n : Append(s, k)[i] = s[i]) /\ Append(s, k)[n + 1] = k
    BY <1>1, SeqAppend
  <2>2. DOMAIN Append(s, k) = 1..(n + 1)
    BY <2>1, SeqLength, Zenon
  <2> QED BY <1>2, <2>1, <2>2, Zenon DEF s
<1>5. CompletedKeys(b) = (CompletedKeys(cache) \ {k}) \cup {k}
  BY <1>3, Zenon DEF CompletedKeys
<1>6. \A i \in 1..n : o[i] # k /\ (i \in Evictable(b) <=> i \in Evictable(cache))
  BY <1>1, <1>3, <1>4 DEF Evictable, Completed
<1>7. n + 1 \in Evictable(b) /\ Evictable(b) \subseteq 1..(n + 1)
  BY <1>1, <1>3, <1>4 DEF Evictable, Completed
<1>8. ASSUME NEW j \in CompletedKeys(b) PROVE \E i \in Evictable(b) : o[i] = j
  <2>1. CASE j = k
    BY <1>4, <1>7, <2>1, Zenon
  <2>2. CASE j # k
    <3>1. PICK i \in Evictable(cache) : s[i] = j
      BY <1>5, <2>2, Zenon DEF OrderInv
    <3> QED BY <1>1, <1>4, <1>6, <3>1, Zenon
  <2> QED BY <2>1, <2>2, Zenon
<1>9. ASSUME NEW i \in Evictable(b), NEW j \in Evictable(b), i < j
      PROVE  o[i] # o[j] /\ b.entries[o[i]].completed_at <= b.entries[o[j]].completed_at
  <2>1. i \in 1..n
    BY <1>1, <1>7, <1>9
  <2>2. /\ i \in Evictable(cache) /\ o[i] = s[i] /\ o[i] # k /\ o[i] \in CompletedKeys(cache)
        /\ b.entries[o[i]] = cache.entries[o[i]]
    BY <1>1, <1>3, <1>4, <1>6, <2>1, Zenon DEF Evictable, Completed, CompletedKeys
  <2>3. CASE j = n + 1
    <3>1. cache.entries[o[i]].completed_at <= now
      BY <2>2, Zenon DEF OrderInv
    <3> QED BY <1>3, <1>4, <2>2, <2>3, <3>1, Zenon
  <2>4. CASE j # n + 1
    <3>1. j \in 1..n
      BY <1>1, <1>7, <2>4
    <3>2. /\ j \in Evictable(cache) /\ o[j] = s[j] /\ b.entries[o[j]] = cache.entries[o[j]]
      BY <1>1, <1>3, <1>4, <1>6, <3>1, Zenon DEF Evictable, Completed
    <3>3. s[i] # s[j] /\ cache.entries[s[i]].completed_at <= cache.entries[s[j]].completed_at
      BY <1>9, <2>2, <3>2, Zenon DEF OrderInv
    <3> QED BY <2>2, <3>2, <3>3, Zenon
  <2> QED BY <2>3, <2>4, Zenon
<1>10. ASSUME NEW i \in DOMAIN o PROVE ~InFlight(b, o[i]) /\ o[i].generation < b.next_generation
  <2>1. CASE i = n + 1
    BY <1>2, <1>3, <1>4, <2>1, Zenon DEF InFlight
  <2>2. CASE i # n + 1
    <3>1. i \in DOMAIN s /\ o[i] = s[i] /\ o[i] # k
      BY <1>1, <1>4, <1>6, <2>2
    <3>2. ~InFlight(cache, s[i]) /\ s[i].generation < cache.next_generation
      BY <3>1, Zenon DEF OrderInv
    <3> QED BY <1>2, <1>3, <3>1, <3>2, Zenon DEF InFlight
  <2> QED BY <2>1, <2>2, Zenon
<1>11. ASSUME NEW j \in CompletedKeys(b) PROVE b.entries[j].completed_at <= now
  <2>1. CASE j = k
    BY <1>3, <2>1
  <2>2. CASE j # k
    <3>1. j \in CompletedKeys(cache) /\ b.entries[j] = cache.entries[j]
      BY <1>3, <1>5, <2>2, Zenon DEF CompletedKeys
    <3> QED BY <3>1, Zenon DEF OrderInv
  <2> QED BY <2>1, <2>2, Zenon
<1> QED BY <1>8, <1>9, <1>10, <1>11, Zenon DEF OrderInv, b
-----------------------------------------------------------------------------
(* complete.                                                                *)

\* What complete does to the order: either nothing leaves, or the reply of k is
\* retained after n items were popped, none of them if it fitted at once.
Places(a, b, k, bytes) ==
    \E n \in 0..Len(a.completed_order) :
        /\ k \in CompletedKeys(b) /\ b.entries[k].retained_bytes = bytes
        /\ n # 0 => a.completed_bytes + bytes > MaxCompletedBytes
        /\ \A j \in CompletedKeys(a) \ CompletedKeys(b) : \E i \in 1..n : a.completed_order[i] = j
        /\ \A j \in CompletedKeys(b) \ {k} : \A i \in 1..n : a.completed_order[i] # j

\* Storing a reply (the push and the compaction after it) keeps the order and
\* leaves it short.
LEMMA RetainReplyOrder ==
    ASSUME NEW cache, NEW k \in EntryKey, CacheInv(cache, {k.request}),
           k \notin DOMAIN cache.entries, IsLatest(cache, k),
           k.generation < cache.next_generation, OrderInv(cache, now),
           \A i \in DOMAIN cache.completed_order : cache.completed_order[i] # k,
           NEW rep \in Reply, rep.shape.retained_bytes \in Nat, now \in Nat
    PROVE  LET b == RetainReply(cache, k, rep)
           IN /\ OrderInv(b, now)
              /\ Len(b.completed_order) <= Max({2 * Cardinality(DOMAIN b.entries), CompactFloor})
              /\ CompletedKeys(b) = CompletedKeys(cache) \cup {k}
              /\ b.entries[k].retained_bytes = rep.shape.retained_bytes
<1> DEFINE bytes == rep.shape.retained_bytes
           a == Insert(cache, k, rep, Append(cache.completed_order, k), bytes)
           b == RetainReply(cache, k, rep)
<1>1. CacheInv(a, {})
  BY InsertOK, Zenon DEF Stores
<1>2. OrderInv(a, now)
  BY InsertOrder, Zenon
<1>3. a.entries = Put(cache.entries, k, [state |-> "Completed", encoded_reply |-> rep,
                                         retained_bytes |-> bytes, completed_at |-> now])
  <2>1. DOMAIN cache = {"entries", "latest", "completed_order", "completed_bytes", "next_generation"}
    BY Zenon DEF CacheInv, CacheTyped
  <2> QED BY <2>1, Zenon DEF Insert
<1>4. b = CompactCompletionOrder(a)
  BY Zenon DEF RetainReply
<1> HIDE DEF a, b
<1>5. /\ OrderInv(b, now) /\ b.entries = a.entries
      /\ Len(b.completed_order) <= Max({2 * Cardinality(DOMAIN a.entries), CompactFloor})
  BY <1>1, <1>2, <1>4, CompactOrder, CompactOK, Zenon
<1>6. /\ DOMAIN b.entries = DOMAIN cache.entries \cup {k}
      /\ b.entries[k].state = "Completed" /\ b.entries[k].retained_bytes = bytes
      /\ \A j \in DOMAIN cache.entries \ {k} : b.entries[j] = cache.entries[j]
  BY <1>3, <1>5 DEF Put
<1>7. CompletedKeys(b) = CompletedKeys(cache) \cup {k}
  BY <1>6, Zenon DEF CompletedKeys
<1> QED BY <1>5, <1>6, <1>7, Zenon DEF b

\* The second half of complete, whether or not the reply is stored, keeps the
\* order, and what it evicts precedes what stays.
LEMMA StoreIfOrder ==
    ASSUME NEW cache, NEW k \in EntryKey, CacheInv(cache, {k.request}),
           k \notin DOMAIN cache.entries, IsLatest(cache, k) \/ CacheInv(cache, {}),
           k.generation < cache.next_generation,
           NEW rep \in Reply, rep.shape.retained_bytes \in Nat, now \in Nat,
           NEW wanted \in BOOLEAN,
           wanted => IsLatest(cache, k) /\ rep.shape.retained_bytes <= MaxCompletedBytes,
           OrderInv(cache, now),
           \A i \in DOMAIN cache.completed_order : cache.completed_order[i] # k
    PROVE  LET b == StoreIf(cache, k, rep, wanted)
           IN /\ OrderInv(b, now)
              /\ \/ b.completed_order = cache.completed_order
                 \/ Len(b.completed_order) <= Max({2 * Cardinality(DOMAIN b.entries), CompactFloor})
              /\ \/ CompletedKeys(b) = CompletedKeys(cache)
                 \/ Places(cache, b, k, rep.shape.retained_bytes)
<1> DEFINE bytes == rep.shape.retained_bytes
           room == EvictToFit(cache, bytes)
           b == StoreIf(cache, k, rep, wanted)
<1>1. CASE ~wanted
  <2>1. b = Settled(cache, k)
    BY <1>1, Zenon DEF StoreIf
  <2> HIDE DEF b
  <2>2. /\ b.entries = cache.entries /\ b.completed_order = cache.completed_order
        /\ b.next_generation = cache.next_generation
    BY <2>1, SettledOK, Zenon
  <2>3. CompletedKeys(b) = CompletedKeys(cache)
    BY <2>2, Zenon DEF CompletedKeys
  <2>4. OrderInv(b, now)
    BY <2>2, <2>3 DEF OrderInv, Evictable, Completed, InFlight
  <2> QED BY <2>2, <2>3, <2>4, Zenon DEF b
<1>2. CASE wanted
  <2>1. CacheInv(room, {k.request}) /\ Shrinks(cache, room)
    BY EvictToFitOK, Zenon
  <2>2. /\ \E n : /\ Pops(cache, room, n)
                  /\ n # 0 => cache.completed_bytes + bytes > MaxCompletedBytes
        /\ room.completed_bytes + bytes <= MaxCompletedBytes
    BY <1>2, EvictToFitPops, Zenon
  <2>3. b = RetainReply(room, k, rep)
    BY <1>2, <2>2, Zenon DEF StoreIf
  <2> HIDE DEF room, b
  <2>4. PICK n : /\ Pops(cache, room, n)
                 /\ n # 0 => cache.completed_bytes + bytes > MaxCompletedBytes
    BY <2>2, Zenon
  <2>5. OrderInv(room, now)
    BY <2>1, <2>4, PopsOrder, Zenon
  <2>6. k \notin DOMAIN room.entries /\ k.generation < room.next_generation
    BY <2>1, Zenon DEF Shrinks
  <2>7. IsLatest(room, k)
    <3>1. LatestKey(cache, k.request) = k
      BY <1>2, LatestKeyUnique, Zenon
    <3>2. k.request \in DOMAIN room.latest
      BY <1>2, <2>1, <3>1, Zenon DEF Shrinks, IsLatest, CompletedKeys
    <3> QED BY <1>2, <2>1, <3>2, Zenon DEF Shrinks, IsLatest
  <2>8. \A i \in DOMAIN room.completed_order : room.completed_order[i] # k
    <3> DEFINE s == cache.completed_order
               o == room.completed_order
    <3>1. /\ Len(s) \in Nat /\ DOMAIN s = 1..Len(s)
          /\ Len(o) \in Nat /\ DOMAIN o = 1..Len(o)
      BY <2>1, OrderTyped, Zenon
    <3>2. n \in 0..Len(s) /\ Len(o) = Len(s) - n /\ \A i \in 1..Len(o) : o[i] = s[i + n]
      BY <2>4, Zenon DEF Pops
    <3>3. ASSUME NEW i \in DOMAIN o PROVE o[i] # k
      <4>1. i + n \in DOMAIN s /\ o[i] = s[i + n]
        <5> HIDE DEF s, o
        <5> QED BY <3>1, <3>2
      <4> QED BY <4>1, Zenon
    <3> QED BY <3>3, Zenon
  <2>9. /\ OrderInv(b, now)
        /\ Len(b.completed_order) <= Max({2 * Cardinality(DOMAIN b.entries), CompactFloor})
        /\ CompletedKeys(b) = CompletedKeys(room) \cup {k}
        /\ b.entries[k].retained_bytes = bytes
    <3> DEFINE d == RetainReply(room, k, rep)
    <3>1. /\ OrderInv(d, now)
          /\ Len(d.completed_order) <= Max({2 * Cardinality(DOMAIN d.entries), CompactFloor})
          /\ CompletedKeys(d) = CompletedKeys(room) \cup {k}
          /\ d.entries[k].retained_bytes = rep.shape.retained_bytes
      BY <2>1, <2>5, <2>6, <2>7, <2>8, RetainReplyOrder, SMTT(30)
    <3> HIDE DEF d
    <3>2. b = d
      BY <2>3, Zenon DEF d
    <3> QED BY <3>1, <3>2, Zenon
  <2>10. Places(cache, b, k, bytes)
    <3>1. n \in 0..Len(cache.completed_order)
      BY <2>4, Zenon DEF Pops
    <3>2. \A j \in CompletedKeys(cache) \ CompletedKeys(b) :
             \E i \in 1..n : cache.completed_order[i] = j
      BY <2>4, <2>9, Zenon DEF Pops
    <3>3. \A j \in CompletedKeys(b) \ {k} : \A i \in 1..n : cache.completed_order[i] # j
      BY <2>4, <2>9, Zenon DEF Pops
    <3> QED BY <2>4, <2>9, <3>1, <3>2, <3>3, Zenon DEF Places
  <2> QED BY <2>9, <2>10, Zenon DEF b
<1> QED BY <1>1, <1>2, Zenon

-----------------------------------------------------------------------------
(* begin.                                                                   *)

\* expire keeps the order; what it drops has outlived its TTL.
LEMMA ExpireOrder ==
    ASSUME Inv, OrderInv(inner, now), NEW t
    PROVE  LET cache == Expire(inner, t)
           IN /\ OrderInv(cache, now)
              /\ Len(cache.completed_order) <= Len(inner.completed_order)
              /\ \E n : Pops(inner, cache, n)
<1> DEFINE cache == Expire(inner, t)
<1>1. CacheInv(inner, {})
  BY Zenon DEF Inv
<1>2. CacheInv(cache, {}) /\ Shrinks(inner, cache)
  BY <1>1, ExpireOK, Zenon
<1>3. PICK n : Pops(inner, cache, n)
  BY <1>1, ExpirePops, Zenon
<1> HIDE DEF cache
<1>4. OrderInv(cache, now)
  BY <1>1, <1>2, <1>3, PopsOrder, Zenon
<1>5. Len(cache.completed_order) <= Len(inner.completed_order)
  <2>1. Len(inner.completed_order) \in Nat
    BY <1>1, OrderTyped, Zenon
  <2> QED BY <1>3, <2>1 DEF Pops
<1> QED BY <1>3, <1>4, <1>5, Zenon DEF cache

\* Expiry removes only replies that have outlived their TTL.
LEMMA ExpireOutlived ==
    ASSUME Inv, OrderInv(inner, now), NEW t \in SampledTimes,
           NEW k \in CompletedKeys(inner) \ CompletedKeys(Expire(inner, t))
    PROVE  Outlived(k)
<1> DEFINE at == inner.entries[k].completed_at
<1>1. CacheInv(inner, {}) /\ now \in Nat
  BY Zenon DEF Inv, CallTyped
<1>2. PICK n : /\ Pops(inner, Expire(inner, t), n)
               /\ \A i \in 1..n : ~Fresh(inner, inner.completed_order[i], t)
  BY <1>1, ExpirePops, Zenon
<1>3. ~Fresh(inner, k, t)
  BY <1>2 DEF Pops
<1>4. at \in Nat /\ at <= now
  BY <1>1, CompletedAtTyped, Zenon DEF OrderInv
<1>5. ~(Elapsed(t, at) < Ttl)
  BY <1>3, Zenon DEF Fresh, Completed, CompletedKeys
<1>6. t \in Nat /\ t <= now
  BY <1>1 DEF SampledTimes
<1> HIDE DEF at
<1>7. now - at >= Ttl
  BY <1>1, <1>4, <1>5, <1>6, ReplayConstants DEF Elapsed, Monus
<1> QED BY <1>7, Zenon DEF Outlived, at

\* remove_completed_for_request leaves the item of the reply it drops.
LEMMA RemoveForRequestOrder ==
    ASSUME NEW cache, NEW R, NEW t, CacheInv(cache, R), OrderInv(cache, t), NEW r
    PROVE  LET b == RemoveCompletedForRequest(cache, r)
           IN /\ OrderInv(b, t)
              /\ b.completed_order = cache.completed_order
              /\ \A k \in CompletedKeys(cache) \ CompletedKeys(b) : k.request = r
<1> DEFINE b == RemoveCompletedForRequest(cache, r)
           j == LatestKey(cache, r)
<1>1. CacheInv(b, R) /\ Shrinks(cache, b)
  BY RemoveForRequestOK, Zenon
<1>2. CASE r \in DOMAIN cache.latest /\ Completed(cache, j)
  <2>1. b = RemoveCompleted(cache, {j})
    BY <1>2, Zenon DEF RemoveCompletedForRequest
  <2>2. {j} \in SUBSET CompletedKeys(cache)
    BY <1>2, Zenon DEF Completed, CompletedKeys
  <2>3. j.request = r
    BY Zenon DEF LatestKey
  <2> HIDE DEF b, j
  <2>4. b.completed_order = cache.completed_order /\ DOMAIN b.entries = DOMAIN cache.entries \ {j}
    BY <2>1, <2>2, RemoveCompletedOK, Zenon
  <2>5. \A k \in CompletedKeys(b) : k \in CompletedKeys(cache) /\ b.entries[k] = cache.entries[k]
    BY <1>1, Zenon DEF Shrinks, CompletedKeys
  <2>6. \A i \in DOMAIN cache.completed_order :
           /\ InFlight(b, cache.completed_order[i]) => InFlight(cache, cache.completed_order[i])
           /\ cache.completed_order[i].generation < b.next_generation
    BY <1>1, Zenon DEF Shrinks, InFlight, OrderInv
  <2>7. OrderInv(b, t)
    BY <2>4, <2>5, <2>6, SameOrder, Zenon
  <2>8. \A k \in CompletedKeys(cache) \ CompletedKeys(b) : k = j
    BY <1>1, <2>4, Zenon DEF Shrinks, CompletedKeys
  <2> QED BY <2>3, <2>4, <2>7, <2>8, Zenon DEF b
<1>3. CASE ~(r \in DOMAIN cache.latest /\ Completed(cache, j))
  <2>1. b = cache
    BY <1>3, Zenon DEF RemoveCompletedForRequest
  <2> QED BY <2>1, Zenon
<1> QED BY <1>2, <1>3, Zenon

\* Evicting the oldest completed reply keeps the order and does not lengthen
\* it.
LEMMA EvictOldestOrder ==
    ASSUME NEW cache, NEW R, NEW t, CacheInv(cache, R), OrderInv(cache, t)
    PROVE  LET b == EvictOldestCompleted(cache)
           IN OrderInv(b, t) /\ Len(b.completed_order) <= Len(cache.completed_order)
<1> DEFINE b == EvictOldestCompleted(cache)
<1>1. CacheInv(b, R) /\ Shrinks(cache, b)
  BY EvictOldestOK, Zenon
<1>2. PICK n : Pops(cache, b, n)
  BY EvictOldestPops, Zenon
<1> HIDE DEF b
<1>3. OrderInv(b, t)
  BY <1>1, <1>2, PopsOrder, Zenon
<1>4. Len(b.completed_order) <= Len(cache.completed_order)
  <2>1. Len(cache.completed_order) \in Nat
    BY OrderTyped, Zenon
  <2> QED BY <1>2, <2>1 DEF Pops
<1> QED BY <1>3, <1>4, Zenon DEF b

\* A duplicate that joins changes the waiters of an in-flight entry only.
LEMMA BeginWaitKeeps ==
    ASSUME Inv, NEW c, NEW r, NEW f, NEW t, BeginWait(c, r, f, t)
    PROVE  LET cache == Expire(inner, t)
           IN /\ inner'.completed_order = cache.completed_order
              /\ inner'.next_generation = cache.next_generation
              /\ CompletedKeys(inner') = CompletedKeys(cache)
              /\ \A j \in CompletedKeys(cache) : inner'.entries[j] = cache.entries[j]
              /\ \A j : InFlight(inner', j) => InFlight(cache, j)
              /\ now' = now
<1> DEFINE cache == Expire(inner, t)
           k == LatestKey(cache, r)
           W == Joined(cache.entries[k].waiters, c)
<1>1. /\ InFlight(cache, k)
      /\ inner' = [cache EXCEPT !.entries[k].waiters = W]
      /\ now' = now
  BY Zenon DEF BeginWait
<1>2. CacheTyped(cache)
  BY ExpireInv, Zenon DEF CacheInv
<1> HIDE DEF cache, k, W
<1>3. cache.entries[k] \in InFlightState /\ k \in DOMAIN cache.entries
  BY <1>1, <1>2, Zenon DEF CacheTyped, InFlight, InFlightState, CompletedState
<1>4. /\ inner'.completed_order = cache.completed_order
      /\ inner'.next_generation = cache.next_generation
      /\ inner'.entries = [cache.entries EXCEPT ![k].waiters = W]
  BY <1>1, <1>2, Zenon DEF CacheTyped
<1>5. /\ DOMAIN inner'.entries = DOMAIN cache.entries
      /\ inner'.entries[k].state = "InFlight"
      /\ \A j \in DOMAIN cache.entries \ {k} : inner'.entries[j] = cache.entries[j]
  BY <1>3, <1>4, Zenon DEF InFlightState
<1>6. CompletedKeys(inner') = CompletedKeys(cache)
  BY <1>1, <1>5, Zenon DEF CompletedKeys, InFlight
<1>7. \A j \in CompletedKeys(cache) : inner'.entries[j] = cache.entries[j]
  BY <1>1, <1>5, Zenon DEF CompletedKeys, InFlight
<1>8. \A j : InFlight(inner', j) => InFlight(cache, j)
  BY <1>1, <1>5, Zenon DEF InFlight
<1> QED BY <1>1, <1>4, <1>6, <1>7, <1>8, Zenon DEF cache

\* What a step must show of the order and of the replies it drops
Keeps ==
    /\ OrderInv(inner', now')
    /\ Len(inner'.completed_order) <= Len(inner.completed_order)
Explained ==
    \A k \in CompletedKeys(inner) \ CompletedKeys(inner') :
        Outlived(k) \/ Replaced(k) \/ Displaced(k)

\* begin that waits removes only what has expired.
LEMMA BeginWaitOrder ==
    ASSUME Inv, OrderInv(inner, now), NEW c, NEW r, NEW f, NEW t \in SampledTimes,
           BeginWait(c, r, f, t)
    PROVE  Keeps /\ Explained
<1> DEFINE cache == Expire(inner, t)
<1>1. OrderInv(cache, now) /\ Len(cache.completed_order) <= Len(inner.completed_order)
  BY ExpireOrder, Zenon
<1>2. /\ inner'.completed_order = cache.completed_order
      /\ inner'.next_generation = cache.next_generation
      /\ CompletedKeys(inner') = CompletedKeys(cache)
      /\ \A j \in CompletedKeys(cache) : inner'.entries[j] = cache.entries[j]
      /\ \A j : InFlight(inner', j) => InFlight(cache, j)
      /\ now' = now
  BY BeginWaitKeeps, Zenon
<1>3. Explained
  BY <1>2, ExpireOutlived, Zenon DEF Explained
<1> HIDE DEF cache
<1>4. \A i \in DOMAIN cache.completed_order :
         /\ InFlight(inner', cache.completed_order[i]) => InFlight(cache, cache.completed_order[i])
         /\ cache.completed_order[i].generation < inner'.next_generation
  BY <1>1, <1>2, Zenon DEF OrderInv
<1>5. PICK b : b = inner'
  BY Zenon
<1>6. OrderInv(b, now)
  BY <1>1, <1>2, <1>4, <1>5, SameOrder, Zenon
<1> QED BY <1>1, <1>2, <1>3, <1>5, <1>6, Zenon DEF Keeps

\* begin that replays removes only what has expired.
LEMMA BeginReplayOrder ==
    ASSUME Inv, OrderInv(inner, now), NEW c, NEW r, NEW f, NEW t \in SampledTimes,
           BeginReplay(c, r, f, t)
    PROVE  Keeps /\ Explained
<1>1. inner' = Expire(inner, t) /\ now' = now
  BY Zenon DEF BeginReplay
<1>2. Keeps
  BY <1>1, ExpireOrder, Zenon DEF Keeps
<1>3. Explained
  BY <1>1, ExpireOutlived, Zenon DEF Explained
<1> QED BY <1>2, <1>3, Zenon

\* A refused call drops only what has outlived its TTL: a cache that is still
\* full has lost no reply of the request, and none is listed to be evicted.
LEMMA BeginRefusedOrder ==
    ASSUME Inv, OrderInv(inner, now), NEW c, NEW r, NEW f, NEW t \in SampledTimes,
           BeginRefused(c, r, f, t)
    PROVE  Keeps /\ Explained
<1> DEFINE cache == Expire(inner, t)
           reused == RemoveCompletedForRequest(cache, r)
<1>1. /\ Full(reused) /\ Evictable(reused) = {}
      /\ inner' = EvictOldestCompleted(reused) /\ now' = now
  BY Zenon DEF BeginRefused
<1>2. /\ OrderInv(cache, now) /\ Len(cache.completed_order) <= Len(inner.completed_order)
      /\ CacheInv(cache, {}) /\ Bounded(cache)
  BY ExpireOrder, ExpireInv, Zenon
<1>t. \A k \in CompletedKeys(inner) \ CompletedKeys(cache) : Outlived(k)
  BY ExpireOutlived, Zenon
<1> HIDE DEF cache
<1>3. /\ CacheInv(reused, {}) /\ Shrinks(cache, reused)
      /\ OrderInv(reused, now) /\ reused.completed_order = cache.completed_order
  BY <1>2, RemoveForRequestOK, RemoveForRequestOrder, Zenon
<1> HIDE DEF reused
<1>4. DOMAIN reused.entries = DOMAIN cache.entries
  <2>1. /\ IsFiniteSet(DOMAIN cache.entries) /\ Cardinality(DOMAIN cache.entries) <= Capacity
        /\ DOMAIN reused.entries \in SUBSET DOMAIN cache.entries
        /\ Cardinality(DOMAIN reused.entries) >= Capacity
    BY <1>1, <1>2, <1>3, Zenon DEF CacheInv, Bounded, Shrinks, Full
  <2>2. /\ IsFiniteSet(DOMAIN reused.entries)
        /\ Cardinality(DOMAIN reused.entries) <= Cardinality(DOMAIN cache.entries)
        /\ Cardinality(DOMAIN reused.entries) = Cardinality(DOMAIN cache.entries)
              => DOMAIN reused.entries = DOMAIN cache.entries
    BY <2>1, FS_Subset, Zenon
  <2>3. Cardinality(DOMAIN reused.entries) \in Nat /\ Cardinality(DOMAIN cache.entries) \in Nat
    BY <2>1, <2>2, FS_CardinalityType, Zenon
  <2> QED BY <2>1, <2>2, <2>3, ReplayConstants
<1>5. CompletedKeys(reused) = CompletedKeys(cache)
  BY <1>3, <1>4, Zenon DEF Shrinks, CompletedKeys
<1>6. CompletedKeys(EvictOldestCompleted(reused)) = CompletedKeys(reused)
  BY <1>1, <1>3, EvictOldestPops, Zenon
<1>7. Explained
  BY <1>t, <1>1, <1>5, <1>6, Zenon DEF Explained
<1>8. PICK b : b = EvictOldestCompleted(reused)
  BY Zenon
<1>9. OrderInv(b, now) /\ Len(b.completed_order) <= Len(reused.completed_order)
  BY <1>3, <1>8, EvictOldestOrder, Zenon
<1>10. /\ Len(b.completed_order) \in Nat
       /\ Len(cache.completed_order) \in Nat /\ Len(inner.completed_order) \in Nat
  <2>1. CacheInv(b, {}) /\ CacheInv(inner, {})
    BY <1>3, <1>8, EvictOldestOK, Zenon DEF Inv
  <2> QED BY <1>2, <2>1, OrderTyped, Zenon
<1>11. Len(b.completed_order) <= Len(inner.completed_order)
  BY <1>2, <1>3, <1>9, <1>10
<1> QED BY <1>1, <1>7, <1>8, <1>9, <1>11, Zenon DEF Keeps

\* A retained reply has one place in the order,
LEMMA OnePlace ==
    ASSUME Inv, OrderInv(inner, now), NEW k \in CompletedKeys(inner)
    PROVE  /\ At(k) \in DOMAIN inner.completed_order
           /\ inner.completed_order[At(k)] = k
           /\ \A i \in DOMAIN inner.completed_order : inner.completed_order[i] = k => i = At(k)
<1> DEFINE s == inner.completed_order
<1>1. Len(s) \in Nat /\ DOMAIN s = 1..Len(s) /\ Evictable(inner) \subseteq 1..Len(s)
  BY OrderTyped, Zenon DEF Inv
<1>2. \E i \in DOMAIN s : s[i] = k
  BY <1>1, Zenon DEF OrderInv
<1>3. At(k) \in DOMAIN s /\ s[At(k)] = k
  BY <1>2, Zenon DEF At
<1>4. \A i \in DOMAIN s : s[i] = k => i \in Evictable(inner)
  BY Zenon DEF Evictable, Completed, CompletedKeys
<1>5. ASSUME NEW i \in DOMAIN s, s[i] = k PROVE i = At(k)
  <2>1. i \in Evictable(inner) /\ At(k) \in Evictable(inner)
    BY <1>3, <1>4, <1>5, Zenon
  <2>2. ~(i < At(k)) /\ ~(At(k) < i)
    BY <1>3, <1>5, <2>1, Zenon DEF OrderInv
  <2>3. i \in Nat /\ At(k) \in Nat
    BY <1>1, <2>1
  <2> QED BY <2>2, <2>3
<1> QED BY <1>3, <1>5, Zenon

\* so a reply among n popped items precedes every reply that is not.
LEMMA OldestFirst ==
    ASSUME Inv, OrderInv(inner, now), NEW n \in 0..Len(inner.completed_order),
           NEW k \in CompletedKeys(inner), NEW j \in CompletedKeys(inner),
           \E i \in 1..n : inner.completed_order[i] = k,
           \A i \in 1..n : inner.completed_order[i] # j
    PROVE  At(k) < At(j)
<1> DEFINE s == inner.completed_order
<1>1. Len(s) \in Nat /\ DOMAIN s = 1..Len(s)
  BY OrderTyped, Zenon DEF Inv
<1>2. PICK i \in 1..n : s[i] = k
  BY Zenon
<1>3. i = At(k)
  <2>1. i \in DOMAIN s
    BY <1>1
  <2> QED BY <1>2, <2>1, OnePlace, Zenon
<1>4. At(j) \in DOMAIN s /\ s[At(j)] = j
  BY OnePlace, Zenon
<1>5. ~(At(j) \in 1..n)
  BY <1>4, Zenon
<1>6. PICK p : p = At(j)
  BY Zenon
<1>7. p \in 1..Len(s) /\ ~(p \in 1..n)
  BY <1>1, <1>4, <1>5, <1>6, Zenon
<1> HIDE DEF s
<1>8. i < p
  BY <1>1, <1>7
<1> QED BY <1>3, <1>6, <1>8, Zenon

\* A new generation drops what has outlived its TTL, the reply of its own
\* request, and the oldest reply if the cache is full.
LEMMA BeginExecuteOrder ==
    ASSUME Inv, OrderInv(inner, now), NEW c \in Calls, NEW r \in Requests,
           NEW f \in Fingerprints, NEW t \in SampledTimes, BeginExecute(c, r, f, t)
    PROVE  Keeps /\ Explained
<1> DEFINE cache == Expire(inner, t)
           reused == RemoveCompletedForRequest(cache, r)
           evicted == EvictOldestCompleted(reused)
           room == IF Full(reused) THEN evicted ELSE reused
           g == [request |-> r, fingerprint |-> f, generation |-> inner.next_generation]
<1>1. inner' = StartGeneration(room, g) /\ now' = now
  BY Zenon DEF BeginExecute
<1>2. /\ OrderInv(cache, now) /\ CacheInv(cache, {}) /\ Shrinks(inner, cache)
      /\ \E n : Pops(inner, cache, n)
  BY ExpireOrder, ExpireInv, Zenon
<1>3. \A k \in CompletedKeys(inner) \ CompletedKeys(cache) : Outlived(k)
  BY ExpireOutlived, Zenon
<1> HIDE DEF cache
<1>4. PICK n : Pops(inner, cache, n)
  BY <1>2, Zenon
<1>5. /\ CacheInv(reused, {}) /\ Shrinks(cache, reused)
      /\ OrderInv(reused, now) /\ reused.completed_order = cache.completed_order
      /\ \A k \in CompletedKeys(cache) \ CompletedKeys(reused) : k.request = r
  BY <1>2, RemoveForRequestOK, RemoveForRequestOrder, Zenon
<1>6. /\ CacheInv(evicted, {}) /\ Shrinks(reused, evicted)
      /\ OrderInv(evicted, now) /\ Len(evicted.completed_order) <= Len(reused.completed_order)
      /\ \E m : Pops(reused, evicted, m)
  <2> HIDE DEF reused
  <2> QED BY <1>5, EvictOldestOK, EvictOldestOrder, EvictOldestPops, Zenon
<1>7. PICK m : Pops(reused, evicted, m)
  BY <1>6, Zenon
<1> HIDE DEF reused, evicted
<1>8. /\ CacheInv(room, {}) /\ Shrinks(reused, room)
      /\ OrderInv(room, now) /\ Len(room.completed_order) <= Len(reused.completed_order)
  <2>1. reused.completed_bytes \in Nat /\ Len(reused.completed_order) \in Nat
    BY <1>5, OrderTyped, Zenon DEF CacheInv, CacheTyped
  <2>2. Shrinks(reused, reused) /\ Len(reused.completed_order) <= Len(reused.completed_order)
    <3>1. PICK l \in Nat : l = Len(reused.completed_order)
      BY <2>1, Zenon
    <3>2. l <= l
      BY <3>1, SMTT(20)
    <3> QED BY <2>1, <3>1, <3>2, ShrinksReflexive, Zenon
  <2> QED BY <1>5, <1>6, <2>2, Zenon
<1>9. room.next_generation = inner.next_generation /\ inner.next_generation \in Nat
  BY <1>2, <1>5, <1>8 DEF Shrinks, Inv, CacheInv, CacheTyped
<1>10. /\ inner'.entries = Put(room.entries, g, [state |-> "InFlight", waiters |-> {}])
       /\ inner'.latest = Put(room.latest, r, [fingerprint |-> f,
                                               generation |-> inner.next_generation])
       /\ inner'.completed_order = room.completed_order
       /\ inner'.next_generation = inner.next_generation + 1
  <2>1. DOMAIN room = {"entries", "latest", "completed_order", "completed_bytes", "next_generation"}
    BY <1>8, Zenon DEF CacheInv, CacheTyped
  <2> HIDE DEF room
  <2> QED BY <1>1, <1>9, <2>1, Zenon DEF StartGeneration
<1>11. g.generation = inner.next_generation
  BY Zenon
<1>12. g \notin DOMAIN inner.entries /\ g \notin DOMAIN room.entries
  <2>1. \A k \in DOMAIN inner.entries : k.generation < inner.next_generation
    BY Zenon DEF Inv, CacheInv
  <2>2. DOMAIN room.entries \subseteq DOMAIN inner.entries
    BY <1>2, <1>5, <1>8, ZenonT(30) DEF Shrinks
  <2> HIDE DEF g, room
  <2> QED BY <1>9, <1>11, <2>1, <2>2
<1> HIDE DEF g
<1>13. /\ DOMAIN inner'.entries = DOMAIN room.entries \cup {g}
       /\ inner'.entries[g].state = "InFlight"
       /\ \A j \in DOMAIN room.entries : inner'.entries[j] = room.entries[j]
  <2> HIDE DEF room
  <2> QED BY <1>10, <1>12 DEF Put
<1>14. CompletedKeys(inner') = CompletedKeys(room)
  <2> HIDE DEF room
  <2> QED BY <1>12, <1>13, Zenon DEF CompletedKeys
<1>15. Keeps
  <2> HIDE DEF room
  <2>1. PICK b : b = inner'
    BY Zenon
  <2>2. \A k \in CompletedKeys(b) : k \in CompletedKeys(room) /\ b.entries[k] = room.entries[k]
    BY <1>13, <1>14, <2>1, Zenon DEF CompletedKeys
  <2>3. ASSUME NEW i \in DOMAIN room.completed_order
        PROVE  /\ InFlight(b, room.completed_order[i]) => InFlight(room, room.completed_order[i])
               /\ room.completed_order[i].generation < b.next_generation
    <3> DEFINE k == room.completed_order[i]
    <3>1. k.generation < inner.next_generation /\ k \in EntryKey
      BY <1>8, <1>9, OrderTyped, SeqElement, Zenon DEF OrderInv
    <3>2. k.generation \in Nat
      BY <3>1, Zenon DEF EntryKey
    <3> HIDE DEF k
    <3>3. k # g /\ k.generation < inner.next_generation + 1
      BY <1>9, <1>11, <3>1, <3>2
    <3>4. InFlight(b, k) => InFlight(room, k)
      BY <1>13, <2>1, <3>3, Zenon DEF InFlight
    <3> QED BY <1>10, <2>1, <3>3, <3>4, Zenon DEF k
  <2>4. OrderInv(b, now)
    <3>1. /\ OrderInv(room, now) /\ b.completed_order = room.completed_order
          /\ \A i \in DOMAIN room.completed_order :
                InFlight(b, room.completed_order[i]) => InFlight(room, room.completed_order[i])
          /\ \A i \in DOMAIN room.completed_order :
                room.completed_order[i].generation < b.next_generation
      BY <1>8, <1>10, <2>1, <2>3, ZenonT(30)
    <3> QED BY <2>2, <3>1, SameOrder, Zenon
  <2>5. Len(b.completed_order) <= Len(inner.completed_order)
    <3>1. /\ Len(room.completed_order) \in Nat /\ Len(cache.completed_order) \in Nat
          /\ Len(inner.completed_order) \in Nat
      BY <1>2, <1>8, OrderTyped, Zenon DEF Inv
    <3>2. Len(cache.completed_order) <= Len(inner.completed_order)
      BY <1>4, <3>1 DEF Pops
    <3> QED BY <1>5, <1>8, <1>10, <2>1, <3>1, <3>2
  <2> QED BY <1>1, <2>1, <2>4, <2>5, Zenon DEF Keeps
<1>16. ASSUME NEW k \in CompletedKeys(inner) \ CompletedKeys(inner')
       PROVE  Outlived(k) \/ Replaced(k) \/ Displaced(k)
  <2>1. CASE k \notin CompletedKeys(cache)
    BY <1>3, <2>1, Zenon
  <2>2. CASE k \in CompletedKeys(cache) \ CompletedKeys(reused)
    <3>1. k.request = r
      BY <1>5, <2>2, Zenon
    <3>2. k.generation < inner.next_generation /\ k.generation \in Nat
      BY <1>16, ZenonT(30) DEF Inv, CacheInv, CacheTyped, CompletedKeys, EntryKey
    <3>3. r \in DOMAIN inner'.latest /\ inner'.latest[r].generation = inner.next_generation
      <4> HIDE DEF room
      <4> QED BY <1>10, SMTT(20) DEF Put
    <3>4. ~IsLatest(inner', k)
      <4>1. IsLatest(inner', k) => inner'.latest[r].generation = k.generation
        BY <3>1 DEF IsLatest
      <4> QED BY <1>9, <3>2, <3>3, <4>1, SMTT(20)
    <3> QED BY <3>1, <3>3, <3>4, Zenon DEF Replaced
  <2>3. CASE k \in CompletedKeys(reused)
    <3>1. Full(reused) /\ room = evicted
      BY <1>14, <1>16, <2>3, Zenon
    <3>2. Full(inner)
      <4>1. /\ IsFiniteSet(DOMAIN inner.entries)
            /\ DOMAIN reused.entries \in SUBSET DOMAIN inner.entries
        BY <1>2, <1>5, Zenon DEF Shrinks, Inv, CacheInv
      <4>2. Cardinality(DOMAIN reused.entries) <= Cardinality(DOMAIN inner.entries)
            /\ IsFiniteSet(DOMAIN reused.entries)
        BY <4>1, FS_Subset, Zenon
      <4>3. Cardinality(DOMAIN reused.entries) \in Nat /\ Cardinality(DOMAIN inner.entries) \in Nat
        BY <4>1, <4>2, FS_CardinalityType, Zenon
      <4> QED BY <3>1, <4>2, <4>3, ReplayConstants DEF Full
    <3>3. DOMAIN inner'.entries \ DOMAIN inner.entries # {}
      BY <1>12, <1>13, Zenon
    <3>4. ASSUME NEW j \in CompletedKeys(inner) \cap CompletedKeys(inner') PROVE At(k) < At(j)
      <4>s. PICK s, o : s = inner.completed_order /\ o = cache.completed_order
        BY Zenon
      <4>1. /\ Len(s) \in Nat /\ DOMAIN s = 1..Len(s)
            /\ Len(o) \in Nat /\ DOMAIN o = 1..Len(o)
        BY <1>2, <4>s, OrderTyped, Zenon DEF Inv
      <4>2. /\ n \in 0..Len(s) /\ Len(o) = Len(s) - n
            /\ \A i \in 1..Len(o) : o[i] = s[i + n]
            /\ \A l \in CompletedKeys(cache) : \A i \in 1..n : s[i] # l
        BY <1>4, <4>s, Zenon DEF Pops
      <4>3. m \in 0..Len(o)
        BY <1>5, <1>7, <4>s, Zenon DEF Pops
      <4>4. PICK i \in 1..m : o[i] = k
        <5>1. k \in CompletedKeys(reused) \ CompletedKeys(evicted)
          BY <1>14, <1>16, <2>3, <3>1, Zenon
        <5>2. \E i \in 1..m : reused.completed_order[i] = k
          BY <1>7, <5>1, Zenon DEF Pops
        <5> QED BY <1>5, <4>s, <5>2, Zenon
      <4>5. i + n \in 1..(n + m) /\ s[i + n] = k /\ n + m \in 0..Len(s)
        <5>1. PICK l : l = Len(s) /\ l \in Nat
          BY <4>1, Zenon
        <5>2. n \in 0..l /\ m \in 0..(l - n) /\ i \in 1..(l - n)
          BY <4>2, <4>3, <4>4, <5>1
        <5>3. i + n \in 1..(n + m) /\ n + m \in 0..l
          BY <5>1, <5>2
        <5>4. s[i + n] = k
          BY <4>2, <4>4, <5>1, <5>2, Zenon
        <5> QED BY <5>1, <5>3, <5>4, Zenon
      <4>6. j \in CompletedKeys(cache) /\ \A h \in 1..m : o[h] # j
        <5>1. j \in CompletedKeys(evicted)
          BY <1>14, <3>1, Zenon
        <5>2. j \in CompletedKeys(reused) /\ \A h \in 1..m : o[h] # j
          BY <1>5, <1>7, <4>s, <5>1, Zenon DEF Pops
        <5>3. CompletedKeys(reused) \subseteq CompletedKeys(cache)
          BY <1>5, Zenon DEF Shrinks, CompletedKeys
        <5> QED BY <5>2, <5>3, Zenon
      <4>7. ASSUME NEW h \in 1..(n + m) PROVE s[h] # j
        <5>1. CASE h \in 1..n
          BY <4>2, <4>6, <5>1, Zenon
        <5>2. CASE h \notin 1..n
          <6>1. PICK l : l = Len(s) /\ l \in Nat
            BY <4>1, Zenon
          <6>2. n \in 0..l /\ m \in 0..(l - n) /\ Len(o) = l - n
            BY <4>2, <4>3, <6>1, Zenon
          <6>3. h - n \in 1..m /\ h - n \in 1..(l - n) /\ (h - n) + n = h
            BY <5>2, <6>1, <6>2
          <6>4. o[h - n] = s[h]
            BY <4>2, <6>2, <6>3, Zenon
          <6> QED BY <4>6, <6>3, <6>4, Zenon
        <5> QED BY <5>1, <5>2, Zenon
      <4>8. k \in CompletedKeys(inner) /\ j \in CompletedKeys(inner)
        BY <1>16, Zenon
      <4> QED BY <4>s, <4>5, <4>7, <4>8, OldestFirst, Zenon
    <3> QED BY <3>2, <3>3, <3>4, Zenon DEF Displaced
  <2> QED BY <2>1, <2>2, <2>3, Zenon
<1> QED BY <1>15, <1>16, Zenon DEF Explained

-----------------------------------------------------------------------------
(* The other steps.                                                         *)

\* The entry of a lease leaves the cache; the order does not name it.
LEMMA DepartedOrder ==
    ASSUME Inv, OrderInv(inner, now), NEW k, InFlight(inner, k)
    PROVE  LET b == Departed(inner, k)
           IN /\ OrderInv(b, now)
              /\ CompletedKeys(b) = CompletedKeys(inner)
              /\ b.completed_order = inner.completed_order
              /\ \A i \in DOMAIN b.completed_order : b.completed_order[i] # k
<1> DEFINE b == Departed(inner, k)
<1>1. /\ DOMAIN b.entries = DOMAIN inner.entries \ {k}
      /\ \A j \in DOMAIN b.entries : b.entries[j] = inner.entries[j]
      /\ b.completed_order = inner.completed_order
      /\ b.next_generation = inner.next_generation
      /\ CompletedKeys(b) = CompletedKeys(inner)
  BY DepartedOK, Zenon DEF Inv
<1> HIDE DEF b
<1>2. \A j \in CompletedKeys(b) : j \in CompletedKeys(inner) /\ b.entries[j] = inner.entries[j]
  BY <1>1, Zenon DEF CompletedKeys
<1>3. \A i \in DOMAIN inner.completed_order :
         /\ InFlight(b, inner.completed_order[i]) => InFlight(inner, inner.completed_order[i])
         /\ inner.completed_order[i].generation < b.next_generation
         /\ inner.completed_order[i] # k
  BY <1>1, Zenon DEF OrderInv, InFlight
<1>4. OrderInv(b, now)
  BY <1>1, <1>2, <1>3, SameOrder, Zenon
<1> QED BY <1>1, <1>3, <1>4, Zenon DEF b

\* complete drops a reply only to make room for the one it retains.
LEMMA CompleteStoreOrder ==
    ASSUME Inv, OrderInv(inner, now), NEW c \in Calls, CompleteStore(c)
    PROVE  /\ OrderInv(inner', now') /\ Explained
           /\ \/ Len(inner'.completed_order) <= Len(inner.completed_order)
              \/ Len(inner'.completed_order)
                    <= Max({2 * Cardinality(DOMAIN inner'.entries), CompactFloor})
<1> DEFINE k == key[c]
           dep == Departed(inner, k)
           bytes == reply[c].shape.retained_bytes
           wanted == IsLatest(dep, k) /\ eligible[c] /\ bytes <= MaxCompletedBytes
<1>1. /\ phase[c] = "storing" /\ InFlight(inner, key[c])
      /\ inner' = StoreIf(dep, k, reply[c], wanted)
      /\ now' = now
  BY Zenon DEF CompleteStore, StoreReply
<1>2. k \in EntryKey /\ k.generation < inner.next_generation
  BY <1>1, LeaderFacts, Zenon DEF Leading
<1>t. CallTyped /\ CacheInv(inner, {}) /\ CallInv(inner)
  BY Zenon DEF Inv
<1>3. reply[c] \in Reply
  BY <1>1, <1>t, Zenon DEF CallInv, Own
<1>4. bytes \in Nat
  BY <1>3, ReplayConstants, Zenon DEF Reply
<1>5. /\ CacheInv(dep, {k.request})
      /\ DOMAIN dep.entries = DOMAIN inner.entries \ {k}
      /\ dep.completed_bytes = inner.completed_bytes
      /\ dep.next_generation = inner.next_generation
      /\ IsLatest(dep, k) \/ CacheInv(dep, {})
  BY <1>1, <1>t, DepartedOK, ZenonT(100)
<1>6. /\ OrderInv(dep, now)
      /\ CompletedKeys(dep) = CompletedKeys(inner)
      /\ dep.completed_order = inner.completed_order
      /\ \A i \in DOMAIN dep.completed_order : dep.completed_order[i] # k
  BY <1>1, DepartedOrder, ZenonT(30)
<1>7. /\ wanted \in BOOLEAN /\ now \in Nat
      /\ wanted => IsLatest(dep, k) /\ bytes <= MaxCompletedBytes
  BY <1>t, Zenon DEF CallTyped, IsLatest
<1> HIDE DEF dep, wanted, k
<1>8. PICK b : b = StoreIf(dep, k, reply[c], wanted)
  BY Zenon
<1>9. /\ OrderInv(b, now)
      /\ \/ b.completed_order = dep.completed_order
         \/ Len(b.completed_order) <= Max({2 * Cardinality(DOMAIN b.entries), CompactFloor})
      /\ \/ CompletedKeys(b) = CompletedKeys(dep)
         \/ Places(dep, b, k, bytes)
  <2>1. k \notin DOMAIN dep.entries
    BY <1>5, Zenon
  <2> DEFINE d == StoreIf(dep, k, reply[c], wanted)
  <2>2. k.generation < dep.next_generation
    BY <1>2, <1>5, Zenon DEF k
  <2>3. k \in EntryKey
    BY <1>2, Zenon DEF k
  <2>4. /\ OrderInv(d, now)
        /\ \/ d.completed_order = dep.completed_order
           \/ Len(d.completed_order) <= Max({2 * Cardinality(DOMAIN d.entries), CompactFloor})
        /\ \/ CompletedKeys(d) = CompletedKeys(dep)
           \/ Places(dep, d, k, reply[c].shape.retained_bytes)
    BY <1>3, <1>4, <1>5, <1>6, <1>7, <2>1, <2>2, <2>3, StoreIfOrder, ZenonT(30)
  <2>5. d = b
    BY <1>8, Zenon
  <2> HIDE DEF d
  <2> QED BY <2>4, <2>5, Zenon
<1>10. b = inner'
  BY <1>1, <1>8, Zenon
<1>11. ASSUME NEW j \in CompletedKeys(inner) \ CompletedKeys(inner') PROVE Displaced(j)
  <2>1. Places(dep, b, k, bytes)
    BY <1>6, <1>9, <1>10, <1>11, Zenon
  <2>2. PICK n \in 0..Len(inner.completed_order) :
           /\ k \in CompletedKeys(b) /\ b.entries[k].retained_bytes = bytes
           /\ n # 0 => inner.completed_bytes + bytes > MaxCompletedBytes
           /\ \A l \in CompletedKeys(inner) \ CompletedKeys(b) :
                 \E i \in 1..n : inner.completed_order[i] = l
           /\ \A l \in CompletedKeys(b) \ {k} : \A i \in 1..n : inner.completed_order[i] # l
    BY <1>5, <1>6, <2>1 DEF Places
  <2>3. PICK i \in 1..n : inner.completed_order[i] = j
    BY <1>10, <1>11, <2>2, Zenon
  <2>4. n # 0
    OBVIOUS
  <2>5. k \in CompletedKeys(inner') \ CompletedKeys(inner)
    BY <1>1, <1>10, <2>2, Zenon DEF InFlight, CompletedKeys, k
  <2>6. inner.completed_bytes + inner'.entries[k].retained_bytes > MaxCompletedBytes
    BY <1>10, <2>2, <2>4, Zenon
  <2>7. ASSUME NEW l \in CompletedKeys(inner) \cap CompletedKeys(inner') PROVE At(j) < At(l)
    <3>1. l # k /\ l \in CompletedKeys(b)
      BY <1>10, <2>5, <2>7, Zenon
    <3>2. \A h \in 1..n : inner.completed_order[h] # l
      BY <2>2, <3>1, Zenon
    <3> QED BY <1>11, <2>3, <3>2, OldestFirst, Zenon
  <2> QED BY <2>5, <2>6, <2>7, Zenon DEF Displaced
<1>12. Explained
  BY <1>11, Zenon DEF Explained
<1>13. b.completed_order = dep.completed_order
          => Len(b.completed_order) <= Len(inner.completed_order)
  <2>1. Len(inner.completed_order) \in Nat
    BY <1>t, OrderTyped, Zenon
  <2> QED BY <1>6, <2>1
<1> QED BY <1>1, <1>9, <1>10, <1>12, <1>13

\* The drop of a lease touches no completed entry; its item may be in the order
\* only as a tombstone.
LEMMA CancelOrder ==
    ASSUME Inv, OrderInv(inner, now), NEW c \in Calls, Cancel(c)
    PROVE  Keeps /\ Explained
<1> DEFINE k == key[c]
           dep == Departed(inner, k)
<1>1. /\ phase[c] = "leading" /\ InFlight(inner, k) /\ inner' = Settled(dep, k) /\ now' = now
  BY Zenon DEF Cancel, Cancelled
<1>2. /\ OrderInv(dep, now) /\ CompletedKeys(dep) = CompletedKeys(inner)
      /\ dep.completed_order = inner.completed_order
  BY <1>1, DepartedOrder, Zenon
<1>3. CacheTyped(dep)
  BY <1>1, DepartedOK, Zenon DEF Inv, CacheInv
<1> HIDE DEF dep
<1>4. /\ inner'.entries = dep.entries /\ inner'.completed_order = dep.completed_order
      /\ inner'.next_generation = dep.next_generation
  BY <1>1, <1>3, Zenon DEF Settled, CacheTyped
<1>5. CompletedKeys(inner') = CompletedKeys(dep)
  BY <1>4, Zenon DEF CompletedKeys
<1>6. OrderInv(inner', now)
  <2>1. PICK b : b = inner'
    BY Zenon
  <2>2. /\ b.completed_order = dep.completed_order
        /\ \A j \in CompletedKeys(b) : j \in CompletedKeys(dep) /\ b.entries[j] = dep.entries[j]
        /\ \A i \in DOMAIN dep.completed_order :
              InFlight(b, dep.completed_order[i]) => InFlight(dep, dep.completed_order[i])
    BY <1>4, <1>5, <2>1, ZenonT(30) DEF InFlight
  <2>3. \A i \in DOMAIN dep.completed_order : dep.completed_order[i].generation < b.next_generation
    BY <1>2, <1>4, <2>1, ZenonT(30) DEF OrderInv
  <2>4. OrderInv(b, now)
    BY <1>2, <2>2, <2>3, SameOrder, ZenonT(30)
  <2> QED BY <2>1, <2>4, Zenon
<1>7. Len(inner.completed_order) <= Len(inner.completed_order)
  <2>1. Len(inner.completed_order) \in Nat
    BY OrderTyped, Zenon DEF Inv
  <2> QED BY <2>1
<1> QED BY <1>1, <1>2, <1>4, <1>5, <1>6, <1>7, SMTT(20) DEF Keeps, Explained

\* The other steps leave the cache alone; time only passes.
LEMMA SameCacheOrder ==
    ASSUME Inv, OrderInv(inner, now), inner' = inner, now' = now \/ now' = now + 1
    PROVE  Keeps /\ Explained
<1>1. now \in Nat /\ CacheInv(inner, {})
  BY Zenon DEF Inv, CallTyped
<1>2. ASSUME NEW k \in CompletedKeys(inner) PROVE inner.entries[k].completed_at <= now'
  <2>1. inner.entries[k].completed_at \in Nat /\ inner.entries[k].completed_at <= now
    BY <1>1, CompletedAtTyped, Zenon DEF OrderInv
  <2> QED BY <1>1, <2>1
<1>3. OrderInv(inner, now')
  BY <1>2, Zenon DEF OrderInv
<1>4. Len(inner.completed_order) \in Nat
  BY <1>1, OrderTyped, Zenon
<1> QED BY <1>3, <1>4 DEF Keeps, Explained

-----------------------------------------------------------------------------
(* The theorems.                                                            *)

\* The order is invariant and within the threshold of compaction.
Listed == OrderInv(inner, now) /\ Short(inner)

\* The empty cache has an empty order.
LEMMA InitListed == Init => Listed
<1> SUFFICES ASSUME Init PROVE Listed
  BY Zenon
<1>1. inner.entries = << >> /\ inner.completed_order = << >>
  BY Zenon DEF Init
<1>2. DOMAIN inner.entries = {} /\ DOMAIN inner.completed_order = {} /\ Len(inner.completed_order) = 0
  BY <1>1
<1>3. OrderInv(inner, now)
  BY <1>2, Zenon DEF OrderInv, CompletedKeys, Evictable
<1>4. Short(inner)
  <2>1. 2 * Capacity \in Nat /\ CompactFloor \in Nat
    BY ReplayConstants
  <2>2. PICK m : m = Max({2 * Capacity, CompactFloor})
    BY Zenon
  <2>3. m \in Nat
    BY <2>1, <2>2, MaxPair, Zenon
  <2> QED BY <1>2, <2>2, <2>3 DEF Short
<1> QED BY <1>3, <1>4, Zenon DEF Listed

\* No step lengthens the order, but for complete, which compacts it.
LEMMA StepOrder ==
    ASSUME Inv, OrderInv(inner, now), [Next]_vars
    PROVE  /\ OrderInv(inner', now') /\ Explained
           /\ \/ Len(inner'.completed_order) <= Len(inner.completed_order)
              \/ Len(inner'.completed_order)
                    <= Max({2 * Cardinality(DOMAIN inner'.entries), CompactFloor})
<1>1. ASSUME NEW c \in Calls, NEW r \in Requests, NEW f \in Fingerprints,
             NEW t \in SampledTimes, Begin(c, r, f, t)
      PROVE  Keeps /\ Explained
  BY <1>1, BeginWaitOrder, BeginReplayOrder, BeginRefusedOrder, BeginExecuteOrder, Zenon DEF Begin
<1>2. ASSUME NEW c \in Calls, NEW s \in ReplyShapes, CompleteProbe(c, s)
      PROVE  Keeps /\ Explained
  BY <1>2, SameCacheOrder, Zenon DEF CompleteProbe
<1>3. ASSUME NEW c \in Calls, Cancel(c) \/ WaiterGone(c)
      PROVE  Keeps /\ Explained
  BY <1>3, CancelOrder, SameCacheOrder, Zenon DEF WaiterGone
<1>4. ASSUME Tick \/ UNCHANGED vars
      PROVE  Keeps /\ Explained
  BY <1>4, SameCacheOrder, Zenon DEF Tick, vars
<1>5. CASE \E c \in Calls : CompleteStore(c)
  BY <1>5, CompleteStoreOrder, Zenon
<1>6. CASE ~\E c \in Calls : CompleteStore(c)
  <2>1. Keeps /\ Explained
    BY <1>1, <1>2, <1>3, <1>4, <1>6, Zenon DEF Next
  <2> QED BY <2>1, Zenon DEF Keeps
<1> QED BY <1>5, <1>6, Zenon

\* Every step keeps the order consistent and short.
LEMMA NextListed == Inv /\ Listed /\ [Next]_vars => Listed'
<1> SUFFICES ASSUME Inv, Listed, [Next]_vars PROVE Listed'
  BY Zenon
<1> DEFINE len == Len(inner.completed_order)
           lenP == Len(inner'.completed_order)
           size == Cardinality(DOMAIN inner'.entries)
<1>1. /\ OrderInv(inner', now')
      /\ lenP <= len \/ lenP <= Max({2 * size, CompactFloor})
  BY StepOrder, Zenon DEF Listed
<1>2. Inv'
  BY NextInv, Zenon
<1>3. CacheInv(inner, {}) /\ CacheInv(inner', {}) /\ Bounded(inner')
  BY <1>2, Zenon DEF Inv
<1>4. len \in Nat /\ lenP \in Nat /\ size \in Nat
  <2>1. IsFiniteSet(DOMAIN inner'.entries)
    BY <1>3, Zenon DEF CacheInv
  <2> QED BY <1>3, <2>1, OrderTyped, FS_CardinalityType, Zenon
<1>5. size <= Capacity
  BY <1>3, Zenon DEF Bounded
<1>6. len <= Max({2 * Capacity, CompactFloor})
  BY Zenon DEF Listed, Short
<1> HIDE DEF len, lenP, size
<1>7. lenP <= Max({2 * Capacity, CompactFloor})
  <2>1. /\ 2 * size \in Nat /\ 2 * Capacity \in Nat /\ CompactFloor \in Nat
        /\ 2 * size <= 2 * Capacity
    BY <1>4, <1>5, ReplayConstants
  <2>2. PICK m : m = Max({2 * Capacity, CompactFloor})
    BY Zenon
  <2>3. PICK l : l = Max({2 * size, CompactFloor})
    BY Zenon
  <2>4. m \in Nat /\ 2 * Capacity <= m /\ CompactFloor <= m
    BY <2>1, <2>2, MaxPair, Zenon
  <2>5. l \in Nat /\ (l = 2 * size \/ l = CompactFloor)
    BY <2>1, <2>3, MaxPair, Zenon
  <2>6. l <= m
    BY <2>1, <2>4, <2>5
  <2>7. lenP <= len \/ lenP <= l
    BY <1>1, <2>3, Zenon DEF lenP, len, size
  <2>8. len <= m
    BY <1>6, <2>2, Zenon
  <2>9. lenP <= m
    BY <1>4, <2>4, <2>5, <2>6, <2>7, <2>8, SMTT(20)
  <2> QED BY <2>2, <2>9, Zenon
<1> QED BY <1>1, <1>7, Zenon DEF Listed, Short, lenP

\* The completion order and its tombstones are consistent in every reachable
\* state: expire, eviction, removal by XID and compaction all preserve it.
THEOREM OrderInvariance == Spec => []Listed
<1>1. Init => Listed
  BY InitListed, Zenon
<1>2. Inv /\ Listed /\ [Next]_vars => Listed'
  BY NextListed, Zenon
<1> QED BY <1>1, <1>2, Invariance, PTL DEF Spec

\* Every retained reply is listed exactly once, oldest first, so expire may
\* stop at the first fresh reply and eviction may pop the front.
THEOREM OrderComplete == Spec => []OrderIsComplete
<1>1. Listed => OrderIsComplete
  BY Zenon DEF Listed, OrderInv, OrderIsComplete
<1> QED BY <1>1, OrderInvariance, PTL

\* A step of begin, complete, cancel or of the clock drops a retained reply
\* only for one of the reasons the code has, and for space oldest first.
THEOREM LossesJustified == Spec => LossIsJustified
<1>1. Inv /\ Listed /\ [Next]_vars => Explained
  BY StepOrder, Zenon DEF Listed
<1>2. Inv /\ Listed /\ [Next]_vars =>
         [\A k \in CompletedKeys(inner) \ CompletedKeys(inner') :
             Outlived(k) \/ Replaced(k) \/ Displaced(k)]_vars
  BY <1>1, Zenon DEF Explained
<1> QED BY <1>2, Invariance, OrderInvariance, PTL DEF Spec, LossIsJustified

\* Whenever a step lengthens the order, it is no longer than twice the entries or the
\* floor of compaction afterwards, however many replies left without their items.
THEOREM OrderBounded == Spec => OrderIsBounded
<1>1. ASSUME Inv, Listed, [Next]_vars
      PROVE  Len(inner'.completed_order) > Len(inner.completed_order) =>
                Len(inner'.completed_order) <= Max({2 * Cardinality(DOMAIN inner'.entries), CompactFloor})
  <2>1. Inv'
    BY <1>1, NextInv, Zenon
  <2>2. Len(inner.completed_order) \in Nat /\ Len(inner'.completed_order) \in Nat
    BY <1>1, <2>1, OrderTyped, Zenon DEF Inv
  <2>3. \/ Len(inner'.completed_order) <= Len(inner.completed_order)
        \/ Len(inner'.completed_order) <= Max({2 * Cardinality(DOMAIN inner'.entries), CompactFloor})
    BY <1>1, StepOrder, Zenon DEF Listed
  <2>4. ASSUME NEW m \in Nat, NEW n \in Nat, m > n PROVE ~(m <= n)
    BY <2>4
  <2> QED BY <2>2, <2>3, <2>4, Zenon
<1>2. Inv /\ Listed /\ [Next]_vars =>
         [Len(inner'.completed_order) > Len(inner.completed_order) =>
             Len(inner'.completed_order) <= Max({2 * Cardinality(DOMAIN inner'.entries), CompactFloor})]_vars
  BY <1>1, Zenon
<1> QED BY <1>2, Invariance, OrderInvariance, PTL DEF Spec, OrderIsBounded
=============================================================================
