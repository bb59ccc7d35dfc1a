-------------------------- MODULE ReplayCacheProofs --------------------------
(***************************************************************************)
(* The safety of ReplayCache, for any number of calls, requests and        *)
(* fingerprints, every capacity, byte budget, TTL and compaction threshold.*)
(*                                                                         *)
(* The inductive invariant joins CacheInv, which speaks of the cache alone,*)
(* and CallInv, which ties the cache to the leases and receivers that the  *)
(* calls hold.  CallInv takes the cache as a parameter: begin first drops  *)
(* expired replies and then acts, and CallInv holds in between.            *)
(***************************************************************************)
EXTENDS ReplayCacheLemmas

Keys(cache) ==
    \A c \in Calls : Begun(c) =>
        /\ key[c] \in EntryKey
        /\ key[c].generation < cache.next_generation
        /\ asked[c] = [request |-> key[c].request, fingerprint |-> key[c].fingerprint]

Leases(cache) ==
    /\ \A c \in Calls : phase[c] \in Leading => InFlight(cache, key[c])
    /\ \A k \in DOMAIN cache.entries :
          InFlight(cache, k) => \E c \in Calls : phase[c] \in Leading /\ key[c] = k

OneLeader == \A c, d \in Calls : IsLeader(c) /\ IsLeader(d) /\ key[c] = key[d] => c = d

Waiters(cache) ==
    /\ \A c \in Calls : phase[c] = "waiting" =>
          InFlight(cache, key[c]) /\ c \in cache.entries[key[c]].waiters
    /\ \A k \in DOMAIN cache.entries : InFlight(cache, k) =>
          \A w \in cache.entries[k].waiters : phase[w] \in {"waiting", "gone"} /\ key[w] = k

Stored(cache) ==
    \A k \in CompletedKeys(cache) :
        LET rep == cache.entries[k].encoded_reply
        IN rep \in Reply /\ phase[rep.by] = "executed" /\ key[rep.by] = k

Own == \A c \in Calls : phase[c] = "storing" => reply[c] \in Reply /\ reply[c].by = c

Given ==
    \A c \in Calls : phase[c] \in {"answered", "replayed", "executed"} =>
        reply[c] \in Reply /\ phase[reply[c].by] = "executed" /\ key[reply[c].by] = key[c]

\* A leader that lost its slot lost it to other arguments.
Superseded(cache) ==
    \A c \in Calls : phase[c] \in Leading /\ ~IsLatest(cache, key[c]) =>
        \E e \in Calls :
            /\ Begun(e)
            /\ key[e].request = key[c].request
            /\ key[e].fingerprint # key[c].fingerprint
            /\ key[c].generation < key[e].generation

CallInv(cache) ==
    /\ Keys(cache)
    /\ Leases(cache)
    /\ OneLeader
    /\ Waiters(cache)
    /\ Stored(cache)
    /\ Own
    /\ Given
    /\ Superseded(cache)
    /\ OverlapNeedsReuse

CallTyped ==
    /\ phase \in [Calls -> Phases]
    /\ asked \in [Calls -> [request : Requests, fingerprint : Fingerprints] \cup {NoKey}]
    /\ key \in [Calls -> EntryKey \cup {NoKey}]
    /\ reply \in [Calls -> Reply \cup {NoReply}]
    /\ eligible \in [Calls -> BOOLEAN]
    /\ now \in Nat

Bounded(cache) ==
    /\ cache.completed_bytes <= MaxCompletedBytes
    /\ Cardinality(DOMAIN cache.entries) <= Capacity

Inv == CacheInv(inner, {}) /\ CallTyped /\ CallInv(inner) /\ Bounded(inner)

-----------------------------------------------------------------------------

\* ReplayCache::new makes an empty cache, which satisfies the invariant.
LEMMA InitInv == Init => Inv
<1> SUFFICES ASSUME Init PROVE Inv
  BY Zenon
<1> DEFINE empty == [entries |-> << >>, latest |-> << >>, completed_order |-> << >>,
                     completed_bytes |-> 0, next_generation |-> 0]
<1>1. inner = empty
  BY Zenon DEF Init
<1>2. DOMAIN inner.entries = {} /\ DOMAIN inner.latest = {}
  BY <1>1
<1>3. CompletedKeys(inner) = {}
  BY <1>2, Zenon DEF CompletedKeys
<1>4. RetainedBytes(inner, {}) = 0
  <2>1. ChargedBytes(inner, {}) = {}
    BY Zenon DEF ChargedBytes
  <2> QED BY <2>1, FS_EmptySet, Zenon DEF RetainedBytes
<1>5. CacheTyped(inner)
  <2>1. << >> \in Seq(EntryKey)
    OBVIOUS
  <2>2. /\ DOMAIN inner = {"entries", "latest", "completed_order", "completed_bytes",
                           "next_generation"}
        /\ inner.completed_order = << >> /\ inner.completed_bytes = 0
        /\ inner.next_generation = 0
        /\ inner.entries = << >> /\ inner.latest = << >>
    BY <1>1, Zenon
  <2>3. << >> \in [{} -> InFlightState \cup CompletedState] /\ << >> \in [{} -> LatestGeneration]
    OBVIOUS
  <2> QED BY <1>2, <2>1, <2>2, <2>3 DEF CacheTyped
<1>6. CacheInv(inner, {})
  BY <1>1, <1>2, <1>3, <1>4, <1>5, FS_EmptySet, Zenon DEF CacheInv
<1>7. CallTyped
  BY Zenon DEF Init, CallTyped, Phases, Leading
<1>8. CallInv(inner)
  <2>1. \A c \in Calls : phase[c] = "idle"
    BY Zenon DEF Init
  <2> QED BY <1>2, <1>3, <2>1, Zenon
          DEF CallInv, Keys, Leases, OneLeader, Waiters, Stored, Own, Given, Superseded,
              OverlapNeedsReuse, Begun, IsLeader, Leading
<1>9. Bounded(inner)
  BY <1>1, <1>2, FS_EmptySet, ReplayConstants DEF Bounded
<1> QED BY <1>6, <1>7, <1>8, <1>9, Zenon DEF Inv

\* Dropping retained replies disturbs no call.
LEMMA ShrinkCalls ==
    ASSUME NEW a, NEW b, CacheInv(a, {}), CallTyped, CallInv(a), Shrinks(a, b)
    PROVE  CallInv(b)
<1>f. SameFlights(a, b)
  BY ShrinksSameFlights, Zenon
<1>1. Keys(b)
  BY Zenon DEF CallInv, Keys, Shrinks
<1>2. Leases(b)
  BY <1>f, Zenon DEF CallInv, Leases, SameFlights, InFlight
<1>3. Waiters(b)
  BY <1>f DEF CallInv, Waiters, SameFlights, InFlight
<1>4. Stored(b)
  BY Zenon DEF CallInv, Stored, Shrinks, CompletedKeys
<1>5. Superseded(b)
  <2> SUFFICES ASSUME NEW c \in Calls, phase[c] \in Leading, ~IsLatest(b, key[c])
               PROVE  ~IsLatest(a, key[c])
    BY Zenon DEF CallInv, Superseded
  <2>1. SUFFICES ASSUME IsLatest(a, key[c]) PROVE FALSE
    BY Zenon
  <2>2. InFlight(a, key[c]) /\ key[c] \in EntryKey
    BY Zenon DEF CallInv, Leases, CacheInv, CacheTyped, InFlight
  <2>3. LatestKey(a, key[c].request) = key[c]
    BY <2>1, <2>2, LatestKeyUnique, Zenon
  <2>4. key[c].request \in DOMAIN b.latest
    BY <2>1, <2>2, <2>3, Zenon DEF Shrinks, IsLatest, CompletedKeys, InFlight
  <2> QED BY <2>1, <2>4, Zenon DEF Shrinks, IsLatest
<1> QED BY <1>1, <1>2, <1>3, <1>4, <1>5, Zenon DEF CallInv

\* Dropping completed entries leaves the cache within its capacity and its byte
\* budget.
LEMMA ShrinkBounded ==
    ASSUME NEW a, NEW b, CacheInv(a, {}), CacheInv(b, {}), Bounded(a), Shrinks(a, b)
    PROVE  Bounded(b)
<1>1. DOMAIN b.entries \in SUBSET DOMAIN a.entries
  BY Zenon DEF Shrinks
<1>2. Cardinality(DOMAIN b.entries) <= Cardinality(DOMAIN a.entries)
  BY <1>1, FS_Subset, Zenon DEF CacheInv
<1>3. Cardinality(DOMAIN a.entries) \in Nat /\ Cardinality(DOMAIN b.entries) \in Nat
  BY FS_CardinalityType, Zenon DEF CacheInv
<1>4. a.completed_bytes \in Nat /\ b.completed_bytes \in Nat
  BY Zenon DEF CacheInv, CacheTyped
<1>5. Capacity \in Nat /\ MaxCompletedBytes \in Nat
  BY ReplayConstants, Zenon
<1> QED BY <1>2, <1>3, <1>4, <1>5 DEF Bounded, Shrinks

\* Expiry under the lock of begin keeps every part of the invariant.
LEMMA ExpireInv ==
    ASSUME Inv, NEW t
    PROVE  LET cache == Expire(inner, t)
           IN /\ CacheInv(cache, {})
              /\ Shrinks(inner, cache)
              /\ CallInv(cache)
              /\ Bounded(cache)
BY ExpireOK, ShrinkCalls, ShrinkBounded, Zenon DEF Inv

\* begin that finds its execution in flight registers a waiter and keeps the
\* invariant.
LEMMA BeginWaitInv ==
    ASSUME Inv, NEW c \in Calls, NEW r \in Requests, NEW f \in Fingerprints, NEW t,
           BeginWait(c, r, f, t)
    PROVE  Inv'
<1> DEFINE cache == Expire(inner, t)
           k == LatestKey(cache, r)
           W == Joined(cache.entries[k].waiters, c)
           new == [state |-> "InFlight", waiters |-> W]
<1>1. CacheInv(cache, {}) /\ CallInv(cache) /\ Bounded(cache)
  BY ExpireInv, Zenon
<1>t. CacheTyped(cache) /\ CallTyped
  BY <1>1, Zenon DEF CacheInv, Inv
<1>2. /\ phase[c] = "idle"
      /\ Hit(cache, r, f) /\ InFlight(cache, k)
      /\ inner' = [cache EXCEPT !.entries[k].waiters = W]
      /\ phase' = [phase EXCEPT ![c] = "waiting"]
      /\ asked' = [asked EXCEPT ![c] = [request |-> r, fingerprint |-> f]]
      /\ key' = [key EXCEPT ![c] = k]
      /\ UNCHANGED <<reply, eligible, now>>
  BY Zenon DEF BeginWait, Asks
<1> HIDE DEF cache
<1>3. /\ k \in EntryKey /\ k \in DOMAIN cache.entries
      /\ k.request = r /\ k.fingerprint = f /\ k.generation < cache.next_generation
      /\ IsLatest(cache, k)
  BY <1>1, <1>2, <1>t, Zenon
     DEF CacheInv, CacheTyped, LatestKey, Hit, InFlight, IsLatest, LatestGeneration
<1>4. cache.entries[k] \in InFlightState
  BY <1>2, <1>t, Zenon DEF CacheTyped, InFlight, InFlightState, CompletedState
<1>5. /\ W \subseteq Calls /\ c \in W
      /\ \A w \in W : w = c \/ (phase[w] = "waiting" /\ w \in cache.entries[k].waiters)
      /\ \A w \in cache.entries[k].waiters : phase[w] = "waiting" => w \in W
  BY <1>4, Zenon DEF Joined, Open, InFlightState
<1> HIDE DEF W, k
<1>6. /\ DOMAIN inner' = DOMAIN cache
      /\ DOMAIN inner'.entries = DOMAIN cache.entries
      /\ inner'.entries[k] = new
      /\ \A j \in DOMAIN cache.entries \ {k} : inner'.entries[j] = cache.entries[j]
      /\ inner'.entries = [j \in DOMAIN cache.entries |-> inner'.entries[j]]
      /\ inner'.latest = cache.latest
      /\ inner'.completed_order = cache.completed_order
      /\ inner'.completed_bytes = cache.completed_bytes
      /\ inner'.next_generation = cache.next_generation
  <2>1. /\ DOMAIN inner' = DOMAIN cache
        /\ inner'.entries = [cache.entries EXCEPT ![k].waiters = W]
        /\ inner'.latest = cache.latest
        /\ inner'.completed_order = cache.completed_order
        /\ inner'.completed_bytes = cache.completed_bytes
        /\ inner'.next_generation = cache.next_generation
    BY <1>2, <1>t, Zenon DEF CacheTyped
  <2>2. [cache.entries[k] EXCEPT !.waiters = W] = new
    BY <1>4 DEF InFlightState
  <2>3. inner'.entries = [cache.entries EXCEPT ![k] = new]
    BY <2>1, <2>2, Zenon
  <2> QED BY <1>3, <2>1, <2>3, Zenon
<1>7. CompletedKeys(inner') = CompletedKeys(cache)
  BY <1>2, <1>6 DEF CompletedKeys, InFlight
<1>8. \A j : InFlight(inner', j) <=> InFlight(cache, j)
  BY <1>2, <1>6 DEF InFlight
<1>9. CacheInv(inner', {})
  <2>1. new \in InFlightState
    BY <1>5, Zenon DEF InFlightState
  <2>2. inner'.entries \in [DOMAIN inner'.entries -> InFlightState \cup CompletedState]
    BY <1>t, <1>6, <2>1 DEF CacheTyped
  <2>3. CacheTyped(inner')
    BY <1>t, <1>6, <2>2, Zenon DEF CacheTyped
  <2>4. inner'.completed_bytes = RetainedBytes(inner', CompletedKeys(inner'))
    <3>1. \A j \in CompletedKeys(cache) : inner'.entries[j] = cache.entries[j]
      BY <1>2, <1>6, Zenon DEF CompletedKeys, InFlight
    <3>2. RetainedBytes(inner', CompletedKeys(cache)) = RetainedBytes(cache, CompletedKeys(cache))
      BY <3>1, SameCharge, Zenon
    <3> QED BY <1>1, <1>6, <1>7, <3>2, Zenon DEF CacheInv
  <2> QED BY <1>1, <1>6, <1>7, <2>3, <2>4, Zenon DEF CacheInv, IsLatest, LatestKey
<1>10. CallTyped'
  BY <1>t, <1>2, <1>3, Zenon DEF CallTyped, Phases
<1>11. Bounded(inner')
  BY <1>1, <1>6, Zenon DEF Bounded
<1>12. /\ \A d \in Calls \ {c} : phase'[d] = phase[d] /\ key'[d] = key[d] /\ asked'[d] = asked[d]
       /\ phase'[c] = "waiting" /\ key'[c] = k
       /\ asked'[c] = [request |-> r, fingerprint |-> f]
       /\ reply' = reply
  BY <1>t, <1>2, Zenon DEF CallTyped
<1>13. Keys(inner)'
  BY <1>1, <1>3, <1>6, <1>12 DEF CallInv, Keys, Begun
<1>14. Leases(inner)'
  <2>1. \A d \in Calls : phase'[d] \in Leading => InFlight(inner', key'[d])
    BY <1>1, <1>8, <1>12, Zenon DEF CallInv, Leases, Leading
  <2>2. ASSUME NEW j \in DOMAIN inner'.entries, InFlight(inner', j)
        PROVE  \E d \in Calls : phase'[d] \in Leading /\ key'[d] = j
    <3>1. PICK d \in Calls : phase[d] \in Leading /\ key[d] = j
      BY <1>1, <1>6, <1>8, <2>2, Zenon DEF CallInv, Leases
    <3>2. d # c
      BY <1>2, <3>1, Zenon DEF Leading
    <3> QED BY <1>12, <3>1, <3>2, Zenon
  <2> QED BY <2>1, <2>2, Zenon DEF Leases
<1>15. OneLeader'
  BY <1>1, <1>12 DEF CallInv, OneLeader, IsLeader, Leading
<1>16. Waiters(inner)'
  <2>1. ASSUME NEW d \in Calls, phase'[d] = "waiting"
        PROVE  InFlight(inner', key'[d]) /\ d \in inner'.entries[key'[d]].waiters
    <3>1. CASE d = c
      BY <1>2, <1>5, <1>6, <1>8, <1>12, <3>1
    <3>2. CASE d # c
      <4>1. phase[d] = "waiting" /\ key'[d] = key[d]
        BY <1>12, <2>1, <3>2, Zenon
      <4>2. InFlight(cache, key[d]) /\ d \in cache.entries[key[d]].waiters
        BY <1>1, <4>1, Zenon DEF CallInv, Waiters
      <4>3. CASE key[d] = k
        BY <1>5, <1>6, <1>8, <4>1, <4>2, <4>3
      <4>4. CASE key[d] # k
        BY <1>6, <1>8, <4>1, <4>2, <4>4, Zenon DEF InFlight
      <4> QED BY <4>3, <4>4, Zenon
    <3> QED BY <3>1, <3>2, Zenon
  <2>2. ASSUME NEW j \in DOMAIN inner'.entries, InFlight(inner', j),
               NEW w \in inner'.entries[j].waiters
        PROVE  phase'[w] \in {"waiting", "gone"} /\ key'[w] = j
    <3>0. InFlight(cache, j) /\ j \in DOMAIN cache.entries
      BY <1>6, <1>8, <2>2, Zenon
    <3>1. CASE j = k
      <4>1. w \in W
        BY <1>6, <3>1
      <4>2. CASE w = c
        BY <1>12, <3>1, <4>2, Zenon
      <4>3. CASE w # c
        <5>1. phase[w] = "waiting" /\ w \in cache.entries[k].waiters /\ w \in Calls
          BY <1>5, <4>1, <4>3, Zenon
        <5>2. key[w] = k
          BY <1>1, <3>0, <3>1, <5>1, Zenon DEF CallInv, Waiters
        <5> QED BY <1>12, <3>1, <4>3, <5>1, <5>2, Zenon
      <4> QED BY <4>2, <4>3, Zenon
    <3>2. CASE j # k
      <4>1. w \in cache.entries[j].waiters
        BY <1>6, <3>0, <3>2, Zenon
      <4>2. phase[w] \in {"waiting", "gone"} /\ key[w] = j
        BY <1>1, <3>0, <4>1, Zenon DEF CallInv, Waiters
      <4>3. w \in Calls
        BY <1>t, <3>0, <4>1, Zenon DEF CacheTyped, InFlight, InFlightState, CompletedState
      <4>4. w # c
        BY <1>2, <4>2, Zenon
      <4> QED BY <1>12, <4>2, <4>3, <4>4, Zenon
    <3> QED BY <3>1, <3>2, Zenon
  <2> QED BY <2>1, <2>2, Zenon DEF Waiters
<1>17. Stored(inner)'
  <2> SUFFICES ASSUME NEW j \in CompletedKeys(inner')
               PROVE  LET rep == inner'.entries[j].encoded_reply
                      IN rep \in Reply /\ phase'[rep.by] = "executed" /\ key'[rep.by] = j
    BY Zenon DEF Stored
  <2> DEFINE rep == cache.entries[j].encoded_reply
  <2>1. j \in CompletedKeys(cache) /\ inner'.entries[j] = cache.entries[j]
    BY <1>2, <1>6, <1>7, Zenon DEF CompletedKeys, InFlight
  <2>2. rep \in Reply /\ phase[rep.by] = "executed" /\ key[rep.by] = j
    BY <1>1, <2>1, Zenon DEF CallInv, Stored
  <2>3. rep.by \in Calls /\ rep.by # c
    BY <1>2, <2>2, Zenon DEF Reply
  <2> QED BY <1>12, <2>1, <2>2, <2>3, Zenon
<1>18. Own'
  BY <1>1, <1>12, Zenon DEF CallInv, Own
<1>19. Given'
  <2> SUFFICES ASSUME NEW d \in Calls, phase'[d] \in {"answered", "replayed", "executed"}
               PROVE  /\ reply'[d] \in Reply
                      /\ phase'[reply'[d].by] = "executed"
                      /\ key'[reply'[d].by] = key'[d]
    BY Zenon DEF Given
  <2>1. d # c /\ phase[d] \in {"answered", "replayed", "executed"}
    BY <1>12, Zenon
  <2>2. reply[d] \in Reply /\ phase[reply[d].by] = "executed" /\ key[reply[d].by] = key[d]
    BY <1>1, <2>1, Zenon DEF CallInv, Given
  <2>3. reply[d].by \in Calls /\ reply[d].by # c
    BY <1>2, <2>2, Zenon DEF Reply
  <2> QED BY <1>12, <2>1, <2>2, <2>3, Zenon
<1>20. Superseded(inner)'
  <2> SUFFICES ASSUME NEW d \in Calls, phase'[d] \in Leading, ~IsLatest(inner', key'[d])
               PROVE  \E e \in Calls :
                         /\ Begun(e)'
                         /\ key'[e].request = key'[d].request
                         /\ key'[e].fingerprint # key'[d].fingerprint
                         /\ key'[d].generation < key'[e].generation
    BY Zenon DEF Superseded
  <2>1. d # c /\ phase[d] \in Leading /\ key'[d] = key[d]
    BY <1>12, Zenon DEF Leading
  <2>2. ~IsLatest(cache, key[d])
    BY <1>6, <2>1, Zenon DEF IsLatest
  <2>3. PICK e \in Calls : /\ Begun(e)
                           /\ key[e].request = key[d].request
                           /\ key[e].fingerprint # key[d].fingerprint
                           /\ key[d].generation < key[e].generation
    BY <1>1, <2>1, <2>2, Zenon DEF CallInv, Superseded
  <2>4. e # c
    BY <1>2, <2>3, Zenon DEF Begun
  <2> QED BY <1>12, <2>1, <2>3, <2>4, Zenon DEF Begun
<1>21. OverlapNeedsReuse'
  <2> SUFFICES ASSUME NEW d \in Calls, NEW g \in Calls,
                      phase'[d] \in Leading, phase'[g] \in Leading,
                      asked'[d] = asked'[g], key'[d].generation < key'[g].generation
               PROVE  \E e \in Calls :
                         /\ Begun(e)'
                         /\ key'[e].request = key'[d].request
                         /\ key'[e].fingerprint # key'[d].fingerprint
                         /\ key'[d].generation < key'[e].generation
                         /\ key'[e].generation < key'[g].generation
    BY Zenon DEF OverlapNeedsReuse
  <2>1. d # c /\ g # c
    BY <1>12, Zenon DEF Leading
  <2>2. PICK e \in Calls : /\ Begun(e)
                           /\ key[e].request = key[d].request
                           /\ key[e].fingerprint # key[d].fingerprint
                           /\ key[d].generation < key[e].generation
                           /\ key[e].generation < key[g].generation
    BY <1>1, <1>12, <2>1 DEF CallInv, OverlapNeedsReuse
  <2>3. e # c
    BY <1>2, <2>2, Zenon DEF Begun
  <2> QED BY <1>12, <2>1, <2>2, <2>3, Zenon DEF Begun
<1>22. CallInv(inner)'
  BY <1>13, <1>14, <1>15, <1>16, <1>17, <1>18, <1>19, <1>20, <1>21, Zenon DEF CallInv
<1> QED BY <1>9, <1>10, <1>11, <1>22, Zenon DEF Inv

\* A step that only settles one idle or waiting call: it is answered from the
\* cache, refused, or it leaves.
LEMMA SideStep ==
    ASSUME NEW cache, CallTyped, CacheInv(cache, {}), CallInv(cache), inner' = cache,
           NEW c \in Calls, phase[c] \in {"idle", "waiting"},
           NEW q \in {"replayed", "refused", "gone"},
           phase' = [phase EXCEPT ![c] = q],
           \A d \in Calls \ {c} : /\ key'[d] = key[d]
                                  /\ asked'[d] = asked[d]
                                  /\ reply'[d] = reply[d],
           phase[c] = "waiting" => key'[c] = key[c],
           q # "refused" =>
               /\ key'[c] \in EntryKey
               /\ key'[c].generation < cache.next_generation
               /\ asked'[c] = [request |-> key'[c].request, fingerprint |-> key'[c].fingerprint],
           q = "replayed" =>
               /\ reply'[c] \in Reply
               /\ phase[reply'[c].by] = "executed"
               /\ key[reply'[c].by] = key'[c],
           q = "gone" <=> phase[c] = "waiting"
    PROVE  CallInv(inner)'
<1>1. /\ \A d \in Calls \ {c} : phase'[d] = phase[d]
      /\ phase'[c] = q
  BY Zenon DEF CallTyped
<1>2. Keys(inner)'
  BY <1>1, Zenon DEF CallInv, Keys, Begun
<1>3. Leases(inner)'
  <2>1. \A d \in Calls : phase'[d] \in Leading => InFlight(inner', key'[d])
    BY <1>1, Zenon DEF CallInv, Leases, Leading
  <2>2. ASSUME NEW j \in DOMAIN inner'.entries, InFlight(inner', j)
        PROVE  \E d \in Calls : phase'[d] \in Leading /\ key'[d] = j
    <3>1. PICK d \in Calls : phase[d] \in Leading /\ key[d] = j
      BY <2>2, Zenon DEF CallInv, Leases
    <3>2. d # c
      BY <3>1, Zenon DEF Leading
    <3> QED BY <1>1, <3>1, <3>2, Zenon
  <2> QED BY <2>1, <2>2, Zenon DEF Leases
<1>4. OneLeader'
  BY <1>1 DEF CallInv, OneLeader, IsLeader, Leading
<1>5. Waiters(inner)'
  <2>1. \A d \in Calls : phase'[d] = "waiting" =>
            InFlight(inner', key'[d]) /\ d \in inner'.entries[key'[d]].waiters
    BY <1>1, Zenon DEF CallInv, Waiters
  <2>2. ASSUME NEW j \in DOMAIN inner'.entries, InFlight(inner', j),
               NEW w \in inner'.entries[j].waiters
        PROVE  phase'[w] \in {"waiting", "gone"} /\ key'[w] = j
    <3>1. phase[w] \in {"waiting", "gone"} /\ key[w] = j
      BY <2>2 DEF CallInv, Waiters
    <3>2. w \in Calls
      BY <2>2, Zenon DEF CacheInv, CacheTyped, InFlight, InFlightState, CompletedState
    <3> QED BY <1>1, <3>1, <3>2, Zenon
  <2> QED BY <2>1, <2>2, Zenon DEF Waiters
<1>6. Stored(inner)'
  <2> SUFFICES ASSUME NEW j \in CompletedKeys(cache)
               PROVE  LET rep == cache.entries[j].encoded_reply
                      IN rep \in Reply /\ phase'[rep.by] = "executed" /\ key'[rep.by] = j
    BY Zenon DEF Stored
  <2> DEFINE rep == cache.entries[j].encoded_reply
  <2>1. rep \in Reply /\ phase[rep.by] = "executed" /\ key[rep.by] = j
    BY Zenon DEF CallInv, Stored
  <2>2. rep.by \in Calls /\ rep.by # c
    BY <2>1, Zenon DEF Reply
  <2> QED BY <1>1, <2>1, <2>2, Zenon
<1>7. Own'
  BY <1>1, Zenon DEF CallInv, Own
<1>8. Given'
  <2> SUFFICES ASSUME NEW d \in Calls, phase'[d] \in {"answered", "replayed", "executed"}
               PROVE  /\ reply'[d] \in Reply
                      /\ phase'[reply'[d].by] = "executed"
                      /\ key'[reply'[d].by] = key'[d]
    BY Zenon DEF Given
  <2>1. /\ reply'[d] \in Reply
        /\ phase[reply'[d].by] = "executed"
        /\ key[reply'[d].by] = key'[d]
    BY <1>1, Zenon DEF CallInv, Given
  <2>2. reply'[d].by \in Calls /\ reply'[d].by # c
    BY <2>1, Zenon DEF Reply
  <2> QED BY <1>1, <2>1, <2>2, Zenon
<1>9. \A e \in Calls : Begun(e) => Begun(e)' /\ key'[e] = key[e]
  BY <1>1, Zenon DEF Begun
<1>10. Superseded(inner)'
  <2> SUFFICES ASSUME NEW d \in Calls, phase'[d] \in Leading, ~IsLatest(cache, key'[d])
               PROVE  \E e \in Calls :
                         /\ Begun(e)'
                         /\ key'[e].request = key'[d].request
                         /\ key'[e].fingerprint # key'[d].fingerprint
                         /\ key'[d].generation < key'[e].generation
    BY Zenon DEF Superseded
  <2>1. phase[d] \in Leading /\ key'[d] = key[d]
    BY <1>1, Zenon DEF Leading
  <2> QED BY <1>9, <2>1 DEF CallInv, Superseded
<1>11. OverlapNeedsReuse'
  <2> SUFFICES ASSUME NEW d \in Calls, NEW g \in Calls,
                      phase'[d] \in Leading, phase'[g] \in Leading,
                      asked'[d] = asked'[g], key'[d].generation < key'[g].generation
               PROVE  \E e \in Calls :
                         /\ Begun(e)'
                         /\ key'[e].request = key'[d].request
                         /\ key'[e].fingerprint # key'[d].fingerprint
                         /\ key'[d].generation < key'[e].generation
                         /\ key'[e].generation < key'[g].generation
    BY Zenon DEF OverlapNeedsReuse
  <2>1. d # c /\ g # c
    BY <1>1, Zenon DEF Leading
  <2>2. /\ phase[d] \in Leading /\ phase[g] \in Leading /\ asked[d] = asked[g]
        /\ key'[d] = key[d] /\ key'[g] = key[g]
    BY <1>1, <2>1, Zenon
  <2>3. key[d].generation < key[g].generation
    BY <2>2, Zenon
  <2>4. PICK e \in Calls : /\ Begun(e)
                           /\ key[e].request = key[d].request
                           /\ key[e].fingerprint # key[d].fingerprint
                           /\ key[d].generation < key[e].generation
                           /\ key[e].generation < key[g].generation
    BY <2>2, <2>3, Zenon DEF CallInv, OverlapNeedsReuse
  <2>5. Begun(e)' /\ key'[e] = key[e]
    BY <1>9, <2>4, Zenon
  <2>6. /\ Begun(e)' /\ key'[e].request = key'[d].request
        /\ key'[e].fingerprint # key'[d].fingerprint
        /\ key'[d].generation < key'[e].generation
        /\ key'[e].generation < key'[g].generation
    BY <2>2, <2>4, <2>5, Zenon
  <2> QED BY <2>6, Zenon
<1> QED BY <1>2, <1>3, <1>4, <1>5, <1>6, <1>7, <1>8, <1>10, <1>11, Zenon DEF CallInv

\* begin that finds a retained reply hands it out and keeps the invariant.
LEMMA BeginReplayInv ==
    ASSUME Inv, NEW c \in Calls, NEW r \in Requests, NEW f \in Fingerprints, NEW t,
           BeginReplay(c, r, f, t)
    PROVE  Inv'
<1> DEFINE cache == Expire(inner, t)
           k == LatestKey(cache, r)
           rep == cache.entries[k].encoded_reply
<1>1. CacheInv(cache, {}) /\ CallInv(cache) /\ Bounded(cache)
  BY ExpireInv, Zenon
<1>t. CacheTyped(cache) /\ CallTyped
  BY <1>1, Zenon DEF CacheInv, Inv
<1>2. /\ phase[c] = "idle"
      /\ Hit(cache, r, f) /\ Completed(cache, k)
      /\ inner' = cache
      /\ phase' = [phase EXCEPT ![c] = "replayed"]
      /\ asked' = [asked EXCEPT ![c] = [request |-> r, fingerprint |-> f]]
      /\ key' = [key EXCEPT ![c] = k]
      /\ reply' = [reply EXCEPT ![c] = rep]
      /\ UNCHANGED <<eligible, now>>
  BY Zenon DEF BeginReplay, Asks
<1> HIDE DEF cache
<1>3. /\ k \in EntryKey /\ k \in CompletedKeys(cache)
      /\ k.request = r /\ k.fingerprint = f /\ k.generation < cache.next_generation
  BY <1>1, <1>2, <1>t, Zenon DEF CacheInv, CacheTyped, LatestKey, Hit, Completed, CompletedKeys
<1> HIDE DEF k
<1>4. rep \in Reply /\ phase[rep.by] = "executed" /\ key[rep.by] = k
  BY <1>1, <1>3, Zenon DEF CallInv, Stored
<1> HIDE DEF rep
<1>5. CallTyped'
  BY <1>t, <1>2, <1>3, <1>4, Zenon DEF CallTyped, Phases
<1>6. /\ \A d \in Calls \ {c} : key'[d] = key[d] /\ asked'[d] = asked[d] /\ reply'[d] = reply[d]
      /\ key'[c] = k /\ reply'[c] = rep
      /\ asked'[c] = [request |-> r, fingerprint |-> f]
  BY <1>t, <1>2, Zenon DEF CallTyped
<1>7. CallInv(inner)'
  <2>1. /\ key'[c] \in EntryKey /\ key'[c].generation < cache.next_generation
        /\ asked'[c] = [request |-> key'[c].request, fingerprint |-> key'[c].fingerprint]
        /\ reply'[c] \in Reply /\ phase[reply'[c].by] = "executed"
        /\ key[reply'[c].by] = key'[c]
    BY <1>3, <1>4, <1>6, Zenon
  <2> QED BY <1>1, <1>t, <1>2, <1>6, <2>1, SideStep, Zenon
<1> QED BY <1>1, <1>2, <1>5, <1>7, Zenon DEF Inv

\* begin that finds no room refuses and keeps the invariant.
LEMMA BeginRefusedInv ==
    ASSUME Inv, NEW c \in Calls, NEW r \in Requests, NEW f \in Fingerprints, NEW t,
           BeginRefused(c, r, f, t)
    PROVE  Inv'
<1> DEFINE cache == Expire(inner, t)
           reused == RemoveCompletedForRequest(cache, r)
           b == EvictOldestCompleted(reused)
<1>1. CacheInv(cache, {}) /\ CallInv(cache) /\ Bounded(cache)
  BY ExpireInv, Zenon
<1>2. /\ phase[c] = "idle"
      /\ inner' = b
      /\ phase' = [phase EXCEPT ![c] = "refused"]
      /\ asked' = [asked EXCEPT ![c] = [request |-> r, fingerprint |-> f]]
      /\ UNCHANGED <<key, reply, eligible, now>>
  BY Zenon DEF BeginRefused, Asks
<1>t. CallTyped
  BY Zenon DEF Inv
<1> HIDE DEF cache
<1>3. CacheInv(reused, {}) /\ CallInv(reused) /\ Bounded(reused)
  BY <1>1, <1>t, RemoveForRequestOK, ShrinkCalls, ShrinkBounded, Zenon
<1> HIDE DEF reused
<1>4. CacheInv(b, {}) /\ CallInv(b) /\ Bounded(b)
  BY <1>3, <1>t, EvictOldestOK, ShrinkCalls, ShrinkBounded, Zenon
<1> HIDE DEF b
<1>5. CallTyped'
  BY <1>t, <1>2, Zenon DEF CallTyped, Phases
<1>6. \A d \in Calls \ {c} : key'[d] = key[d] /\ asked'[d] = asked[d] /\ reply'[d] = reply[d]
  BY <1>t, <1>2, Zenon DEF CallTyped
<1>7. CallInv(inner)'
  BY <1>2, <1>4, <1>t, <1>6, SideStep, Zenon
<1> QED BY <1>2, <1>4, <1>5, <1>7, Zenon DEF Inv

\* A duplicate whose receiver is dropped leaves the waiter list, and the
\* invariant stands.
LEMMA WaiterGoneInv ==
    ASSUME Inv, NEW c \in Calls, WaiterGone(c)
    PROVE  Inv'
<1>1. /\ phase[c] = "waiting"
      /\ phase' = [phase EXCEPT ![c] = "gone"]
      /\ UNCHANGED <<inner, asked, key, reply, eligible, now>>
  BY Zenon DEF WaiterGone
<1>2. CallTyped /\ CacheInv(inner, {}) /\ CallInv(inner) /\ Bounded(inner)
  BY Zenon DEF Inv
<1>3. /\ key[c] \in EntryKey /\ key[c].generation < inner.next_generation
      /\ asked[c] = [request |-> key[c].request, fingerprint |-> key[c].fingerprint]
  BY <1>1, <1>2, Zenon DEF CallInv, Keys, Begun
<1>4. CallInv(inner)'
  BY <1>1, <1>2, <1>3, SideStep, Zenon
<1>5. CallTyped'
  BY <1>1, <1>2, Zenon DEF CallTyped, Phases
<1> QED BY <1>1, <1>2, <1>4, <1>5, Zenon DEF Inv

-----------------------------------------------------------------------------
(* A new execution.                                                         *)

\* No entry of the cache answers for k or runs under its name.
Unclaimed(cache, k) ==
    /\ ~(k.request \in DOMAIN cache.latest /\ Completed(cache, LatestKey(cache, k.request)))
    /\ ~(/\ k.request \in DOMAIN cache.latest
         /\ cache.latest[k.request].fingerprint = k.fingerprint)

\* Call c starts the execution k.
Leads(cache, c, k) ==
    /\ inner' = StartGeneration(cache, k)
    /\ phase' = [phase EXCEPT ![c] = "leading"]
    /\ asked' = [asked EXCEPT ![c] = [request |-> k.request, fingerprint |-> k.fingerprint]]
    /\ key' = [key EXCEPT ![c] = k]

\* A call that becomes the leader of a fresh generation fits in with all the
\* other calls.
LEMMA LeadStep ==
    ASSUME NEW cache, CallTyped, CacheInv(cache, {}), CallInv(cache), NEW c \in Calls,
           phase[c] = "idle",
           NEW k \in EntryKey, k.generation = cache.next_generation,
           Unclaimed(cache, k), Leads(cache, c, k), reply' = reply
    PROVE  CallInv(inner)'
<1>1. /\ phase'[c] = "leading" /\ key'[c] = k
      /\ asked'[c] = [request |-> k.request, fingerprint |-> k.fingerprint]
      /\ \A d \in Calls \ {c} : phase'[d] = phase[d] /\ key'[d] = key[d] /\ asked'[d] = asked[d]
  BY Zenon DEF CallTyped, Leads
<1>2. /\ k \notin DOMAIN cache.entries
      /\ inner'.entries = Put(cache.entries, k, [state |-> "InFlight", waiters |-> {}])
      /\ inner'.latest = Put(cache.latest, k.request,
                             [fingerprint |-> k.fingerprint, generation |-> k.generation])
      /\ inner'.next_generation = cache.next_generation + 1
  BY StartGenerationOK, Zenon DEF Leads, Unclaimed
<1>3. /\ DOMAIN inner'.entries = DOMAIN cache.entries \cup {k}
      /\ inner'.entries[k] = [state |-> "InFlight", waiters |-> {}]
      /\ \A j \in DOMAIN cache.entries : j # k /\ inner'.entries[j] = cache.entries[j]
      /\ DOMAIN inner'.latest = DOMAIN cache.latest \cup {k.request}
      /\ inner'.latest[k.request] = [fingerprint |-> k.fingerprint, generation |-> k.generation]
      /\ \A r \in DOMAIN cache.latest \ {k.request} : inner'.latest[r] = cache.latest[r]
  <2>1. /\ DOMAIN inner'.entries = DOMAIN cache.entries \cup {k}
        /\ inner'.entries[k] = [state |-> "InFlight", waiters |-> {}]
        /\ \A j \in DOMAIN cache.entries : j # k /\ inner'.entries[j] = cache.entries[j]
    BY <1>2, Zenon DEF Put
  <2>2. /\ DOMAIN inner'.latest = DOMAIN cache.latest \cup {k.request}
        /\ inner'.latest[k.request] = [fingerprint |-> k.fingerprint, generation |-> k.generation]
        /\ \A r \in DOMAIN cache.latest \ {k.request} : inner'.latest[r] = cache.latest[r]
    BY <1>2, Zenon DEF Put
  <2> QED BY <2>1, <2>2, Zenon
<1>g. cache.next_generation \in Nat
  BY Zenon DEF CacheInv, CacheTyped
<1>4. \A d \in Calls : Begun(d) =>
         /\ d # c /\ key[d] \in EntryKey /\ key[d].generation < k.generation
         /\ Begun(d)' /\ key'[d] = key[d] /\ key[d] # k
  <2> SUFFICES ASSUME NEW d \in Calls, Begun(d)
               PROVE  /\ d # c /\ key[d] \in EntryKey /\ key[d].generation < k.generation
                      /\ Begun(d)' /\ key'[d] = key[d] /\ key[d] # k
    BY Zenon
  <2>1. d # c
    BY Zenon DEF Begun
  <2>2. key[d] \in EntryKey /\ key[d].generation < k.generation
    BY Zenon DEF CallInv, Keys
  <2>3. Begun(d)' /\ key'[d] = key[d]
    BY <2>1, <1>1, Zenon DEF Begun
  <2>4. key[d] # k
    BY <2>2, <1>g
  <2> QED BY <2>1, <2>2, <2>3, <2>4, Zenon
<1>5. Keys(inner)'
  <2> SUFFICES ASSUME NEW d \in Calls, Begun(d)'
               PROVE  /\ key'[d] \in EntryKey
                      /\ key'[d].generation < inner'.next_generation
                      /\ asked'[d] = [request |-> key'[d].request,
                                      fingerprint |-> key'[d].fingerprint]
    BY Zenon DEF Keys
  <2>1. CASE d = c
    BY <2>1, <1>1, <1>2, <1>g
  <2>2. CASE d # c
    <3>1. Begun(d) /\ key'[d] = key[d] /\ asked'[d] = asked[d]
      BY <2>2, <1>1, Zenon DEF Begun
    <3>2. key[d] \in EntryKey /\ key[d].generation \in Nat /\ key[d].generation < cache.next_generation
      BY <3>1, Zenon DEF CallInv, Keys, EntryKey
    <3>3. asked[d] = [request |-> key[d].request, fingerprint |-> key[d].fingerprint]
      BY <3>1, Zenon DEF CallInv, Keys
    <3> QED BY <3>1, <3>2, <3>3, <1>2, <1>g, SMTT(20)
  <2> QED BY <2>1, <2>2, Zenon
<1>6. Leases(inner)'
  <2>1. ASSUME NEW d \in Calls, phase'[d] \in Leading
        PROVE  InFlight(inner', key'[d])
    <3>1. CASE d = c
      <4>1. key'[d] = k
        BY <3>1, <1>1, Zenon
      <4>2. k \in DOMAIN inner'.entries /\ inner'.entries[k].state = "InFlight"
        BY <1>3, SMTT(20)
      <4> QED BY <4>1, <4>2, Zenon DEF InFlight
    <3>2. CASE d # c
      <4>1. phase[d] \in Leading /\ key'[d] = key[d]
        BY <2>1, <3>2, <1>1, Zenon
      <4>2. InFlight(cache, key[d])
        BY <4>1, Zenon DEF CallInv, Leases
      <4> QED BY <4>1, <4>2, <1>3, Zenon DEF InFlight
    <3> QED BY <3>1, <3>2, Zenon
  <2>2. ASSUME NEW j \in DOMAIN inner'.entries, InFlight(inner', j)
        PROVE  \E d \in Calls : phase'[d] \in Leading /\ key'[d] = j
    <3>1. CASE j = k
      BY <3>1, <1>1, Zenon DEF Leading
    <3>2. CASE j # k
      <4>1. InFlight(cache, j)
        BY <2>2, <3>2, <1>3, Zenon DEF InFlight
      <4>2. PICK d \in Calls : phase[d] \in Leading /\ key[d] = j
        BY <4>1, Zenon DEF CallInv, Leases, InFlight
      <4>3. d # c
        BY <4>2, Zenon DEF Leading
      <4> QED BY <4>2, <4>3, <1>1, ZenonT(30)
    <3> QED BY <3>1, <3>2, Zenon
  <2> QED BY <2>1, <2>2, Zenon DEF Leases
<1>7. OneLeader'
  <2> SUFFICES ASSUME NEW d \in Calls, NEW e \in Calls, IsLeader(d)', IsLeader(e)',
                      key'[d] = key'[e], d # e
               PROVE  FALSE
    BY Zenon DEF OneLeader
  <2>1. \A x \in Calls : x # c /\ IsLeader(x)' => IsLeader(x) /\ Begun(x)
    BY <1>1, Zenon DEF IsLeader, Begun, Leading
  <2>2. d # c /\ e # c
    BY <2>1, <1>1, <1>4, Zenon
  <2>3. IsLeader(d) /\ IsLeader(e) /\ key[d] = key[e]
    BY <2>1, <2>2, <1>1, Zenon
  <2> QED BY <2>3, Zenon DEF CallInv, OneLeader
<1>8. Waiters(inner)'
  <2>1. ASSUME NEW d \in Calls, phase'[d] = "waiting"
        PROVE  InFlight(inner', key'[d]) /\ d \in inner'.entries[key'[d]].waiters
    <3>1. phase[d] = "waiting" /\ key'[d] = key[d]
      BY <2>1, <1>1, Zenon
    <3>2. InFlight(cache, key[d]) /\ d \in cache.entries[key[d]].waiters
      BY <3>1, Zenon DEF CallInv, Waiters
    <3> QED BY <3>1, <3>2, <1>3, Zenon DEF InFlight
  <2>2. ASSUME NEW j \in DOMAIN inner'.entries, InFlight(inner', j),
               NEW w \in inner'.entries[j].waiters
        PROVE  phase'[w] \in {"waiting", "gone"} /\ key'[w] = j
    <3>0. j # k
      BY <2>2, <1>3, SMTT(20)
    <3>1. j \in DOMAIN cache.entries /\ InFlight(cache, j) /\ w \in cache.entries[j].waiters
      BY <2>2, <3>0, <1>3, Zenon DEF InFlight
    <3>2. phase[w] \in {"waiting", "gone"} /\ key[w] = j
      BY <3>1, Zenon DEF CallInv, Waiters
    <3>3. w \in Calls
      BY <3>1, Zenon DEF CacheInv, CacheTyped, InFlight, InFlightState, CompletedState
    <3> QED BY <1>1, <3>2, <3>3, Zenon
  <2> QED BY <2>1, <2>2, Zenon DEF Waiters
<1>9. Stored(inner)'
  <2> SUFFICES ASSUME NEW j \in CompletedKeys(inner')
               PROVE  LET rep == inner'.entries[j].encoded_reply
                      IN rep \in Reply /\ phase'[rep.by] = "executed" /\ key'[rep.by] = j
    BY Zenon DEF Stored
  <2> DEFINE rep == inner'.entries[j].encoded_reply
  <2>1. j \in CompletedKeys(cache) /\ rep = cache.entries[j].encoded_reply
    BY <1>3, SMTT(20) DEF CompletedKeys
  <2>2. rep \in Reply /\ phase[rep.by] = "executed" /\ key[rep.by] = j
    BY <2>1, Zenon DEF CallInv, Stored
  <2>3. rep.by \in Calls /\ rep.by # c
    BY <2>2, Zenon DEF Reply
  <2> QED BY <1>1, <2>2, <2>3, ZenonT(30)
<1>10. Own'
  BY <1>1, ZenonT(30) DEF CallInv, Own
<1>11. Given'
  <2> SUFFICES ASSUME NEW d \in Calls, phase'[d] \in {"answered", "replayed", "executed"}
               PROVE  /\ reply'[d] \in Reply
                      /\ phase'[reply'[d].by] = "executed"
                      /\ key'[reply'[d].by] = key'[d]
    BY Zenon DEF Given
  <2>1. d # c
    BY <1>1, Zenon
  <2>2. reply[d] \in Reply /\ phase[reply[d].by] = "executed" /\ key[reply[d].by] = key[d]
    BY <2>1, <1>1, Zenon DEF CallInv, Given
  <2>3. reply[d].by \in Calls /\ reply[d].by # c
    BY <2>2, Zenon DEF Reply
  <2> QED BY <1>1, <2>1, <2>2, <2>3, Zenon
<1>12. ASSUME NEW d \in Calls, phase[d] \in Leading, key[d].request = k.request,
              key[d].fingerprint = k.fingerprint
       PROVE  ~IsLatest(cache, key[d])
  <2>1. k.request \in DOMAIN cache.latest => cache.latest[k.request].fingerprint # k.fingerprint
    BY Zenon DEF Unclaimed
  <2> QED BY <1>12, <2>1 DEF IsLatest
<1>13. Superseded(inner)'
  <2> SUFFICES ASSUME NEW d \in Calls, phase'[d] \in Leading, ~IsLatest(inner', key'[d])
               PROVE  \E e \in Calls :
                         /\ Begun(e)'
                         /\ key'[e].request = key'[d].request
                         /\ key'[e].fingerprint # key'[d].fingerprint
                         /\ key'[d].generation < key'[e].generation
    BY Zenon DEF Superseded
  <2>1. d # c
    BY <1>1, <1>3, Zenon DEF IsLatest
  <2>2. phase[d] \in Leading /\ key'[d] = key[d] /\ Begun(d)
    BY <2>1, <1>1, Zenon DEF Leading, Begun
  <2>3. CASE ~IsLatest(cache, key[d])
    BY <2>2, <2>3, <1>4, Zenon DEF CallInv, Superseded
  <2>4. CASE IsLatest(cache, key[d])
    <3>1. key[d].request = k.request
      BY <2>2, <2>4, <1>3, ZenonT(30) DEF IsLatest
    <3>2. key[d].fingerprint # k.fingerprint
      BY <2>2, <2>4, <3>1, <1>12, Zenon
    <3>3. Begun(c)'
      BY <1>1, Zenon DEF Begun
    <3> QED BY <2>2, <3>1, <3>2, <3>3, <1>1, <1>4, Zenon
  <2> QED BY <2>3, <2>4, Zenon
<1>14. OverlapNeedsReuse'
  <2> SUFFICES ASSUME NEW d \in Calls, NEW g \in Calls,
                      phase'[d] \in Leading, phase'[g] \in Leading,
                      asked'[d] = asked'[g], key'[d].generation < key'[g].generation
               PROVE  \E e \in Calls :
                         /\ Begun(e)'
                         /\ key'[e].request = key'[d].request
                         /\ key'[e].fingerprint # key'[d].fingerprint
                         /\ key'[d].generation < key'[e].generation
                         /\ key'[e].generation < key'[g].generation
    BY Zenon DEF OverlapNeedsReuse
  <2>1. d # c
    <3> SUFFICES ASSUME d = c PROVE FALSE
      BY Zenon
    <3>1. g # c
      <4>1. key'[c].generation \in Nat
        BY <1>1, <1>g, Zenon
      <4> QED BY <4>1, SMTT(20)
    <3>2. Begun(g)
      BY <3>1, <1>1, Zenon DEF Begun, Leading
    <3>3. key[g].generation < k.generation /\ key'[g] = key[g] /\ key[g].generation \in Nat
      BY <3>2, <1>4, Zenon DEF EntryKey
    <3> QED BY <3>3, <1>1, <1>g
  <2>2. phase[d] \in Leading /\ key'[d] = key[d] /\ asked'[d] = asked[d] /\ Begun(d)
    BY <2>1, <1>1, Zenon DEF Leading, Begun
  <2>3. CASE g = c
    <3>1. key[d].request = k.request /\ key[d].fingerprint = k.fingerprint
      <4>1. asked[d] = [request |-> key[d].request, fingerprint |-> key[d].fingerprint]
        BY <2>2, Zenon DEF CallInv, Keys
      <4>2. asked[d] = [request |-> k.request, fingerprint |-> k.fingerprint]
        BY <2>2, <2>3, <1>1, ZenonT(30)
      <4> QED BY <4>1, <4>2, SMTT(20)
    <3>2. ~IsLatest(cache, key[d])
      BY <2>2, <3>1, <1>12, Zenon
    <3>3. PICK e \in Calls : /\ Begun(e)
                             /\ key[e].request = key[d].request
                             /\ key[e].fingerprint # key[d].fingerprint
                             /\ key[d].generation < key[e].generation
      BY <2>2, <3>2, Zenon DEF CallInv, Superseded
    <3>4. Begun(e)' /\ key'[e] = key[e] /\ key[e].generation < k.generation
      BY <3>3, <1>4, Zenon
    <3>5. key'[g] = k
      BY <2>3, <1>1, Zenon
    <3>6. /\ Begun(e)' /\ key'[e].request = key'[d].request
          /\ key'[e].fingerprint # key'[d].fingerprint
          /\ key'[d].generation < key'[e].generation
          /\ key'[e].generation < key'[g].generation
      BY <2>2, <3>3, <3>4, <3>5, SMTT(20)
    <3> QED BY <3>6, Zenon
  <2>4. CASE g # c
    <3>1. phase[g] \in Leading /\ key'[g] = key[g] /\ asked'[g] = asked[g]
      BY <2>4, <1>1, Zenon
    <3>2. asked[d] = asked[g] /\ key[d].generation < key[g].generation
      BY <2>2, <3>1, Zenon
    <3>3. PICK e \in Calls : /\ Begun(e)
                             /\ key[e].request = key[d].request
                             /\ key[e].fingerprint # key[d].fingerprint
                             /\ key[d].generation < key[e].generation
                             /\ key[e].generation < key[g].generation
      BY <2>2, <3>1, <3>2, ZenonT(30) DEF CallInv, OverlapNeedsReuse
    <3>4. Begun(e)' /\ key'[e] = key[e]
      BY <3>3, <1>4, Zenon
    <3>5. /\ Begun(e)' /\ key'[e].request = key'[d].request
          /\ key'[e].fingerprint # key'[d].fingerprint
          /\ key'[d].generation < key'[e].generation
          /\ key'[e].generation < key'[g].generation
      BY <2>2, <3>1, <3>3, <3>4, SMTT(20)
    <3> QED BY <3>5, Zenon
  <2> QED BY <2>3, <2>4, Zenon
<1> QED BY <1>5, <1>6, <1>7, <1>8, <1>9, <1>10, <1>11, <1>13, <1>14, Zenon DEF CallInv

\* begin that starts a new generation (reuse of an XID and eviction included)
\* keeps the invariant.
LEMMA BeginExecuteInv ==
    ASSUME Inv, NEW c \in Calls, NEW r \in Requests, NEW f \in Fingerprints, NEW t,
           BeginExecute(c, r, f, t)
    PROVE  Inv'
<1> DEFINE cache == Expire(inner, t)
           reused == RemoveCompletedForRequest(cache, r)
           room == IF Full(reused) THEN EvictOldestCompleted(reused) ELSE reused
           k == [request |-> r, fingerprint |-> f, generation |-> inner.next_generation]
<1>1. CacheInv(cache, {}) /\ CallInv(cache) /\ Bounded(cache)
  BY ExpireInv, Zenon
<1>t. CallTyped
  BY Zenon DEF Inv
<1>2. /\ phase[c] = "idle"
      /\ ~Hit(cache, r, f)
      /\ Full(reused) => Evictable(reused) # {}
      /\ inner' = StartGeneration(room, k)
      /\ phase' = [phase EXCEPT ![c] = "leading"]
      /\ asked' = [asked EXCEPT ![c] = [request |-> r, fingerprint |-> f]]
      /\ key' = [key EXCEPT ![c] = k]
      /\ UNCHANGED <<reply, eligible, now>>
  BY Zenon DEF BeginExecute, Asks
<1>3. cache.next_generation = inner.next_generation
  BY ExpireOK, Zenon DEF Inv, Shrinks
<1>k. k \in EntryKey
  BY Zenon DEF Inv, CacheInv, CacheTyped, EntryKey
<1> HIDE DEF cache
<1>4. CacheInv(reused, {}) /\ Shrinks(cache, reused) /\ CallInv(reused) /\ Bounded(reused)
  BY <1>1, <1>t, RemoveForRequestOK, ShrinkCalls, ShrinkBounded, Zenon
<1>5. ~(r \in DOMAIN reused.latest /\ Completed(reused, LatestKey(reused, r)))
  <2>1. CASE r \in DOMAIN cache.latest /\ Completed(cache, LatestKey(cache, r))
    <3> DEFINE l == LatestKey(cache, r)
    <3>1. l \in CompletedKeys(cache) /\ reused = RemoveCompleted(cache, {l})
      BY <2>1, Zenon DEF Completed, CompletedKeys, RemoveCompletedForRequest
    <3>2. DOMAIN reused.entries = DOMAIN cache.entries \ {l}
      BY <3>1, <1>1, RemoveCompletedOK, Zenon
    <3>3. r \in DOMAIN reused.latest => LatestKey(reused, r) = l
      BY <1>4, Zenon DEF Shrinks, LatestKey
    <3> QED BY <3>2, <3>3, Zenon DEF Completed
  <2>2. CASE ~(r \in DOMAIN cache.latest /\ Completed(cache, LatestKey(cache, r)))
    BY <2>2, Zenon DEF RemoveCompletedForRequest
  <2> QED BY <2>1, <2>2, Zenon
<1>6. ~(r \in DOMAIN cache.latest /\ cache.latest[r].fingerprint = f)
  BY <1>1, <1>2, Zenon DEF Hit, CacheInv
<1> HIDE DEF reused
<1>c. IsFiniteSet(DOMAIN reused.entries) /\ Cardinality(DOMAIN reused.entries) \in Nat
  BY <1>4, FS_CardinalityType, Zenon DEF CacheInv
<1>7. /\ CacheInv(room, {}) /\ Shrinks(reused, room) /\ CallInv(room) /\ Bounded(room)
      /\ Cardinality(DOMAIN room.entries) < Capacity
  <2>1. CASE Full(reused)
    <3> DEFINE b == EvictOldestCompleted(reused)
    <3>1. CacheInv(b, {}) /\ Shrinks(reused, b) /\ DOMAIN b.entries # DOMAIN reused.entries
      BY <2>1, <1>2, <1>4, EvictOldestOK, Zenon
    <3>2. CallInv(b) /\ Bounded(b)
      BY <3>1, <1>4, <1>t, ShrinkCalls, ShrinkBounded, Zenon
    <3> HIDE DEF b
    <3>3. DOMAIN b.entries \subseteq DOMAIN reused.entries
      BY <3>1, Zenon DEF Shrinks
    <3>4. Cardinality(DOMAIN b.entries) \in Nat
      BY <3>1, FS_CardinalityType, Zenon DEF CacheInv
    <3>5. Cardinality(DOMAIN b.entries) < Cardinality(DOMAIN reused.entries)
      <4>1. /\ Cardinality(DOMAIN b.entries) <= Cardinality(DOMAIN reused.entries)
            /\ Cardinality(DOMAIN b.entries) # Cardinality(DOMAIN reused.entries)
        BY <3>1, <3>3, <1>c, FS_Subset, Zenon
      <4> QED BY <4>1, <3>4, <1>c
    <3>6. Cardinality(DOMAIN b.entries) < Capacity
      BY <3>4, <3>5, <1>c, <1>4, ReplayConstants DEF Bounded
    <3>7. room = b
      BY <2>1, Zenon DEF b
    <3> QED BY <3>1, <3>2, <3>6, <3>7, Zenon
  <2>2. CASE ~Full(reused)
    <3>1. room = reused
      BY <2>2, Zenon
    <3>2. Cardinality(DOMAIN reused.entries) < Capacity
      BY <2>2, <1>c, ReplayConstants, SMTT(20) DEF Full
    <3>3. Shrinks(reused, reused)
      BY <1>4, ShrinksReflexive, Zenon DEF CacheInv, CacheTyped
    <3> QED BY <3>1, <3>2, <3>3, <1>4, Zenon
  <2> QED BY <2>1, <2>2, Zenon
<1> HIDE DEF room
<1>8. room.next_generation = inner.next_generation
  BY <1>3, <1>4, <1>7, Zenon DEF Shrinks
<1>9. ~(r \in DOMAIN room.latest /\ Completed(room, LatestKey(room, r)))
  <2> SUFFICES ASSUME r \in DOMAIN room.latest, Completed(room, LatestKey(room, r))
               PROVE  FALSE
    BY Zenon
  <2>1. r \in DOMAIN reused.latest /\ LatestKey(room, r) = LatestKey(reused, r)
    BY <1>7, ZenonT(30) DEF Shrinks, LatestKey
  <2>2. Completed(reused, LatestKey(room, r))
    BY <1>7, Zenon DEF Shrinks, Completed
  <2> QED BY <2>1, <2>2, <1>5, Zenon
<1>10. ~(r \in DOMAIN room.latest /\ room.latest[r].fingerprint = f)
  BY <1>4, <1>6, <1>7, Zenon DEF Shrinks
<1>11. /\ k.request = r /\ k.fingerprint = f /\ k.generation = room.next_generation
       /\ asked' = [asked EXCEPT ![c] = [request |-> k.request, fingerprint |-> k.fingerprint]]
  BY <1>2, <1>8, Zenon
<1> HIDE DEF k
<1>12. CallInv(inner)'
  <2>1. Unclaimed(room, k)
    BY <1>9, <1>10, <1>11, Zenon DEF Unclaimed
  <2>2. Leads(room, c, k)
    BY <1>2, <1>11, Zenon DEF Leads
  <2> QED BY <1>2, <1>7, <1>11, <1>k, <1>t, <2>1, <2>2, LeadStep, Zenon
<1>13. CallTyped'
  BY <1>t, <1>2, <1>k, Zenon DEF CallTyped, Phases, Leading
<1>14. /\ CacheInv(inner', {})
       /\ k \notin DOMAIN room.entries
       /\ inner'.entries = Put(room.entries, k, [state |-> "InFlight", waiters |-> {}])
       /\ inner'.completed_bytes = room.completed_bytes
  BY <1>2, <1>7, <1>9, <1>11, <1>k, StartGenerationOK, ZenonT(30)
<1>15. Bounded(inner')
  <2>1. DOMAIN inner'.entries = DOMAIN room.entries \cup {k}
    BY <1>14, ZenonT(30) DEF Put
  <2>2. IsFiniteSet(DOMAIN room.entries) /\ Cardinality(DOMAIN room.entries) \in Nat
    BY <1>7, FS_CardinalityType, Zenon DEF CacheInv
  <2>3. Cardinality(DOMAIN inner'.entries) = Cardinality(DOMAIN room.entries) + 1
    BY <2>1, <2>2, <1>14, FS_AddElement, Zenon
  <2> QED BY <2>2, <2>3, <1>7, <1>14, ReplayConstants, SMTT(20) DEF Bounded
<1> QED BY <1>12, <1>13, <1>14, <1>15, Zenon DEF Inv

-----------------------------------------------------------------------------
(* The end of an execution.                                                 *)

\* The first locked section of complete, which only asks whether the reply is
\* wanted, keeps the invariant.
LEMMA CompleteProbeInv ==
    ASSUME Inv, NEW c \in Calls, NEW s \in ReplyShapes, CompleteProbe(c, s)
    PROVE  Inv'
<1>1. /\ phase[c] = "leading"
      /\ phase' = [phase EXCEPT ![c] = "storing"]
      /\ reply' = [reply EXCEPT ![c] = [by |-> c, shape |-> s]]
      /\ UNCHANGED <<inner, asked, key, now>>
  BY Zenon DEF CompleteProbe
<1>2. CallTyped /\ CacheInv(inner, {}) /\ CallInv(inner) /\ Bounded(inner)
  BY Zenon DEF Inv
<1>3. eligible' \in [Calls -> BOOLEAN]
  BY <1>2, Zenon DEF CompleteProbe, CallTyped
<1>4. CallTyped'
  BY <1>1, <1>2, <1>3, Zenon DEF CallTyped, Phases, Leading, Reply
<1>5. /\ phase'[c] = "storing" /\ reply'[c] = [by |-> c, shape |-> s]
      /\ \A d \in Calls \ {c} : phase'[d] = phase[d] /\ reply'[d] = reply[d]
  BY <1>1, <1>2, Zenon DEF CallTyped
<1>c. /\ inner' = inner /\ key' = key /\ asked' = asked
      /\ \A d \in Calls : phase'[d] \in Leading <=> phase[d] \in Leading
      /\ \A d \in Calls : phase'[d] \in {"waiting", "gone"} <=> phase[d] \in {"waiting", "gone"}
      /\ \A d \in Calls : Begun(d)' <=> Begun(d)
      /\ \A d \in Calls : IsLeader(d)' <=> IsLeader(d)
  BY <1>1, <1>5, Zenon DEF Leading, Begun, IsLeader
<1>6. Keys(inner)' /\ Leases(inner)' /\ OneLeader'
  <2>1. Keys(inner)'
    BY <1>2, <1>c, Zenon DEF CallInv, Keys
  <2>2. Leases(inner)'
    BY <1>2, <1>c, ZenonT(30) DEF CallInv, Leases
  <2>3. OneLeader'
    BY <1>2, <1>c, Zenon DEF CallInv, OneLeader
  <2> QED BY <2>1, <2>2, <2>3, Zenon
<1>7. Waiters(inner)'
  <2>1. \A j \in DOMAIN inner.entries : InFlight(inner, j) =>
            inner.entries[j].waiters \subseteq Calls
    BY <1>2, Zenon DEF CacheInv, CacheTyped, InFlight, InFlightState, CompletedState
  <2>2. \A d \in Calls : /\ phase'[d] = "waiting" <=> phase[d] = "waiting"
                         /\ phase[d] \in {"waiting", "gone"} => phase'[d] = phase[d]
    BY <1>1, <1>5, Zenon
  <2> QED BY <1>2, <1>c, <2>1, <2>2, ZenonT(30) DEF CallInv, Waiters
<1>8. Stored(inner)'
  <2> SUFFICES ASSUME NEW j \in CompletedKeys(inner)
               PROVE  LET rep == inner.entries[j].encoded_reply
                      IN rep \in Reply /\ phase'[rep.by] = "executed" /\ key[rep.by] = j
    BY <1>c, Zenon DEF Stored
  <2> DEFINE rep == inner.entries[j].encoded_reply
  <2>1. rep \in Reply /\ phase[rep.by] = "executed" /\ key[rep.by] = j
    BY <1>2, Zenon DEF CallInv, Stored
  <2>2. rep.by \in Calls /\ rep.by # c
    BY <2>1, <1>1, Zenon DEF Reply
  <2> QED BY <2>1, <2>2, <1>5, Zenon
<1>9. Own'
  BY <1>1, <1>2, <1>5 DEF CallInv, Own, Reply
<1>10. Given'
  BY <1>1, <1>2, <1>5 DEF CallInv, Given, Reply
<1>11. Superseded(inner)' /\ OverlapNeedsReuse'
  <2>1. \A d \in Calls : /\ phase'[d] \in Leading <=> phase[d] \in Leading
                         /\ Begun(d)' <=> Begun(d)
    BY <1>1, <1>5, Zenon DEF Begun, Leading
  <2> QED BY <1>1, <1>2, <2>1, Zenon DEF CallInv, Superseded, OverlapNeedsReuse
<1>12. CallInv(inner)'
  BY <1>6, <1>7, <1>8, <1>9, <1>10, <1>11, Zenon DEF CallInv
<1> QED BY <1>1, <1>2, <1>4, <1>12, Zenon DEF Inv

\* The lease of c ends: its entry is replaced by b's view of it, its waiters
\* move to p with reply rep, and it moves to q.
LEMMA FinishStep ==
    ASSUME CallTyped, CacheInv(inner, {}), CallInv(inner), NEW c \in Calls,
           phase[c] \in Leading, InFlight(inner, key[c]),
           NEW p, NEW q, NEW rep,
           Release(key[c], c, p, q, rep), UNCHANGED <<asked, key>>,
           Stores(Departed(inner, key[c]), inner', key[c], rep),
           \/ p = "answered" /\ q = "executed" /\ rep = reply[c] /\ rep \in Reply /\ rep.by = c
           \/ p = "released" /\ q = "dropped" /\ key[c] \notin DOMAIN inner'.entries
    PROVE  CallInv(inner)'
<1> DEFINE k == key[c]
           dep == Departed(inner, k)
           served == Open(inner.entries[k].waiters)
<1>1. /\ served \subseteq Calls
      /\ \A d \in served : phase[d] = "waiting" /\ key[d] = k
  <2>1. inner.entries[k].waiters \subseteq Calls
    BY ZenonT(30) DEF CacheInv, CacheTyped, InFlight, InFlightState, CompletedState
  <2>2. \A d \in inner.entries[k].waiters : key[d] = k
    BY Zenon DEF CallInv, Waiters, InFlight
  <2> QED BY <2>1, <2>2, Zenon DEF Open
<1>2. /\ phase'[c] = q /\ reply'[c] = reply[c]
      /\ \A d \in served : phase'[d] = p /\ reply'[d] = rep /\ d # c
      /\ \A d \in Calls : d # c /\ d \notin served => phase'[d] = phase[d] /\ reply'[d] = reply[d]
      /\ \A d \in Calls : key'[d] = key[d] /\ asked'[d] = asked[d]
  <2>1. c \notin served
    BY <1>1, Zenon DEF Leading
  <2> HIDE DEF served
  <2>2. /\ phase' = [d \in Calls |-> IF d = c THEN q ELSE IF d \in served THEN p ELSE phase[d]]
        /\ reply' = [d \in Calls |-> IF d \in served THEN rep ELSE reply[d]]
    BY Zenon DEF Release, served
  <2> QED BY <1>1, <2>1, <2>2, Zenon
<1>3. /\ DOMAIN dep.entries = DOMAIN inner.entries \ {k}
      /\ \A j \in DOMAIN dep.entries : dep.entries[j] = inner.entries[j]
      /\ dep.latest = inner.latest
      /\ dep.next_generation = inner.next_generation
      /\ CompletedKeys(dep) = CompletedKeys(inner)
  BY DepartedOK, ZenonT(30)
<1>4. Stores(dep, inner', k, rep)
  BY Zenon
<1>o. q \in {"executed", "dropped"} /\ p \in {"answered", "released"}
  BY Zenon
<1>k. k \in EntryKey
  BY Zenon DEF CallInv, Keys, Begun, Leading
<1>w. ASSUME NEW d \in inner.entries[k].waiters, phase[d] = "waiting"
      PROVE  d \in served
  BY <1>w, Zenon DEF Open
<1> HIDE DEF dep, served
<1>5. \A j : InFlight(inner, j) /\ j # k => InFlight(inner', j) /\ inner'.entries[j] = inner.entries[j]
  BY <1>3, <1>4, Zenon DEF Stores, SameFlights, InFlight
<1>6. \A j : InFlight(inner', j) => InFlight(inner, j) /\ j # k
  <2>1. \A j : InFlight(inner', j) => InFlight(dep, j)
    BY <1>4, Zenon DEF Stores, SameFlights
  <2> QED BY <2>1, <1>3, ZenonT(30) DEF InFlight
<1>7. \A d \in Calls : phase'[d] \in Leading \cup {"waiting", "gone", "storing"} =>
         d # c /\ d \notin served /\ phase[d] = phase'[d] /\ reply'[d] = reply[d]
  BY <1>o, <1>2, Zenon DEF Leading
<1>8. \A d \in Calls : phase[d] \in Leading /\ d # c => key[d] # k /\ d \notin served
  <2>1. \A d \in Calls : phase[d] \in Leading => IsLeader(d)
    BY Zenon DEF IsLeader
  <2>2. \A d \in Calls : phase[d] \in Leading /\ d # c => key[d] # k
    BY <2>1, Zenon DEF CallInv, OneLeader
  <2>3. \A d \in served : phase[d] \notin Leading
    BY <1>1, Zenon DEF Leading
  <2> QED BY <2>2, <2>3, Zenon
<1>9. \A d \in Calls : phase[d] = "executed" => phase'[d] = "executed" /\ d # c
  <2>1. phase[c] # "executed" /\ \A d \in served : phase[d] # "executed"
    BY <1>1, Zenon DEF Leading
  <2> QED BY <2>1, <1>2, Zenon
<1>b. \A d \in Calls : Begun(d)' <=> Begun(d)
  BY <1>o, <1>1, <1>2, Zenon DEF Begun, Leading
<1>10. Keys(inner)'
  BY <1>2, <1>3, <1>4, <1>b, Zenon DEF CallInv, Keys, Stores
<1>11. Leases(inner)'
  <2>1. \A d \in Calls : phase'[d] \in Leading => InFlight(inner', key'[d])
    BY <1>2, <1>5, <1>7, <1>8, Zenon DEF CallInv, Leases
  <2>2. ASSUME NEW j \in DOMAIN inner'.entries, InFlight(inner', j)
        PROVE  \E d \in Calls : phase'[d] \in Leading /\ key'[d] = j
    <3>1. InFlight(inner, j) /\ j # k
      BY <2>2, <1>6, Zenon
    <3>2. PICK d \in Calls : phase[d] \in Leading /\ key[d] = j
      BY <3>1, ZenonT(30) DEF CallInv, Leases, InFlight
    <3>3. d # c /\ d \notin served
      BY <3>1, <3>2, <1>8, Zenon
    <3> QED BY <3>2, <3>3, <1>2, Zenon
  <2> QED BY <2>1, <2>2, Zenon DEF Leases
<1>12. OneLeader'
  <2>1. \A d \in Calls : IsLeader(d)' => IsLeader(d) /\ key'[d] = key[d]
    BY <1>o, <1>2, Zenon DEF IsLeader, Leading
  <2> QED BY <2>1, Zenon DEF CallInv, OneLeader
<1>13. Waiters(inner)'
  <2>1. ASSUME NEW d \in Calls, phase'[d] = "waiting"
        PROVE  InFlight(inner', key'[d]) /\ d \in inner'.entries[key'[d]].waiters
    <3>1. phase[d] = "waiting" /\ d \notin served /\ key'[d] = key[d]
      BY <2>1, <1>2, <1>7, Zenon
    <3>2. InFlight(inner, key[d]) /\ d \in inner.entries[key[d]].waiters
      BY <3>1, Zenon DEF CallInv, Waiters
    <3>3. key[d] # k
      BY <3>1, <3>2, <1>w, Zenon
    <3> QED BY <3>1, <3>2, <3>3, <1>5, Zenon
  <2>2. ASSUME NEW j \in DOMAIN inner'.entries, InFlight(inner', j),
               NEW w \in inner'.entries[j].waiters
        PROVE  phase'[w] \in {"waiting", "gone"} /\ key'[w] = j
    <3>1. InFlight(inner, j) /\ j # k /\ w \in inner.entries[j].waiters
      BY <2>2, <1>5, <1>6, Zenon
    <3>2. phase[w] \in {"waiting", "gone"} /\ key[w] = j
      BY <3>1, Zenon DEF CallInv, Waiters, InFlight
    <3>3. w \in Calls
      BY <3>1, Zenon DEF CacheInv, CacheTyped, InFlight, InFlightState, CompletedState
    <3>4. w # c /\ w \notin served
      BY <3>1, <3>2, <1>1, Zenon DEF Leading
    <3> QED BY <3>2, <3>3, <3>4, <1>2, ZenonT(30)
  <2> QED BY <2>1, <2>2, Zenon DEF Waiters
<1>14. Stored(inner)'
  <2> SUFFICES ASSUME NEW j \in CompletedKeys(inner')
               PROVE  LET got == inner'.entries[j].encoded_reply
                      IN got \in Reply /\ phase'[got.by] = "executed" /\ key'[got.by] = j
    BY Zenon DEF Stored
  <2> DEFINE got == inner'.entries[j].encoded_reply
  <2>1. \/ j = k /\ got = rep
        \/ j \in CompletedKeys(dep) /\ inner'.entries[j] = dep.entries[j]
    BY <1>4, Zenon DEF Stores
  <2>2. CASE j = k /\ got = rep
    BY <2>2, <1>2, Zenon DEF CompletedKeys
  <2>3. CASE j \in CompletedKeys(dep) /\ inner'.entries[j] = dep.entries[j]
    <3>1. j \in CompletedKeys(inner) /\ got = inner.entries[j].encoded_reply
      BY <2>3, <1>3, Zenon DEF CompletedKeys
    <3>2. got \in Reply /\ phase[got.by] = "executed" /\ key[got.by] = j
      BY <3>1, Zenon DEF CallInv, Stored
    <3>3. got.by \in Calls
      BY <3>2, Zenon DEF Reply
    <3> QED BY <3>2, <3>3, <1>2, <1>9, Zenon
  <2> QED BY <2>1, <2>2, <2>3, Zenon
<1>15. Own'
  BY <1>7, Zenon DEF CallInv, Own, Leading
<1>16. Given'
  <2> SUFFICES ASSUME NEW d \in Calls, phase'[d] \in {"answered", "replayed", "executed"}
               PROVE  /\ reply'[d] \in Reply
                      /\ phase'[reply'[d].by] = "executed"
                      /\ key'[reply'[d].by] = key'[d]
    BY Zenon DEF Given
  <2>1. CASE d = c \/ d \in served
    <3>1. /\ q = "executed" /\ rep = reply[c] /\ rep \in Reply /\ rep.by = c
          /\ reply'[d] = rep
      BY <2>1, <1>2, Zenon
    <3>2. key'[d] = k /\ key'[c] = k
      BY <2>1, <1>1, <1>2, Zenon
    <3> QED BY <3>1, <3>2, <1>2, ZenonT(30)
  <2>2. CASE d # c /\ d \notin served
    <3>1. reply[d] \in Reply /\ phase[reply[d].by] = "executed" /\ key[reply[d].by] = key[d]
      BY <2>2, <1>2, Zenon DEF CallInv, Given
    <3>2. reply[d].by \in Calls
      BY <3>1, Zenon DEF Reply
    <3> QED BY <2>2, <3>1, <3>2, <1>2, <1>9, Zenon
  <2> QED BY <2>1, <2>2, ZenonT(30)
<1>17. Superseded(inner)'
  <2> SUFFICES ASSUME NEW d \in Calls, phase'[d] \in Leading, ~IsLatest(inner', key'[d])
               PROVE  \E e \in Calls :
                         /\ Begun(e)'
                         /\ key'[e].request = key'[d].request
                         /\ key'[e].fingerprint # key'[d].fingerprint
                         /\ key'[d].generation < key'[e].generation
    BY Zenon DEF Superseded
  <2>1. phase[d] \in Leading /\ d # c /\ key'[d] = key[d] /\ key[d] # k
    BY <1>2, <1>7, <1>8, Zenon
  <2>2. InFlight(inner, key[d]) /\ key[d] \in EntryKey
    BY <2>1, ZenonT(30) DEF CallInv, Leases, Keys, Begun, Leading
  <2>3. ASSUME IsLatest(inner, key[d])
        PROVE  FALSE
    <3>1. key[d] = LatestKey(inner, key[d].request) /\ key[d].request \in DOMAIN inner.latest
      BY <2>2, <2>3, LatestKeyUnique, Zenon DEF IsLatest
    <3>2. key[d].request \notin DOMAIN inner'.latest
      BY <2>1, <2>3, <1>3, <1>4, Zenon DEF IsLatest, Stores
    <3>3. ~(IsLatest(dep, k) /\ key[d].request = k.request)
      <4> SUFFICES ASSUME IsLatest(dep, k), key[d].request = k.request PROVE FALSE
        BY Zenon
      <4>1. IsLatest(inner, k)
        BY <1>3, Zenon DEF IsLatest
      <4>2. k = LatestKey(inner, k.request)
        BY <4>1, <1>k, LatestKeyUnique, Zenon
      <4> QED BY <4>2, <3>1, <2>1, ZenonT(30)
    <3>4. LatestKey(dep, key[d].request) = key[d]
      BY <3>1, <1>3, Zenon DEF LatestKey
    <3>5. key[d] \in CompletedKeys(inner)
      BY <3>1, <3>2, <3>3, <3>4, <1>3, <1>4, ZenonT(30) DEF Stores
    <3> QED BY <3>5, <2>2, Zenon DEF CompletedKeys, InFlight
  <2>4. PICK e \in Calls : /\ Begun(e)
                           /\ key[e].request = key[d].request
                           /\ key[e].fingerprint # key[d].fingerprint
                           /\ key[d].generation < key[e].generation
    BY <2>1, <2>3, Zenon DEF CallInv, Superseded
  <2> QED BY <2>1, <2>4, <1>2, <1>b, Zenon
<1>18. OverlapNeedsReuse'
  <2>1. \A d \in Calls : phase'[d] \in Leading => phase[d] \in Leading
    BY <1>7, Zenon
  <2> SUFFICES ASSUME NEW d \in Calls, NEW g \in Calls,
                      phase'[d] \in Leading, phase'[g] \in Leading,
                      asked'[d] = asked'[g], key'[d].generation < key'[g].generation
               PROVE  \E e \in Calls :
                         /\ Begun(e)'
                         /\ key'[e].request = key'[d].request
                         /\ key'[e].fingerprint # key'[d].fingerprint
                         /\ key'[d].generation < key'[e].generation
                         /\ key'[e].generation < key'[g].generation
    BY Zenon DEF OverlapNeedsReuse
  <2>2. /\ phase[d] \in Leading /\ phase[g] \in Leading /\ asked[d] = asked[g]
        /\ key[d].generation < key[g].generation /\ key'[d] = key[d] /\ key'[g] = key[g]
    BY <2>1, <1>2, Zenon
  <2>3. PICK e \in Calls : /\ Begun(e)
                           /\ key[e].request = key[d].request
                           /\ key[e].fingerprint # key[d].fingerprint
                           /\ key[d].generation < key[e].generation
                           /\ key[e].generation < key[g].generation
    BY <2>2, Zenon DEF CallInv, OverlapNeedsReuse
  <2>4. Begun(e)' /\ key'[e] = key[e]
    BY <2>3, <1>2, <1>b, Zenon
  <2>5. /\ Begun(e)' /\ key'[e].request = key'[d].request
        /\ key'[e].fingerprint # key'[d].fingerprint
        /\ key'[d].generation < key'[e].generation
        /\ key'[e].generation < key'[g].generation
    BY <2>2, <2>3, <2>4, Zenon
  <2> QED BY <2>5, ZenonT(30)
<1> QED BY <1>10, <1>11, <1>12, <1>13, <1>14, <1>15, <1>16, <1>17, <1>18, Zenon DEF CallInv

\* What complete and cancel find when they take the lock.
LEMMA LeaderFacts ==
    ASSUME Inv, NEW c \in Calls, phase[c] \in Leading
    PROVE  /\ InFlight(inner, key[c])
           /\ key[c] \in EntryKey
           /\ key[c].generation < inner.next_generation
BY Zenon DEF Inv, CallInv, Leases, Keys, Begun, Leading

\* Handing a result to the leader and its waiters keeps the types of the calls.
LEMMA ReleaseTyped ==
    ASSUME CallTyped, NEW c \in Calls, NEW k, NEW p \in Phases, NEW q \in Phases,
           NEW rep \in Reply \cup {NoReply}, Release(k, c, p, q, rep),
           UNCHANGED <<asked, key, eligible, now>>
    PROVE  CallTyped'
<1> DEFINE served == Open(inner.entries[k].waiters)
<1>1. /\ phase' = [d \in Calls |-> IF d = c THEN q ELSE IF d \in served THEN p ELSE phase[d]]
      /\ reply' = [d \in Calls |-> IF d \in served THEN rep ELSE reply[d]]
  BY Zenon DEF Release
<1> HIDE DEF served
<1>2. phase' \in [Calls -> Phases] /\ reply' \in [Calls -> Reply \cup {NoReply}]
  BY <1>1, Zenon DEF CallTyped
<1> QED BY <1>2, Zenon DEF CallTyped

\* A cache that has lost an in-flight entry and nothing else has grown is
\* within its bounds.
LEMMA DepartedBounded ==
    ASSUME Inv, NEW k, InFlight(inner, k), NEW b,
           IsFiniteSet(DOMAIN b.entries), DOMAIN b.entries \subseteq DOMAIN inner.entries,
           b.completed_bytes <= MaxCompletedBytes
    PROVE  Bounded(b)
<1>1. /\ IsFiniteSet(DOMAIN inner.entries)
      /\ Cardinality(DOMAIN inner.entries) <= Capacity
  BY Zenon DEF Inv, CacheInv, Bounded
<1>2. Cardinality(DOMAIN b.entries) <= Cardinality(DOMAIN inner.entries)
  BY <1>1, FS_Subset, Zenon
<1>3. Cardinality(DOMAIN b.entries) \in Nat /\ Cardinality(DOMAIN inner.entries) \in Nat
  BY <1>1, FS_CardinalityType, Zenon
<1> QED BY <1>1, <1>2, <1>3, ReplayConstants, SMTT(20) DEF Bounded

\* The second locked section of complete, which removes the in-flight entry,
\* stores the reply if it is still wanted and wakes the waiters, keeps the
\* invariant.
LEMMA CompleteStoreInv ==
    ASSUME Inv, NEW c \in Calls, CompleteStore(c)
    PROVE  Inv'
<1> DEFINE k == key[c]
           dep == Departed(inner, k)
           wanted == /\ IsLatest(dep, k)
                     /\ eligible[c]
                     /\ reply[c].shape.retained_bytes <= MaxCompletedBytes
<1>1. /\ phase[c] = "storing"
      /\ inner' = StoreIf(dep, k, reply[c], wanted)
      /\ Release(k, c, "answered", "executed", reply[c])
      /\ UNCHANGED <<asked, key, eligible, now>>
  BY Zenon DEF CompleteStore, StoreReply
<1>2. InFlight(inner, k) /\ k \in EntryKey /\ k.generation < inner.next_generation
  BY <1>1, LeaderFacts, Zenon DEF Leading
<1>t. CallTyped /\ CacheInv(inner, {}) /\ CallInv(inner) /\ Bounded(inner)
  BY Zenon DEF Inv
<1>3. reply[c] \in Reply /\ reply[c].by = c
  BY <1>1, <1>t, Zenon DEF CallInv, Own
<1>4. reply[c].shape.retained_bytes \in Nat
  BY <1>3, ReplayConstants, Zenon DEF Reply
<1>5. /\ CacheInv(dep, {k.request})
      /\ DOMAIN dep.entries = DOMAIN inner.entries \ {k}
      /\ dep.completed_bytes = inner.completed_bytes
      /\ dep.next_generation = inner.next_generation
      /\ IsLatest(dep, k) \/ CacheInv(dep, {})
  BY <1>2, <1>t, DepartedOK, ZenonT(30)
<1>6. wanted \in BOOLEAN /\ (wanted => IsLatest(dep, k))
  BY <1>t, Zenon DEF CallTyped, IsLatest
<1>7. now \in Nat /\ dep.completed_bytes <= MaxCompletedBytes
  BY <1>5, <1>t, Zenon DEF CallTyped, Bounded
<1> HIDE DEF dep, wanted
<1>8. Stores(dep, inner', k, reply[c]) /\ inner'.completed_bytes <= MaxCompletedBytes
  BY <1>1, <1>2, <1>3, <1>4, <1>5, <1>6, <1>7, StoreIfOK, Zenon
<1>9. CallInv(inner)'
  BY <1>1, <1>2, <1>3, <1>8, <1>t, FinishStep, Zenon DEF Leading, dep
<1>10. CallTyped'
  BY <1>1, <1>3, <1>t, ReleaseTyped, ZenonT(30) DEF Phases
<1>11. CacheInv(inner', {})
  BY <1>8, Zenon DEF Stores
<1>12. Bounded(inner')
  <2>1. IsFiniteSet(DOMAIN inner'.entries)
    BY <1>11, Zenon DEF CacheInv
  <2>2. DOMAIN inner'.entries \subseteq DOMAIN inner.entries
    BY <1>2, <1>5, <1>8, Zenon DEF Stores, InFlight
  <2> QED BY <1>2, <1>8, <2>1, <2>2, DepartedBounded, Zenon
<1> QED BY <1>9, <1>10, <1>11, <1>12, Zenon DEF Inv

\* The drop of a lease removes its entry, wakes its waiters and keeps the
\* invariant.
LEMMA CancelInv ==
    ASSUME Inv, NEW c \in Calls, Cancel(c)
    PROVE  Inv'
<1> DEFINE k == key[c]
           dep == Departed(inner, k)
<1>1. /\ phase[c] = "leading"
      /\ inner' = Settled(dep, k)
      /\ Release(k, c, "released", "dropped", NoReply)
      /\ UNCHANGED <<asked, key, eligible, now>>
  BY Zenon DEF Cancel, Cancelled
<1>2. InFlight(inner, k) /\ k \in EntryKey
  BY <1>1, LeaderFacts, Zenon DEF Leading
<1>t. CallTyped /\ CacheInv(inner, {}) /\ CallInv(inner) /\ Bounded(inner)
  BY Zenon DEF Inv
<1> HIDE DEF k
<1>3. /\ CacheInv(dep, {k.request})
      /\ DOMAIN dep.entries = DOMAIN inner.entries \ {k}
      /\ dep.completed_bytes = inner.completed_bytes
      /\ IsLatest(dep, k) \/ CacheInv(dep, {})
  BY <1>2, <1>t, DepartedOK, Zenon
<1> HIDE DEF dep
<1>4. /\ CacheInv(inner', {})
      /\ inner'.entries = dep.entries
      /\ inner'.completed_bytes = dep.completed_bytes
      /\ inner'.next_generation = dep.next_generation
      /\ DOMAIN inner'.latest \subseteq DOMAIN dep.latest
      /\ \A r \in DOMAIN inner'.latest : inner'.latest[r] = dep.latest[r]
      /\ \A r \in DOMAIN dep.latest :
            r \in DOMAIN inner'.latest <=> ~(IsLatest(dep, k) /\ r = k.request)
  <2>1. k \notin DOMAIN dep.entries
    BY <1>3, Zenon
  <2>2. inner' = Settled(dep, k)
    BY <1>1, Zenon
  <2> DEFINE b == Settled(dep, k)
  <2>3. /\ CacheInv(b, {})
        /\ b.entries = dep.entries
        /\ b.completed_bytes = dep.completed_bytes
        /\ b.next_generation = dep.next_generation
        /\ DOMAIN b.latest \subseteq DOMAIN dep.latest
        /\ \A r \in DOMAIN b.latest : b.latest[r] = dep.latest[r]
        /\ \A r \in DOMAIN dep.latest :
              r \in DOMAIN b.latest <=> ~(IsLatest(dep, k) /\ r = k.request)
    <3> HIDE DEF b
    <3>1. /\ k \in EntryKey /\ CacheInv(dep, {k.request}) /\ k \notin DOMAIN dep.entries
          /\ IsLatest(dep, k) \/ CacheInv(dep, {})
      BY <1>2, <1>3, <2>1, Zenon
    <3> QED BY ONLY <3>1, SettledOK, Zenon DEF b
  <2>4. inner' = b
    BY <2>2, Zenon
  <2> HIDE DEF b
  <2> QED BY <2>3, <2>4, Zenon
<1>5. Stores(dep, inner', k, NoReply)
  BY <1>4, Zenon DEF Stores, SameFlights, InFlight, CompletedKeys
<1>6. k \notin DOMAIN inner'.entries
  BY <1>3, <1>4, Zenon
<1>7. CallInv(inner)'
  BY <1>1, <1>2, <1>5, <1>6, <1>t, FinishStep, Zenon DEF Leading, dep, k
<1>8. CallTyped'
  BY <1>1, <1>t, ReleaseTyped, Zenon DEF Phases
<1>9. Bounded(inner')
  <2>1. IsFiniteSet(DOMAIN inner'.entries) /\ DOMAIN inner'.entries \subseteq DOMAIN inner.entries
    BY <1>3, <1>4, Zenon DEF CacheInv
  <2>2. inner'.completed_bytes <= MaxCompletedBytes
    BY <1>3, <1>4, <1>t, Zenon DEF Bounded
  <2> QED BY <1>2, <2>1, <2>2, DepartedBounded, Zenon
<1> QED BY <1>4, <1>7, <1>8, <1>9, Zenon DEF Inv

\* A step that leaves cache and calls alone keeps the invariant; the clock may
\* move.
LEMMA SameCallsInv ==
    ASSUME Inv, UNCHANGED <<inner, phase, asked, key, reply, eligible>>, now' \in Nat
    PROVE  Inv'
<1>1. CallTyped'
  BY Zenon DEF Inv, CallTyped
<1>i. CallInv(inner)
  BY Zenon DEF Inv
<1>b. \A d \in Calls : (Begun(d)' <=> Begun(d)) /\ (IsLeader(d)' <=> IsLeader(d))
  BY Zenon DEF Begun, IsLeader
<1>2. CallInv(inner)'
  <2>1. Keys(inner)' /\ OneLeader'
    BY <1>i, <1>b, Zenon DEF CallInv, Keys, OneLeader
  <2>2. Leases(inner)' /\ Waiters(inner)' /\ Stored(inner)'
    BY <1>i, Zenon DEF CallInv, Leases, Waiters, Stored
  <2>3. Own' /\ Given'
    BY <1>i, ZenonT(30) DEF CallInv, Own, Given
  <2>4. Superseded(inner)'
    BY <1>i, <1>b, ZenonT(30) DEF CallInv, Superseded
  <2>5. OverlapNeedsReuse'
    BY <1>i, <1>b, Zenon DEF CallInv, OverlapNeedsReuse
  <2> QED BY <2>1, <2>2, <2>3, <2>4, <2>5, Zenon DEF CallInv
<1> QED BY <1>1, <1>2, Zenon DEF Inv

\* Every step keeps the invariant: one lemma per action, put together.
LEMMA NextInv == Inv /\ [Next]_vars => Inv'
<1> SUFFICES ASSUME Inv, [Next]_vars PROVE Inv'
  BY Zenon
<1>1. ASSUME NEW c \in Calls, NEW r \in Requests, NEW f \in Fingerprints, NEW t,
             Begin(c, r, f, t)
      PROVE  Inv'
  BY <1>1, BeginWaitInv, BeginReplayInv, BeginRefusedInv, BeginExecuteInv, Zenon DEF Begin
<1>2. ASSUME NEW c \in Calls, NEW s \in ReplyShapes, CompleteProbe(c, s)
      PROVE  Inv'
  BY <1>2, CompleteProbeInv, Zenon
<1>3. ASSUME NEW c \in Calls, CompleteStore(c) \/ Cancel(c) \/ WaiterGone(c)
      PROVE  Inv'
  BY <1>3, CompleteStoreInv, CancelInv, WaiterGoneInv, Zenon
<1>4. CASE Tick
  <2>1. now \in Nat
    BY Zenon DEF Inv, CallTyped
  <2> QED BY <1>4, <2>1, SameCallsInv DEF Tick
<1>5. CASE UNCHANGED vars
  <2>1. now \in Nat
    BY Zenon DEF Inv, CallTyped
  <2> QED BY <1>5, <2>1, SameCallsInv, Zenon DEF vars
<1> QED BY <1>1, <1>2, <1>3, <1>4, <1>5, Zenon DEF Next

-----------------------------------------------------------------------------
(* The theorems.                                                            *)

\* Every step of begin, complete, cancel and of the receivers preserves the
\* inductive invariant.
THEOREM Invariance == Spec => []Inv
<1>1. Init => Inv
  BY InitInv, Zenon
<1>2. Inv /\ [Next]_vars => Inv'
  BY NextInv, Zenon
<1> QED BY <1>1, <1>2, PTL DEF Spec

\* The cache and the records of its calls keep their types.
THEOREM TypeCorrectness == Spec => []TypeOK
<1>1. Inv => TypeOK
  BY Zenon DEF Inv, CacheInv, CallTyped, TypeOK
<1> QED BY <1>1, Invariance, PTL

\* The entry `latest` names for a request is in the cache, whatever expired,
\* was evicted, cancelled or completed meanwhile.
THEOREM LatestNeverDangles == Spec => []LatestIsLive
<1>1. Inv => LatestIsLive
  BY Zenon DEF Inv, CacheInv, LatestIsLive
<1> QED BY <1>1, Invariance, PTL

\* complete retains a reply only for the newest generation of its request,
\* although the generation may be superseded between its two locks.
THEOREM RetainedIsLatest == Spec => []CompletedIsLatest
<1>1. Inv => CompletedIsLatest
  BY Zenon DEF Inv, CacheInv, CompletedIsLatest
<1> QED BY <1>1, Invariance, PTL

\* Leases and in-flight entries are in bijection: complete and cancel always
\* find the entry of their lease, and no entry stays without a lease.
THEOREM LeasesOwnEntries == Spec => []LeaseOwnsEntry
<1>1. Inv => LeaseOwnsEntry
  BY Zenon DEF Inv, CallInv, Leases, OneLeader, IsLeader, LeaseOwnsEntry
<1> QED BY <1>1, Invariance, PTL

\* A duplicate that waits is registered with the one in-flight execution of
\* the request and fingerprint it asked for.
THEOREM WaitersRegistered == Spec => []WaiterIsRegistered
<1>1. ASSUME Inv PROVE WaiterIsRegistered
  <2> SUFFICES ASSUME NEW c \in Calls, phase[c] = "waiting"
               PROVE  /\ InFlight(inner, key[c])
                      /\ asked[c] = [request |-> key[c].request,
                                     fingerprint |-> key[c].fingerprint]
                      /\ \A k \in DOMAIN inner.entries :
                            (InFlight(inner, k) /\ c \in inner.entries[k].waiters) <=> k = key[c]
    BY Zenon DEF WaiterIsRegistered
  <2>1. InFlight(inner, key[c]) /\ c \in inner.entries[key[c]].waiters
    BY <1>1, Zenon DEF Inv, CallInv, Waiters
  <2>2. asked[c] = [request |-> key[c].request, fingerprint |-> key[c].fingerprint]
    BY <1>1, Zenon DEF Inv, CallInv, Keys, Begun
  <2>3. \A k \in DOMAIN inner.entries :
           InFlight(inner, k) /\ c \in inner.entries[k].waiters => k = key[c]
    BY <1>1, ZenonT(30) DEF Inv, CallInv, Waiters
  <2> QED BY <2>1, <2>2, <2>3, Zenon
<1> QED BY <1>1, Invariance, PTL

\* completed_bytes is exactly what the retained replies are charged, and never
\* above max_completed_bytes: the saturating subtraction never saturates.
THEOREM BytesExact == Spec => []BytesAccounted
<1>1. Inv => BytesAccounted
  BY Zenon DEF Inv, CacheInv, Bounded, BytesAccounted
<1> QED BY <1>1, Invariance, PTL

\* The index, the entries, the byte count, the leases and the waiters of the
\* cache always agree, and the entries stay within the capacity: begin never
\* misses an execution it should join, and complete and cancel never find the
\* cache in another state than they expect.
THEOREM CacheAgreement == Spec => []CacheAgrees
<1>1. Inv => Cardinality(DOMAIN inner.entries) <= Capacity
  BY Zenon DEF Inv, Bounded
<1>2. TypeOK /\ LatestIsLive /\ CompletedIsLatest /\ LeaseOwnsEntry /\ WaiterIsRegistered
         /\ BytesAccounted /\ Cardinality(DOMAIN inner.entries) <= Capacity
      => CacheAgrees
  BY Zenon DEF CacheAgrees
<1> QED
  BY <1>1, <1>2, Invariance, TypeCorrectness, LatestNeverDangles, RetainedIsLatest,
     LeasesOwnEntries, WaitersRegistered, BytesExact, PTL

\* A waiter or a replay is given the reply of a finished execution of the very
\* request, fingerprint and generation it joined or found.
THEOREM AnswersOriginal == Spec => []AnswersAreOriginal
<1>1. ASSUME Inv PROVE AnswersAreOriginal
  <2> SUFFICES ASSUME NEW c \in Calls, phase[c] \in {"answered", "replayed", "executed"}
               PROVE  /\ reply[c] \in Reply
                      /\ phase[reply[c].by] = "executed"
                      /\ asked[reply[c].by] = asked[c]
                      /\ key[reply[c].by] = key[c]
    BY Zenon DEF AnswersAreOriginal
  <2>1. reply[c] \in Reply /\ phase[reply[c].by] = "executed" /\ key[reply[c].by] = key[c]
    BY <1>1, Zenon DEF Inv, CallInv, Given
  <2>2. reply[c].by \in Calls
    BY <2>1, Zenon DEF Reply
  <2>3. asked[reply[c].by] = asked[c]
    BY <1>1, <2>1, <2>2, Zenon DEF Inv, CallInv, Keys, Begun
  <2> QED BY <2>1, <2>3, Zenon
<1> QED BY <1>1, Invariance, PTL

\* Exact duplicates never execute at once: two running executions of the same
\* request and fingerprint have an XID reuse for other arguments between them.
THEOREM DuplicatesNeverOverlap == Spec => []OverlapNeedsReuse
<1>1. Inv => OverlapNeedsReuse
  BY Zenon DEF Inv, CallInv
<1> QED BY <1>1, Invariance, PTL
=============================================================================
