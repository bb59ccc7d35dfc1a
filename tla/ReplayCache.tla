----------------------------- MODULE ReplayCache -----------------------------
(***************************************************************************)
(* The duplicate-request reply cache of src/replay/cache.rs.               *)
(*                                                                         *)
(* `inner` is the CacheInner behind the std Mutex: everything one lock     *)
(* acquisition does is one step.  A "call" is one RPC request that reaches *)
(* ReplayCache::begin; it leads an execution (it holds the ReplayLease),   *)
(* waits for another call's execution (it holds the oneshot receiver), or  *)
(* is answered at once.  ReplayLease::complete takes the lock once or      *)
(* twice, so it is two steps, CompleteProbe and CompleteStore.             *)
(*                                                                         *)
(* Reply bytes are abstracted to the call whose execution produced them    *)
(* and to the three facts the cache looks at: wire length, bytes charged   *)
(* when retained, and whether the storage must be copied first.            *)
(***************************************************************************)
EXTENDS Integers, Sequences, FiniteSets, FiniteSetsExt, Functions

CONSTANTS
    Calls,              \* RPC requests that reach the cache
    Requests,           \* ReplayKey: client address, export and XID
    Fingerprints,       \* RequestFingerprint: digest of procedure and arguments
    ReplyShapes,        \* [len, retained_bytes, requires_copy] of the replies executions produce
    Capacity,           \* ReplayCache::capacity
    MaxCompletedBytes,  \* ReplayCache::max_completed_bytes
    Ttl,                \* ReplayCache::ttl, in ticks
    CompactFloor,       \* the literal 64 of compact_completion_order
    MaxTime,            \* bound: number of clock ticks explored
    MaxLockDelay,       \* bound: ticks between Instant::now() and the lock in begin
    NoKey, NoReply      \* "None" for the bookkeeping of calls

ASSUME ReplayConstants ==
    /\ IsFiniteSet(Calls)
    /\ ReplyShapes \subseteq [len : Nat, retained_bytes : Nat, requires_copy : BOOLEAN]
    /\ \A s \in ReplyShapes : s.len <= s.retained_bytes
    /\ Capacity \in Nat \ {0}
    /\ MaxCompletedBytes \in Nat
    /\ Ttl \in Nat
    /\ CompactFloor \in Nat
    /\ MaxTime \in Nat
    /\ MaxLockDelay \in Nat

VARIABLES
    inner,      \* CacheInner: entries, latest, completed_order, completed_bytes, next_generation
    phase,      \* what each call is doing
    asked,      \* the request and fingerprint a call passed to begin
    key,        \* the cache entry a call leads, waits for or was answered from
    reply,      \* the reply a call produced or was given
    eligible,   \* complete's local `replay_storage.is_some()`
    now         \* the monotonic clock

vars == <<inner, phase, asked, key, reply, eligible, now>>

EntryKey == [request : Requests, fingerprint : Fingerprints, generation : Nat]
LatestGeneration == [fingerprint : Fingerprints, generation : Nat]
Reply == [by : Calls, shape : ReplyShapes]
InFlightState == [state : {"InFlight"}, waiters : SUBSET Calls]
CompletedState == [state : {"Completed"}, encoded_reply : Reply,
                   retained_bytes : Nat, completed_at : Nat]

\* The phases of a call.  A leader is "leading" while its handler runs and
\* "storing" inside ReplayLease::complete; the others are the ways it ends.
Leading == {"leading", "storing"}
Phases == Leading \cup {"idle", "waiting", "executed", "dropped", "answered",
                        "replayed", "released", "refused", "gone"}

CacheTyped(cache) ==
    /\ DOMAIN cache = {"entries", "latest", "completed_order", "completed_bytes", "next_generation"}
    /\ DOMAIN cache.entries \subseteq EntryKey
    /\ cache.entries \in [DOMAIN cache.entries -> InFlightState \cup CompletedState]
    /\ DOMAIN cache.latest \subseteq Requests
    /\ cache.latest \in [DOMAIN cache.latest -> LatestGeneration]
    /\ cache.completed_order \in Seq(EntryKey)
    /\ cache.completed_bytes \in Nat
    /\ cache.next_generation \in Nat

TypeOK ==
    /\ CacheTyped(inner)
    /\ phase \in [Calls -> Phases]
    /\ asked \in [Calls -> [request : Requests, fingerprint : Fingerprints] \cup {NoKey}]
    /\ key \in [Calls -> EntryKey \cup {NoKey}]
    /\ reply \in [Calls -> Reply \cup {NoReply}]
    /\ eligible \in [Calls -> BOOLEAN]
    /\ now \in Nat

-----------------------------------------------------------------------------
(* Helpers of CacheInner, as functions of the cache value they update.      *)

Completed(cache, k) ==
    k \in DOMAIN cache.entries /\ cache.entries[k].state = "Completed"
InFlight(cache, k) ==
    k \in DOMAIN cache.entries /\ cache.entries[k].state = "InFlight"
CompletedKeys(cache) == {k \in DOMAIN cache.entries : cache.entries[k].state = "Completed"}

\* Mutation: generations are not compared.
IsLatestFingerprint(cache, k) ==
    /\ k.request \in DOMAIN cache.latest
    /\ cache.latest[k.request].fingerprint = k.fingerprint

IsLatest(cache, k) ==
    /\ k.request \in DOMAIN cache.latest
    /\ cache.latest[k.request] = [fingerprint |-> k.fingerprint, generation |-> k.generation]

LatestKey(cache, r) ==
    [request |-> r,
     fingerprint |-> cache.latest[r].fingerprint,
     generation |-> cache.latest[r].generation]

\* The bytes the retained replies of K are charged, one pair for each byte
ChargedBytes(cache, K) == UNION {{k} \X (1..cache.entries[k].retained_bytes) : k \in K}
RetainedBytes(cache, K) == Cardinality(ChargedBytes(cache, K))

\* usize::saturating_sub
Monus(a, b) == IF a >= b THEN a - b ELSE 0
\* Duration since an Instant saturates at zero
Elapsed(t, since) == Monus(t, since)

Put(f, x, v) == [y \in DOMAIN f \cup {x} |-> IF y = x THEN v ELSE f[y]]
Without(f, S) == Restrict(f, DOMAIN f \ S)
ForgetLatest(cache, K) ==
    Without(cache.latest, {k.request : k \in {j \in K : IsLatest(cache, j)}})

\* remove_completed, for every key of K (all of them completed)
RemoveCompleted(cache, K) ==
    [cache EXCEPT !.entries = Without(@, K),
                  !.latest = ForgetLatest(cache, K),
                  !.completed_bytes = Monus(@, RetainedBytes(cache, K))]

\* Pop the n oldest items of the completion order, removing the replies that
\* are still there; the other popped items are tombstones.
PopOldest(cache, n) ==
    LET popped == {cache.completed_order[i] : i \in 1..n}
    IN [RemoveCompleted(cache, CompletedKeys(cache) \cap popped)
            EXCEPT !.completed_order = SubSeq(@, n + 1, Len(@))]

\* expire: pop up to the first reply that is younger than the TTL
Fresh(cache, k, t) ==
    Completed(cache, k) /\ Elapsed(t, cache.entries[k].completed_at) < Ttl
Expire(cache, t) ==
    LET fresh == {i \in DOMAIN cache.completed_order : Fresh(cache, cache.completed_order[i], t)}
    IN PopOldest(cache, Min(fresh \cup {Len(cache.completed_order) + 1}) - 1)

\* evict_oldest_completed: pop up to and including the oldest retained reply
Evictable(cache) ==
    {i \in DOMAIN cache.completed_order : Completed(cache, cache.completed_order[i])}
EvictOldestCompleted(cache) ==
    PopOldest(cache, IF Evictable(cache) = {} THEN Len(cache.completed_order)
                                              ELSE Min(Evictable(cache)))

\* The eviction loop of complete: evict oldest first until `bytes` more fit
EvictToFit(cache, bytes) ==
    LET fits == {n \in 0..Len(cache.completed_order) :
                    PopOldest(cache, n).completed_bytes + bytes <= MaxCompletedBytes}
    IN PopOldest(cache, Min(fits \cup {Len(cache.completed_order)}))

\* VecDeque::retain: the items of s that are in S, in order
Retain(s, S) ==
    LET I == {i \in DOMAIN s : s[i] \in S}
    IN [j \in 1..Cardinality(I) |->
            s[CHOOSE i \in I : Cardinality({h \in I : h <= i}) = j]]

\* Mutation: the order is never compacted.
CompactNever(cache) == cache

CompactCompletionOrder(cache) ==
    IF Len(cache.completed_order) > Max({2 * Cardinality(DOMAIN cache.entries), CompactFloor})
    THEN [cache EXCEPT !.completed_order = Retain(@, CompletedKeys(cache))]
    ELSE cache

RemoveCompletedForRequest(cache, r) ==
    IF r \in DOMAIN cache.latest /\ Completed(cache, LatestKey(cache, r))
    THEN RemoveCompleted(cache, {LatestKey(cache, r)})
    ELSE cache

-----------------------------------------------------------------------------
(* ReplayCache::begin.  Each outcome is an action; all four expire first.   *)

Init ==
    /\ inner = [entries |-> << >>, latest |-> << >>, completed_order |-> << >>,
                completed_bytes |-> 0, next_generation |-> 0]
    /\ phase = [c \in Calls |-> "idle"]
    /\ asked = [c \in Calls |-> NoKey]
    /\ key = [c \in Calls |-> NoKey]
    /\ reply = [c \in Calls |-> NoReply]
    /\ eligible = [c \in Calls |-> FALSE]
    /\ now = 0

\* Instant::now() is read before the lock is taken
SampledTimes == {t \in 0..now : now - t <= MaxLockDelay}

\* Mutation: the fingerprint is not compared.
HitAnyFingerprint(cache, r, f) ==
    r \in DOMAIN cache.latest /\ LatestKey(cache, r) \in DOMAIN cache.entries

\* Mutation: only completed duplicates are recognised.
HitCompletedOnly(cache, r, f) ==
    /\ r \in DOMAIN cache.latest
    /\ cache.latest[r].fingerprint = f
    /\ Completed(cache, LatestKey(cache, r))

Hit(cache, r, f) ==
    /\ r \in DOMAIN cache.latest
    /\ cache.latest[r].fingerprint = f
    /\ LatestKey(cache, r) \in DOMAIN cache.entries

\* A waiter whose receiver was dropped is closed.
Open(waiters) == {w \in waiters : phase[w] = "waiting"}

\* A duplicate joins: closed waiters are discarded, the caller is added.
Joined(waiters, c) == Open(waiters) \cup {c}

Asks(c, r, f) == asked' = [asked EXCEPT ![c] = [request |-> r, fingerprint |-> f]]

BeginWait(c, r, f, t) ==
    LET cache == Expire(inner, t)
        k == LatestKey(cache, r)
    IN /\ phase[c] = "idle"
       /\ Hit(cache, r, f) /\ InFlight(cache, k)
       /\ inner' = [cache EXCEPT !.entries[k].waiters = Joined(@, c)]
       /\ phase' = [phase EXCEPT ![c] = "waiting"]
       /\ Asks(c, r, f)
       /\ key' = [key EXCEPT ![c] = k]
       /\ UNCHANGED <<reply, eligible, now>>

BeginReplay(c, r, f, t) ==
    LET cache == Expire(inner, t)
        k == LatestKey(cache, r)
    IN /\ phase[c] = "idle"
       /\ Hit(cache, r, f) /\ Completed(cache, k)
       /\ inner' = cache
       /\ phase' = [phase EXCEPT ![c] = "replayed"]
       /\ Asks(c, r, f)
       /\ key' = [key EXCEPT ![c] = k]
       /\ reply' = [reply EXCEPT ![c] = cache.entries[k].encoded_reply]
       /\ UNCHANGED <<eligible, now>>

Full(cache) == Cardinality(DOMAIN cache.entries) >= Capacity

BeginRefused(c, r, f, t) ==
    LET cache == Expire(inner, t)
        reused == RemoveCompletedForRequest(cache, r)
    IN /\ phase[c] = "idle"
       /\ ~Hit(cache, r, f)
       /\ Full(reused) /\ Evictable(reused) = {}
       /\ inner' = EvictOldestCompleted(reused)
       /\ phase' = [phase EXCEPT ![c] = "refused"]
       /\ Asks(c, r, f)
       /\ UNCHANGED <<key, reply, eligible, now>>

\* A new generation of request r; wrapping_add on u64 is not reached.
StartGeneration(cache, k) ==
    [cache EXCEPT !.entries = Put(@, k, [state |-> "InFlight", waiters |-> {}]),
                  !.latest = Put(@, k.request, [fingerprint |-> k.fingerprint,
                                                generation |-> k.generation]),
                  !.next_generation = @ + 1]

BeginExecute(c, r, f, t) ==
    LET cache == Expire(inner, t)
        reused == RemoveCompletedForRequest(cache, r)
        room == IF Full(reused) THEN EvictOldestCompleted(reused) ELSE reused
        k == [request |-> r, fingerprint |-> f, generation |-> inner.next_generation]
    IN /\ phase[c] = "idle"
       /\ ~Hit(cache, r, f)
       /\ Full(reused) => Evictable(reused) # {}
       /\ inner' = StartGeneration(room, k)
       /\ phase' = [phase EXCEPT ![c] = "leading"]
       /\ Asks(c, r, f)
       /\ key' = [key EXCEPT ![c] = k]
       /\ UNCHANGED <<reply, eligible, now>>

-----------------------------------------------------------------------------
(* ReplayLease: complete, cancel and Drop; receivers; the clock.            *)

\* complete up to the last lock: is the reply worth storing?  Only a reply
\* that must be copied looks at the cache, under a lock of its own.
CompleteProbe(c, shape) ==
    /\ phase[c] = "leading"
    /\ phase' = [phase EXCEPT ![c] = "storing"]
    /\ reply' = [reply EXCEPT ![c] = [by |-> c, shape |-> shape]]
    /\ eligible' = [eligible EXCEPT ![c] =
                        /\ shape.len <= MaxCompletedBytes
                        /\ shape.requires_copy =>
                              IsLatest(inner, key[c]) /\ InFlight(inner, key[c])]
    /\ UNCHANGED <<inner, asked, key, now>>

\* The reply of k becomes a Completed entry, charged `bytes`.
Insert(cache, k, rep, order, bytes) ==
    [cache EXCEPT !.entries = Put(@, k, [state |-> "Completed",
                                         encoded_reply |-> rep,
                                         retained_bytes |-> rep.shape.retained_bytes,
                                         completed_at |-> now]),
                  !.completed_order = order,
                  !.completed_bytes = @ + bytes]

\* Mutation: a new reply is queued as the oldest one.
RetainAtFront(cache, k, rep) ==
    Insert(cache, k, rep, <<k>> \o cache.completed_order, rep.shape.retained_bytes)

RetainReply(cache, k, rep) ==
    CompactCompletionOrder(
        Insert(cache, k, rep, Append(cache.completed_order, k), rep.shape.retained_bytes))

\* The generation of k is forgotten if it was the latest.
Settled(cache, k) == [cache EXCEPT !.latest = ForgetLatest(cache, {k})]

\* The second half of complete, for a key whose in-flight entry was just
\* removed: make room for a wanted reply and retain it if it fits, and
\* otherwise forget that its generation was the latest.
StoreIf(cache, k, rep, wanted) ==
    LET bytes == rep.shape.retained_bytes
        room == IF wanted THEN EvictToFit(cache, bytes) ELSE cache
    IN IF wanted /\ room.completed_bytes + bytes <= MaxCompletedBytes
       THEN RetainReply(room, k, rep)
       ELSE Settled(room, k)

\* Mutation: the generation is not checked again under the second lock.
StoreUnchecked(cache, k, rep, storable) ==
    StoreIf(cache, k, rep, storable /\ rep.shape.retained_bytes <= MaxCompletedBytes)

\* Mutation: a reply larger than the whole budget evicts the others first.
StoreFlushes(cache, k, rep, storable) ==
    StoreIf(cache, k, rep, IsLatest(cache, k) /\ storable)

StoreReply(cache, k, rep, storable) ==
    StoreIf(cache, k, rep, /\ IsLatest(cache, k)
                           /\ storable
                           /\ rep.shape.retained_bytes <= MaxCompletedBytes)

\* Mutation: the waiters are forgotten.
ReleaseNone(k, c, p, q, rep) ==
    /\ phase' = [phase EXCEPT ![c] = q]
    /\ UNCHANGED reply

\* Every open waiter of k moves to phase p with reply rep; c moves to q.
Release(k, c, p, q, rep) ==
    LET served == Open(inner.entries[k].waiters)
    IN /\ phase' = [d \in Calls |-> IF d = c THEN q ELSE IF d \in served THEN p ELSE phase[d]]
       /\ reply' = [d \in Calls |-> IF d \in served THEN rep ELSE reply[d]]

\* The in-flight entry of k is taken out of the map.
Departed(cache, k) == [cache EXCEPT !.entries = Without(@, {k})]

CompleteStore(c) ==
    /\ phase[c] = "storing"
    /\ InFlight(inner, key[c])
    /\ inner' = StoreReply(Departed(inner, key[c]), key[c], reply[c], eligible[c])
    /\ Release(key[c], c, "answered", "executed", reply[c])
    /\ UNCHANGED <<asked, key, eligible, now>>

Cancelled(cache, k) == Settled(Departed(cache, k), k)

\* cancel, called by the handler on failure or by Drop when the lease is lost
Cancel(c) ==
    /\ phase[c] = "leading"
    /\ InFlight(inner, key[c])
    /\ inner' = Cancelled(inner, key[c])
    /\ Release(key[c], c, "released", "dropped", NoReply)
    /\ UNCHANGED <<asked, key, eligible, now>>

\* A waiter's receiver is dropped: its deadline passed or its connection ended.
WaiterGone(c) ==
    /\ phase[c] = "waiting"
    /\ phase' = [phase EXCEPT ![c] = "gone"]
    /\ UNCHANGED <<inner, asked, key, reply, eligible, now>>

Tick ==
    /\ now < MaxTime
    /\ now' = now + 1
    /\ UNCHANGED <<inner, phase, asked, key, reply, eligible>>

Begin(c, r, f, t) ==
    \/ BeginWait(c, r, f, t)
    \/ BeginReplay(c, r, f, t)
    \/ BeginRefused(c, r, f, t)
    \/ BeginExecute(c, r, f, t)

Next ==
    \/ \E c \in Calls, r \in Requests, f \in Fingerprints, t \in SampledTimes : Begin(c, r, f, t)
    \/ \E c \in Calls, s \in ReplyShapes : CompleteProbe(c, s)
    \/ \E c \in Calls : CompleteStore(c) \/ Cancel(c) \/ WaiterGone(c)
    \/ Tick

Spec == Init /\ [][Next]_vars

\* A handler runs under timeout_at(deadline), and its lease is completed,
\* cancelled or dropped when it ends, so a lease does not stay out forever.
Fairness ==
    \A c \in Calls :
        /\ WF_vars(Cancel(c) \/ \E s \in ReplyShapes : CompleteProbe(c, s))
        /\ WF_vars(CompleteStore(c))
FairSpec == Spec /\ Fairness

-----------------------------------------------------------------------------
(* Properties.                                                              *)

\* `latest` never dangles: the generation it names for a request is an entry
\* of the cache.  begin relies on it, since a dangling `latest` would make an
\* exact duplicate execute again.
LatestIsLive == \A r \in DOMAIN inner.latest : LatestKey(inner, r) \in DOMAIN inner.entries

\* Only the newest generation of a request is retained: a reply computed for
\* an XID that was reused meanwhile is never put in the cache, though the race
\* between the two locks of complete could let it through.
CompletedIsLatest == \A k \in CompletedKeys(inner) : IsLatest(inner, k)

\* Leases and in-flight entries are in bijection: a leader's entry is neither
\* expired, evicted nor taken over while it runs, so complete and cancel find
\* the entry they expect, and no in-flight entry outlives its lease.
LeaseOwnsEntry ==
    /\ \A c \in Calls : phase[c] \in Leading => InFlight(inner, key[c])
    /\ \A c, d \in Calls :
           phase[c] \in Leading /\ phase[d] \in Leading /\ c # d => key[c] # key[d]
    /\ \A k \in DOMAIN inner.entries :
           InFlight(inner, k) => \E c \in Calls : phase[c] \in Leading /\ key[c] = k

\* No waiter is lost: a call that waits is registered with the in-flight
\* entry of exactly the request and fingerprint it asked for, and no other.
WaiterIsRegistered ==
    \A c \in Calls : phase[c] = "waiting" =>
        /\ InFlight(inner, key[c])
        /\ asked[c] = [request |-> key[c].request, fingerprint |-> key[c].fingerprint]
        /\ \A k \in DOMAIN inner.entries :
              (InFlight(inner, k) /\ c \in inner.entries[k].waiters) <=> k = key[c]

\* completed_bytes is the sum of what the retained replies are charged, and
\* that sum stays within max_completed_bytes: the saturating arithmetic of
\* complete and remove_completed never hides a drift.
BytesAccounted ==
    /\ inner.completed_bytes = RetainedBytes(inner, CompletedKeys(inner))
    /\ inner.completed_bytes <= MaxCompletedBytes

\* The four parts of the cache and its calls agree: `latest`, the entries, the
\* byte count, and the leases and waiters outside; and the entries stay within
\* the capacity of the cache.
CacheAgrees ==
    /\ TypeOK
    /\ LatestIsLive
    /\ CompletedIsLatest
    /\ LeaseOwnsEntry
    /\ WaiterIsRegistered
    /\ BytesAccounted
    /\ Cardinality(DOMAIN inner.entries) <= Capacity

\* The completion order lists every retained reply exactly once, oldest first:
\* stopping at the first fresh reply is enough for expire, and popping the
\* front is enough for evict_oldest_completed.
OrderIsComplete ==
    LET order == inner.completed_order
        live == Evictable(inner)
    IN /\ \A k \in CompletedKeys(inner) : \E i \in live : order[i] = k
       /\ \A i, j \in live : i < j =>
              /\ order[i] # order[j]
              /\ inner.entries[order[i]].completed_at <= inner.entries[order[j]].completed_at

\* A call is only ever given the reply of a finished execution of the request
\* and fingerprint it asked for, in the generation it joined or found.
AnswersAreOriginal ==
    \A c \in Calls : phase[c] \in {"answered", "replayed", "executed"} =>
        /\ reply[c] \in Reply
        /\ phase[reply[c].by] = "executed"
        /\ asked[reply[c].by] = asked[c]
        /\ key[reply[c].by] = key[c]

\* A call that was given a generation: its own, or the one it joined or found
Begun(c) == phase[c] \notin {"idle", "refused"}

\* Two executions of one request and fingerprint overlap only if the XID was
\* reused for other arguments in between: exact duplicates never run at once.
OverlapNeedsReuse ==
    \A c, d \in Calls :
        /\ phase[c] \in Leading /\ phase[d] \in Leading
        /\ asked[c] = asked[d]
        /\ key[c].generation < key[d].generation
        => \E e \in Calls :
              /\ Begun(e)
              /\ key[e].request = key[c].request
              /\ key[e].fingerprint # key[c].fingerprint
              /\ key[c].generation < key[e].generation
              /\ key[e].generation < key[d].generation

\* Why a retained reply may leave the cache: its TTL passed,
Outlived(k) == now - inner.entries[k].completed_at >= Ttl

\* its XID was taken by a new generation,
Replaced(k) == k.request \in DOMAIN inner'.latest /\ ~IsLatest(inner', k)

\* or space was needed, for an entry or for the bytes of a reply; and space is
\* made oldest first, so what is evicted precedes every reply that stays.
At(k) == CHOOSE i \in DOMAIN inner.completed_order : inner.completed_order[i] = k
Displaced(k) ==
    /\ \A j \in CompletedKeys(inner) \cap CompletedKeys(inner') : At(k) < At(j)
    /\ \/ Full(inner) /\ DOMAIN inner'.entries \ DOMAIN inner.entries # {}
       \/ \E n \in CompletedKeys(inner') \ CompletedKeys(inner) :
             inner.completed_bytes + inner'.entries[n].retained_bytes > MaxCompletedBytes

\* A retained reply leaves the cache only because its TTL passed, its XID was
\* taken by a new generation, or space was needed and it was among the oldest.
LossIsJustified ==
    [][\A k \in CompletedKeys(inner) \ CompletedKeys(inner') :
          Outlived(k) \/ Replaced(k) \/ Displaced(k)]_vars

\* Replies that leave the cache on another way than the front of the completion
\* order leave tombstones in it, behind an older reply that stays.  Whenever the
\* order grows, compaction has left it no longer than twice the entries that there
\* are now, or its floor: reused XIDs do not fill it.
OrderIsBounded ==
    [][Len(inner'.completed_order) > Len(inner.completed_order) =>
           Len(inner'.completed_order) <= Max({2 * Cardinality(DOMAIN inner'.entries), CompactFloor})]_vars

\* A waiter is released in the end: its leader's lease is completed, cancelled
\* or dropped, and each of these answers every waiter.
WaiterReleased == \A c \in Calls : (phase[c] = "waiting") ~> (phase[c] # "waiting")

-----------------------------------------------------------------------------
(* The cache implements ReplayService.  The slot of a request is its latest *)
(* generation; a call that is storing its reply is still executing.         *)

LeaderOf(k) ==
    IF Completed(inner, k) THEN inner.entries[k].encoded_reply.by
    ELSE CHOOSE c \in Calls : phase[c] \in Leading /\ key[c] = k

SlotView ==
    [r \in Requests |->
        IF r \notin DOMAIN inner.latest THEN NoKey
        ELSE [fingerprint |-> inner.latest[r].fingerprint,
              leader |-> LeaderOf(LatestKey(inner, r)),
              answered |-> Completed(inner, LatestKey(inner, r))]]

StageView ==
    [c \in Calls |->
        CASE phase[c] = "idle" -> "idle"
          [] phase[c] \in Leading -> "executing"
          [] phase[c] = "waiting" -> "awaiting"
          [] phase[c] \in {"executed", "answered", "replayed"} -> "answered"
          [] OTHER -> "failed"]

\* A call's source: the leader of its generation, itself if it leads
IsLeader(c) == phase[c] \in Leading \cup {"executed", "dropped"}
SourceView ==
    [c \in Calls |->
        IF key[c] = NoKey THEN NoReply
        ELSE CHOOSE d \in Calls : IsLeader(d) /\ key[d] = key[c]]

Service == INSTANCE ReplayService
    WITH slot <- SlotView, stage <- StageView, source <- SourceView,
         Empty <- NoKey, NoCall <- NoReply

ASSUME NoKeyIsNone == NoKey \notin EntryKey /\ NoKey \notin Service!Slots

\* The cache behaves as the service promises: an exact duplicate of a current
\* execution joins it or gets its answer, a running execution is never
\* forgotten, and all waiters of an execution learn its one outcome.
ServiceSpec == Service!Spec

=============================================================================
