------------------------ MODULE ReplayServiceProofs ------------------------
(***************************************************************************)
(* The replay cache implements the service that the request pipeline is    *)
(* modelled with: Spec => ServiceSpec, for every value of the constants.   *)
(*                                                                         *)
(* Beside the invariant of ReplayCacheProofs the mapping needs that every  *)
(* call that was given a generation still has the leader of it, so that    *)
(* the CHOOSE of SourceView picks the same call before and after a step.   *)
(***************************************************************************)
EXTENDS ReplayCacheProofs

Sourced ==
    /\ \A c \in Calls : ~Begun(c) => key[c] = NoKey
    /\ \A c \in Calls : Begun(c) => \E d \in Calls : IsLeader(d) /\ key[d] = key[c]

\* What the views say: the source of a call is the leader of its generation, and
\* the slot of a request is its latest generation.
SourcesRead ==
    /\ SourceView = [c \in Calls |-> SourceView[c]]
    /\ \A c \in Calls : ~Begun(c) => SourceView[c] = NoReply
    /\ \A c, d \in Calls : Begun(c) /\ IsLeader(d) /\ key[d] = key[c] => SourceView[c] = d

ReadsSlot(r, d) ==
    /\ IsLeader(d) /\ key[d] = LatestKey(inner, r)
    /\ SlotView[r] = [fingerprint |-> inner.latest[r].fingerprint, leader |-> d,
                      answered |-> Completed(inner, LatestKey(inner, r))]
    /\ SlotView[r] # NoKey

SlotsRead ==
    /\ SlotView = [r \in Requests |-> SlotView[r]]
    /\ DOMAIN inner.latest \subseteq Requests
    /\ \A r \in Requests : r \notin DOMAIN inner.latest => SlotView[r] = NoKey
    /\ \A r \in DOMAIN inner.latest : \E d \in Calls : ReadsSlot(r, d)

StagesRead ==
    /\ StageView = [c \in Calls |-> StageView[c]]
    /\ \A c \in Calls :
        /\ phase[c] = "idle" <=> StageView[c] = "idle"
        /\ phase[c] \in Leading <=> StageView[c] = "executing"
        /\ phase[c] = "waiting" <=> StageView[c] = "awaiting"
        /\ phase[c] \in {"executed", "answered", "replayed"} <=> StageView[c] = "answered"
        /\ phase[c] \in {"dropped", "released", "refused", "gone"} <=> StageView[c] = "failed"

Views == SourcesRead /\ SlotsRead /\ StagesRead

-----------------------------------------------------------------------------

\* Under the invariant SourceView maps a call that has begun to the leader of
\* its generation.
LEMMA SourceViews == Inv /\ Sourced => SourcesRead
<1> SUFFICES ASSUME Inv, Sourced PROVE SourcesRead
  BY Zenon
<1>1. ASSUME NEW c \in Calls, ~Begun(c) PROVE SourceView[c] = NoReply
  BY <1>1, Zenon DEF Sourced, SourceView
<1>2. ASSUME NEW c \in Calls, NEW d \in Calls, Begun(c), IsLeader(d), key[d] = key[c]
      PROVE  SourceView[c] = d
  <2>1. key[c] # NoKey
    BY <1>2, NoKeyIsNone, Zenon DEF Inv, CallInv, Keys
  <2>2. \A e \in Calls : IsLeader(e) /\ key[e] = key[c] => e = d
    BY <1>2, Zenon DEF Inv, CallInv, OneLeader
  <2>3. SourceView[c] = CHOOSE e \in Calls : IsLeader(e) /\ key[e] = key[c]
    BY <2>1, Zenon DEF SourceView
  <2> QED BY <1>2, <2>2, <2>3, Zenon
<1>3. SourceView = [c \in Calls |-> SourceView[c]]
  BY DEF SourceView
<1> QED BY <1>1, <1>2, <1>3, Zenon DEF SourcesRead

\* An entry has one leader, and LeaderOf is it.
LEMMA EntryLeader ==
    ASSUME Inv, NEW k \in DOMAIN inner.entries
    PROVE  LeaderOf(k) \in Calls /\ IsLeader(LeaderOf(k)) /\ key[LeaderOf(k)] = k
<1>1. CASE Completed(inner, k)
  <2>1. LeaderOf(k) = inner.entries[k].encoded_reply.by
    BY <1>1, Zenon DEF LeaderOf
  <2>2. k \in CompletedKeys(inner)
    BY <1>1, Zenon DEF Completed, CompletedKeys
  <2>3. /\ inner.entries[k].encoded_reply \in Reply
        /\ phase[inner.entries[k].encoded_reply.by] = "executed"
        /\ key[inner.entries[k].encoded_reply.by] = k
    BY <2>2, Zenon DEF Inv, CallInv, Stored
  <2> QED BY <2>1, <2>3, Zenon DEF Reply, IsLeader
<1>2. CASE ~Completed(inner, k)
  <2>1. LeaderOf(k) = CHOOSE c \in Calls : phase[c] \in Leading /\ key[c] = k
    BY <1>2, Zenon DEF LeaderOf
  <2>2. inner.entries[k] \in InFlightState \cup CompletedState
    BY Zenon DEF Inv, CacheInv, CacheTyped
  <2>3. InFlight(inner, k)
    BY <1>2, <2>2, Zenon DEF InFlight, Completed, InFlightState, CompletedState
  <2>4. \E c \in Calls : phase[c] \in Leading /\ key[c] = k
    BY <2>3, Zenon DEF Inv, CallInv, Leases
  <2> QED BY <2>1, <2>4, Zenon DEF IsLeader
<1> QED BY <1>1, <1>2, Zenon

\* Under the invariant SlotView reads the newest generation of each request out
\* of the latest index.
LEMMA SlotViews == Inv => SlotsRead
<1> SUFFICES ASSUME Inv PROVE SlotsRead
  BY Zenon
<1>1. DOMAIN inner.latest \subseteq Requests
  BY Zenon DEF Inv, CacheInv, CacheTyped
<1>2. \A r \in Requests : r \notin DOMAIN inner.latest => SlotView[r] = NoKey
  BY Zenon DEF SlotView
<1>3. ASSUME NEW r \in DOMAIN inner.latest PROVE \E d \in Calls : ReadsSlot(r, d)
  <2> DEFINE k == LatestKey(inner, r)
             d == LeaderOf(k)
  <2>1. k \in DOMAIN inner.entries
    BY Zenon DEF Inv, CacheInv
  <2>2. d \in Calls /\ IsLeader(d) /\ key[d] = k
    BY <2>1, EntryLeader, Zenon
  <2>3. SlotView[r] = [fingerprint |-> inner.latest[r].fingerprint, leader |-> d,
                       answered |-> Completed(inner, k)]
    BY <1>1, Zenon DEF SlotView
  <2>4. inner.latest[r].fingerprint \in Fingerprints
    BY Zenon DEF Inv, CacheInv, CacheTyped, LatestGeneration
  <2>5. Completed(inner, k) \in BOOLEAN
    BY Zenon DEF Completed
  <2>6. SlotView[r] \in Service!Slots
    BY <2>2, <2>3, <2>4, <2>5 DEF Service!Slots
  <2> QED BY <2>2, <2>3, <2>6, NoKeyIsNone, Zenon DEF ReadsSlot
<1>4. SlotView = [r \in Requests |-> SlotView[r]]
  BY Zenon DEF SlotView
<1> QED BY <1>1, <1>2, <1>3, <1>4, Zenon DEF SlotsRead

\* Under the invariant StageView reads the stage of a call out of its phase.
LEMMA StageViews == Inv => StagesRead
<1>f. StageView = [c \in Calls |-> StageView[c]]
  BY DEF StageView
<1> SUFFICES ASSUME Inv, NEW c \in Calls
             PROVE  /\ phase[c] = "idle" <=> StageView[c] = "idle"
                    /\ phase[c] \in Leading <=> StageView[c] = "executing"
                    /\ phase[c] = "waiting" <=> StageView[c] = "awaiting"
                    /\ phase[c] \in {"executed", "answered", "replayed"} <=> StageView[c] = "answered"
                    /\ phase[c] \in {"dropped", "released", "refused", "gone"} <=> StageView[c] = "failed"
  BY <1>f, Zenon DEF StagesRead
<1>1. phase[c] \in Phases
  BY Zenon DEF Inv, CallTyped
<1> QED BY <1>1, Zenon DEF StageView, Phases, Leading
-----------------------------------------------------------------------------
(* Leaders stay leaders, so every call keeps its source.                    *)

Steady == \A d \in Calls : IsLeader(d) => IsLeader(d)' /\ key'[d] = key[d]

\* A step of one call that does not lead
LEMMA OneCallSources ==
    ASSUME Sourced, NEW c \in Calls, phase[c] \in {"idle", "waiting"},
           \A d \in Calls \ {c} : phase'[d] = phase[d] /\ key'[d] = key[d],
           Begun(c)' => \E d \in Calls : IsLeader(d)' /\ key'[d] = key'[c],
           ~Begun(c)' => key'[c] = NoKey
    PROVE  Sourced' /\ Steady
<1>1. \A d \in Calls \ {c} : (IsLeader(d)' <=> IsLeader(d)) /\ (Begun(d)' <=> Begun(d))
  BY Zenon DEF IsLeader, Begun
<1>2. ~IsLeader(c)
  BY Zenon DEF IsLeader, Leading
<1>3. Steady
  BY <1>1, <1>2, Zenon DEF Steady
<1>4. ASSUME NEW d \in Calls, Begun(d)' PROVE \E e \in Calls : IsLeader(e)' /\ key'[e] = key'[d]
  BY <1>1, <1>2, <1>4 DEF Sourced
<1>5. ASSUME NEW d \in Calls, ~Begun(d)' PROVE key'[d] = NoKey
  BY <1>1, <1>5, Zenon DEF Sourced
<1> QED BY <1>3, <1>4, <1>5, Zenon DEF Sourced

\* A step that moves leaders to leaders, and calls that began to calls that began
LEMMA SameKeysSources ==
    ASSUME Sourced, UNCHANGED key,
           \A d \in Calls : (IsLeader(d) => IsLeader(d)') /\ (Begun(d)' <=> Begun(d))
    PROVE  Sourced' /\ Steady
<1>1. Steady
  BY Zenon DEF Steady
<1>2. ASSUME NEW d \in Calls, Begun(d)' PROVE \E e \in Calls : IsLeader(e)' /\ key'[e] = key'[d]
  BY <1>2, Zenon DEF Sourced
<1>3. ASSUME NEW d \in Calls, ~Begun(d)' PROVE key'[d] = NoKey
  BY <1>3, Zenon DEF Sourced
<1> QED BY <1>1, <1>2, <1>3, Zenon DEF Sourced

\* Who is released was waiting.
LEMMA ReleasePhases ==
    ASSUME Inv, NEW c \in Calls, phase[c] \in Leading, NEW p, NEW q, NEW rep, Release(key[c], c, p, q, rep)
    PROVE  /\ phase'[c] = q
           /\ \A d \in Calls \ {c} : phase[d] = "waiting" /\ key[d] = key[c] => phase'[d] = p
           /\ \A d \in Calls \ {c} : ~(phase[d] = "waiting" /\ key[d] = key[c]) => phase'[d] = phase[d]
<1> DEFINE served == Open(inner.entries[key[c]].waiters)
<1>1. InFlight(inner, key[c])
  BY LeaderFacts, Zenon
<1>2. \A d \in Calls : d \in served <=> phase[d] = "waiting" /\ key[d] = key[c]
  <2>1. \A d \in Calls : phase[d] = "waiting" => d \in inner.entries[key[d]].waiters
    BY Zenon DEF Inv, CallInv, Waiters
  <2>2. \A d \in inner.entries[key[c]].waiters : key[d] = key[c]
    BY <1>1, Zenon DEF Inv, CallInv, Waiters, InFlight
  <2> QED BY <2>1, <2>2, Zenon DEF Open
<1>3. phase' = [d \in Calls |-> IF d = c THEN q ELSE IF d \in served THEN p ELSE phase[d]]
  BY Zenon DEF Release
<1> HIDE DEF served
<1> QED BY <1>2, <1>3, Zenon

\* Every step leaves each generation its one leader, and a call that has begun
\* keeps its key.
LEMMA SourcedNext ==
    ASSUME Inv, Sourced, [Next]_vars
    PROVE  Sourced' /\ Steady
<1>t. CallTyped
  BY Zenon DEF Inv
<1>1. ASSUME NEW c \in Calls, NEW r \in Requests, NEW f \in Fingerprints, NEW t, BeginWait(c, r, f, t)
      PROVE  Sourced' /\ Steady
  <2> DEFINE cache == Expire(inner, t)
             k == LatestKey(cache, r)
  <2>1. /\ phase[c] = "idle" /\ phase'[c] = "waiting" /\ key'[c] = k /\ InFlight(cache, k)
        /\ \A d \in Calls \ {c} : phase'[d] = phase[d] /\ key'[d] = key[d]
    BY <1>1, <1>t, Zenon DEF BeginWait, CallTyped
  <2>2. CallInv(cache)
    BY ExpireInv, Zenon
  <2> HIDE DEF cache, k
  <2>3. PICK d \in Calls : phase[d] \in Leading /\ key[d] = k
    BY <2>1, <2>2, Zenon DEF CallInv, Leases, InFlight
  <2>4. IsLeader(d)' /\ key'[d] = key'[c]
    BY <2>1, <2>3, Zenon DEF IsLeader, Leading
  <2>5. Begun(c)'
    BY <2>1, Zenon DEF Begun
  <2> QED BY <2>1, <2>4, <2>5, OneCallSources, Zenon
<1>2. ASSUME NEW c \in Calls, NEW r \in Requests, NEW f \in Fingerprints, NEW t, BeginReplay(c, r, f, t)
      PROVE  Sourced' /\ Steady
  <2> DEFINE cache == Expire(inner, t)
             k == LatestKey(cache, r)
  <2>1. /\ phase[c] = "idle" /\ phase'[c] = "replayed" /\ key'[c] = k /\ Completed(cache, k)
        /\ \A d \in Calls \ {c} : phase'[d] = phase[d] /\ key'[d] = key[d]
    BY <1>2, <1>t, Zenon DEF BeginReplay, CallTyped
  <2>2. CallInv(cache)
    BY ExpireInv, Zenon
  <2> HIDE DEF cache, k
  <2>3. PICK d \in Calls : phase[d] = "executed" /\ key[d] = k
    BY <2>1, <2>2, Zenon DEF CallInv, Stored, CompletedKeys, Completed, Reply
  <2>4. IsLeader(d)' /\ key'[d] = key'[c]
    BY <2>1, <2>3, Zenon DEF IsLeader
  <2>5. Begun(c)'
    BY <2>1, Zenon DEF Begun
  <2> QED BY <2>1, <2>4, <2>5, OneCallSources, Zenon
<1>3. ASSUME NEW c \in Calls, NEW r \in Requests, NEW f \in Fingerprints, NEW t, BeginRefused(c, r, f, t)
      PROVE  Sourced' /\ Steady
  <2>1. /\ phase[c] = "idle" /\ phase'[c] = "refused" /\ key' = key
        /\ \A d \in Calls \ {c} : phase'[d] = phase[d]
    BY <1>3, <1>t, Zenon DEF BeginRefused, CallTyped
  <2>2. ~Begun(c)' /\ key'[c] = NoKey
    BY <2>1, Zenon DEF Begun, Sourced
  <2> QED BY <2>1, <2>2, OneCallSources, Zenon
<1>4. ASSUME NEW c \in Calls, NEW r \in Requests, NEW f \in Fingerprints, NEW t, BeginExecute(c, r, f, t)
      PROVE  Sourced' /\ Steady
  <2>1. /\ phase[c] = "idle" /\ phase'[c] = "leading"
        /\ \A d \in Calls \ {c} : phase'[d] = phase[d] /\ key'[d] = key[d]
    BY <1>4, <1>t, Zenon DEF BeginExecute, CallTyped
  <2>2. IsLeader(c)' /\ Begun(c)'
    BY <2>1, Zenon DEF IsLeader, Begun, Leading
  <2> QED BY <2>1, <2>2, OneCallSources, Zenon
<1>5. ASSUME NEW c \in Calls, NEW s \in ReplyShapes, CompleteProbe(c, s)
      PROVE  Sourced' /\ Steady
  <2>1. /\ phase[c] = "leading" /\ phase'[c] = "storing" /\ key' = key
        /\ \A d \in Calls \ {c} : phase'[d] = phase[d]
    BY <1>5, <1>t, Zenon DEF CompleteProbe, CallTyped
  <2> QED BY <2>1, SameKeysSources, Zenon DEF IsLeader, Begun, Leading
<1>6. ASSUME NEW c \in Calls, CompleteStore(c) \/ Cancel(c)
      PROVE  Sourced' /\ Steady
  <2>1. /\ phase[c] \in Leading /\ phase'[c] \in {"executed", "dropped"} /\ key' = key
        /\ \A d \in Calls \ {c} : phase'[d] = phase[d] \/
                                  (phase[d] = "waiting" /\ phase'[d] \in {"answered", "released"})
    <3>1. CASE CompleteStore(c)
      <4>1. phase[c] = "storing" /\ Release(key[c], c, "answered", "executed", reply[c]) /\ key' = key
        BY <3>1, Zenon DEF CompleteStore
      <4>2. phase[c] \in Leading
        BY <4>1, Zenon DEF Leading
      <4>3. /\ phase'[c] = "executed"
            /\ \A d \in Calls \ {c} : phase[d] = "waiting" /\ key[d] = key[c] => phase'[d] = "answered"
            /\ \A d \in Calls \ {c} : ~(phase[d] = "waiting" /\ key[d] = key[c]) => phase'[d] = phase[d]
        BY <4>1, <4>2, ReleasePhases, Zenon
      <4> QED BY <4>1, <4>2, <4>3, Zenon
    <3>2. CASE Cancel(c)
      <4>1. phase[c] = "leading" /\ Release(key[c], c, "released", "dropped", NoReply) /\ key' = key
        BY <3>2, Zenon DEF Cancel
      <4> QED BY <4>1, ReleasePhases DEF Leading
    <3> QED BY <1>6, <3>1, <3>2, Zenon
  <2> QED BY <2>1, SameKeysSources, Zenon DEF IsLeader, Begun, Leading
<1>7. ASSUME NEW c \in Calls, WaiterGone(c)
      PROVE  Sourced' /\ Steady
  <2>1. /\ phase[c] = "waiting" /\ phase'[c] = "gone" /\ key' = key
        /\ \A d \in Calls \ {c} : phase'[d] = phase[d]
    BY <1>7, <1>t, Zenon DEF WaiterGone, CallTyped
  <2> QED BY <2>1, SameKeysSources, Zenon DEF IsLeader, Begun, Leading
<1>8. CASE Tick \/ UNCHANGED vars
  BY <1>8, SameKeysSources, Zenon DEF Tick, vars, IsLeader, Begun
<1> QED BY <1>1, <1>2, <1>3, <1>4, <1>5, <1>6, <1>7, <1>8, Zenon DEF Next, Begin

-----------------------------------------------------------------------------
(* How the views change with a step.                                        *)

Steps == Inv /\ Views /\ Sourced /\ Inv' /\ Views' /\ Sourced' /\ Steady

\* A call that neither begins nor ends its beginning keeps its source.
LEMMA SourceKept ==
    ASSUME Steps, NEW c \in Calls, Begun(c)' <=> Begun(c), key'[c] = key[c]
    PROVE  SourceView'[c] = SourceView[c]
<1>1. CASE Begun(c)
  <2>1. PICK d \in Calls : IsLeader(d) /\ key[d] = key[c]
    BY <1>1, Zenon DEF Steps, Sourced
  <2>2. IsLeader(d)' /\ key'[d] = key'[c]
    BY <2>1, Zenon DEF Steps, Steady
  <2>3. SourceView[c] = d
    BY <1>1, <2>1, Zenon DEF Steps, Views, SourcesRead
  <2>4. SourceView'[c] = d
    BY <1>1, <2>2, Zenon DEF Steps, Views, SourcesRead
  <2> QED BY <2>3, <2>4, Zenon
<1>2. CASE ~Begun(c)
  BY <1>2, Zenon DEF Steps, Views, SourcesRead
<1> QED BY <1>1, <1>2, Zenon

\* If no call begins, no source changes.
LEMMA SourcesKept ==
    ASSUME Steps, \A c \in Calls : (Begun(c)' <=> Begun(c)) /\ key'[c] = key[c]
    PROVE  SourceView' = SourceView
<1>1. \A c \in Calls : SourceView'[c] = SourceView[c]
  BY SourceKept, Zenon
<1>2. /\ SourceView = [c \in Calls |-> SourceView[c]]
      /\ SourceView' = [c \in Calls |-> SourceView'[c]]
  BY Zenon DEF Steps, Views, SourcesRead
<1> QED BY <1>1, <1>2, Zenon

\* A call that begins gets the leader of its generation as its source, and no
\* other source changes.
LEMMA SourceSet ==
    ASSUME Steps, NEW c \in Calls, NEW d \in Calls, Begun(c)', IsLeader(d)', key'[d] = key'[c],
           \A e \in Calls \ {c} : (Begun(e)' <=> Begun(e)) /\ key'[e] = key[e]
    PROVE  SourceView' = [SourceView EXCEPT ![c] = d]
<1>1. \A e \in Calls \ {c} : SourceView'[e] = SourceView[e]
  BY SourceKept, Zenon
<1>2. SourceView'[c] = d
  BY Zenon DEF Steps, Views, SourcesRead
<1>3. /\ SourceView = [e \in Calls |-> SourceView[e]]
      /\ SourceView' = [e \in Calls |-> SourceView'[e]]
  BY Zenon DEF Steps, Views, SourcesRead
<1>4. [SourceView EXCEPT ![c] = d] = [e \in Calls |-> IF e = c THEN d ELSE SourceView[e]]
  BY <1>3, Zenon
<1> QED BY <1>1, <1>2, <1>3, <1>4, Zenon

\* A call keeps its stage while it keeps its phase.
LEMMA StageKept ==
    ASSUME Steps, NEW c \in Calls, phase'[c] = phase[c]
    PROVE  StageView'[c] = StageView[c]
<1>1. phase[c] \in Phases
  BY Zenon DEF Steps, Inv, CallTyped
<1> QED BY <1>1 DEF StageView

\* If one call changes its phase, only its stage changes.
LEMMA StageSet ==
    ASSUME Steps, NEW c \in Calls, \A d \in Calls \ {c} : phase'[d] = phase[d]
    PROVE  StageView' = [StageView EXCEPT ![c] = StageView'[c]]
<1>1. \A d \in Calls \ {c} : StageView'[d] = StageView[d]
  BY StageKept, Zenon
<1>2. /\ StageView = [d \in Calls |-> StageView[d]]
      /\ StageView' = [d \in Calls |-> StageView'[d]]
  BY Zenon DEF Steps, Views, StagesRead
<1>3. [StageView EXCEPT ![c] = StageView'[c]]
      = [d \in Calls |-> IF d = c THEN StageView'[c] ELSE StageView[d]]
  BY <1>2, Zenon
<1> QED BY <1>1, <1>2, <1>3, Zenon

\* The slot of a request whose latest generation stays, and stays what it is
LEMMA SlotKept ==
    ASSUME Steps, NEW r \in DOMAIN inner.latest, r \in DOMAIN inner'.latest,
           inner'.latest[r] = inner.latest[r],
           Completed(inner', LatestKey(inner, r)) <=> Completed(inner, LatestKey(inner, r))
    PROVE  SlotView'[r] = SlotView[r]
<1> DEFINE k == LatestKey(inner, r)
<1>1. LatestKey(inner', r) = k
  BY Zenon DEF LatestKey
<1>2. PICK d \in Calls :
          /\ IsLeader(d) /\ key[d] = k
          /\ SlotView[r] = [fingerprint |-> inner.latest[r].fingerprint, leader |-> d,
                            answered |-> Completed(inner, k)]
  BY Zenon DEF Steps, Views, SlotsRead, ReadsSlot
<1>3. PICK e \in Calls :
          /\ IsLeader(e)' /\ key'[e] = k
          /\ SlotView'[r] = [fingerprint |-> inner'.latest[r].fingerprint, leader |-> e,
                             answered |-> Completed(inner', k)]
  BY <1>1 DEF Steps, Views, SlotsRead, ReadsSlot
<1>4. IsLeader(d)' /\ key'[d] = k
  BY <1>2, Zenon DEF Steps, Steady
<1>5. d = e
  BY <1>3, <1>4, Zenon DEF Steps, Inv, CallInv, OneLeader
<1>6. Completed(inner', k) = Completed(inner, k)
  BY Zenon DEF Completed
<1> QED BY <1>2, <1>3, <1>5, <1>6, Zenon

\* A request whose newest generation is completed has an answered slot, which
\* may be forgotten.
LEMMA SlotAnswered ==
    ASSUME Steps, NEW r \in DOMAIN inner.latest, Completed(inner, LatestKey(inner, r))
    PROVE  r \in Service!Answered
<1>1. r \in Requests
  BY Zenon DEF Steps, Views, SlotsRead
<1>2. PICK d \in Calls :
        /\ SlotView[r] = [fingerprint |-> inner.latest[r].fingerprint, leader |-> d,
                          answered |-> Completed(inner, LatestKey(inner, r))]
        /\ SlotView[r] # NoKey
  BY Zenon DEF Steps, Views, SlotsRead, ReadsSlot
<1>3. Completed(inner, LatestKey(inner, r)) = TRUE
  BY Zenon DEF Completed
<1>4. SlotView[r].answered = TRUE
  BY <1>2, <1>3
<1> QED BY <1>1, <1>2, <1>4, Zenon DEF Service!Answered

\* b has the latest generations of a, but for some that were retained replies
\* and for those of the requests of X.
SlotsShrink(a, b, X) ==
    /\ DOMAIN b.latest \ X \subseteq DOMAIN a.latest
    /\ \A r \in DOMAIN b.latest \ X :
          /\ b.latest[r] = a.latest[r]
          /\ Completed(b, LatestKey(a, r)) <=> Completed(a, LatestKey(a, r))
    /\ \A r \in DOMAIN a.latest \ X : r \notin DOMAIN b.latest => Completed(a, LatestKey(a, r))

\* Expiry and eviction only shrink the slots.
LEMMA ShrinksSlots ==
    ASSUME NEW a, NEW b, CacheInv(b, {}), Shrinks(a, b)
    PROVE  SlotsShrink(a, b, {})
<1>1. ASSUME NEW r \in DOMAIN b.latest
      PROVE  /\ b.latest[r] = a.latest[r]
             /\ Completed(b, LatestKey(a, r)) <=> Completed(a, LatestKey(a, r))
  <2>1. b.latest[r] = a.latest[r] /\ LatestKey(b, r) = LatestKey(a, r)
    BY Zenon DEF Shrinks, LatestKey
  <2>2. LatestKey(a, r) \in DOMAIN b.entries
    BY <2>1, Zenon DEF CacheInv
  <2> QED BY <2>1, <2>2, Zenon DEF Shrinks, Completed
<1>2. \A r \in DOMAIN a.latest \ DOMAIN b.latest : Completed(a, LatestKey(a, r))
  BY Zenon DEF Shrinks, CompletedKeys, Completed
<1> QED BY <1>1, <1>2, Zenon DEF SlotsShrink, Shrinks

Lost == DOMAIN inner.latest \ DOMAIN inner'.latest

\* A slot that the cache drops was answered, and the others stay as they are.
LEMMA SlotForgotten ==
    ASSUME Steps, NEW X, SlotsShrink(inner, inner', X), NEW r \in Requests \ X
    PROVE  /\ r \in Lost => r \in Service!Answered
           /\ SlotView'[r] = IF r \in Lost THEN NoKey ELSE SlotView[r]
<1>1. r \in Lost => r \in Service!Answered
  BY SlotAnswered, Zenon DEF SlotsShrink, Lost
<1>2. CASE r \in Lost \/ r \notin DOMAIN inner.latest
  BY <1>1, <1>2, Zenon DEF Steps, Views, SlotsRead, Lost, SlotsShrink
<1>3. CASE r \notin Lost /\ r \in DOMAIN inner.latest
  BY <1>1, <1>3, SlotKept, Zenon DEF SlotsShrink, Lost
<1> QED BY <1>2, <1>3, Zenon

\* What expiry and eviction drop is what the service may forget.
LEMMA SlotsForgotten ==
    ASSUME Steps, SlotsShrink(inner, inner', {})
    PROVE  Lost \in SUBSET Service!Answered /\ SlotView' = Service!Forget(Lost)
<1>1. DOMAIN inner.latest \subseteq Requests
  BY Zenon DEF Steps, Views, SlotsRead
<1>2. \A r \in Lost : r \in Service!Answered
  BY <1>1, SlotForgotten DEF Lost
<1>3. \A r \in Requests : SlotView'[r] = IF r \in Lost THEN NoKey ELSE SlotView[r]
  BY SlotForgotten
<1>4. SlotView' = [r \in Requests |-> SlotView'[r]]
  BY Zenon DEF Steps, Views, SlotsRead
<1> QED BY <1>2, <1>3, <1>4, Zenon DEF Service!Forget

\* The slots are read from the cache alone.
LEMMA SlotsKept ==
    ASSUME Steps, UNCHANGED inner
    PROVE  SlotView' = SlotView
<1>1. \A r \in Requests : SlotView'[r] = SlotView[r]
  BY SlotKept, Zenon DEF Steps, Views, SlotsRead
<1>2. /\ SlotView = [r \in Requests |-> SlotView[r]]
      /\ SlotView' = [r \in Requests |-> SlotView'[r]]
  BY Zenon DEF Steps, Views, SlotsRead
<1> QED BY <1>1, <1>2, Zenon

-----------------------------------------------------------------------------
(* Each action is a step of the service, or none.                           *)

\* The slot of a request that is in the cache after the expiry
LEMMA SlotOfHit ==
    ASSUME Steps, NEW cache, CacheInv(cache, {}), Shrinks(inner, cache),
           NEW r \in Requests, NEW f \in Fingerprints, Hit(cache, r, f)
    PROVE  /\ r \in DOMAIN inner.latest /\ LatestKey(cache, r) = LatestKey(inner, r)
           /\ Service!Matches(SlotView[r], f)
           /\ SlotView[r].answered = Completed(cache, LatestKey(cache, r))
           /\ SlotView[r].leader \in Calls
           /\ IsLeader(SlotView[r].leader) /\ key[SlotView[r].leader] = LatestKey(cache, r)
<1>1. /\ r \in DOMAIN inner.latest /\ LatestKey(cache, r) = LatestKey(inner, r)
      /\ inner.latest[r].fingerprint = f
  BY Zenon DEF Hit, Shrinks, LatestKey
<1>2. PICK d \in Calls :
          /\ IsLeader(d) /\ key[d] = LatestKey(inner, r)
          /\ SlotView[r] = [fingerprint |-> inner.latest[r].fingerprint, leader |-> d,
                            answered |-> Completed(inner, LatestKey(inner, r))]
          /\ SlotView[r] # NoKey
  BY <1>1, Zenon DEF Steps, Views, SlotsRead, ReadsSlot
<1>3. SlotView[r].fingerprint = f /\ SlotView[r].leader = d
      /\ SlotView[r].answered = Completed(inner, LatestKey(inner, r))
  BY <1>1, <1>2
<1>4. Completed(inner, LatestKey(inner, r)) = Completed(cache, LatestKey(cache, r))
  BY <1>1, Zenon DEF Completed, Hit, Shrinks
<1> QED BY <1>1, <1>2, <1>3, <1>4, Zenon DEF Service!Matches

\* A begin that waits is a Join of the service.
LEMMA JoinStep ==
    ASSUME Steps, NEW c \in Calls, NEW r \in Requests, NEW f \in Fingerprints, NEW t,
           BeginWait(c, r, f, t)
    PROVE  Service!Join(c, r, f)
<1> DEFINE cache == Expire(inner, t)
           k == LatestKey(cache, r)
           W == Joined(cache.entries[k].waiters, c)
<1>1. CacheInv(cache, {}) /\ Shrinks(inner, cache)
  BY ExpireInv, Zenon DEF Steps
<1>2. /\ phase[c] = "idle" /\ Hit(cache, r, f) /\ InFlight(cache, k)
      /\ inner' = [cache EXCEPT !.entries[k].waiters = W]
      /\ phase'[c] = "waiting" /\ key'[c] = k
      /\ \A d \in Calls \ {c} : phase'[d] = phase[d] /\ key'[d] = key[d]
  BY Zenon DEF BeginWait, Steps, Inv, CallTyped
<1> HIDE DEF cache, W
<1>3. /\ inner'.latest = cache.latest
      /\ DOMAIN inner'.entries = DOMAIN cache.entries
      /\ \A j \in DOMAIN cache.entries : inner'.entries[j].state = cache.entries[j].state
  <2>1. CacheTyped(cache)
    BY <1>1, Zenon DEF CacheInv
  <2>2. /\ inner'.latest = cache.latest
        /\ inner'.entries = [cache.entries EXCEPT ![k].waiters = W]
    BY <1>2, <2>1, Zenon DEF CacheTyped
  <2>3. cache.entries[k] \in InFlightState
    BY <1>2, <2>1, Zenon DEF InFlight, CacheTyped, InFlightState, CompletedState
  <2>4. inner'.entries[k].state = cache.entries[k].state
    BY <1>2, <2>1, <2>2, <2>3, Zenon DEF InFlight, CacheTyped, InFlightState
  <2> QED BY <2>1, <2>2, <2>4, Zenon DEF CacheTyped
<1>4. SlotsShrink(inner, inner', {})
  <2>1. SlotsShrink(inner, cache, {})
    BY <1>1, ShrinksSlots, Zenon
  <2>2. \A j : Completed(inner', j) <=> Completed(cache, j)
    BY <1>3, Zenon DEF Completed
  <2> QED BY <1>3, <2>1, <2>2, Zenon DEF SlotsShrink
<1>5. \E S \in SUBSET Service!Answered : SlotView' = Service!Forget(S)
  BY <1>4, SlotsForgotten, Zenon
<1>6. /\ Service!Matches(SlotView[r], f)
      /\ SlotView[r].answered = Completed(cache, k)
      /\ SlotView[r].leader \in Calls
      /\ IsLeader(SlotView[r].leader) /\ key[SlotView[r].leader] = k
  BY <1>1, <1>2, SlotOfHit, Zenon
<1>7. ~SlotView[r].answered
  BY <1>2, <1>6, Zenon DEF Completed, InFlight
<1>8. SourceView' = [SourceView EXCEPT ![c] = SlotView[r].leader]
  <2>1. PICK d \in Calls : d = SlotView[r].leader
    BY <1>6, Zenon
  <2>2. IsLeader(d)' /\ key'[d] = key'[c]
    BY <1>2, <1>6, <2>1, Zenon DEF Steps, Steady
  <2>3. Begun(c)' /\ \A e \in Calls \ {c} : (Begun(e)' <=> Begun(e)) /\ key'[e] = key[e]
    BY <1>2, Zenon DEF Begun
  <2> QED BY <2>1, <2>2, <2>3, SourceSet, Zenon
<1>9. StageView[c] = "idle" /\ StageView' = [StageView EXCEPT ![c] = "awaiting"]
  <2>1. StageView[c] = "idle" /\ StageView'[c] = "awaiting"
    BY <1>2, Zenon DEF Steps, Views, StagesRead
  <2> QED BY <1>2, <2>1, StageSet, Zenon
<1> QED BY <1>5, <1>6, <1>7, <1>8, <1>9, Zenon DEF Service!Join

\* A begin that replays is a Replay of the service.
LEMMA ReplayStep ==
    ASSUME Steps, NEW c \in Calls, NEW r \in Requests, NEW f \in Fingerprints, NEW t,
           BeginReplay(c, r, f, t)
    PROVE  Service!Replay(c, r, f)
<1> DEFINE cache == Expire(inner, t)
           k == LatestKey(cache, r)
<1>1. CacheInv(cache, {}) /\ Shrinks(inner, cache)
  BY ExpireInv, Zenon DEF Steps
<1>2. /\ phase[c] = "idle" /\ Hit(cache, r, f) /\ Completed(cache, k)
      /\ inner' = cache
      /\ phase'[c] = "replayed" /\ key'[c] = k
      /\ \A d \in Calls \ {c} : phase'[d] = phase[d] /\ key'[d] = key[d]
  BY Zenon DEF BeginReplay, Steps, Inv, CallTyped
<1> HIDE DEF cache
<1>3. SlotsShrink(inner, inner', {})
  BY <1>1, <1>2, ShrinksSlots, Zenon
<1>4. Lost \in SUBSET Service!Answered /\ SlotView' = Service!Forget(Lost)
  BY <1>3, SlotsForgotten, Zenon
<1>5. r \notin Lost
  BY <1>2, Zenon DEF Lost, Hit
<1>6. /\ Service!Matches(SlotView[r], f)
      /\ SlotView[r].answered = Completed(cache, k)
      /\ SlotView[r].leader \in Calls
      /\ IsLeader(SlotView[r].leader) /\ key[SlotView[r].leader] = k
  BY <1>1, <1>2, SlotOfHit, Zenon
<1>7. SlotView[r].answered
  BY <1>2, <1>6
<1>8. SourceView' = [SourceView EXCEPT ![c] = SlotView[r].leader]
  <2>1. PICK d \in Calls : d = SlotView[r].leader
    BY <1>6, Zenon
  <2>2. IsLeader(d)' /\ key'[d] = key'[c]
    BY <1>2, <1>6, <2>1, Zenon DEF Steps, Steady
  <2>3. Begun(c)' /\ \A e \in Calls \ {c} : (Begun(e)' <=> Begun(e)) /\ key'[e] = key[e]
    BY <1>2, Zenon DEF Begun
  <2> QED BY <2>1, <2>2, <2>3, SourceSet, Zenon
<1>9. StageView[c] = "idle" /\ StageView' = [StageView EXCEPT ![c] = "answered"]
  <2>1. StageView[c] = "idle" /\ StageView'[c] = "answered"
    BY <1>2, Zenon DEF Steps, Views, StagesRead
  <2> QED BY <1>2, <2>1, StageSet, Zenon
<1>10. \E S \in SUBSET (Service!Answered \ {r}) : SlotView' = Service!Forget(S)
  BY <1>4, <1>5, Zenon
<1> QED BY <1>6, <1>7, <1>8, <1>9, <1>10 DEF Service!Replay

\* A begin that is refused is a Refuse of the service.
LEMMA RefuseStep ==
    ASSUME Steps, NEW c \in Calls, NEW r \in Requests, NEW f \in Fingerprints, NEW t,
           BeginRefused(c, r, f, t)
    PROVE  Service!Refuse(c)
<1> DEFINE cache == Expire(inner, t)
           reused == RemoveCompletedForRequest(cache, r)
           b == EvictOldestCompleted(reused)
<1>1. CacheInv(cache, {}) /\ Shrinks(inner, cache)
  BY ExpireInv, Zenon DEF Steps
<1>2. /\ phase[c] = "idle" /\ inner' = b /\ phase'[c] = "refused" /\ key' = key
      /\ \A d \in Calls \ {c} : phase'[d] = phase[d]
  BY Zenon DEF BeginRefused, Steps, Inv, CallTyped
<1> HIDE DEF cache
<1>3. CacheInv(reused, {}) /\ Shrinks(cache, reused)
  BY <1>1, RemoveForRequestOK, Zenon
<1> HIDE DEF reused
<1>4. CacheInv(b, {}) /\ Shrinks(reused, b)
  BY <1>3, EvictOldestOK, Zenon
<1> HIDE DEF b
<1>5. /\ inner.completed_bytes \in Nat /\ cache.completed_bytes \in Nat
      /\ reused.completed_bytes \in Nat /\ b.completed_bytes \in Nat
  BY <1>1, <1>3, <1>4, Zenon DEF CacheInv, CacheTyped, Steps, Inv
<1>6. Shrinks(inner, b)
  BY <1>1, <1>3, <1>4, <1>5, ShrinksTransitive, Zenon
<1>7. SlotsShrink(inner, inner', {})
  BY <1>2, <1>4, <1>6, ShrinksSlots, Zenon
<1>8. \E S \in SUBSET Service!Answered : SlotView' = Service!Forget(S)
  BY <1>7, SlotsForgotten, Zenon
<1>9. SourceView' = SourceView
  <2>1. \A d \in Calls : (Begun(d)' <=> Begun(d)) /\ key'[d] = key[d]
    BY <1>2, Zenon DEF Begun
  <2> QED BY <2>1, SourcesKept, Zenon
<1>10. StageView[c] = "idle" /\ StageView' = [StageView EXCEPT ![c] = "failed"]
  <2>1. StageView[c] = "idle" /\ StageView'[c] = "failed"
    BY <1>2, Zenon DEF Steps, Views, StagesRead
  <2> QED BY <1>2, <2>1, StageSet, Zenon
<1> QED BY <1>8, <1>9, <1>10, Zenon DEF Service!Refuse

\* A begin that starts a generation is an Execute of the service: what it
\* removes by TTL, by XID or by eviction had been answered.
LEMMA ExecuteStep ==
    ASSUME Steps, NEW c \in Calls, NEW r \in Requests, NEW f \in Fingerprints, NEW t,
           BeginExecute(c, r, f, t)
    PROVE  Service!Execute(c, r, f)
<1> DEFINE cache == Expire(inner, t)
           reused == RemoveCompletedForRequest(cache, r)
           room == IF Full(reused) THEN EvictOldestCompleted(reused) ELSE reused
           k == [request |-> r, fingerprint |-> f, generation |-> inner.next_generation]
           lat == [fingerprint |-> f, generation |-> inner.next_generation]
<1>1. CacheInv(cache, {}) /\ Shrinks(inner, cache)
  BY ExpireInv, Zenon DEF Steps
<1>2. /\ phase[c] = "idle" /\ ~Hit(cache, r, f) /\ inner' = StartGeneration(room, k)
      /\ phase'[c] = "leading" /\ key'[c] = k
      /\ \A d \in Calls \ {c} : phase'[d] = phase[d] /\ key'[d] = key[d]
  BY Zenon DEF BeginExecute, Steps, Inv, CallTyped
<1>3. r \in DOMAIN cache.latest => cache.latest[r].fingerprint # f
  BY <1>1, <1>2, Zenon DEF Hit, CacheInv
<1> HIDE DEF cache
<1>4. CacheInv(reused, {}) /\ Shrinks(cache, reused)
  BY <1>1, RemoveForRequestOK, Zenon
<1> HIDE DEF reused
<1>5. /\ inner.completed_bytes \in Nat /\ cache.completed_bytes \in Nat
      /\ reused.completed_bytes \in Nat
  BY <1>1, <1>4, Zenon DEF CacheInv, CacheTyped, Steps, Inv
<1>6. CacheInv(room, {}) /\ Shrinks(reused, room)
  <2>1. CASE Full(reused)
    BY <1>4, <2>1, EvictOldestOK, Zenon
  <2>2. CASE ~Full(reused)
    BY <1>4, <1>5, <2>2, ShrinksReflexive, Zenon
  <2> QED BY <2>1, <2>2, Zenon
<1> HIDE DEF room
<1>7. room.completed_bytes \in Nat
  BY <1>6, Zenon DEF CacheInv, CacheTyped
<1>8. Shrinks(cache, room) /\ Shrinks(inner, room)
  <2>1. Shrinks(cache, room)
    BY <1>4, <1>5, <1>6, <1>7, ShrinksTransitive, Zenon
  <2> QED BY <1>1, <1>5, <1>7, <2>1, ShrinksTransitive, Zenon
<1>9. r \in DOMAIN room.latest => room.latest[r].fingerprint # f
  BY <1>3, <1>8, Zenon DEF Shrinks
<1>10. /\ inner'.latest = Put(room.latest, r, lat)
       /\ inner'.entries = Put(room.entries, k, [state |-> "InFlight", waiters |-> {}])
  <2>1. CacheTyped(room)
    BY <1>6, Zenon DEF CacheInv
  <2> QED BY <1>2, <2>1, Zenon DEF StartGeneration, CacheTyped
<1>k. /\ \A q : q # r => LatestKey(inner, q) # k
      /\ \A cch : r \in DOMAIN cch.latest /\ cch.latest[r] = lat => LatestKey(cch, r) = k
      /\ lat.fingerprint = f
  BY DEF LatestKey
<1> HIDE DEF k, lat
<1>11. /\ DOMAIN inner'.latest = DOMAIN room.latest \cup {r}
       /\ inner'.latest[r] = lat
       /\ \A q \in DOMAIN room.latest \ {r} : inner'.latest[q] = room.latest[q]
       /\ \A j : j # k => (Completed(inner', j) <=> Completed(room, j))
       /\ Completed(inner', k) = FALSE
  <2>1. /\ inner'.entries[k] = [state |-> "InFlight", waiters |-> {}]
        /\ DOMAIN inner'.entries = DOMAIN room.entries \cup {k}
        /\ \A j \in DOMAIN room.entries \ {k} : inner'.entries[j] = room.entries[j]
    BY <1>10, Zenon DEF Put
  <2>2. /\ DOMAIN inner'.latest = DOMAIN room.latest \cup {r}
        /\ inner'.latest[r] = lat
        /\ \A q \in DOMAIN room.latest \ {r} : inner'.latest[q] = room.latest[q]
    BY <1>10, Zenon DEF Put
  <2> QED BY <2>1, <2>2 DEF Completed
<1> DEFINE S == DOMAIN inner.latest \ DOMAIN room.latest
<1>12. SlotsShrink(inner, room, {})
  BY <1>6, <1>8, ShrinksSlots, Zenon
<1>13. SlotsShrink(inner, inner', {r})
  BY <1>k, <1>11, <1>12, Zenon DEF SlotsShrink
<1>14. S \in SUBSET Service!Answered
  BY <1>12, SlotAnswered, Zenon DEF SlotsShrink
<1>15. ~Service!Matches(Service!Forget(S)[r], f)
  <2>1. CASE r \in S
    BY <2>1, Zenon DEF Service!Forget, Service!Matches
  <2>2. CASE r \notin DOMAIN inner.latest
    BY <2>2, Zenon DEF Service!Forget, Service!Matches, Steps, Views, SlotsRead
  <2>3. CASE r \in DOMAIN inner.latest /\ r \notin S
    <3>1. inner.latest[r].fingerprint # f
      BY <1>8, <1>9, <2>3, Zenon DEF Shrinks
    <3>d. PICK d \in Calls :
              SlotView[r] = [fingerprint |-> inner.latest[r].fingerprint, leader |-> d,
                             answered |-> Completed(inner, LatestKey(inner, r))]
      BY <2>3, Zenon DEF Steps, Views, SlotsRead, ReadsSlot
    <3>2. SlotView[r].fingerprint = inner.latest[r].fingerprint
      BY <3>d
    <3> QED BY <2>3, <3>1, <3>2, Zenon DEF Service!Forget, Service!Matches
  <2> QED BY <2>1, <2>2, <2>3, Zenon
<1>l. IsLeader(c)' /\ Begun(c)'
  BY <1>2, Zenon DEF IsLeader, Begun, Leading
<1>16. SlotView'[r] = [fingerprint |-> f, leader |-> c, answered |-> FALSE]
  <2>1. LatestKey(inner', r) = k
    BY <1>k, <1>11, Zenon
  <2>2. PICK e \in Calls :
          /\ IsLeader(e)' /\ key'[e] = k
          /\ SlotView'[r] = [fingerprint |-> inner'.latest[r].fingerprint, leader |-> e,
                             answered |-> Completed(inner', k)]
    BY <1>11, <2>1, Zenon DEF Steps, Views, SlotsRead, ReadsSlot
  <2>3. e = c
    BY <1>2, <1>l, <2>2, Zenon DEF Steps, Inv, CallInv, OneLeader
  <2> QED BY <1>k, <1>11, <2>2, <2>3, Zenon
<1>17. SlotView' = [Service!Forget(S) EXCEPT ![r] =
                       [fingerprint |-> f, leader |-> c, answered |-> FALSE]]
  <2> DEFINE new == [fingerprint |-> f, leader |-> c, answered |-> FALSE]
  <2> HIDE DEF new
  <2>1. \A q \in Requests \ {r} : SlotView'[q] = IF q \in Lost THEN NoKey ELSE SlotView[q]
    BY <1>13, SlotForgotten, Zenon
  <2>2. \A q \in Requests \ {r} : q \in Lost <=> q \in S
    BY <1>11, Zenon DEF Lost
  <2>3. SlotView' = [q \in Requests |-> SlotView'[q]]
    BY Zenon DEF Steps, Views, SlotsRead
  <2>4. SlotView'[r] = new
    BY <1>16, Zenon DEF new
  <2>5. [Service!Forget(S) EXCEPT ![r] = new]
        = [q \in Requests |-> IF q = r THEN new ELSE IF q \in S THEN NoKey ELSE SlotView[q]]
    BY Zenon DEF Service!Forget
  <2>6. SlotView' = [Service!Forget(S) EXCEPT ![r] = new]
    BY <2>1, <2>2, <2>3, <2>4, <2>5
  <2> QED BY <2>6, Zenon DEF new
<1>18. SourceView' = [SourceView EXCEPT ![c] = c]
  <2>1. \A e \in Calls \ {c} : (Begun(e)' <=> Begun(e)) /\ key'[e] = key[e]
    BY <1>2, Zenon DEF Begun
  <2> QED BY <1>l, <2>1, SourceSet, Zenon
<1>19. StageView[c] = "idle" /\ StageView' = [StageView EXCEPT ![c] = "executing"]
  <2>1. StageView[c] = "idle" /\ StageView'[c] = "executing"
    BY <1>2, Zenon DEF Steps, Views, StagesRead, Leading
  <2> QED BY <1>2, <2>1, StageSet, Zenon
<1> HIDE DEF S
<1> QED BY <1>14, <1>15, <1>17, <1>18, <1>19 DEF Service!Execute

\* The request whose slot a leader holds
LEMMA CurrentSlot ==
    ASSUME Steps, NEW c \in Calls, IsLeader(c), NEW r \in Requests
    PROVE  Service!IsCurrent(c, r) <=> r \in DOMAIN inner.latest /\ LatestKey(inner, r) = key[c]
<1>1. CASE r \notin DOMAIN inner.latest
  BY <1>1, Zenon DEF Steps, Views, SlotsRead, Service!IsCurrent
<1>2. CASE r \in DOMAIN inner.latest
  <2>1. PICK d \in Calls :
          /\ IsLeader(d) /\ key[d] = LatestKey(inner, r)
          /\ SlotView[r] = [fingerprint |-> inner.latest[r].fingerprint, leader |-> d,
                            answered |-> Completed(inner, LatestKey(inner, r))]
          /\ SlotView[r] # NoKey
    BY <1>2, Zenon DEF Steps, Views, SlotsRead, ReadsSlot
  <2>2. SlotView[r].leader = d
    BY <2>1
  <2>3. d = c <=> key[d] = key[c]
    BY <2>1, Zenon DEF Steps, Inv, CallInv, OneLeader
  <2> QED BY <1>2, <2>1, <2>2, <2>3 DEF Service!IsCurrent
<1> QED BY <1>1, <1>2, Zenon

\* The end of an execution: its slot is kept as answered or emptied, and
\* others that were answered may be lost.
LEMMA EndSlots ==
    ASSUME Steps, NEW c \in Calls, phase[c] \in Leading, IsLeader(c)', key' = key, NEW dep, NEW rep,
           dep.latest = inner.latest, CompletedKeys(dep) = CompletedKeys(inner),
           key[c] \notin DOMAIN dep.entries, Stores(dep, inner', key[c], rep),
           NEW r \in Requests
    PROVE  /\ ~Service!IsCurrent(c, r) =>
                 /\ r \in Lost => r \in Service!Answered
                 /\ SlotView'[r] = IF r \in Lost THEN NoKey ELSE SlotView[r]
           /\ Service!IsCurrent(c, r) =>
                 SlotView'[r] = IF Completed(inner', key[c])
                                THEN [fingerprint |-> SlotView[r].fingerprint, leader |-> c, answered |-> TRUE]
                                ELSE NoKey
<1> DEFINE k == key[c]
           X == {q \in Requests : Service!IsCurrent(c, q)}
<1>0. IsLeader(c) /\ k \in EntryKey
  BY LeaderFacts, Zenon DEF IsLeader, Steps
<1>1. \A q \in Requests : q \in X <=> q \in DOMAIN inner.latest /\ LatestKey(inner, q) = k
  BY <1>0, CurrentSlot, Zenon
<1>i. \A q \in DOMAIN inner.latest : IsLatest(inner, k) /\ q = k.request => LatestKey(inner, q) = k
  BY <1>0 DEF LatestKey, IsLatest, EntryKey
<1>d. DOMAIN inner.latest \subseteq Requests /\ DOMAIN inner'.latest \subseteq Requests
  BY Zenon DEF Steps, Views, SlotsRead
<1>s. /\ CacheInv(inner', {})
      /\ \A j : InFlight(inner', j) => InFlight(dep, j)
      /\ \A j \in CompletedKeys(inner') : j = k \/ j \in CompletedKeys(inner)
      /\ DOMAIN inner'.latest \subseteq DOMAIN inner.latest
      /\ \A q \in DOMAIN inner'.latest : inner'.latest[q] = inner.latest[q]
      /\ \A q \in DOMAIN inner.latest \ DOMAIN inner'.latest :
            (IsLatest(inner, k) /\ q = k.request) \/ LatestKey(inner, q) \in CompletedKeys(inner)
  <2>1. IsLatest(dep, k) <=> IsLatest(inner, k)
    BY Zenon DEF IsLatest
  <2>2. \A q : LatestKey(dep, q) = LatestKey(inner, q)
    BY Zenon DEF LatestKey
  <2> QED BY <2>1, <2>2, Zenon DEF Stores, SameFlights
<1>e. ASSUME NEW q \in DOMAIN inner'.latest
      PROVE  /\ LatestKey(inner', q) = LatestKey(inner, q)
             /\ LatestKey(inner, q) \in DOMAIN inner'.entries
             /\ InFlight(inner', LatestKey(inner, q)) \/ Completed(inner', LatestKey(inner, q))
  <2>1. LatestKey(inner', q) = LatestKey(inner, q)
    BY <1>s, Zenon DEF LatestKey
  <2>2. LatestKey(inner', q) \in DOMAIN inner'.entries
    BY <1>s, Zenon DEF CacheInv
  <2>3. inner'.entries[LatestKey(inner', q)] \in InFlightState \cup CompletedState
    BY <1>s, <2>2, Zenon DEF CacheInv, CacheTyped
  <2> QED BY <2>1, <2>2, <2>3, Zenon DEF InFlight, Completed, InFlightState, CompletedState
<1> HIDE DEF X, k
<1>2. SlotsShrink(inner, inner', X)
  <2>1. ASSUME NEW q \in DOMAIN inner'.latest \ X
        PROVE  /\ inner'.latest[q] = inner.latest[q]
               /\ Completed(inner', LatestKey(inner, q)) <=> Completed(inner, LatestKey(inner, q))
    <3>1. LatestKey(inner, q) # k
      BY <1>1, <1>d, <1>s, Zenon
    <3>2. Completed(inner', LatestKey(inner, q)) => Completed(inner, LatestKey(inner, q))
      BY <1>s, <3>1, Zenon DEF Completed, CompletedKeys
    <3>3. ASSUME Completed(inner, LatestKey(inner, q)) PROVE ~InFlight(inner', LatestKey(inner, q))
      <4>1. LatestKey(inner, q) \in CompletedKeys(dep)
        BY <3>3, Zenon DEF Completed, CompletedKeys
      <4>2. ~InFlight(dep, LatestKey(inner, q))
        BY <4>1, Zenon DEF InFlight, CompletedKeys
      <4> QED BY <1>s, <4>2, Zenon
    <3> QED BY <1>s, <1>e, <3>2, <3>3, Zenon
  <2>2. ASSUME NEW q \in DOMAIN inner.latest \ X, q \notin DOMAIN inner'.latest
        PROVE  Completed(inner, LatestKey(inner, q))
    <3>1. q \in Requests
      BY <1>d, Zenon
    <3>2. LatestKey(inner, q) \in CompletedKeys(inner)
      BY <1>1, <1>i, <1>s, <2>2, <3>1, Zenon
    <3> QED BY <3>2, Zenon DEF Completed, CompletedKeys
  <2> QED BY <1>s, <2>1, <2>2, Zenon DEF SlotsShrink
<1>3. ASSUME ~Service!IsCurrent(c, r)
      PROVE  /\ r \in Lost => r \in Service!Answered
             /\ SlotView'[r] = IF r \in Lost THEN NoKey ELSE SlotView[r]
  <2>1. r \in Requests \ X
    BY <1>3, Zenon DEF X
  <2> QED BY <1>2, <2>1, SlotForgotten, Zenon
<1>4. ASSUME Service!IsCurrent(c, r)
      PROVE  SlotView'[r] = IF Completed(inner', k)
                            THEN [fingerprint |-> SlotView[r].fingerprint, leader |-> c, answered |-> TRUE]
                            ELSE NoKey
  <2>1. r \in DOMAIN inner.latest /\ LatestKey(inner, r) = k
    BY <1>1, <1>4, Zenon DEF X
  <2>2. CASE r \in DOMAIN inner'.latest
    <3>1. ~InFlight(inner', k)
      BY <1>s, Zenon DEF InFlight, k
    <3>2. Completed(inner', k) /\ LatestKey(inner', r) = k
      BY <1>e, <2>1, <2>2, <3>1, Zenon
    <3>3. PICK d \in Calls :
            /\ IsLeader(d) /\ key[d] = k
            /\ SlotView[r] = [fingerprint |-> inner.latest[r].fingerprint, leader |-> d,
                              answered |-> Completed(inner, k)]
      BY <2>1, Zenon DEF Steps, Views, SlotsRead, ReadsSlot
    <3>4. PICK e \in Calls :
            /\ IsLeader(e)' /\ key'[e] = k
            /\ SlotView'[r] = [fingerprint |-> inner'.latest[r].fingerprint, leader |-> e,
                               answered |-> Completed(inner', k)]
      BY <2>2, <3>2, Zenon DEF Steps, Views, SlotsRead, ReadsSlot
    <3>5. d = e
      <4>1. IsLeader(d)' /\ key'[d] = k
        BY <3>3, Zenon DEF Steps, Steady
      <4> QED BY <3>4, <4>1, Zenon DEF Steps, Inv, CallInv, OneLeader
    <3>6. Completed(inner', k) = TRUE
      BY <3>2, Zenon DEF Completed
    <3>7. inner'.latest[r] = inner.latest[r]
      BY <1>s, <2>2, Zenon
    <3>8. SlotView[r].fingerprint = inner.latest[r].fingerprint
      BY <3>3
    <3>9. d = c
      BY <1>0, <3>3, Zenon DEF k, Steps, Inv, CallInv, OneLeader
    <3>10. SlotView'[r] = [fingerprint |-> SlotView[r].fingerprint, leader |-> c, answered |-> TRUE]
      BY <3>4, <3>5, <3>6, <3>7, <3>8, <3>9
    <3> QED BY <3>2, <3>10, Zenon
  <2>3. CASE r \notin DOMAIN inner'.latest
    <3>1. SlotView'[r] = NoKey
      BY <2>3, Zenon DEF Steps, Views, SlotsRead
    <3>2. ASSUME Completed(inner', k) PROVE FALSE
      <4>1. IsLatest(inner', k)
        BY <1>s, <3>2, Zenon DEF CacheInv, Completed, CompletedKeys
      <4>2. k.request = r
        BY <2>1, Zenon DEF LatestKey
      <4> QED BY <2>3, <4>1, <4>2, Zenon DEF IsLatest
    <3> QED BY <3>1, <3>2, Zenon
  <2> QED BY <2>2, <2>3, Zenon
<1> QED BY <1>3, <1>4, Zenon DEF k

\* The calls a leader's end reaches are the audience of the service.
LEMMA EndStages ==
    ASSUME Steps, NEW c \in Calls, phase[c] \in Leading, key' = key, NEW p, NEW q, NEW rep,
           Release(key[c], c, p, q, rep)
    PROVE  /\ StageView[c] = "executing"
           /\ \A d \in Calls : d \in Service!Audience(c) => phase'[d] = p \/ phase'[d] = q
           /\ \A d \in Calls : d \notin Service!Audience(c) => StageView'[d] = StageView[d]
           /\ StageView' = [d \in Calls |-> StageView'[d]]
<1>1. /\ phase'[c] = q
      /\ \A d \in Calls \ {c} : phase[d] = "waiting" /\ key[d] = key[c] => phase'[d] = p
      /\ \A d \in Calls \ {c} : ~(phase[d] = "waiting" /\ key[d] = key[c]) => phase'[d] = phase[d]
  BY ReleasePhases, Zenon DEF Steps
<1>2. IsLeader(c)
  BY Zenon DEF IsLeader
<1>3. ASSUME NEW d \in Calls \ {c}
      PROVE  d \in Service!Audience(c) <=> phase[d] = "waiting" /\ key[d] = key[c]
  <2>1. d \in Service!Audience(c) <=> StageView[d] = "awaiting" /\ SourceView[d] = c
    BY <1>3, Zenon DEF Service!Audience
  <2>2. StageView[d] = "awaiting" <=> phase[d] = "waiting"
    BY Zenon DEF Steps, Views, StagesRead
  <2>3. ASSUME phase[d] = "waiting" PROVE SourceView[d] = c <=> key[d] = key[c]
    <3>1. Begun(d)
      BY <2>3, Zenon DEF Begun
    <3>2. PICK e \in Calls : IsLeader(e) /\ key[e] = key[d]
      BY <3>1, Zenon DEF Steps, Sourced
    <3>3. SourceView[d] = e
      BY <3>1, <3>2, Zenon DEF Steps, Views, SourcesRead
    <3>4. key[e] = key[c] => e = c
      BY <1>2, <3>2, Zenon DEF Steps, Inv, CallInv, OneLeader
    <3> QED BY <3>2, <3>3, <3>4, Zenon
  <2> QED BY <2>1, <2>2, <2>3, Zenon
<1>4. c \in Service!Audience(c)
  BY Zenon DEF Service!Audience
<1>5. /\ \A d \in Calls : d \in Service!Audience(c) => phase'[d] = p \/ phase'[d] = q
      /\ \A d \in Calls : d \notin Service!Audience(c) => StageView'[d] = StageView[d]
  BY <1>1, <1>3, <1>4, StageKept, Zenon
<1>6. StageView' = [d \in Calls |-> StageView'[d]]
  BY Zenon DEF Steps, Views, StagesRead
<1>7. StageView[c] = "executing"
  BY Zenon DEF Steps, Views, StagesRead
<1> QED BY <1>5, <1>6, <1>7, Zenon

\* The end of an execution changes no source.
LEMMA EndSources ==
    ASSUME Steps, NEW c \in Calls, phase[c] \in Leading, key' = key, NEW p, NEW q, NEW rep,
           Release(key[c], c, p, q, rep), {p, q} \cap {"idle", "refused"} = {}
    PROVE  SourceView' = SourceView
<1>1. /\ phase'[c] = q
      /\ \A d \in Calls \ {c} : phase[d] = "waiting" /\ key[d] = key[c] => phase'[d] = p
      /\ \A d \in Calls \ {c} : ~(phase[d] = "waiting" /\ key[d] = key[c]) => phase'[d] = phase[d]
  BY ReleasePhases, Zenon DEF Steps
<1>2. \A d \in Calls : (Begun(d)' <=> Begun(d)) /\ key'[d] = key[d]
  BY <1>1, Zenon DEF Begun, Leading
<1> QED BY <1>2, SourcesKept, Zenon

\* What complete and cancel do to the cache
LEMMA CompleteStores ==
    ASSUME Inv, NEW c \in Calls, CompleteStore(c)
    PROVE  LET dep == Departed(inner, key[c])
           IN /\ dep.latest = inner.latest /\ CompletedKeys(dep) = CompletedKeys(inner)
              /\ key[c] \notin DOMAIN dep.entries
              /\ Stores(dep, inner', key[c], reply[c])
<1> DEFINE k == key[c]
           dep == Departed(inner, k)
           wanted == /\ IsLatest(dep, k)
                     /\ eligible[c]
                     /\ reply[c].shape.retained_bytes <= MaxCompletedBytes
<1>1. phase[c] = "storing" /\ inner' = StoreIf(dep, k, reply[c], wanted)
  BY Zenon DEF CompleteStore, StoreReply
<1>2. InFlight(inner, k) /\ k \in EntryKey /\ k.generation < inner.next_generation
  BY <1>1, LeaderFacts, Zenon DEF Leading
<1>t. CallTyped /\ CacheInv(inner, {}) /\ CallInv(inner) /\ Bounded(inner)
  BY Zenon DEF Inv
<1>3. reply[c] \in Reply /\ reply[c].shape.retained_bytes \in Nat
  BY <1>1, <1>t, ReplayConstants, Zenon DEF CallInv, Own, Reply
<1>4. wanted \in BOOLEAN /\ (wanted => IsLatest(dep, k))
  BY <1>t, Zenon DEF CallTyped, IsLatest
<1>5. /\ CacheInv(dep, {k.request})
      /\ DOMAIN dep.entries = DOMAIN inner.entries \ {k}
      /\ dep.latest = inner.latest /\ CompletedKeys(dep) = CompletedKeys(inner)
      /\ dep.completed_bytes = inner.completed_bytes
      /\ dep.next_generation = inner.next_generation
      /\ IsLatest(dep, k) \/ CacheInv(dep, {})
  BY <1>2, <1>t, DepartedOK
<1>6. now \in Nat /\ dep.completed_bytes <= MaxCompletedBytes
  BY <1>5, <1>t, Zenon DEF CallTyped, Bounded
<1> HIDE DEF wanted, dep, k
<1>7. Stores(dep, inner', k, reply[c])
  BY <1>1, <1>2, <1>3, <1>4, <1>5, <1>6, StoreIfOK, Zenon
<1> QED BY <1>5, <1>7, Zenon DEF dep, k

\* The drop of a lease removes its own entry and, if that was the newest, the
\* index of its request, and nothing else.
LEMMA CancelStores ==
    ASSUME Inv, NEW c \in Calls, Cancel(c)
    PROVE  LET dep == Departed(inner, key[c])
           IN /\ dep.latest = inner.latest /\ CompletedKeys(dep) = CompletedKeys(inner)
              /\ key[c] \notin DOMAIN dep.entries
              /\ Stores(dep, inner', key[c], NoReply)
              /\ key[c] \notin DOMAIN inner'.entries
              /\ \A r \in DOMAIN inner.latest :
                    r \notin DOMAIN inner'.latest => LatestKey(inner, r) = key[c]
<1> DEFINE k == key[c]
           dep == Departed(inner, k)
           b == Settled(dep, k)
<1>1. phase[c] = "leading" /\ inner' = b
  BY Zenon DEF Cancel, Cancelled
<1>2. InFlight(inner, k) /\ k \in EntryKey
  BY <1>1, LeaderFacts, Zenon DEF Leading
<1>t. CacheInv(inner, {})
  BY Zenon DEF Inv
<1>3. /\ CacheInv(dep, {k.request})
      /\ DOMAIN dep.entries = DOMAIN inner.entries \ {k}
      /\ dep.latest = inner.latest /\ CompletedKeys(dep) = CompletedKeys(inner)
      /\ IsLatest(dep, k) \/ CacheInv(dep, {})
  BY <1>2, <1>t, DepartedOK
<1> HIDE DEF dep, k
<1>4. k \notin DOMAIN dep.entries
  BY <1>3, Zenon
<1>5. /\ CacheInv(b, {})
      /\ b.entries = dep.entries
      /\ b.completed_bytes = dep.completed_bytes
      /\ b.next_generation = dep.next_generation
      /\ DOMAIN b.latest \subseteq DOMAIN dep.latest
      /\ \A r \in DOMAIN b.latest : b.latest[r] = dep.latest[r]
      /\ \A r \in DOMAIN dep.latest :
            r \in DOMAIN b.latest <=> ~(IsLatest(dep, k) /\ r = k.request)
  BY ONLY <1>2, <1>3, <1>4, SettledOK, Zenon DEF b
<1> HIDE DEF b
<1>6. Stores(dep, b, k, NoReply)
  BY <1>5, Zenon DEF Stores, SameFlights, InFlight, CompletedKeys
<1>7. \A r \in DOMAIN inner.latest : r \notin DOMAIN b.latest => LatestKey(inner, r) = k
  <2>1. IsLatest(dep, k) => LatestKey(dep, k.request) = k
    BY <1>2, LatestKeyUnique, Zenon
  <2>2. \A r : LatestKey(dep, r) = LatestKey(inner, r)
    BY <1>3, Zenon DEF LatestKey
  <2> QED BY <1>3, <1>5, <2>1, <2>2, Zenon
<1> QED BY <1>1, <1>3, <1>4, <1>5, <1>6, <1>7, Zenon DEF dep, k

\* The store of complete is a Finish of the service.
LEMMA FinishedStep ==
    ASSUME Steps, NEW c \in Calls, CompleteStore(c)
    PROVE  Service!Finish(c)
<1> DEFINE k == key[c]
           dep == Departed(inner, k)
           keep == Completed(inner', k)
           S == {r \in Lost : ~Service!IsCurrent(c, r)}
           kept(r) == [fingerprint |-> SlotView[r].fingerprint, leader |-> c, answered |-> TRUE]
<1>1. /\ phase[c] = "storing" /\ key' = key
      /\ Release(k, c, "answered", "executed", reply[c])
  BY Zenon DEF CompleteStore
<1>l. phase[c] \in Leading
  BY <1>1, Zenon DEF Leading
<1>2. /\ dep.latest = inner.latest /\ CompletedKeys(dep) = CompletedKeys(inner)
      /\ k \notin DOMAIN dep.entries
      /\ Stores(dep, inner', k, reply[c])
  BY CompleteStores, Zenon DEF Steps
<1>3. IsLeader(c)'
  BY <1>1, <1>l, ReleasePhases, Zenon DEF IsLeader, Steps
<1>4. \A r \in Requests :
          /\ ~Service!IsCurrent(c, r) =>
                /\ r \in Lost => r \in Service!Answered
                /\ SlotView'[r] = IF r \in Lost THEN NoKey ELSE SlotView[r]
          /\ Service!IsCurrent(c, r) => SlotView'[r] = IF keep THEN kept(r) ELSE NoKey
  BY <1>1, <1>2, <1>3, <1>l, EndSlots, Zenon
<1>5. Lost \subseteq Requests
  BY Zenon DEF Steps, Views, SlotsRead, Lost
<1> HIDE DEF kept, keep
<1>6. S \in SUBSET Service!Answered
  BY <1>4, <1>5, Zenon
<1>7. keep \in BOOLEAN
  BY Zenon DEF keep, Completed
<1>8. \A r \in Requests :
        SlotView'[r] = IF ~Service!IsCurrent(c, r) THEN Service!Forget(S)[r]
                       ELSE IF keep THEN kept(r) ELSE NoKey
  BY <1>4, Zenon DEF Service!Forget
<1>9. SlotView' = [r \in Requests |->
                     IF ~Service!IsCurrent(c, r) THEN Service!Forget(S)[r]
                     ELSE IF keep THEN kept(r) ELSE NoKey]
  <2>1. SlotView' = [r \in Requests |-> SlotView'[r]]
    BY Zenon DEF Steps, Views, SlotsRead
  <2> HIDE DEF S
  <2> QED BY <1>8, <2>1, Zenon
<1>10. SourceView' = SourceView
  BY <1>1, <1>l, EndSources, Zenon
<1>11. /\ StageView[c] = "executing"
       /\ StageView' = [d \in Calls |-> IF d \in Service!Audience(c) THEN "answered" ELSE StageView[d]]
  <2>1. \A d \in Calls : phase'[d] = "answered" \/ phase'[d] = "executed" => StageView'[d] = "answered"
    BY Zenon DEF Steps, Views, StagesRead
  <2>2. /\ StageView[c] = "executing"
        /\ \A d \in Calls : d \in Service!Audience(c) => phase'[d] = "answered" \/ phase'[d] = "executed"
        /\ \A d \in Calls : d \notin Service!Audience(c) => StageView'[d] = StageView[d]
        /\ StageView' = [d \in Calls |-> StageView'[d]]
    BY <1>1, <1>l, EndStages, Zenon
  <2> QED BY <2>1, <2>2, Zenon
<1> HIDE DEF S
<1> QED BY <1>6, <1>7, <1>9, <1>10, <1>11, Zenon DEF Service!Finish, kept

\* The drop of a lease is a Fail of the service.
LEMMA FailedStep ==
    ASSUME Steps, NEW c \in Calls, Cancel(c)
    PROVE  Service!Fail(c)
<1> DEFINE k == key[c]
           dep == Departed(inner, k)
<1>1. /\ phase[c] = "leading" /\ key' = key
      /\ Release(k, c, "released", "dropped", NoReply)
  BY Zenon DEF Cancel
<1>l. phase[c] \in Leading
  BY <1>1, Zenon DEF Leading
<1>2. /\ dep.latest = inner.latest /\ CompletedKeys(dep) = CompletedKeys(inner)
      /\ k \notin DOMAIN dep.entries
      /\ Stores(dep, inner', k, NoReply)
      /\ k \notin DOMAIN inner'.entries
      /\ \A r \in DOMAIN inner.latest : r \notin DOMAIN inner'.latest => LatestKey(inner, r) = k
  BY CancelStores, Zenon DEF Steps
<1>3. IsLeader(c)'
  BY <1>1, <1>l, ReleasePhases, Zenon DEF IsLeader, Steps
<1>4. \A r \in Requests :
          /\ ~Service!IsCurrent(c, r) => SlotView'[r] = IF r \in Lost THEN NoKey ELSE SlotView[r]
          /\ Service!IsCurrent(c, r) =>
                SlotView'[r] = IF Completed(inner', k)
                               THEN [fingerprint |-> SlotView[r].fingerprint, leader |-> c, answered |-> TRUE]
                               ELSE NoKey
  BY <1>1, <1>2, <1>3, <1>l, EndSlots, Zenon
<1>5. ~Completed(inner', k)
  BY <1>2, Zenon DEF Completed
<1>6. \A r \in Requests : r \in Lost => Service!IsCurrent(c, r)
  <2>1. IsLeader(c)
    BY <1>l, Zenon DEF IsLeader
  <2> QED BY <1>2, <2>1, CurrentSlot, Zenon DEF Lost
<1>7. \A r \in Requests : SlotView'[r] = IF Service!IsCurrent(c, r) THEN NoKey ELSE SlotView[r]
  BY <1>4, <1>5, <1>6, Zenon
<1>8. SlotView' = [r \in Requests |-> IF Service!IsCurrent(c, r) THEN NoKey ELSE SlotView[r]]
  <2>1. SlotView' = [r \in Requests |-> SlotView'[r]]
    BY Zenon DEF Steps, Views, SlotsRead
  <2> QED BY <1>7, <2>1, Zenon
<1>9. SourceView' = SourceView
  BY <1>1, <1>l, EndSources, Zenon
<1>10. /\ StageView[c] = "executing"
       /\ StageView' = [d \in Calls |-> IF d \in Service!Audience(c) THEN "failed" ELSE StageView[d]]
  <2>1. \A d \in Calls : phase'[d] = "released" \/ phase'[d] = "dropped" => StageView'[d] = "failed"
    BY Zenon DEF Steps, Views, StagesRead
  <2>2. /\ StageView[c] = "executing"
        /\ \A d \in Calls : d \in Service!Audience(c) => phase'[d] = "released" \/ phase'[d] = "dropped"
        /\ \A d \in Calls : d \notin Service!Audience(c) => StageView'[d] = StageView[d]
        /\ StageView' = [d \in Calls |-> StageView'[d]]
    BY <1>1, <1>l, EndStages, Zenon
  <2> QED BY <2>1, <2>2, Zenon
<1> QED BY <1>8, <1>9, <1>10, Zenon DEF Service!Fail

\* The drop of a receiver is a Leave of the service.
LEMMA LeaveStep ==
    ASSUME Steps, NEW c \in Calls, WaiterGone(c)
    PROVE  Service!Leave(c)
<1>1. /\ phase[c] = "waiting" /\ phase'[c] = "gone" /\ key' = key /\ UNCHANGED inner
      /\ \A d \in Calls \ {c} : phase'[d] = phase[d]
  BY Zenon DEF WaiterGone, Steps, Inv, CallTyped
<1>2. SlotView' = SlotView
  BY <1>1, SlotsKept, Zenon
<1>3. SourceView' = SourceView
  <2>1. \A d \in Calls : (Begun(d)' <=> Begun(d)) /\ key'[d] = key[d]
    BY <1>1, Zenon DEF Begun
  <2> QED BY <2>1, SourcesKept, Zenon
<1>4. StageView[c] = "awaiting" /\ StageView' = [StageView EXCEPT ![c] = "failed"]
  <2>1. StageView[c] = "awaiting" /\ StageView'[c] = "failed"
    BY <1>1, Zenon DEF Steps, Views, StagesRead
  <2> QED BY <1>1, <2>1, StageSet, Zenon
<1> QED BY <1>2, <1>3, <1>4, Zenon DEF Service!Leave

\* Looking at the cache before storing a reply, and the clock, change nothing
\* that the service shows.
LEMMA ProbeStutters ==
    ASSUME Steps, NEW c \in Calls, NEW s \in ReplyShapes, CompleteProbe(c, s)
    PROVE  UNCHANGED Service!vars
<1>1. /\ phase[c] = "leading" /\ phase'[c] = "storing" /\ key' = key /\ UNCHANGED inner
      /\ \A d \in Calls \ {c} : phase'[d] = phase[d]
  BY Zenon DEF CompleteProbe, Steps, Inv, CallTyped
<1>2. SlotView' = SlotView
  BY <1>1, SlotsKept, Zenon
<1>3. SourceView' = SourceView
  <2>1. \A d \in Calls : (Begun(d)' <=> Begun(d)) /\ key'[d] = key[d]
    BY <1>1, Zenon DEF Begun
  <2> QED BY <2>1, SourcesKept, Zenon
<1>4. StageView' = StageView
  <2>1. StageView[c] = "executing" /\ StageView'[c] = "executing"
    BY <1>1, Zenon DEF Steps, Views, StagesRead, Leading
  <2>2. StageView' = [StageView EXCEPT ![c] = "executing"]
    BY <1>1, <2>1, StageSet, Zenon
  <2>3. StageView = [d \in Calls |-> StageView[d]]
    BY Zenon DEF Steps, Views, StagesRead
  <2> QED BY <2>1, <2>2, <2>3, Zenon
<1> QED BY <1>2, <1>3, <1>4, Zenon DEF Service!vars

\* A step that changes only the clock or a reply in hand is invisible to the
\* service.
LEMMA StillStutters ==
    ASSUME Steps, UNCHANGED <<inner, phase, key>>
    PROVE  UNCHANGED Service!vars
<1>1. SlotView' = SlotView
  BY SlotsKept, Zenon
<1>2. SourceView' = SourceView
  <2>1. \A d \in Calls : (Begun(d)' <=> Begun(d)) /\ key'[d] = key[d]
    BY Zenon DEF Begun
  <2> QED BY <2>1, SourcesKept, Zenon
<1>3. StageView' = StageView
  <2>1. \A d \in Calls : StageView'[d] = StageView[d]
    BY StageKept, Zenon
  <2>2. /\ StageView = [d \in Calls |-> StageView[d]]
        /\ StageView' = [d \in Calls |-> StageView'[d]]
    BY Zenon DEF Steps, Views, StagesRead
  <2> QED BY <2>1, <2>2, Zenon
<1> QED BY <1>1, <1>2, <1>3, Zenon DEF Service!vars

\* Every step of the cache is a step of the service or invisible to it.
LEMMA StepSimulation == Steps /\ [Next]_vars => [Service!Next]_(Service!vars)
<1> SUFFICES ASSUME Steps, [Next]_vars PROVE [Service!Next]_(Service!vars)
  BY Zenon
<1>1. ASSUME NEW c \in Calls, NEW r \in Requests, NEW f \in Fingerprints, NEW t, Begin(c, r, f, t)
      PROVE  Service!Next
  <2>1. CASE BeginWait(c, r, f, t)
    BY <2>1, JoinStep, Zenon DEF Service!Next
  <2>2. CASE BeginReplay(c, r, f, t)
    BY <2>2, ReplayStep, Zenon DEF Service!Next
  <2>3. CASE BeginRefused(c, r, f, t)
    BY <2>3, RefuseStep, Zenon DEF Service!Next
  <2>4. CASE BeginExecute(c, r, f, t)
    BY <2>4, ExecuteStep, Zenon DEF Service!Next
  <2> QED BY <1>1, <2>1, <2>2, <2>3, <2>4 DEF Begin
<1>2. ASSUME NEW c \in Calls, CompleteStore(c) \/ Cancel(c) \/ WaiterGone(c)
      PROVE  Service!Next
  BY <1>2, FinishedStep, FailedStep, LeaveStep, Zenon DEF Service!Next
<1>3. ASSUME NEW c \in Calls, NEW s \in ReplyShapes, CompleteProbe(c, s)
      PROVE  UNCHANGED Service!vars
  BY <1>3, ProbeStutters, Zenon
<1>4. CASE Tick \/ UNCHANGED vars
  BY <1>4, StillStutters, Zenon DEF Tick, vars
<1> QED BY <1>1, <1>2, <1>3, <1>4, Zenon DEF Next

-----------------------------------------------------------------------------

\* Before the first begin there is no generation without a leader.
LEMMA InitSourced == Init => Sourced
BY Zenon DEF Init, Sourced, Begun

\* SourcedNext as an implication, for the temporal step.
LEMMA SourcedSteps == Inv /\ Sourced /\ [Next]_vars => Sourced' /\ Steady
BY SourcedNext, Zenon

\* The empty cache is an empty service.
LEMMA InitService == Init => Service!Init
<1> SUFFICES ASSUME Init PROVE Service!Init
  BY Zenon
<1>1. DOMAIN inner.latest = {}
  BY DEF Init
<1>2. SlotView = [r \in Requests |-> NoKey]
  BY <1>1, Zenon DEF SlotView
<1>3. StageView = [c \in Calls |-> "idle"]
  <2>1. StagesRead
    BY InitInv, StageViews, Zenon
  <2>2. \A c \in Calls : StageView[c] = "idle"
    BY <2>1, Zenon DEF Init, StagesRead
  <2>3. StageView = [c \in Calls |-> StageView[c]]
    BY <2>1, Zenon DEF StagesRead
  <2> QED BY <2>2, <2>3, Zenon
<1>4. SourceView = [c \in Calls |-> NoReply]
  BY Zenon DEF Init, SourceView
<1> QED BY <1>2, <1>3, <1>4, Zenon DEF Service!Init

\* Every generation that calls have begun on has its leader, in every reachable
\* state.
LEMMA SourcesKnown == Spec => []Sourced
BY InitSourced, SourcedSteps, Invariance, PTL DEF Spec

\* The cache implements the service, for every value of the constants: begin,
\* complete, cancel and the drop of a lease or a receiver are each one step of
\* ReplayService, and looking at the cache before a copy and the clock are none.
THEOREM ServiceImplemented == Spec => ServiceSpec
<1>1. Inv /\ Sourced => Views
  BY SourceViews, SlotViews, StageViews, Zenon DEF Views
<1>2. Inv /\ Sourced /\ Views /\ Inv' /\ Sourced' /\ Views' /\ Steady => Steps
  BY Zenon DEF Steps
<1> QED BY <1>1, <1>2, InitService, SourcedSteps, StepSimulation, Invariance, SourcesKnown, PTL
        DEF Spec, ServiceSpec, Service!Spec
=============================================================================
