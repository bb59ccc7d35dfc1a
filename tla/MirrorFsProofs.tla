--------------------------- MODULE MirrorFsProofs ---------------------------
(***************************************************************************)
(* Proofs about the map of examples/mirrorfs.rs, for any number of calls   *)
(* and names and any bounds.  Every step of a call leaves the map alone or *)
(* is one operation of FsMap (MapStep); the operations keep the map in     *)
(* order (MapInv) as long as the paths that the calls carry are paths      *)
(* (CallInv), and the host stays a tree (TreeInv), wherever links lead.    *)
(* On this rest two invariants, which hold as long as removals and renames *)
(* run alone and to their end and no link is followed: what calls hold,    *)
(* what the map says and what clients were told is true of the host        *)
(* (ObjectInv), and exclusive_verifiers follows the files that exclusive   *)
(* creations made (VerifierInv).                                           *)
(***************************************************************************)
EXTENDS MirrorFs, TLAPS

\* What the map is: identifiers below next_file_id, for paths, and its index.
MapInv ==
    /\ next_file_id \in Nat
    /\ DOMAIN id_to_relative \subseteq 1..(next_file_id - 1)
    /\ id_to_relative \in [DOMAIN id_to_relative -> Seq(Names)]
    /\ IndexAgrees

\* A call carries a path, and further ones in some of its steps.
CallTyped(new) ==
    new.at # "done" =>
        /\ {"at", "rel", "live"} \subseteq DOMAIN new
        /\ new.rel \in Seq(Names)
        /\ new.at \in {"move", "remap"} => "to" \in DOMAIN new /\ new.to \in Seq(Names)
        /\ new.at \in {"list", "entry", "entry_intern"} =>
              /\ {"children", "id", "inode"} \subseteq DOMAIN new
              /\ \A child \in new.children : child[1] \in Names
CallInv == DOMAIN call = Calls /\ \A c \in Calls : CallTyped(call[c])

Inv == MapInv /\ CallInv

\* One operation of FsMap, or none
MapStep ==
    \/ UNCHANGED <<id_to_relative, relative_to_id, next_file_id>>
    \/ \E p \in Seq(Names) : Intern(p) \/ ForgetPrefix(p)
    \/ \E from \in Seq(Names), to \in Seq(Names) : MovePrefix(from, to)

-----------------------------------------------------------------------------
(* Paths.                                                                   *)

\* Paths with the same components are equal.
LEMMA SeqEqual ==
    ASSUME NEW S, NEW s \in Seq(S), NEW t \in Seq(S),
           Len(s) = Len(t), \A i \in 1..Len(s) : s[i] = t[i]
    PROVE  s = t
OBVIOUS

\* A path behind another has the components of both.
LEMMA ConcatProperties ==
    ASSUME NEW S, NEW s \in Seq(S), NEW t \in Seq(S)
    PROVE  /\ s \o t \in Seq(S) /\ Len(s \o t) = Len(s) + Len(t)
           /\ \A i \in 1..(Len(s) + Len(t)) :
                 (s \o t)[i] = IF i <= Len(s) THEN s[i] ELSE t[i - Len(s)]
OBVIOUS

\* Paths of bounded length are paths.
LEMMA PathsAreSeqs == ASSUME NEW p \in Paths PROVE p \in Seq(Names)
<1>1. PICK n \in 0..MaxDepth : p \in [1..n -> Names]
  BY Zenon DEF Paths
<1>2. n \in Nat
  BY <1>1, MirrorFsConstants
<1> QED BY <1>1, <1>2

\* The parent of a path is a path, the root's too.
LEMMA ParentIsSeq == ASSUME NEW p \in Seq(Names) PROVE Parent(p) \in Seq(Names)
<1>1. CASE Len(p) = 0
  <2>1. SubSeq(p, 1, Len(p) - 1) = <<>>
    BY <1>1
  <2> QED BY <2>1 DEF Parent
<1>2. CASE Len(p) # 0
  BY <1>2 DEF Parent
<1> QED BY <1>1, <1>2, Zenon

\* A path that starts with another agrees with it there.
LEMMA Prefix ==
    ASSUME NEW p \in Seq(Names), NEW from \in Seq(Names), RelativeStartsWith(p, from)
    PROVE  Len(from) <= Len(p) /\ \A i \in 1..Len(from) : p[i] = from[i]
<1>1. Len(from) <= Len(p) /\ SubSeq(p, 1, Len(from)) = from /\ Len(from) \in Nat
  BY DEF RelativeStartsWith
<1>2. \A i \in 1..Len(from) : SubSeq(p, 1, Len(from))[i] = p[i]
  BY <1>1
<1> QED BY <1>1, <1>2, Zenon

\* What the renamed path becomes: the destination, then what was behind from.
LEMMA MovedShape ==
    ASSUME NEW p \in Seq(Names), NEW from \in Seq(Names), NEW to \in Seq(Names),
           RelativeStartsWith(p, from)
    PROVE  /\ Moved(p, from, to) \in Seq(Names)
           /\ Len(Moved(p, from, to)) = Len(to) + (Len(p) - Len(from))
           /\ \A i \in 1..Len(to) : Moved(p, from, to)[i] = to[i]
           /\ \A i \in 1..(Len(p) - Len(from)) : Moved(p, from, to)[Len(to) + i] = p[Len(from) + i]
<1> DEFINE rest == SubSeq(p, Len(from) + 1, Len(p))
           moved == to \o rest
<1>1. Len(from) <= Len(p) /\ Len(from) \in Nat /\ Len(p) \in Nat /\ Len(to) \in Nat
  BY DEF RelativeStartsWith
<1>2. rest \in Seq(Names) /\ Len(rest) = Len(p) - Len(from)
      /\ \A i \in 1..Len(rest) : rest[i] = p[Len(from) + i]
  BY <1>1
<1> HIDE DEF rest
<1>3. /\ moved \in Seq(Names) /\ Len(moved) = Len(to) + Len(rest)
      /\ \A i \in 1..(Len(to) + Len(rest)) :
            moved[i] = IF i <= Len(to) THEN to[i] ELSE rest[i - Len(to)]
  BY <1>2, ConcatProperties, Zenon
<1> HIDE DEF moved
<1>4. ASSUME NEW i \in 1..Len(to) PROVE moved[i] = to[i]
  <2>1. i \in 1..(Len(to) + Len(rest)) /\ i <= Len(to)
    BY <1>1, <1>2
  <2> QED BY <2>1, <1>3, Zenon
<1>5. ASSUME NEW i \in 1..(Len(p) - Len(from)) PROVE moved[Len(to) + i] = p[Len(from) + i]
  <2>1. /\ Len(to) + i \in 1..(Len(to) + Len(rest)) /\ ~(Len(to) + i <= Len(to))
        /\ (Len(to) + i) - Len(to) = i /\ i \in 1..Len(rest)
    BY <1>1, <1>2
  <2> QED BY <2>1, <1>2, <1>3, Zenon
<1>6. Moved(p, from, to) = moved
  BY Zenon DEF Moved, moved, rest
<1> QED BY <1>2, <1>3, <1>4, <1>5, <1>6, Zenon

\* What has been moved is below the destination.
LEMMA MovedBelow ==
    ASSUME NEW p \in Seq(Names), NEW from \in Seq(Names), NEW to \in Seq(Names),
           RelativeStartsWith(p, from)
    PROVE  RelativeStartsWith(Moved(p, from, to), to)
<1> DEFINE q == Moved(p, from, to)
<1>1. /\ q \in Seq(Names)
      /\ Len(q) = Len(to) + (Len(p) - Len(from))
      /\ \A i \in 1..Len(to) : q[i] = to[i]
  BY MovedShape, Zenon
<1>2. Len(from) <= Len(p) /\ Len(from) \in Nat /\ Len(p) \in Nat /\ Len(to) \in Nat
  BY Prefix
<1> HIDE DEF q
<1>3. Len(to) <= Len(q)
  BY <1>1, <1>2
<1>4. /\ SubSeq(q, 1, Len(to)) \in Seq(Names) /\ Len(SubSeq(q, 1, Len(to))) = Len(to)
      /\ \A i \in 1..Len(to) : SubSeq(q, 1, Len(to))[i] = to[i]
  BY <1>1, <1>2, <1>3
<1>5. SubSeq(q, 1, Len(to)) = to
  BY <1>4, SeqEqual, Zenon
<1>6. RelativeStartsWith(q, to)
  BY <1>3, <1>5, Zenon DEF RelativeStartsWith
<1> QED BY <1>6, Zenon DEF q

\* A path is known by what it starts with and by what comes behind.
LEMMA SamePath ==
    ASSUME NEW p \in Seq(Names), NEW q \in Seq(Names), NEW n \in Nat,
           Len(p) = Len(q), n <= Len(p),
           \A i \in 1..n : p[i] = q[i],
           \A i \in 1..(Len(p) - n) : p[n + i] = q[n + i]
    PROVE  p = q
<1>1. Len(p) \in Nat
  OBVIOUS
<1>2. ASSUME NEW i \in 1..Len(p) PROVE p[i] = q[i]
  <2>1. CASE i <= n
    BY <2>1, <1>1
  <2>2. CASE ~(i <= n)
    <3>1. i - n \in 1..(Len(p) - n) /\ n + (i - n) = i
      BY <2>2, <1>1
    <3> QED BY <3>1, Zenon
  <2> QED BY <2>1, <2>2, Zenon
<1> QED BY <1>2, SeqEqual, Zenon

\* Two paths are not moved to the same place.
LEMMA MovedInjective ==
    ASSUME NEW p \in Seq(Names), NEW q \in Seq(Names), NEW from \in Seq(Names), NEW to \in Seq(Names),
           RelativeStartsWith(p, from), RelativeStartsWith(q, from),
           Moved(p, from, to) = Moved(q, from, to)
    PROVE  p = q
<1> DEFINE m == Moved(p, from, to)
<1>0. m = Moved(q, from, to)
  BY Zenon
<1>1. /\ Len(m) = Len(to) + (Len(p) - Len(from))
      /\ \A i \in 1..(Len(p) - Len(from)) : m[Len(to) + i] = p[Len(from) + i]
  BY MovedShape
<1>2. /\ Len(m) = Len(to) + (Len(q) - Len(from))
      /\ \A i \in 1..(Len(q) - Len(from)) : m[Len(to) + i] = q[Len(from) + i]
  <2>1. /\ Len(Moved(q, from, to)) = Len(to) + (Len(q) - Len(from))
        /\ \A i \in 1..(Len(q) - Len(from)) : Moved(q, from, to)[Len(to) + i] = q[Len(from) + i]
    BY MovedShape, Zenon
  <2> HIDE DEF m
  <2> QED BY <1>0, <2>1, Zenon
<1> HIDE DEF m
<1>3. Len(from) <= Len(p) /\ \A i \in 1..Len(from) : p[i] = from[i]
  BY Prefix, Zenon
<1>4. \A i \in 1..Len(from) : q[i] = from[i]
  BY Prefix, Zenon
<1>5. Len(p) \in Nat /\ Len(q) \in Nat /\ Len(from) \in Nat /\ Len(to) \in Nat
  OBVIOUS
<1>6. Len(p) = Len(q)
  BY <1>1, <1>2, <1>5
<1>7. \A i \in 1..(Len(p) - Len(from)) : p[Len(from) + i] = q[Len(from) + i]
  BY <1>1, <1>2, <1>6, Zenon
<1>8. \A i \in 1..Len(from) : p[i] = q[i]
  BY <1>3, <1>4, Zenon
<1> QED BY <1>3, <1>5, <1>6, <1>7, <1>8, SamePath, Zenon

\* Renaming a path to itself moves nothing.
LEMMA MovedToItself ==
    ASSUME NEW p \in Seq(Names), NEW from \in Seq(Names), RelativeStartsWith(p, from)
    PROVE  Moved(p, from, from) = p
<1> DEFINE q == Moved(p, from, from)
<1>1. /\ q \in Seq(Names) /\ Len(q) = Len(from) + (Len(p) - Len(from))
      /\ \A i \in 1..Len(from) : q[i] = from[i]
      /\ \A i \in 1..(Len(p) - Len(from)) : q[Len(from) + i] = p[Len(from) + i]
  BY MovedShape, Zenon
<1> HIDE DEF q
<1>2. Len(from) <= Len(p) /\ \A i \in 1..Len(from) : p[i] = from[i]
  BY Prefix, Zenon
<1>3. Len(p) \in Nat /\ Len(from) \in Nat
  OBVIOUS
<1>4. Len(q) = Len(p) /\ \A i \in 1..Len(from) : q[i] = p[i]
  BY <1>1, <1>2, <1>3
<1>5. q = p
  BY <1>1, <1>2, <1>3, <1>4, SamePath, Zenon
<1> QED BY <1>5, Zenon DEF q

-----------------------------------------------------------------------------
(* The operations of FsMap.                                                 *)

\* The identifiers that intern finds are those of the path.
LEMMA InternFinds ==
    ASSUME MapInv, NEW p
    PROVE  /\ Interned(p) = {i \in DOMAIN id_to_relative : id_to_relative[i] = p}
           /\ Interned(p) = {} => p \notin DOMAIN relative_to_id
BY Zenon DEF MapInv, IndexAgrees, Interned, Range

\* intern keeps the map in order.
LEMMA InternInv ==
    ASSUME MapInv, NEW p \in Seq(Names), Intern(p)
    PROVE  MapInv' /\ next_file_id' >= next_file_id
                   /\ \A i \in DOMAIN id_to_relative' : i \in DOMAIN id_to_relative \/ i >= next_file_id
<1>1. CASE Interned(p) # {}
  BY <1>1 DEF Intern, fsmap, MapInv, IndexAgrees, Range
<1>2. CASE Interned(p) = {}
  <2> DEFINE n == next_file_id
  <2>1. /\ n \in Nat /\ next_file_id' = n + 1 /\ n \notin DOMAIN id_to_relative
        /\ p \notin DOMAIN relative_to_id
        /\ \A i \in DOMAIN id_to_relative : id_to_relative[i] # p
    <3>1. n \in Nat /\ next_file_id' = n + 1 /\ n \notin 1..(n - 1)
      BY <1>2 DEF Intern, MapInv
    <3>2. n \notin DOMAIN id_to_relative
      BY <3>1, Zenon DEF MapInv
    <3>3. /\ p \notin DOMAIN relative_to_id
          /\ \A i \in DOMAIN id_to_relative : id_to_relative[i] # p
      BY <1>2, InternFinds, Zenon
    <3> QED BY <3>1, <3>2, <3>3, Zenon
  <2>2. /\ DOMAIN id_to_relative' = DOMAIN id_to_relative \cup {n}
        /\ id_to_relative'[n] = p
        /\ \A i \in DOMAIN id_to_relative : id_to_relative'[i] = id_to_relative[i]
        /\ id_to_relative' = [i \in DOMAIN id_to_relative' |-> id_to_relative'[i]]
    BY <1>2, <2>1, Zenon DEF Intern, FileId, With
  <2>3. /\ DOMAIN relative_to_id' = DOMAIN relative_to_id \cup {p}
        /\ relative_to_id'[p] = {n}
        /\ \A q \in DOMAIN relative_to_id : relative_to_id'[q] = relative_to_id[q]
    BY <1>2, <2>1, Zenon DEF Intern, FileId, With, Bucket
  <2>4. IndexAgrees'
    <3>1. DOMAIN relative_to_id' = Range(id_to_relative')
      BY <2>2, <2>3 DEF MapInv, IndexAgrees, Range
    <3>2. \A i \in DOMAIN id_to_relative' : relative_to_id'[id_to_relative'[i]] = {i}
      BY <2>1, <2>2, <2>3 DEF MapInv, IndexAgrees, Range
    <3> QED BY <3>1, <3>2, Zenon DEF IndexAgrees
  <2>5. DOMAIN id_to_relative' \subseteq 1..(next_file_id' - 1)
    BY <2>1, <2>2 DEF MapInv
  <2>6. id_to_relative' \in [DOMAIN id_to_relative' -> Seq(Names)]
    BY <2>2, Zenon DEF MapInv
  <2> QED BY <2>1, <2>2, <2>4, <2>5, <2>6 DEF MapInv
<1> QED BY <1>1, <1>2, Zenon

\* RemoveIndexed leaves the buckets of the identifiers that stay.
LEMMA RemoveIndexedAgrees ==
    ASSUME MapInv, NEW ids
    PROVE  LET left == RemoveIndexed(relative_to_id, ids)
           IN /\ \A p : p \in DOMAIN left <=> \E i \in DOMAIN id_to_relative \ ids : id_to_relative[i] = p
              /\ \A i \in DOMAIN id_to_relative \ ids : left[id_to_relative[i]] = {i}
<1> DEFINE left == RemoveIndexed(relative_to_id, ids)
<1>1. /\ DOMAIN left = {q \in DOMAIN relative_to_id : relative_to_id[q] \ ids # {}}
      /\ \A p \in DOMAIN left : left[p] = relative_to_id[p] \ ids
  BY Zenon DEF RemoveIndexed
<1> HIDE DEF left
<1>2. /\ \A i \in DOMAIN id_to_relative :
            id_to_relative[i] \in DOMAIN relative_to_id /\ relative_to_id[id_to_relative[i]] = {i}
      /\ \A p \in DOMAIN relative_to_id : \E i \in DOMAIN id_to_relative : id_to_relative[i] = p
  BY Zenon DEF MapInv, IndexAgrees, Range
<1>3. ASSUME NEW i \in DOMAIN id_to_relative \ ids
      PROVE  id_to_relative[i] \in DOMAIN left /\ left[id_to_relative[i]] = {i}
  BY <1>1, <1>2
<1>4. ASSUME NEW p \in DOMAIN left
      PROVE  \E i \in DOMAIN id_to_relative \ ids : id_to_relative[i] = p
  BY <1>1, <1>2
<1>5. /\ \A p : p \in DOMAIN left <=> \E i \in DOMAIN id_to_relative \ ids : id_to_relative[i] = p
      /\ \A i \in DOMAIN id_to_relative \ ids : left[id_to_relative[i]] = {i}
  BY <1>3, <1>4, Zenon
<1> QED BY <1>5, Zenon DEF left

\* forget_prefix keeps the map in order, and gives out nothing.
LEMMA ForgetInv ==
    ASSUME MapInv, NEW p, ForgetPrefix(p)
    PROVE  MapInv' /\ next_file_id' = next_file_id
                   /\ DOMAIN id_to_relative' \subseteq DOMAIN id_to_relative
<1> DEFINE ids == Below(p)
           left == RemoveIndexed(relative_to_id, ids)
<1>1. /\ DOMAIN id_to_relative' = DOMAIN id_to_relative \ ids
      /\ \A i \in DOMAIN id_to_relative \ ids : id_to_relative'[i] = id_to_relative[i]
      /\ id_to_relative' = [i \in DOMAIN id_to_relative' |-> id_to_relative'[i]]
      /\ relative_to_id' = left /\ next_file_id' = next_file_id
  BY Zenon DEF ForgetPrefix, Without, Restrict
<1>2. /\ \A q : q \in DOMAIN left <=> \E i \in DOMAIN id_to_relative \ ids : id_to_relative[i] = q
      /\ \A i \in DOMAIN id_to_relative \ ids : left[id_to_relative[i]] = {i}
  BY RemoveIndexedAgrees, Zenon
<1> HIDE DEF left, ids
<1>3. IndexAgrees'
  BY <1>1, <1>2 DEF IndexAgrees, Range
<1>4. id_to_relative' \in [DOMAIN id_to_relative' -> Seq(Names)]
  BY <1>1, Zenon DEF MapInv
<1> QED BY <1>1, <1>3, <1>4, Zenon DEF MapInv

\* move_prefix keeps the map in order, and gives out nothing: what the destination
\* held is forgotten first, so that nothing is moved onto it.
LEMMA MoveInv ==
    ASSUME MapInv, NEW from \in Seq(Names), NEW to \in Seq(Names), MovePrefix(from, to)
    PROVE  MapInv' /\ next_file_id' = next_file_id
                   /\ DOMAIN id_to_relative' \subseteq DOMAIN id_to_relative
<1> DEFINE gone == Replaced(from, to)
           moving == Below(from) \ gone
           stay == DOMAIN id_to_relative \ gone
           still == stay \ moving
           new(i) == Moved(id_to_relative[i], from, to)
           index == RemoveIndexed(relative_to_id, gone \cup moving)
<1>1. /\ id_to_relative' = [i \in stay |-> IF i \in moving THEN new(i) ELSE id_to_relative[i]]
      /\ relative_to_id' = [p \in DOMAIN index \cup {new(i) : i \in moving} |->
                               (IF p \in DOMAIN index THEN index[p] ELSE {}) \cup {i \in moving : new(i) = p}]
      /\ next_file_id' = next_file_id
  BY Zenon DEF MovePrefix, Without, Restrict
<1>2. moving \subseteq stay /\ stay \subseteq DOMAIN id_to_relative
      /\ DOMAIN id_to_relative \ (gone \cup moving) = still
  BY Zenon DEF Below
<1>3. /\ \A p : p \in DOMAIN index <=> \E i \in still : id_to_relative[i] = p
      /\ \A i \in still : index[id_to_relative[i]] = {i}
  BY <1>2, RemoveIndexedAgrees
<1>4. \A i \in DOMAIN id_to_relative : id_to_relative[i] \in Seq(Names)
  BY Zenon DEF MapInv
<1>5. \A i \in moving : RelativeStartsWith(id_to_relative[i], from)
  BY Zenon DEF Below
<1>6. \A i \in moving : new(i) \in Seq(Names)
  BY <1>2, <1>4, <1>5, MovedShape, Zenon
<1>7. ASSUME NEW i \in moving, NEW j \in moving, new(i) = new(j) PROVE i = j
  <2>1. id_to_relative[i] = id_to_relative[j]
    BY <1>2, <1>4, <1>5, <1>7, MovedInjective, Zenon
  <2> QED BY <2>1, <1>2, Zenon DEF MapInv, IndexAgrees
<1>8. ASSUME NEW i \in moving, NEW j \in still PROVE new(i) # id_to_relative[j]
  <2>1. CASE from = to
    <3>1. new(i) = id_to_relative[i]
      BY <1>2, <1>4, <1>5, <2>1, MovedToItself, Zenon
    <3> QED BY <3>1, <1>2, Zenon DEF MapInv, IndexAgrees
  <2>2. CASE from # to
    <3>1. RelativeStartsWith(new(i), to)
      BY <1>2, <1>4, <1>5, MovedBelow, Zenon
    <3>2. ~RelativeStartsWith(id_to_relative[j], to)
      BY <2>2, Zenon DEF Replaced, Below
    <3> QED BY <3>1, <3>2, Zenon
  <2> QED BY <2>1, <2>2, Zenon
<1> HIDE DEF gone, moving, stay, still, index, new
<1>9. /\ DOMAIN id_to_relative' = stay
      /\ \A i \in moving : id_to_relative'[i] = new(i)
      /\ \A i \in still : id_to_relative'[i] = id_to_relative[i]
      /\ stay = moving \cup still
  BY <1>1, <1>2, Zenon DEF still
<1>10. ASSUME NEW i \in stay PROVE relative_to_id'[id_to_relative'[i]] = {i}
  <2>1. CASE i \in moving
    <3>1. new(i) \notin DOMAIN index
      BY <1>3, <1>8, <2>1, Zenon
    <3>2. {j \in moving : new(j) = new(i)} = {i}
      BY <1>7, <2>1, Zenon
    <3>3. relative_to_id'[new(i)] = {j \in moving : new(j) = new(i)}
      BY <1>1, <2>1, <3>1, Zenon
    <3> QED BY <1>9, <2>1, <3>2, <3>3, Zenon
  <2>2. CASE i \in still
    <3>1. id_to_relative[i] \in DOMAIN index /\ index[id_to_relative[i]] = {i}
      BY <1>3, <2>2, Zenon
    <3>2. {j \in moving : new(j) = id_to_relative[i]} = {}
      BY <1>8, <2>2, Zenon
    <3>3. relative_to_id'[id_to_relative[i]]
             = index[id_to_relative[i]] \cup {j \in moving : new(j) = id_to_relative[i]}
      BY <1>1, <3>1, Zenon
    <3> QED BY <1>9, <2>2, <3>1, <3>2, <3>3, Zenon
  <2> QED BY <1>9, <2>1, <2>2, Zenon
<1>11. DOMAIN relative_to_id' = Range(id_to_relative')
  <2>1. DOMAIN relative_to_id' = DOMAIN index \cup {new(i) : i \in moving}
    BY <1>1, Zenon
  <2>2. DOMAIN index = {id_to_relative[i] : i \in still}
    BY <1>3, Zenon
  <2>3. Range(id_to_relative') = {id_to_relative'[i] : i \in stay}
    BY <1>9, Zenon DEF Range
  <2>4. {id_to_relative'[i] : i \in stay}
           = {id_to_relative[i] : i \in still} \cup {new(i) : i \in moving}
    BY <1>9, Zenon
  <2> QED BY <2>1, <2>2, <2>3, <2>4, Zenon
<1>12. IndexAgrees'
  BY <1>9, <1>10, <1>11, Zenon DEF IndexAgrees
<1>13. id_to_relative' \in [DOMAIN id_to_relative' -> Seq(Names)]
  BY <1>1, <1>2, <1>4, <1>6, <1>9, Zenon
<1> QED BY <1>1, <1>2, <1>9, <1>12, <1>13, Zenon DEF MapInv

-----------------------------------------------------------------------------
(* The calls.                                                               *)

\* A call that has ended carries nothing.
LEMMA DoneTyped == CallTyped(Done)
BY Zenon DEF CallTyped, Done

\* A step of one call leaves the others as they are.
LEMMA OneCall ==
    ASSUME CallInv, NEW c \in Calls, NEW new, CallTyped(new), call' = [call EXCEPT ![c] = new]
    PROVE  CallInv'
<1>1. /\ DOMAIN call' = Calls
      /\ \A d \in Calls : call'[d] = IF d = c THEN new ELSE call[d]
  BY Zenon DEF CallInv
<1>2. \A d \in Calls : CallTyped(call'[d])
  BY <1>1, Zenon DEF CallInv
<1> QED BY <1>1, <1>2, Zenon DEF CallInv, CallTyped

\* Goto takes a call to its next step, or to its end.
LEMMA GotoInv ==
    ASSUME CallInv, NEW c \in Calls, NEW new, CallTyped(new), Goto(c, new)
    PROVE  CallInv'
<1>1. CASE call[c].live
  <2>1. call' = [call EXCEPT ![c] = new]
    BY <1>1, Zenon DEF Goto, CallInv
  <2> QED BY <2>1, OneCall, Zenon
<1>2. CASE ~call[c].live
  <2>1. call' = [call EXCEPT ![c] = Done]
    BY <1>2, Zenon DEF Goto, CallInv
  <2> QED BY <2>1, OneCall, DoneTyped, Zenon
<1> QED BY <1>1, <1>2, Zenon

\* A call that ends leaves nothing to check.
LEMMA EndInv == ASSUME CallInv, NEW c \in Calls, Goto(c, Done) PROVE CallInv'
BY GotoInv, DoneTyped, Zenon

\* The path of a child of something that the map knows is a path.
LEMMA ChildIsSeq ==
    ASSUME MapInv, NEW id \in Known, NEW name \in Names
    PROVE  Child(id, name) \in Seq(Names) /\ id_to_relative[id] \in Seq(Names)
<1>1. id_to_relative[id] \in Seq(Names)
  BY Zenon DEF MapInv, Known
<1> QED BY <1>1 DEF Child

\* A call that begins carries the paths of objects that the map knows, and the map
\* stays as it is.
LEMMA BeginInv ==
    ASSUME Inv, NEW c \in Calls,
           \/ Lookup(c) \/ LookupDot(c) \/ ReadDir(c)
           \/ GetAttr(c) \/ SetAttr(c) \/ ReadLink(c) \/ Read(c) \/ Write(c) \/ Commit(c)
           \/ Create(c) \/ CreateExclusive(c) \/ Mkdir(c) \/ Symlink(c)
           \/ Remove(c) \/ Rmdir(c) \/ Rename(c)
    PROVE  CallInv' /\ MapStep
<1> SUFFICES \E new : CallTyped(new) /\ Begin(c, new)
  BY OneCall, Zenon DEF Inv, Begin, MapStep, fsmap
<1> USE DEF Inv
<1>1. CASE Lookup(c)
  <2>1. PICK id \in Known, name \in Names :
            Begin(c, [at |-> "meta", proc |-> "lookup", live |-> TRUE, rel |-> Child(id, name), inode |-> 0])
    BY <1>1, Zenon DEF Lookup
  <2> QED BY <2>1, ChildIsSeq, Zenon DEF CallTyped
<1>2. CASE LookupDot(c)
  <2>1. PICK id \in Known : \E rel \in {id_to_relative[id], Parent(id_to_relative[id])} :
            Begin(c, [at |-> "dot_stat", proc |-> "lookup", live |-> TRUE, rel |-> rel, inode |-> 0])
    BY <1>2, Zenon DEF LookupDot
  <2>2. id_to_relative[id] \in Seq(Names)
    BY Zenon DEF MapInv, Known
  <2>3. PICK rel \in Seq(Names) :
            Begin(c, [at |-> "dot_stat", proc |-> "lookup", live |-> TRUE, rel |-> rel, inode |-> 0])
    BY <2>1, <2>2, ParentIsSeq, Zenon
  <2> QED BY <2>3, Zenon DEF CallTyped
<1>3. CASE ReadDir(c)
  <2>1. PICK id \in Known :
            Begin(c, [at |-> "list", proc |-> "readdir", live |-> TRUE, id |-> id,
                      rel |-> id_to_relative[id], inode |-> 0, children |-> {}])
    BY <1>3, Zenon DEF ReadDir
  <2>2. id_to_relative[id] \in Seq(Names)
    BY Zenon DEF MapInv, Known
  <2> QED BY <2>1, <2>2, Zenon DEF CallTyped
<1>4. ASSUME NEW uses, ObjectPath(c, uses)
      PROVE  \E new : CallTyped(new) /\ Begin(c, new)
  <2>1. PICK id \in Known :
            Begin(c, [at |-> "object", proc |-> "object", live |-> TRUE, id |-> id,
                      rel |-> id_to_relative[id], uses |-> uses])
    BY <1>4, Zenon DEF ObjectPath
  <2>2. id_to_relative[id] \in Seq(Names)
    BY Zenon DEF MapInv, Known
  <2> QED BY <2>1, <2>2, Zenon DEF CallTyped
<1>5. ASSUME NEW proc, NEW at \in {"make", "probe", "unlink"}, NEW mode, NEW verifier,
             Changing(c, proc, at, mode, verifier)
      PROVE  \E new : CallTyped(new) /\ Begin(c, new)
  <2>1. PICK id \in Known, name \in Names :
            Begin(c, [at |-> at, proc |-> proc, live |-> TRUE, rel |-> Child(id, name),
                      mode |-> mode, verifier |-> verifier])
    BY <1>5, Zenon DEF Changing
  <2> QED BY <2>1, ChildIsSeq, Zenon DEF CallTyped
<1>6. CASE Rename(c)
  <2>1. PICK id \in Known, to_id \in Known, name \in Names, to_name \in Names :
            Begin(c, [at |-> "to_child", proc |-> "rename", live |-> TRUE, rel |-> Child(id, name),
                      to_id |-> to_id, to_name |-> to_name])
    BY <1>6, Zenon DEF Rename
  <2> QED BY <2>1, ChildIsSeq, Zenon DEF CallTyped
<1>7. CASE GetAttr(c) \/ SetAttr(c) \/ ReadLink(c) \/ Read(c) \/ Write(c) \/ Commit(c)
  BY <1>4, <1>7, Zenon DEF GetAttr, SetAttr, ReadLink, Read, Write, Commit
<1>8. CASE \/ Create(c) \/ CreateExclusive(c) \/ Mkdir(c) \/ Symlink(c) \/ Remove(c) \/ Rmdir(c)
  BY <1>5, <1>8, Zenon DEF Create, CreateExclusive, Mkdir, Symlink, Remove, Rmdir
<1> QED BY <1>1, <1>2, <1>3, <1>6, <1>7, <1>8, Zenon

\* A call in progress, with the fields that its steps rely on
LEMMA Carried ==
    ASSUME CallInv, NEW c \in Calls, call[c].at # "done"
    PROVE  /\ call[c].rel \in Seq(Names)
           /\ \A at : at \notin {"move", "remap", "list", "entry", "entry_intern"} =>
                 CallTyped([call[c] EXCEPT !.at = at])
<1>1. CallTyped(call[c])
  BY Zenon DEF CallInv
<1>2. {"at", "rel", "live"} \subseteq DOMAIN call[c] /\ call[c].rel \in Seq(Names)
  BY <1>1, Zenon DEF CallTyped
<1>3. ASSUME NEW at, at \notin {"move", "remap", "list", "entry", "entry_intern"}
      PROVE  CallTyped([call[c] EXCEPT !.at = at])
  <2> DEFINE new == [call[c] EXCEPT !.at = at]
  <2>1. DOMAIN new = DOMAIN call[c] /\ new.at = at /\ new.rel = call[c].rel
    BY <1>2, Zenon
  <2> HIDE DEF new
  <2>2. CallTyped(new)
    BY <1>2, <1>3, <2>1, Zenon DEF CallTyped
  <2> QED BY <2>2, Zenon DEF new
<1> QED BY <1>2, <1>3, Zenon

\* Steps that use the host and leave the map as it is
LEMMA HostStepInv ==
    ASSUME Inv, NEW c \in Calls,
           \/ DotStat(c) \/ Meta(c) \/ Object(c) \/ List(c) \/ Probe(c) \/ Make(c) \/ Apply(c)
           \/ Unlink(c) \/ Move(c)
    PROVE  CallInv' /\ MapStep
<1>1. UNCHANGED fsmap /\ call[c].at # "done"
  BY Zenon DEF DotStat, Meta, Stat, Object, List, Probe, Make, Apply, Unlink, Move, UsesHost, At
<1>2. MapStep
  BY <1>1, Zenon DEF MapStep, fsmap
<1>3. call[c].rel \in Seq(Names) /\ CallTyped(call[c]) /\ {"at", "rel", "live"} \subseteq DOMAIN call[c]
  BY <1>1, Zenon DEF Inv, CallInv, CallTyped
<1>4. ASSUME NEW at \in {"meta", "apply", "forget"} PROVE CallTyped(To(c, at))
  BY <1>3, Zenon DEF CallTyped, To
<1> SUFFICES \E new : CallTyped(new) /\ Goto(c, new)
  BY <1>2, GotoInv, Zenon DEF Inv
<1>5. ASSUME NEW step, NEW next \in {"intern", "dot_intern"}, Stat(c, step, next)
      PROVE  \E new : CallTyped(new) /\ Goto(c, new)
  <2>0. PICK p : StatAt(c, p, next)
    BY <1>5, Zenon DEF Stat
  <2> DEFINE new == [call[c] EXCEPT !.at = next, !.inode = host[p].inode]
  <2>1. DOMAIN new = DOMAIN call[c] /\ new.at = next /\ new.rel = call[c].rel
    BY <1>3, Zenon
  <2>2. Goto(c, new) \/ Goto(c, Done)
    BY <2>0, Zenon DEF StatAt
  <2> HIDE DEF new
  <2>3. CallTyped(new)
    BY <1>3, <2>1, Zenon DEF CallTyped
  <2> QED BY <2>2, <2>3, DoneTyped, Zenon
<1>6. CASE DotStat(c) \/ Meta(c)
  BY <1>5, <1>6, Zenon DEF DotStat, Meta
<1>7. CASE Object(c)
  <2> DEFINE new == [call[c] EXCEPT !.uses = Tail(@)]
  <2>1. DOMAIN new = DOMAIN call[c] /\ new.at = call[c].at /\ new.rel = call[c].rel /\ call[c].at = "object"
    BY <1>3, <1>7, Zenon DEF Object, UsesHost, At
  <2>2. Goto(c, new) \/ Goto(c, Done)
    BY <1>7, Zenon DEF Object, ObjectAt
  <2> HIDE DEF new
  <2>3. CallTyped(new)
    BY <1>3, <2>1, Zenon DEF CallTyped
  <2> QED BY <2>2, <2>3, DoneTyped, Zenon
<1>8. CASE List(c)
  <2>0. PICK dir : ListAt(c, dir)
    BY <1>8, Zenon DEF List
  <2> DEFINE children == {<<n, host[Append(dir, n)].inode>> : n \in {m \in Names : Exists(Append(dir, m))}}
             new == [call[c] EXCEPT !.at = "entry", !.children = children]
  <2>1. {"children", "id", "inode"} \subseteq DOMAIN call[c]
    BY <1>3, <1>8, Zenon DEF List, UsesHost, At, CallTyped
  <2>2. /\ DOMAIN new = DOMAIN call[c] /\ new.at = "entry" /\ new.rel = call[c].rel
        /\ new.children = children
    BY <1>3, <2>1, Zenon
  <2>3. Goto(c, new) \/ Goto(c, Done)
    BY <2>0, Zenon DEF ListAt
  <2>4. \A child \in children : child[1] \in Names
    OBVIOUS
  <2> HIDE DEF new, children
  <2>5. CallTyped(new)
    BY <1>3, <2>1, <2>2, <2>4, Zenon DEF CallTyped
  <2> QED BY <2>3, <2>5, DoneTyped, Zenon
<1>9. CASE Probe(c)
  <2>1. \E at \in {"verify", "make"} : Goto(c, [call[c] EXCEPT !.at = at])
    BY <1>9, Zenon DEF Probe, ProbeAt
  <2> QED BY <1>1, <2>1, Carried, Zenon DEF Inv
<1>10. CASE Make(c)
  <2>1. \/ Goto(c, [call[c] EXCEPT !.at = "remember"])
        \/ Goto(c, To(c, "meta")) \/ Goto(c, To(c, "apply")) \/ Goto(c, Done)
    BY <1>10, Zenon DEF Make, MakeAt
  <2>2. CallTyped([call[c] EXCEPT !.at = "remember"])
    BY <1>1, Carried, Zenon DEF Inv
  <2> QED BY <1>4, <2>1, <2>2, DoneTyped, Zenon
<1>11. CASE Apply(c)
  BY <1>4, <1>11, DoneTyped, Zenon DEF Apply
<1>12. CASE Unlink(c)
  BY <1>4, <1>12, DoneTyped, Zenon DEF Unlink, UnlinkAt
<1>13. CASE Move(c)
  <2> DEFINE new == [call[c] EXCEPT !.at = "remap"]
  <2>1. "to" \in DOMAIN call[c] /\ call[c].to \in Seq(Names)
    BY <1>3, <1>13, Zenon DEF Move, UsesHost, At, CallTyped
  <2>2. /\ DOMAIN new = DOMAIN call[c] /\ new.at = "remap" /\ new.rel = call[c].rel
        /\ new.to = call[c].to
    BY <1>3, <2>1, Zenon
  <2>3. Goto(c, new) \/ Goto(c, Done)
    BY <1>13, Zenon DEF Move, MoveAt
  <2> HIDE DEF new
  <2>4. CallTyped(new)
    BY <1>3, <2>1, <2>2, Zenon DEF CallTyped
  <2> QED BY <2>3, <2>4, DoneTyped, Zenon
<1> QED BY <1>6, <1>7, <1>8, <1>9, <1>10, <1>11, <1>12, <1>13, Zenon

\* Steps that use the map: each is one operation of it, on paths that the call carries.
LEMMA MapStepInv ==
    ASSUME Inv, NEW c \in Calls,
           \/ Created(c) \/ Entry(c) \/ EntryIntern(c) \/ Verify(c) \/ Remember(c)
           \/ Forget(c) \/ ToChild(c) \/ Remap(c)
    PROVE  CallInv' /\ MapStep
<1>1. call[c].at # "done"
  BY Zenon DEF Created, Entry, EntryIntern, Verify, Remember, Forget, ToChild, Remap, UsesMap, At
<1>2. call[c].rel \in Seq(Names) /\ CallTyped(call[c]) /\ {"at", "rel", "live"} \subseteq DOMAIN call[c]
  BY <1>1, Zenon DEF Inv, CallInv, CallTyped
<1>3. CallTyped(To(c, "meta"))
  BY <1>2, Zenon DEF CallTyped, To
<1>4. CASE Created(c)
  BY <1>2, <1>4, EndInv, Zenon DEF Created, Inv, MapStep
<1>5. CASE Entry(c)
  <2>1. /\ call[c].at = "entry" /\ {"children", "id", "inode"} \subseteq DOMAIN call[c]
        /\ \A child \in call[c].children : child[1] \in Names
    BY <1>2, <1>5, Zenon DEF Entry, UsesMap, At, CallTyped
  <2>2. PICK child \in call[c].children :
            Goto(c, IF call[c].id \in Known
                    THEN [call[c] EXCEPT !.at = "entry_intern", !.rel = Child(call[c].id, child[1]),
                                         !.inode = child[2], !.children = @ \ {child}]
                    ELSE Done)
    BY <1>5, Zenon DEF Entry
  <2>3. CASE call[c].id \in Known
    <3> DEFINE new == [call[c] EXCEPT !.at = "entry_intern", !.rel = Child(call[c].id, child[1]),
                                      !.inode = child[2], !.children = @ \ {child}]
    <3>1. /\ DOMAIN new = DOMAIN call[c] /\ new.at = "entry_intern"
          /\ new.rel = Child(call[c].id, child[1]) /\ new.children = call[c].children \ {child}
      BY <1>2, <2>1, Zenon
    <3>2. Goto(c, new)
      BY <2>2, <2>3, Zenon
    <3> HIDE DEF new
    <3>3. new.rel \in Seq(Names)
      BY <2>1, <2>3, <3>1, ChildIsSeq, Zenon DEF Inv
    <3>4. CallTyped(new)
      BY <1>2, <2>1, <3>1, <3>3, Zenon DEF CallTyped
    <3> QED BY <1>5, <3>2, <3>4, GotoInv, Zenon DEF Inv, Entry, MapStep, fsmap
  <2>4. CASE call[c].id \notin Known
    BY <1>5, <2>2, <2>4, EndInv, Zenon DEF Inv, Entry, MapStep, fsmap
  <2> QED BY <2>3, <2>4, Zenon
<1>6. CASE EntryIntern(c)
  <2> DEFINE new == [call[c] EXCEPT !.at = "entry"]
  <2>1. /\ call[c].at = "entry_intern" /\ {"children", "id", "inode"} \subseteq DOMAIN call[c]
        /\ \A child \in call[c].children : child[1] \in Names
    BY <1>2, <1>6, Zenon DEF EntryIntern, UsesMap, At, CallTyped
  <2>2. /\ DOMAIN new = DOMAIN call[c] /\ new.at = "entry" /\ new.rel = call[c].rel
        /\ new.children = call[c].children
    BY <1>2, <2>1, Zenon
  <2>3. Goto(c, new) \/ Goto(c, Done)
    BY <1>6, Zenon DEF EntryIntern
  <2> HIDE DEF new
  <2>4. CallTyped(new)
    BY <1>2, <2>1, <2>2, Zenon DEF CallTyped
  <2>5. CallInv'
    BY <2>3, <2>4, GotoInv, EndInv, Zenon DEF Inv
  <2> QED BY <1>2, <1>6, <2>5, Zenon DEF EntryIntern, MapStep
<1>7. CASE Verify(c)
  <2>1. Goto(c, To(c, "meta")) \/ Goto(c, Done)
    BY <1>7, Zenon DEF Verify
  <2> QED BY <1>3, <1>7, <2>1, GotoInv, EndInv, Zenon DEF Inv, Verify, MapStep, fsmap
<1>8. CASE Remember(c)
  BY <1>3, <1>8, GotoInv, Zenon DEF Inv, Remember, MapStep
<1>9. CASE Forget(c)
  BY <1>2, <1>9, EndInv, Zenon DEF Inv, Forget, MapStep
<1>10. CASE ToChild(c)
  <2> DEFINE to == Child(call[c].to_id, call[c].to_name)
             new == [at |-> "move", proc |-> "rename", live |-> TRUE, rel |-> call[c].rel, to |-> to]
  <2>1. (Goto(c, new) /\ to \in Paths) \/ Goto(c, Done)
    BY <1>10, Zenon DEF ToChild
  <2>2. to \in Paths => CallTyped(new)
    BY <1>2, PathsAreSeqs, Zenon DEF CallTyped
  <2>3. CallInv'
    BY <2>1, <2>2, GotoInv, EndInv, Zenon DEF Inv
  <2> QED BY <1>10, <2>3, Zenon DEF ToChild, MapStep, fsmap
<1>11. CASE Remap(c)
  <2>1. call[c].to \in Seq(Names)
    BY <1>2, <1>11, Zenon DEF Remap, UsesMap, At, CallTyped
  <2> QED BY <1>2, <1>11, <2>1, EndInv, Zenon DEF Inv, Remap, MapStep
<1> QED BY <1>4, <1>5, <1>6, <1>7, <1>8, <1>9, <1>10, <1>11, Zenon

\* A dropped call ends, or goes on without its client as far as the host.
LEMMA DropInv ==
    ASSUME Inv, NEW c \in Calls, Drop(c)
    PROVE  CallInv' /\ MapStep
<1>1. CallTyped(call[c]) /\ call[c].at # "done"
  BY Zenon DEF Inv, CallInv, Drop, Active
<1> DEFINE new == [call[c] EXCEPT !.live = FALSE]
<1>2. CASE call[c].at \in {"make", "unlink", "move"}
  <2>1. call' = [call EXCEPT ![c] = new]
    BY <1>2, Zenon DEF Drop, Inv, CallInv
  <2>2. /\ DOMAIN new = DOMAIN call[c] /\ new.at = call[c].at /\ new.rel = call[c].rel
        /\ call[c].at = "move" => new.to = call[c].to
    BY <1>1, Zenon DEF CallTyped
  <2> HIDE DEF new
  <2>3. CallTyped(new)
    BY <1>1, <1>2, <2>2, Zenon DEF CallTyped
  <2> QED BY <2>1, <2>3, OneCall, Zenon DEF Inv, Drop, MapStep, fsmap
<1>3. CASE call[c].at \notin {"make", "unlink", "move"}
  <2>1. call' = [call EXCEPT ![c] = Done]
    BY <1>3, Zenon DEF Drop, Inv, CallInv
  <2> QED BY <2>1, OneCall, DoneTyped, Zenon DEF Inv, Drop, MapStep, fsmap
<1> QED BY <1>2, <1>3, Zenon

\* Every step is at most one operation of the map, on paths.
LEMMA NextIsMapStep == ASSUME Inv, Next PROVE CallInv' /\ MapStep
<1>1. PICK c \in Calls :
         \/ Lookup(c) \/ LookupDot(c) \/ ReadDir(c)
         \/ GetAttr(c) \/ SetAttr(c) \/ ReadLink(c) \/ Read(c) \/ Write(c) \/ Commit(c)
         \/ Create(c) \/ CreateExclusive(c) \/ Mkdir(c) \/ Symlink(c)
         \/ Remove(c) \/ Rmdir(c) \/ Rename(c)
         \/ Step(c) \/ Drop(c)
  BY Zenon DEF Next
<1>2. CASE Step(c)
  BY <1>2, HostStepInv, MapStepInv, Zenon DEF Step
<1>3. CASE Drop(c)
  BY <1>3, DropInv, Zenon
<1> QED BY <1>1, <1>2, <1>3, BeginInv, Zenon

-----------------------------------------------------------------------------
(* The theorems.                                                            *)

\* An operation of the map keeps it in order, and what it adds is new.
LEMMA MapStepKeeps ==
    ASSUME MapInv, MapStep
    PROVE  /\ MapInv'
           /\ \A i \in 1..(next_file_id - 1) : i \notin Known => i \notin Known'
<1>1. CASE UNCHANGED <<id_to_relative, relative_to_id, next_file_id>>
  BY <1>1, Zenon DEF MapInv, IndexAgrees, Range, Known
<1>2. CASE \E p \in Seq(Names) : Intern(p)
  <2>1. /\ MapInv'
        /\ \A i \in DOMAIN id_to_relative' : i \in DOMAIN id_to_relative \/ i >= next_file_id
    BY <1>2, InternInv, Zenon
  <2> QED BY <2>1 DEF Known, MapInv
<1>3. CASE \E p \in Seq(Names) : ForgetPrefix(p)
  BY <1>3, ForgetInv, Zenon DEF Known
<1>4. CASE \E from \in Seq(Names), to \in Seq(Names) : MovePrefix(from, to)
  BY <1>4, MoveInv, Zenon DEF Known
<1> QED BY <1>1, <1>2, <1>3, <1>4, Zenon DEF MapStep

\* The map starts in order, with the root.
LEMMA InitInv == Init => Inv
<1> SUFFICES ASSUME Init PROVE Inv
  BY Zenon
<1>1. MapInv
  BY DEF Init, MapInv, IndexAgrees, Range, ROOT_ID
<1>2. CallInv
  BY DoneTyped, Zenon DEF Init, CallInv
<1> QED BY <1>1, <1>2, Zenon DEF Inv

\* Steps keep the invariant, and forgotten identifiers stay forgotten.
LEMMA StepInv ==
    ASSUME Inv, [Next]_vars
    PROVE  Inv' /\ \A i \in 1..(next_file_id - 1) : i \notin Known => i \notin Known'
<1>1. CASE Next
  BY <1>1, NextIsMapStep, MapStepKeeps, Zenon DEF Inv
<1>2. CASE UNCHANGED vars
  <2>1. MapStep /\ UNCHANGED call
    BY <1>2, Zenon DEF vars, fsmap, MapStep
  <2>2. CallInv'
    BY <2>1, Zenon DEF Inv, CallInv, CallTyped
  <2> QED BY <2>1, <2>2, MapStepKeeps, Zenon DEF Inv
<1> QED BY <1>1, <1>2, Zenon

\* The map and the paths of the calls are in order in every reachable state.
THEOREM Invariance == Spec => []Inv
<1>1. Inv /\ [Next]_vars => Inv'
  BY StepInv, Zenon
<1> QED BY <1>1, InitInv, PTL DEF Spec

\* The two directions of FsMap agree in every reachable state, and no two identifiers
\* share a path, however intern, forget_prefix and move_prefix of any number of
\* calls follow each other.
THEOREM MapAgreement == Spec => []IndexAgrees
<1>1. Inv => IndexAgrees
  BY Zenon DEF Inv, MapInv
<1> QED BY <1>1, Invariance, PTL

\* An identifier that FsMap has forgotten is never given out again, nor does a rename
\* bring it back: a handle with it stays stale.
THEOREM HandlesStayStale == Spec => StaleStaysStale
<1>1. Inv /\ [Next]_vars => [\A i \in 1..(next_file_id - 1) : i \notin Known => i \notin Known']_vars
  BY StepInv, Zenon
<1> QED BY <1>1, Invariance, PTL DEF Spec, StaleStaysStale

-----------------------------------------------------------------------------
(* Steps that are not led through a link use the host at the path that the  *)
(* call carries.                                                            *)

PlainStat(c, step, next) == UsesHost(c, step) /\ StatAt(c, call[c].rel, next) /\ UNCHANGED history
PlainList(c) == UsesHost(c, "list") /\ ListAt(c, call[c].rel) /\ UNCHANGED history
PlainProbe(c) == UsesHost(c, "probe") /\ ProbeAt(c, call[c].rel) /\ UNCHANGED history
PlainMake(c) == UsesHost(c, "make") /\ MakeAt(c, call[c].rel) /\ UNCHANGED history
PlainUnlink(c) == UsesHost(c, "unlink") /\ UnlinkAt(c, call[c].rel) /\ UNCHANGED history
PlainMove(c) == UsesHost(c, "move") /\ MoveAt(c, call[c].rel, call[c].to) /\ UNCHANGED history
PlainObject(c) ==
    /\ UsesHost(c, "object") /\ ObjectAt(c, call[c].rel) /\ UNCHANGED <<disturbed, dropped>>
    /\ \/ UNCHANGED told
       \/ /\ Exists(call[c].rel) /\ Len(call[c].uses) = 1
          /\ told' = told \cup {<<call[c].id, host[call[c].rel].inode>>}
PlainStep(c) ==
    \/ PlainStat(c, "dot_stat", "dot_intern") \/ PlainStat(c, "meta", "intern") \/ PlainObject(c)
    \/ PlainList(c) \/ PlainProbe(c) \/ PlainMake(c) \/ PlainUnlink(c) \/ PlainMove(c)
    \/ Created(c) \/ Entry(c) \/ EntryIntern(c) \/ Verify(c) \/ Remember(c) \/ Apply(c)
    \/ Forget(c) \/ ToChild(c) \/ Remap(c)

\* Mishaps are not forgotten, and without any, what replies tell is kept.
LEMMA Recorded ==
    ASSUME NEW mishaps, NEW news, Record(mishaps, news), disturbed' = {}
    PROVE  disturbed = {} /\ mishaps = {} /\ told' = told \cup news
<1>1. disturbed' = disturbed \cup mishaps
  BY Zenon DEF Record
<1>2. disturbed = {} /\ mishaps = {}
  BY <1>1
<1>3. disturbed' \subseteq {"dropped"}
  BY Zenon
<1> QED BY <1>2, <1>3, Zenon DEF Record

\* A mishap that is not recorded did not happen.
LEMMA Uneventful ==
    ASSUME NEW condition, NEW mishap, NEW news, Record(When(condition, mishap), news), disturbed' = {}
    PROVE  ~condition /\ disturbed = {} /\ told' = told \cup news
<1>1. When(condition, mishap) = {} /\ disturbed = {} /\ told' = told \cup news
  BY Recorded, Zenon
<1>2. ~condition
  BY <1>1 DEF When
<1> QED BY <1>1, <1>2, Zenon

\* Where no link is met, the path is found where it says.
LEMMA Undiverted ==
    ASSUME NEW p, NEW follows, ~Diverted(p, follows)
    PROVE  Resolved(p, follows) = {p}
BY Zenon DEF Resolved

\* The same for a step of the host.
LEMMA PlainlyResolves ==
    ASSUME NEW diverted, Resolves(diverted, {}), disturbed' = {}
    PROVE  ~diverted /\ disturbed = {} /\ UNCHANGED history
<1>1. ~diverted /\ disturbed = {} /\ told' = told \cup {} /\ UNCHANGED dropped
  BY Uneventful, Zenon DEF Resolves
<1>2. told' = told
  BY <1>1
<1> QED BY <1>1, <1>2, Zenon DEF history

\* As long as nothing is disturbed, steps are plain.
LEMMA Plainly ==
    ASSUME NEW c \in Calls, Step(c), disturbed' = {}
    PROVE  PlainStep(c) /\ disturbed = {} /\ UNCHANGED dropped
<1> DEFINE rel == call[c].rel
<1> USE DEF PlainStep
<1>1. ASSUME NEW step, NEW next, Stat(c, step, next)
      PROVE  PlainStat(c, step, next) /\ disturbed = {} /\ UNCHANGED dropped
  <2>1. ~Diverted(rel, FALSE) /\ disturbed = {} /\ UNCHANGED history
    BY <1>1, PlainlyResolves, Zenon DEF Stat
  <2>2. StatAt(c, rel, next)
    BY <1>1, <2>1, Undiverted, Zenon DEF Stat
  <2> QED BY <1>1, <2>1, <2>2, Zenon DEF Stat, PlainStat, history
<1>2. CASE DotStat(c) \/ Meta(c)
  BY <1>1, <1>2, Zenon DEF DotStat, Meta
<1>3. CASE List(c)
  <2>1. ~Diverted(rel, FALSE) /\ disturbed = {} /\ UNCHANGED history
    BY <1>3, PlainlyResolves, Zenon DEF List
  <2>2. ListAt(c, rel)
    BY <1>3, <2>1, Undiverted, Zenon DEF List
  <2> QED BY <1>3, <2>1, <2>2, Zenon DEF List, PlainList, history
<1>4. CASE Probe(c)
  <2>1. ~Diverted(rel, FALSE) /\ disturbed = {} /\ UNCHANGED history
    BY <1>4, PlainlyResolves, Zenon DEF Probe
  <2>2. ProbeAt(c, rel)
    BY <1>4, <2>1, Undiverted, Zenon DEF Probe
  <2> QED BY <1>4, <2>1, <2>2, Zenon DEF Probe, PlainProbe, history
<1>5. CASE Make(c)
  <2> DEFINE follows == call[c].mode = "unchecked"
  <2>1. ~Diverted(rel, follows) /\ disturbed = {} /\ UNCHANGED history
    BY <1>5, PlainlyResolves, Zenon DEF Make
  <2>2. MakeAt(c, rel)
    <3>1. PICK p \in Resolved(rel, follows) : MakeAt(c, p)
      BY <1>5, Zenon DEF Make
    <3>2. Resolved(rel, follows) = {rel}
      BY <2>1, Undiverted, Zenon
    <3> QED BY <3>1, <3>2, Zenon
  <2> QED BY <1>5, <2>1, <2>2, Zenon DEF Make, PlainMake, history
<1>6. CASE Unlink(c)
  <2>1. ~Diverted(rel, FALSE) /\ disturbed = {} /\ UNCHANGED history
    BY <1>6, PlainlyResolves, Zenon DEF Unlink
  <2>2. UnlinkAt(c, rel)
    BY <1>6, <2>1, Undiverted, Zenon DEF Unlink
  <2> QED BY <1>6, <2>1, <2>2, Zenon DEF Unlink, PlainUnlink, history
<1>7. CASE Move(c)
  <2>1. /\ ~(Diverted(rel, FALSE) \/ Diverted(call[c].to, FALSE))
        /\ disturbed = {} /\ UNCHANGED history
    BY <1>7, PlainlyResolves, Zenon DEF Move
  <2>2. MoveAt(c, rel, call[c].to)
    BY <1>7, <2>1, Undiverted, Zenon DEF Move
  <2> QED BY <1>7, <2>1, <2>2, Zenon DEF Move, PlainMove, history
<1>8. CASE Object(c)
  <2> DEFINE use == Head(call[c].uses)
             news(p) == IF Len(call[c].uses) = 1 /\ Exists(p) /\ host[p].kind \in use.kinds
                        THEN {<<call[c].id, host[p].inode>>} ELSE {}
  <2>1. PICK p \in Resolved(rel, use.follows) :
           ObjectAt(c, p) /\ Resolves(Diverted(rel, use.follows), news(p))
    BY <1>8, Zenon DEF Object
  <2>2. /\ ~Diverted(rel, use.follows) /\ disturbed = {}
        /\ told' = told \cup news(p) /\ UNCHANGED dropped
    BY <2>1, Uneventful, Zenon DEF Resolves
  <2>3. p = rel
    BY <2>1, <2>2, Undiverted, Zenon
  <2>4. told' = told \/ /\ Exists(rel) /\ Len(call[c].uses) = 1
                        /\ told' = told \cup {<<call[c].id, host[rel].inode>>}
    BY <2>2, <2>3
  <2> QED BY <1>8, <2>1, <2>2, <2>3, <2>4, Zenon DEF Object, PlainObject
<1>9. CASE Created(c) \/ EntryIntern(c)
  <2>1. PICK news : Record({}, news) /\ UNCHANGED dropped
    BY <1>9, Zenon DEF Created, EntryIntern, Tell
  <2> QED BY <1>9, <2>1, Recorded, Zenon
<1>10. CASE Entry(c) \/ Verify(c) \/ Remember(c) \/ Apply(c) \/ Forget(c) \/ ToChild(c) \/ Remap(c)
  <2>1. UNCHANGED history
    BY <1>10, Zenon DEF Entry, Verify, Remember, Apply, Forget, ToChild, Remap
  <2> QED BY <1>10, <2>1, Zenon DEF history
<1> QED BY <1>2, <1>3, <1>4, <1>5, <1>6, <1>7, <1>8, <1>9, <1>10, Zenon DEF Step

-----------------------------------------------------------------------------
(* What file identifiers denote.                                            *)
(*                                                                          *)
(* As long as removals and renames run alone (Alone) and no link is         *)
(* followed (Plainly), calls beside each other only add: what one of them   *)
(* has found stays true until it uses it (CallHolds), and what the replies  *)
(* have told is still so (Located).  From its use of the host to its use of *)
(* the map a removal or rename is the only call, and what it is about to do *)
(* to the map restores this (Unlinked, Renamed).                            *)

\* The steps of removals and renames, and those after which the map is behind the host
MovingSteps == {"unlink", "to_child", "move", "forget", "remap"}
HalfDone == {"forget", "remap"}

\* The host has the inode at the path.
IsAt(files, p, inode) == p \in DOMAIN files /\ files[p].inode = inode

\* What a call in progress knows about the map and the host is so.
CallHolds(r, ids, files) ==
    /\ {"at", "proc", "live", "rel"} \subseteq DOMAIN r
    /\ r.at \in MovingSteps <=> r.proc \in Moving
    /\ r.live \/ r.at = "make"
    /\ r.at \in {"meta", "dot_stat", "intern", "dot_intern"} => "inode" \in DOMAIN r
    /\ r.at \in {"probe", "verify", "make", "remember", "apply"} => r.proc = "create"
    /\ r.at = "to_child" => r.proc = "rename"
    /\ r.at \in {"probe", "make", "remember"} =>
          {"mode", "verifier"} \subseteq DOMAIN r /\ (r.mode # "exclusive" => r.verifier = NoVerifier)
    /\ r.at = "object" => {"id", "uses"} \subseteq DOMAIN r /\ r.id \in DOMAIN ids /\ r.rel = ids[r.id]
    /\ r.at \in {"intern", "dot_intern", "entry_intern"} => IsAt(files, r.rel, r.inode)
    /\ r.at \in {"list", "entry", "entry_intern"} => r.id \in DOMAIN ids
    /\ r.at = "list" => r.rel = ids[r.id]
    /\ r.at \in {"entry", "entry_intern"} =>
          \A child \in r.children : IsAt(files, Append(ids[r.id], child[1]), child[2])

\* Where a path is after a rename, and what the rename replaces
Relocated(p, from, to) == IF RelativeStartsWith(p, from) THEN Moved(p, from, to) ELSE p
Replaces(from, to, p) == from # to /\ RelativeStartsWith(p, to)

\* What replies have told about an identifier is so, or will be when the map has been
\* told of an unlink or of a rename.
Located(pairs, ids, files) ==
    \A t \in pairs : t[1] \in DOMAIN ids => IsAt(files, ids[t[1]], t[2])
Unlinked(pairs, ids, files, gone) ==
    \A t \in pairs : t[1] \in DOMAIN ids /\ ~RelativeStartsWith(ids[t[1]], gone) =>
       IsAt(files, ids[t[1]], t[2])
Renamed(pairs, ids, files, from, to) ==
    \A t \in pairs : t[1] \in DOMAIN ids /\ ~Replaces(from, to, ids[t[1]]) =>
       IsAt(files, Relocated(ids[t[1]], from, to), t[2])

\* No call runs beside a removal or rename.
Alone ==
    \A c \in Calls, d \in Calls : c # d /\ Active(c) /\ Active(d) => call[c].proc \notin Moving
\* The map knows of everything that was done to the host.
Quiet == \A c \in Calls : call[c].at \notin HalfDone
\* No identifier was told with two inodes.
Consistent ==
    /\ \A t \in told : t[1] \in 1..(next_file_id - 1)
    /\ \A t \in told, u \in told : t[1] = u[1] => t[2] = u[2]

\* What makes identifiers denote one object
ObjectInv ==
    disturbed = {} =>
        /\ Alone /\ Consistent
        /\ \A c \in Calls : Active(c) => CallHolds(call[c], id_to_relative, host)
        /\ Quiet => Located(told, id_to_relative, host)
        /\ \A c \in Calls :
              /\ call[c].at = "forget" => Unlinked(told, id_to_relative, host, call[c].rel)
              /\ call[c].at = "remap" => Renamed(told, id_to_relative, host, call[c].rel, call[c].to)

\* What is there stays, as it is.
Grows(old, new) == \A k \in DOMAIN old : k \in DOMAIN new /\ new[k] = old[k]

\* A step that only adds: to the host, to the map, and to what replies have told
Adds ==
    /\ Grows(id_to_relative, id_to_relative') /\ Grows(host, host')
    /\ next_file_id' >= next_file_id
    /\ \A i \in DOMAIN id_to_relative' : i \in DOMAIN id_to_relative \/ i >= next_file_id
    /\ \/ UNCHANGED told
       \/ \E i \in DOMAIN id_to_relative' : \E n :
             told' = told \cup {<<i, n>>} /\ IsAt(host', id_to_relative'[i], n)

\* What a call knows stays so while the map and the host only grow.
LEMMA HoldsOn ==
    ASSUME NEW r, NEW ids, NEW ids2, NEW files, NEW files2,
           Grows(ids, ids2), Grows(files, files2), CallHolds(r, ids, files)
    PROVE  CallHolds(r, ids2, files2)
<1>1. ASSUME NEW p, NEW n, IsAt(files, p, n) PROVE IsAt(files2, p, n)
  BY <1>1, Zenon DEF Grows, IsAt
<1>2. r.at = "object" => r.id \in DOMAIN ids2 /\ r.rel = ids2[r.id]
  BY DEF CallHolds, Grows
<1>3. r.at \in {"list", "entry", "entry_intern"} => r.id \in DOMAIN ids2 /\ ids2[r.id] = ids[r.id]
  BY Zenon DEF CallHolds, Grows
<1> QED BY <1>1, <1>2, <1>3, Zenon DEF CallHolds

\* Beside a call that has nothing half done, no call has.
LEMMA NothingHalfDone ==
    ASSUME ObjectInv, disturbed = {}, NEW c \in Calls, Active(c), call[c].at \notin HalfDone
    PROVE  Quiet
<1> SUFFICES ASSUME NEW d \in Calls, call[d].at \in HalfDone PROVE FALSE
  BY Zenon DEF Quiet
<1>1. Active(d) /\ d # c
  BY Zenon DEF HalfDone, Active
<1>2. CallHolds(call[d], id_to_relative, host) /\ Alone
  BY <1>1, Zenon DEF ObjectInv
<1>3. call[d].proc \in Moving
  BY <1>2, Zenon DEF CallHolds, HalfDone, MovingSteps
<1> QED BY <1>1, <1>2, <1>3, Zenon DEF Alone

\* A step that only adds, taken while nothing is half done, keeps what was told.
LEMMA AddsKeeps ==
    ASSUME MapInv, MapInv', Consistent, Located(told, id_to_relative, host), Adds
    PROVE  Consistent' /\ Located(told', id_to_relative', host')
<1>1. /\ next_file_id \in Nat /\ next_file_id' \in Nat /\ next_file_id' >= next_file_id
      /\ DOMAIN id_to_relative' \subseteq 1..(next_file_id' - 1)
  BY Zenon DEF MapInv, Adds
<1>2. ASSUME NEW t \in told
      PROVE  /\ t[1] \in 1..(next_file_id - 1) /\ t[1] \in 1..(next_file_id' - 1)
             /\ t[1] \in DOMAIN id_to_relative' => IsAt(host', id_to_relative'[t[1]], t[2])
  <2>1. t[1] \in 1..(next_file_id - 1)
    BY Zenon DEF Consistent
  <2>2. t[1] \in 1..(next_file_id' - 1) /\ ~(t[1] >= next_file_id)
    BY <1>1, <2>1
  <2>3. t[1] \in DOMAIN id_to_relative' => t[1] \in DOMAIN id_to_relative
    BY <2>2, Zenon DEF Adds
  <2>4. t[1] \in DOMAIN id_to_relative =>
           IsAt(host, id_to_relative[t[1]], t[2]) /\ id_to_relative'[t[1]] = id_to_relative[t[1]]
    BY Zenon DEF Located, Adds, Grows
  <2>5. t[1] \in DOMAIN id_to_relative => IsAt(host', id_to_relative'[t[1]], t[2])
    BY <2>4, Zenon DEF IsAt, Adds, Grows
  <2> QED BY <2>1, <2>2, <2>3, <2>5, Zenon
<1>3. CASE told' = told
  BY <1>2, <1>3, Zenon DEF Consistent, Located
<1>4. ASSUME NEW i \in DOMAIN id_to_relative', NEW n,
             told' = told \cup {<<i, n>>}, IsAt(host', id_to_relative'[i], n)
      PROVE  Consistent' /\ Located(told', id_to_relative', host')
  <2>1. \A t \in told' : /\ t[1] \in 1..(next_file_id' - 1)
                         /\ t[1] \in DOMAIN id_to_relative' => IsAt(host', id_to_relative'[t[1]], t[2])
    BY <1>1, <1>2, <1>4
  <2>2. \A t \in told : t[1] = i => t[2] = n
    BY <1>2, <1>4, Zenon DEF IsAt
  <2>3. \A t \in told', u \in told' : t[1] = u[1] => t[2] = u[2]
    BY <1>4, <2>2 DEF Consistent
  <2> QED BY <2>1, <2>3, Zenon DEF Consistent, Located
<1> QED BY <1>3, <1>4, Zenon DEF Adds

\* Such a step of one call, whose next step knows what is so, keeps the invariant.
LEMMA Frame ==
    ASSUME Inv, MapInv', ObjectInv, disturbed = {}, Quiet, Adds, Alone',
           NEW c \in Calls, NEW new, call' = [call EXCEPT ![c] = new],
           new.at # "done" => new.at \notin HalfDone /\ CallHolds(new, id_to_relative', host')
    PROVE  ObjectInv'
<1>1. /\ MapInv /\ Consistent /\ Located(told, id_to_relative, host)
      /\ \A d \in Calls : Active(d) => CallHolds(call[d], id_to_relative, host)
  BY Zenon DEF Inv, ObjectInv
<1>2. Consistent' /\ Located(told', id_to_relative', host')
  BY <1>1, AddsKeeps, Zenon
<1>3. \A d \in Calls : call'[d] = IF d = c THEN new ELSE call[d]
  BY Zenon DEF Inv, CallInv
<1>4. \A d \in Calls : call'[d].at \notin HalfDone
  BY <1>3, Zenon DEF Quiet, HalfDone
<1>5. ASSUME NEW d \in Calls, call'[d].at # "done"
      PROVE  CallHolds(call'[d], id_to_relative', host')
  <2>1. CASE d = c
    BY <1>3, <1>5, <2>1, Zenon
  <2>2. CASE d # c
    <3>1. call'[d] = call[d] /\ CallHolds(call[d], id_to_relative, host)
      BY <1>1, <1>3, <1>5, <2>2, Zenon DEF Active
    <3> QED BY <3>1, HoldsOn, Zenon DEF Adds
  <2> QED BY <2>1, <2>2, Zenon
<1> QED BY <1>2, <1>4, <1>5, Zenon DEF ObjectInv, Active, HalfDone

\* The same for a call that was in progress.
LEMMA Advance ==
    ASSUME Inv, MapInv', ObjectInv, disturbed = {}, Adds,
           NEW c \in Calls, Active(c), call[c].at \notin HalfDone,
           NEW new, call' = [call EXCEPT ![c] = new],
           new.at # "done" => /\ new.at \notin HalfDone /\ new.proc = call[c].proc
                              /\ CallHolds(new, id_to_relative', host')
    PROVE  ObjectInv'
<1>1. Quiet
  BY NothingHalfDone, Zenon
<1>2. \A d \in Calls : call'[d] = IF d = c THEN new ELSE call[d]
  BY Zenon DEF Inv, CallInv
<1>3. Alone'
  BY <1>2 DEF ObjectInv, Alone, Active
<1> QED BY <1>1, <1>3, Frame, Zenon

\* A step that leaves the map, the host and the replies as they are adds nothing.
LEMMA AddsNothing ==
    ASSUME MapInv, UNCHANGED <<id_to_relative, next_file_id, host, told>>
    PROVE  Adds
<1>1. next_file_id' >= next_file_id
  BY DEF MapInv
<1> QED BY <1>1, Zenon DEF Adds, Grows

\* A call that does not disturb runs beside calls that only add, or alone.
LEMMA BeginsQuietly ==
    ASSUME ObjectInv, NEW c \in Calls, NEW new, Begin(c, new), disturbed' = {}
    PROVE  disturbed = {} /\ ~Company(c, new.proc) /\ UNCHANGED told /\ Quiet
<1>1. disturbed = {} /\ ~Company(c, new.proc) /\ told' = told \cup {}
  BY Uneventful, Zenon DEF Begin
<1>2. disturbed = {} /\ ~Company(c, new.proc) /\ told' = told
  BY <1>1
<1>3. Quiet
  <2> SUFFICES ASSUME NEW d \in Calls, call[d].at \in HalfDone PROVE FALSE
    BY Zenon DEF Quiet
  <2>1. Active(d) /\ d # c
    BY Zenon DEF HalfDone, Active, Begin
  <2>2. CallHolds(call[d], id_to_relative, host)
    BY <1>2, <2>1, Zenon DEF ObjectInv
  <2> QED BY <1>2, <2>1, <2>2, Zenon DEF CallHolds, HalfDone, MovingSteps, Company
<1> QED BY <1>2, <1>3, Zenon

\* What a call that begins knows is so: the others stay as they are.
LEMMA Begins ==
    ASSUME Inv, ObjectInv, NEW c \in Calls, NEW new, Begin(c, new),
           new.at \notin HalfDone, CallHolds(new, id_to_relative, host)
    PROVE  ObjectInv'
<1> SUFFICES ASSUME disturbed' = {} PROVE ObjectInv'
  BY Zenon DEF ObjectInv
<1>1. disturbed = {} /\ ~Company(c, new.proc) /\ UNCHANGED told /\ Quiet
  BY BeginsQuietly, Zenon
<1>2. UNCHANGED <<host, id_to_relative, relative_to_id, next_file_id>>
  BY Zenon DEF Begin, fsmap, backing
<1>3. call' = [call EXCEPT ![c] = new]
  BY Zenon DEF Begin
<1>4. \A d \in Calls : call'[d] = IF d = c THEN new ELSE call[d]
  BY <1>3, Zenon DEF Inv, CallInv
<1>5. \A d \in Calls \ {c} : Active(d) => new.proc \notin Moving /\ call[d].proc \notin Moving
  BY <1>1, Zenon DEF Company
<1>6. Alone'
  <2>1. Alone
    BY <1>1, Zenon DEF ObjectInv
  <2> QED BY <1>4, <1>5, <2>1, Zenon DEF Alone, Active
<1>7. Adds
  BY <1>1, <1>2, AddsNothing, Zenon DEF Inv
<1>8. MapInv'
  BY <1>2, Zenon DEF Inv, MapInv, IndexAgrees
<1>9. CallHolds(new, id_to_relative', host')
  BY <1>2, Zenon
<1> QED BY <1>1, <1>3, <1>6, <1>7, <1>8, <1>9, Frame, Zenon

\* What every call knows when it begins is so.
LEMMA BeginObjects ==
    ASSUME Inv, ObjectInv, NEW c \in Calls,
           \/ Lookup(c) \/ LookupDot(c) \/ ReadDir(c)
           \/ GetAttr(c) \/ SetAttr(c) \/ ReadLink(c) \/ Read(c) \/ Write(c) \/ Commit(c)
           \/ Create(c) \/ CreateExclusive(c) \/ Mkdir(c) \/ Symlink(c)
           \/ Remove(c) \/ Rmdir(c) \/ Rename(c)
    PROVE  ObjectInv'
<1> SUFFICES \E new : /\ Begin(c, new) /\ new.at \notin HalfDone
                      /\ CallHolds(new, id_to_relative, host)
  BY Begins, Zenon
<1> USE DEF HalfDone, MovingSteps, Moving
<1>1. CASE Lookup(c)
  <2>1. PICK rel : Begin(c, [at |-> "meta", proc |-> "lookup", live |-> TRUE, rel |-> rel, inode |-> 0])
    BY <1>1, Zenon DEF Lookup
  <2> QED BY <2>1 DEF CallHolds
<1>2. CASE LookupDot(c)
  <2>1. PICK rel : Begin(c, [at |-> "dot_stat", proc |-> "lookup", live |-> TRUE, rel |-> rel, inode |-> 0])
    BY <1>2, Zenon DEF LookupDot
  <2> QED BY <2>1 DEF CallHolds
<1>3. CASE ReadDir(c)
  <2>1. PICK id \in Known :
            Begin(c, [at |-> "list", proc |-> "readdir", live |-> TRUE, id |-> id,
                      rel |-> id_to_relative[id], inode |-> 0, children |-> {}])
    BY <1>3, Zenon DEF ReadDir
  <2> QED BY <2>1 DEF CallHolds, Known
<1>4. ASSUME NEW uses, ObjectPath(c, uses)
      PROVE  \E new : /\ Begin(c, new) /\ new.at \notin HalfDone
                      /\ CallHolds(new, id_to_relative, host)
  <2>1. PICK id \in Known :
            Begin(c, [at |-> "object", proc |-> "object", live |-> TRUE, id |-> id,
                      rel |-> id_to_relative[id], uses |-> uses])
    BY <1>4, Zenon DEF ObjectPath
  <2> QED BY <2>1 DEF CallHolds, Known
<1>5. ASSUME NEW proc, NEW at, NEW mode, NEW verifier, Changing(c, proc, at, mode, verifier),
             \/ proc = "create" /\ at \in {"make", "probe"}
             \/ proc \in {"remove", "rmdir"} /\ at = "unlink",
             mode # "exclusive" => verifier = NoVerifier
      PROVE  \E new : /\ Begin(c, new) /\ new.at \notin HalfDone
                      /\ CallHolds(new, id_to_relative, host)
  <2>1. PICK rel : Begin(c, [at |-> at, proc |-> proc, live |-> TRUE, rel |-> rel,
                             mode |-> mode, verifier |-> verifier])
    BY <1>5, Zenon DEF Changing
  <2> QED BY <1>5, <2>1 DEF CallHolds
<1>6. CASE Rename(c)
  <2>1. PICK rel, to_id, to_name :
            Begin(c, [at |-> "to_child", proc |-> "rename", live |-> TRUE, rel |-> rel,
                      to_id |-> to_id, to_name |-> to_name])
    BY <1>6, Zenon DEF Rename
  <2> QED BY <2>1 DEF CallHolds
<1>7. CASE GetAttr(c) \/ SetAttr(c) \/ ReadLink(c) \/ Read(c) \/ Write(c) \/ Commit(c)
  BY <1>4, <1>7, Zenon DEF GetAttr, SetAttr, ReadLink, Read, Write, Commit
<1>8. CASE Create(c) \/ CreateExclusive(c) \/ Mkdir(c) \/ Symlink(c)
  BY <1>5, <1>8, Zenon DEF Create, CreateExclusive, Mkdir, Symlink
<1>9. CASE Remove(c) \/ Rmdir(c)
  BY <1>5, <1>9, Zenon DEF Remove, Rmdir
<1> QED BY <1>1, <1>2, <1>3, <1>6, <1>7, <1>8, <1>9, Zenon

\* intern gives the path an identifier, and takes none away.
LEMMA InternAdds ==
    ASSUME MapInv, NEW p \in Seq(Names), Intern(p)
    PROVE  /\ FileId(p) \in DOMAIN id_to_relative' /\ id_to_relative'[FileId(p)] = p
           /\ Grows(id_to_relative, id_to_relative') /\ next_file_id' >= next_file_id
           /\ \A i \in DOMAIN id_to_relative' : i \in DOMAIN id_to_relative \/ i >= next_file_id
<1>1. /\ next_file_id' >= next_file_id
      /\ \A i \in DOMAIN id_to_relative' : i \in DOMAIN id_to_relative \/ i >= next_file_id
  BY InternInv, Zenon
<1>2. CASE Interned(p) # {}
  <2>1. FileId(p) \in Interned(p)
    BY <1>2, Zenon DEF FileId
  <2>2. FileId(p) \in DOMAIN id_to_relative /\ id_to_relative[FileId(p)] = p
    BY <2>1, InternFinds, Zenon
  <2>3. id_to_relative' = id_to_relative
    BY <1>2, Zenon DEF Intern, fsmap
  <2> QED BY <1>1, <2>2, <2>3, Zenon DEF Grows
<1>3. CASE Interned(p) = {}
  <2>1. FileId(p) = next_file_id /\ next_file_id \in Nat
    BY <1>3, Zenon DEF FileId, MapInv
  <2>2. FileId(p) \notin DOMAIN id_to_relative
    BY <2>1 DEF MapInv
  <2>3. id_to_relative' = With(id_to_relative, FileId(p), p)
    BY <1>3, Zenon DEF Intern
  <2> QED BY <1>1, <2>2, <2>3, Zenon DEF With, Grows
<1> QED BY <1>2, <1>3, Zenon

\* Goto goes on with a call that is live, and ends one that was dropped.
LEMMA GoesOn ==
    ASSUME CallInv, NEW c \in Calls, NEW new, Goto(c, new)
    PROVE  \/ call[c].live /\ call' = [call EXCEPT ![c] = new]
           \/ ~call[c].live /\ call' = [call EXCEPT ![c] = Done]
<1>1. CASE call[c].live
  BY <1>1, Zenon DEF Goto, CallInv
<1>2. CASE ~call[c].live
  BY <1>2, Zenon DEF Goto, CallInv
<1> QED BY <1>1, <1>2, Zenon

\* A step with Goto that only adds
LEMMA Proceeds ==
    ASSUME Inv, Inv', ObjectInv, disturbed = {}, Adds,
           NEW c \in Calls, Active(c), call[c].at \notin HalfDone, NEW new, Goto(c, new),
           new.at # "done" => /\ new.at \notin HalfDone /\ new.proc = call[c].proc
                              /\ CallHolds(new, id_to_relative', host')
    PROVE  ObjectInv'
<1>1. MapInv' /\ CallInv
  BY Zenon DEF Inv
<1>2. Done.at = "done"
  BY Zenon DEF Done
<1>3. CASE call' = [call EXCEPT ![c] = new]
  BY <1>1, <1>3, Advance, Zenon
<1>4. CASE call' = [call EXCEPT ![c] = Done]
  BY <1>1, <1>2, <1>4, Advance, Zenon
<1> QED BY <1>1, <1>3, <1>4, GoesOn, Zenon

\* Steps that look at the host and find what is there
LEMMA LookingObjects ==
    ASSUME Inv, Inv', ObjectInv, disturbed = {}, NEW c \in Calls,
           \/ PlainStat(c, "dot_stat", "dot_intern") \/ PlainStat(c, "meta", "intern")
           \/ PlainList(c) \/ PlainProbe(c) \/ Apply(c)
    PROVE  ObjectInv'
<1> DEFINE r == call[c]
<1>1. /\ Active(c) /\ UNCHANGED <<id_to_relative, next_file_id, host, told>>
      /\ r.at \in {"dot_stat", "meta", "list", "probe", "apply"}
  BY Zenon DEF PlainStat, StatAt, PlainList, ListAt, PlainProbe, ProbeAt, Apply, UsesHost, At, Active,
         fsmap, backing, history
<1>2. Adds /\ r.at \notin HalfDone
  BY <1>1, AddsNothing, Zenon DEF Inv, HalfDone
<1>3. /\ CallHolds(r, id_to_relative, host)
      /\ {"at", "proc", "live", "rel"} \subseteq DOMAIN r /\ r.live
      /\ r.proc \notin Moving
  BY <1>1, Zenon DEF ObjectInv, CallHolds, MovingSteps
<1>4. CallTyped(r)
  BY Zenon DEF Inv, CallInv
<1> SUFFICES \E new : /\ Goto(c, new)
                      /\ new.at # "done" => /\ new.at \notin HalfDone /\ new.proc = r.proc
                                            /\ CallHolds(new, id_to_relative, host)
  BY <1>1, <1>2, Proceeds, Zenon
<1> USE DEF HalfDone
<1>5. ASSUME NEW step \in {"meta", "dot_stat"}, NEW next \in {"intern", "dot_intern"}, PlainStat(c, step, next)
      PROVE  \E new : /\ Goto(c, new)
                      /\ new.at # "done" => /\ new.at \notin HalfDone /\ new.proc = r.proc
                                            /\ CallHolds(new, id_to_relative, host)
  <2> DEFINE new == [r EXCEPT !.at = next, !.inode = host[r.rel].inode]
  <2>1. r.at = step /\ "inode" \in DOMAIN r
    BY <1>3, <1>5, Zenon DEF PlainStat, UsesHost, At, CallHolds
  <2>2. /\ DOMAIN new = DOMAIN r /\ new.at = next /\ new.rel = r.rel /\ new.proc = r.proc
        /\ new.live = r.live /\ new.inode = host[r.rel].inode
    BY <1>3, <2>1, Zenon
  <2>3. (Goto(c, new) /\ Exists(r.rel)) \/ Goto(c, Done)
    BY <1>5, Zenon DEF PlainStat, StatAt
  <2> HIDE DEF new, r
  <2>4. Exists(r.rel) => CallHolds(new, id_to_relative, host)
    BY <1>3, <2>1, <2>2, Zenon DEF CallHolds, IsAt, Exists, MovingSteps
  <2>5. Done.at = "done"
    BY Zenon DEF Done
  <2>6. new.at \notin HalfDone /\ new.proc = r.proc
    BY <2>2, Zenon
  <2> QED BY <2>3, <2>4, <2>5, <2>6, Zenon
<1>6. CASE PlainStat(c, "dot_stat", "dot_intern") \/ PlainStat(c, "meta", "intern")
  BY <1>5, <1>6, Zenon
<1>7. CASE PlainList(c)
  <2> DEFINE dir == r.rel
             children == {<<n, host[Append(dir, n)].inode>> : n \in {m \in Names : Exists(Append(dir, m))}}
             new == [r EXCEPT !.at = "entry", !.children = children]
  <2>1. r.at = "list" /\ {"children", "id", "inode"} \subseteq DOMAIN r
    BY <1>4, <1>7, Zenon DEF PlainList, UsesHost, At, CallTyped
  <2>2. r.id \in DOMAIN id_to_relative /\ r.rel = id_to_relative[r.id]
    BY <1>3, <2>1, Zenon DEF CallHolds
  <2>3. /\ DOMAIN new = DOMAIN r /\ new.at = "entry" /\ new.rel = r.rel /\ new.proc = r.proc
        /\ new.live = r.live /\ new.id = r.id /\ new.children = children
    BY <1>3, <2>1, Zenon
  <2>4. Goto(c, new) \/ Goto(c, Done)
    BY <1>7, Zenon DEF PlainList, ListAt
  <2>5. \A child \in children : IsAt(host, Append(dir, child[1]), child[2])
    BY DEF IsAt, Exists
  <2> HIDE DEF new, children, r
  <2>6. CallHolds(new, id_to_relative, host)
    BY <1>3, <2>2, <2>3, <2>5, Zenon DEF CallHolds, MovingSteps
  <2>7. Done.at = "done"
    BY Zenon DEF Done
  <2>8. new.at \notin HalfDone /\ new.proc = r.proc
    BY <2>3, Zenon
  <2> QED BY <2>4, <2>6, <2>7, <2>8, Zenon
<1>8. CASE PlainProbe(c)
  <2>1. PICK at \in {"verify", "make"} : Goto(c, [r EXCEPT !.at = at])
    BY <1>8, Zenon DEF PlainProbe, ProbeAt
  <2> DEFINE new == [r EXCEPT !.at = at]
  <2>2. r.at = "probe" /\ r.proc = "create" /\ {"mode", "verifier"} \subseteq DOMAIN r
        /\ (r.mode # "exclusive" => r.verifier = NoVerifier)
    BY <1>3, <1>8, Zenon DEF PlainProbe, UsesHost, At, CallHolds
  <2>3. /\ DOMAIN new = DOMAIN r /\ new.at = at /\ new.proc = r.proc /\ new.live = r.live
        /\ new.mode = r.mode /\ new.verifier = r.verifier
    BY <1>3, <2>2, Zenon
  <2>4. Goto(c, new)
    BY <2>1, Zenon
  <2> HIDE DEF new, r
  <2>5. CallHolds(new, id_to_relative, host)
    BY <1>3, <2>2, <2>3, Zenon DEF CallHolds, MovingSteps
  <2>6. new.at \notin HalfDone /\ new.proc = r.proc
    BY <2>3, Zenon
  <2> QED BY <2>4, <2>5, <2>6, Zenon
<1>9. CASE Apply(c)
  <2>1. Goto(c, To(c, "meta")) \/ Goto(c, Done)
    BY <1>9, Zenon DEF Apply
  <2>2. To(c, "meta").proc = r.proc /\ To(c, "meta").at = "meta" /\ Done.at = "done"
    BY Zenon DEF To, Done
  <2>3. CallHolds(To(c, "meta"), id_to_relative, host)
    BY <1>3, Zenon DEF CallHolds, To, MovingSteps
  <2> QED BY <2>1, <2>2, <2>3, Zenon
<1> QED BY <1>6, <1>7, <1>8, <1>9, Zenon

\* open, create_dir and symlink add an object where there was none.
LEMMA MakeObjects ==
    ASSUME Inv, Inv', ObjectInv, disturbed = {}, NEW c \in Calls, PlainMake(c)
    PROVE  ObjectInv'
<1> DEFINE r == call[c]
<1>1. Active(c) /\ UNCHANGED <<id_to_relative, next_file_id, told>> /\ r.at = "make"
  BY Zenon DEF PlainMake, UsesHost, At, Active, fsmap, history
<1>2. Grows(host, host')
  <2>1. CASE CanCreate(r.rel)
    <3>1. PICK object : host' = With(host, r.rel, object)
      BY <2>1, Zenon DEF PlainMake, MakeAt, HostCreate
    <3>2. r.rel \notin DOMAIN host
      BY <2>1, Zenon DEF CanCreate, Exists
    <3> QED BY <3>1, <3>2, Zenon DEF With, Grows
  <2>2. CASE ~CanCreate(r.rel)
    BY <2>2, Zenon DEF PlainMake, MakeAt, backing, Grows
  <2> QED BY <2>1, <2>2, Zenon
<1>3. Adds /\ r.at \notin HalfDone
  <2>1. next_file_id' >= next_file_id
    BY <1>1 DEF Inv, MapInv
  <2> QED BY <1>1, <1>2, <2>1, Zenon DEF Adds, Grows, HalfDone
<1>4. /\ CallHolds(r, id_to_relative, host) /\ r.proc = "create"
      /\ {"at", "proc", "live", "rel", "mode", "verifier"} \subseteq DOMAIN r
      /\ (r.mode # "exclusive" => r.verifier = NoVerifier)
  BY <1>1, Zenon DEF ObjectInv, CallHolds
<1> DEFINE new == [r EXCEPT !.at = "remember"]
<1>5. \/ Goto(c, new) \/ Goto(c, To(c, "meta")) \/ Goto(c, To(c, "apply")) \/ Goto(c, Done)
  BY Zenon DEF PlainMake, MakeAt
<1>6. /\ DOMAIN new = DOMAIN r /\ new.at = "remember" /\ new.proc = r.proc /\ new.live = r.live
      /\ new.mode = r.mode /\ new.verifier = r.verifier
  BY <1>4, Zenon
<1>7. ASSUME NEW at \in {"meta", "apply"}
      PROVE  /\ CallHolds(To(c, at), id_to_relative', host')
             /\ To(c, at).at \notin HalfDone /\ To(c, at).proc = r.proc
  BY <1>4, Zenon DEF CallHolds, To, MovingSteps, Moving, HalfDone
<1>8. Done.at = "done"
  BY Zenon DEF Done
<1>9. ASSUME call' = [call EXCEPT ![c] = new], r.live PROVE ObjectInv'
  <2> HIDE DEF new, r
  <2>1. CallHolds(new, id_to_relative', host')
    BY <1>4, <1>6, <1>9, Zenon DEF CallHolds, MovingSteps, Moving
  <2>2. new.at \notin HalfDone /\ new.proc = r.proc
    BY <1>6, Zenon DEF HalfDone
  <2>3. MapInv'
    BY Zenon DEF Inv
  <2> QED BY <1>1, <1>3, <1>9, <2>1, <2>2, <2>3, Advance, Zenon DEF r
<1>10. CASE Goto(c, new)
  <2>1. CASE call[c].live /\ call' = [call EXCEPT ![c] = new]
    BY <1>9, <2>1, Zenon
  <2>2. CASE call' = [call EXCEPT ![c] = Done]
    BY <1>1, <1>3, <1>8, <2>2, Advance, Zenon DEF Inv
  <2> QED BY <1>10, <2>1, <2>2, GoesOn, Zenon DEF Inv
<1> HIDE DEF new
<1>11. CASE \E at \in {"meta", "apply"} : Goto(c, To(c, at))
  BY <1>1, <1>3, <1>7, <1>11, Proceeds, Zenon
<1>12. CASE Goto(c, Done)
  BY <1>1, <1>3, <1>8, <1>12, Proceeds, Zenon
<1> QED BY <1>5, <1>10, <1>11, <1>12, Zenon

\* The reply of a call on an object names what is at the object's path.
LEMMA ObjectObjects ==
    ASSUME Inv, Inv', ObjectInv, disturbed = {}, NEW c \in Calls, PlainObject(c)
    PROVE  ObjectInv'
<1> DEFINE r == call[c]
           new == [r EXCEPT !.uses = Tail(@)]
<1>1. Active(c) /\ UNCHANGED <<id_to_relative, next_file_id, host>> /\ r.at = "object"
  BY Zenon DEF PlainObject, ObjectAt, UsesHost, At, Active, fsmap, backing
<1>2. /\ CallHolds(r, id_to_relative, host) /\ r.live /\ r.proc \notin Moving
      /\ {"at", "proc", "live", "rel", "id", "uses"} \subseteq DOMAIN r
      /\ r.id \in DOMAIN id_to_relative /\ r.rel = id_to_relative[r.id]
  BY <1>1 DEF ObjectInv, CallHolds, MovingSteps
<1>3. Done.at = "done" /\ r.at \notin HalfDone
  BY <1>1, Zenon DEF Done, HalfDone
<1>4. next_file_id' >= next_file_id
  BY <1>1 DEF Inv, MapInv
<1>5. \/ (Goto(c, new) \/ Goto(c, Done)) /\ UNCHANGED told
      \/ Goto(c, Done) /\ Exists(r.rel) /\ told' = told \cup {<<r.id, host[r.rel].inode>>}
  <2>1. Len(r.uses) = 1 => ~(Len(r.uses) > 1)
    OBVIOUS
  <2>2. /\ Goto(c, new) \/ Goto(c, Done)
        /\ Len(r.uses) = 1 => Goto(c, Done)
    BY <2>1, Zenon DEF PlainObject, ObjectAt
  <2> QED BY <2>2, Zenon DEF PlainObject
<1>6. /\ DOMAIN new = DOMAIN r /\ new.at = "object" /\ new.proc = r.proc /\ new.live = r.live
      /\ new.rel = r.rel /\ new.id = r.id
  BY <1>1, <1>2, Zenon
<1> HIDE DEF new
<1>7. CallHolds(new, id_to_relative', host')
  BY <1>1, <1>2, <1>6, Zenon DEF CallHolds, MovingSteps
<1>8. CASE (Goto(c, new) \/ Goto(c, Done)) /\ UNCHANGED told
  <2>1. Adds
    BY <1>1, <1>8, AddsNothing, Zenon DEF Inv
  <2>2. CASE Goto(c, new)
    <3>1. new.at \notin HalfDone /\ new.proc = call[c].proc
      BY <1>6, Zenon DEF HalfDone
    <3> QED BY <1>1, <1>3, <1>7, <2>1, <2>2, <3>1, Proceeds, Zenon
  <2>3. CASE Goto(c, Done)
    BY <1>1, <1>3, <2>1, <2>3, Proceeds, Zenon
  <2> QED BY <1>8, <2>2, <2>3, Zenon
<1>9. CASE Goto(c, Done) /\ Exists(r.rel) /\ told' = told \cup {<<r.id, host[r.rel].inode>>}
  <2>1. IsAt(host', id_to_relative'[r.id], host[r.rel].inode) /\ r.id \in DOMAIN id_to_relative'
    BY <1>1, <1>2, <1>9, Zenon DEF IsAt, Exists
  <2>2. Grows(id_to_relative, id_to_relative') /\ Grows(host, host')
    BY <1>1, Zenon DEF Grows
  <2>3. Adds
    BY <1>1, <1>4, <1>9, <2>1, <2>2, Zenon DEF Adds
  <2> QED BY <1>1, <1>3, <1>9, <2>3, Proceeds, Zenon
<1> QED BY <1>5, <1>8, <1>9, Zenon

\* The reply of a call that interns a path names what the call has found there.
LEMMA InternTells ==
    ASSUME Inv, ObjectInv, disturbed = {}, NEW c \in Calls,
           call[c].at \in {"intern", "dot_intern", "entry_intern"}, UNCHANGED host,
           Intern(call[c].rel), Tell(c, FileId(call[c].rel), call[c].inode)
    PROVE  Adds
<1> DEFINE r == call[c]
           id == FileId(r.rel)
<1>1. Active(c) /\ r.rel \in Seq(Names)
  BY Zenon DEF Active, Inv, CallInv, CallTyped
<1>2. IsAt(host, r.rel, r.inode)
  BY <1>1, Zenon DEF ObjectInv, CallHolds
<1>3. /\ id \in DOMAIN id_to_relative' /\ id_to_relative'[id] = r.rel
      /\ Grows(id_to_relative, id_to_relative') /\ next_file_id' >= next_file_id
      /\ \A i \in DOMAIN id_to_relative' : i \in DOMAIN id_to_relative \/ i >= next_file_id
  BY <1>1, InternAdds, Zenon DEF Inv
<1>4. told' = told \cup {<<id, r.inode>>}
  <2>1. disturbed' = {}
    BY DEF Tell, Record
  <2> QED BY <2>1, Recorded, Zenon DEF Tell
<1>5. Grows(host, host') /\ IsAt(host', id_to_relative'[id], r.inode)
  BY <1>2, <1>3, Zenon DEF Grows
<1> HIDE DEF id
<1> QED BY <1>3, <1>4, <1>5, Zenon DEF Adds

\* The steps of LOOKUP, of the creations and of READDIR that use the map
LEMMA InterningObjects ==
    ASSUME Inv, Inv', ObjectInv, disturbed = {}, NEW c \in Calls, Created(c) \/ Entry(c) \/ EntryIntern(c)
    PROVE  ObjectInv'
<1> DEFINE r == call[c]
<1>1. Active(c) /\ UNCHANGED host /\ r.at \in {"intern", "dot_intern", "entry", "entry_intern"}
  BY Zenon DEF Created, Entry, EntryIntern, UsesMap, At, Active, backing
<1>2. /\ CallHolds(r, id_to_relative, host) /\ r.live /\ r.proc \notin Moving
      /\ {"at", "proc", "live", "rel"} \subseteq DOMAIN r
  BY <1>1, Zenon DEF ObjectInv, CallHolds, MovingSteps
<1>3. Done.at = "done" /\ r.at \notin HalfDone
  BY <1>1, Zenon DEF Done, HalfDone
<1>4. CallTyped(r)
  BY Zenon DEF Inv, CallInv
<1>5. CASE Created(c)
  <2>1. Adds
    BY <1>1, <1>5, InternTells, Zenon DEF Created, UsesMap, At
  <2>2. Goto(c, Done)
    BY <1>5, Zenon DEF Created
  <2> QED BY <1>1, <1>3, <2>1, <2>2, Proceeds, Zenon
<1>6. CASE Entry(c)
  <2>1. /\ r.at = "entry" /\ {"children", "id", "inode"} \subseteq DOMAIN r
        /\ r.id \in DOMAIN id_to_relative
        /\ \A child \in r.children : IsAt(host, Append(id_to_relative[r.id], child[1]), child[2])
    BY <1>2, <1>4, <1>6, Zenon DEF Entry, UsesMap, At, CallTyped, CallHolds
  <2>2. PICK child \in r.children :
            Goto(c, [r EXCEPT !.at = "entry_intern", !.rel = Child(r.id, child[1]),
                              !.inode = child[2], !.children = @ \ {child}])
    BY <1>6, <2>1, Zenon DEF Entry, Known
  <2> DEFINE new == [r EXCEPT !.at = "entry_intern", !.rel = Child(r.id, child[1]),
                              !.inode = child[2], !.children = @ \ {child}]
  <2>3. /\ DOMAIN new = DOMAIN r /\ new.at = "entry_intern" /\ new.proc = r.proc /\ new.live = r.live
        /\ new.rel = Append(id_to_relative[r.id], child[1]) /\ new.inode = child[2]
        /\ new.id = r.id /\ new.children = r.children \ {child}
    BY <1>2, <2>1, Zenon DEF Child
  <2>4. Goto(c, new)
    BY <2>2, Zenon
  <2>5. UNCHANGED <<id_to_relative, next_file_id, host, told>>
    BY <1>1, <1>6, Zenon DEF Entry, fsmap, history
  <2>6. Adds
    BY <2>5, AddsNothing, Zenon DEF Inv
  <2> HIDE DEF new
  <2>7. CallHolds(new, id_to_relative', host')
    <3> HIDE DEF r
    <3> QED BY <1>2, <2>1, <2>3, <2>5, Zenon DEF CallHolds, MovingSteps
  <2>8. new.at \notin HalfDone /\ new.proc = call[c].proc
    BY <2>3, Zenon DEF HalfDone
  <2> QED BY <1>1, <1>3, <2>4, <2>6, <2>7, <2>8, Proceeds, Zenon
<1>7. CASE EntryIntern(c)
  <2> DEFINE new == [r EXCEPT !.at = "entry"]
  <2>1. /\ r.at = "entry_intern" /\ {"children", "id", "inode"} \subseteq DOMAIN r
        /\ r.id \in DOMAIN id_to_relative
        /\ \A child \in r.children : IsAt(host, Append(id_to_relative[r.id], child[1]), child[2])
    BY <1>2, <1>4, <1>7, Zenon DEF EntryIntern, UsesMap, At, CallTyped, CallHolds
  <2>2. Adds
    BY <1>1, <1>7, <2>1, InternTells, Zenon DEF EntryIntern
  <2>3. /\ DOMAIN new = DOMAIN r /\ new.at = "entry" /\ new.proc = r.proc /\ new.live = r.live
        /\ new.id = r.id /\ new.children = r.children
    BY <1>2, <2>1, Zenon
  <2>4. Goto(c, new) \/ Goto(c, Done)
    BY <1>7, Zenon DEF EntryIntern
  <2>5. r.id \in DOMAIN id_to_relative' /\ id_to_relative'[r.id] = id_to_relative[r.id]
    BY <2>1, <2>2, Zenon DEF Adds, Grows
  <2> HIDE DEF new
  <2>6. CallHolds(new, id_to_relative', host')
    <3> HIDE DEF r
    <3> QED BY <1>1, <1>2, <2>1, <2>3, <2>5, Zenon DEF CallHolds, MovingSteps
  <2>7. new.at \notin HalfDone /\ new.proc = call[c].proc
    BY <2>3, Zenon DEF HalfDone
  <2>8. CASE Goto(c, new)
    BY <1>1, <1>3, <2>2, <2>6, <2>7, <2>8, Proceeds, Zenon
  <2>9. CASE Goto(c, Done)
    BY <1>1, <1>3, <2>2, <2>9, Proceeds, Zenon
  <2> QED BY <2>4, <2>8, <2>9, Zenon
<1> QED BY <1>5, <1>6, <1>7, Zenon

\* Steps that only read the map, or remember a verifier
LEMMA ReadingObjects ==
    ASSUME Inv, Inv', ObjectInv, disturbed = {}, NEW c \in Calls, Verify(c) \/ Remember(c) \/ ToChild(c)
    PROVE  ObjectInv'
<1> DEFINE r == call[c]
<1>1. /\ Active(c) /\ UNCHANGED <<id_to_relative, next_file_id, host, told>>
      /\ r.at \in {"verify", "remember", "to_child"}
  BY Zenon DEF Verify, Remember, ToChild, UsesMap, At, Active, fsmap, backing, history
<1>2. Adds /\ r.at \notin HalfDone
  BY <1>1, AddsNothing, Zenon DEF Inv, HalfDone
<1>3. CallHolds(r, id_to_relative, host) /\ {"at", "proc", "live", "rel"} \subseteq DOMAIN r /\ r.live
  BY <1>1, Zenon DEF ObjectInv, CallHolds
<1>4. Done.at = "done"
  BY Zenon DEF Done
<1>5. CASE Verify(c) \/ Remember(c)
  <2>1. r.at \in {"verify", "remember"} /\ r.proc = "create"
    BY <1>3, <1>5, Zenon DEF Verify, Remember, UsesMap, At, CallHolds
  <2>2. Goto(c, To(c, "meta")) \/ Goto(c, Done)
    BY <1>5, Zenon DEF Verify, Remember
  <2>3. /\ To(c, "meta").at \notin HalfDone /\ To(c, "meta").proc = r.proc
        /\ CallHolds(To(c, "meta"), id_to_relative', host')
    BY <2>1, Zenon DEF To, CallHolds, MovingSteps, Moving, HalfDone
  <2> QED BY <1>1, <1>2, <1>4, <2>2, <2>3, Proceeds, Zenon
<1>6. CASE ToChild(c)
  <2>1. PICK to : Goto(c, [at |-> "move", proc |-> "rename", live |-> TRUE, rel |-> r.rel, to |-> to])
                  \/ Goto(c, Done)
    BY <1>6, Zenon DEF ToChild
  <2> DEFINE new == [at |-> "move", proc |-> "rename", live |-> TRUE, rel |-> r.rel, to |-> to]
  <2>2. CallHolds(new, id_to_relative', host') /\ new.at \notin HalfDone /\ new.proc = "rename"
    BY Zenon DEF CallHolds, MovingSteps, Moving, HalfDone
  <2> HIDE DEF new
  <2>3. r.proc = "rename"
    BY <1>3, <1>6, Zenon DEF ToChild, UsesMap, At, CallHolds, MovingSteps
  <2> QED BY <1>1, <1>2, <1>4, <2>1, <2>2, <2>3, Proceeds, Zenon DEF new
<1> QED BY <1>5, <1>6, Zenon

\* A path starts with itself.
LEMMA StartsWithItself == ASSUME NEW p \in Seq(Names) PROVE RelativeStartsWith(p, p)
<1>1. Len(p) \in Nat /\ SubSeq(p, 1, Len(p)) = p
  OBVIOUS
<1> QED BY <1>1 DEF RelativeStartsWith

\* What was moved can be moved back.
LEMMA MovedBack ==
    ASSUME NEW p \in Seq(Names), NEW from \in Seq(Names), NEW to \in Seq(Names),
           RelativeStartsWith(p, from)
    PROVE  Moved(Moved(p, from, to), to, from) = p
<1> DEFINE q == Moved(p, from, to)
           b == Moved(q, to, from)
<1>1. /\ q \in Seq(Names) /\ Len(q) = Len(to) + (Len(p) - Len(from))
      /\ \A i \in 1..(Len(p) - Len(from)) : q[Len(to) + i] = p[Len(from) + i]
  BY MovedShape, Zenon
<1>2. RelativeStartsWith(q, to)
  BY MovedBelow, Zenon
<1> HIDE DEF q
<1>3. /\ b \in Seq(Names) /\ Len(b) = Len(from) + (Len(q) - Len(to))
      /\ \A i \in 1..Len(from) : b[i] = from[i]
      /\ \A i \in 1..(Len(q) - Len(to)) : b[Len(from) + i] = q[Len(to) + i]
  BY <1>1, <1>2, MovedShape
<1> HIDE DEF b
<1>4. Len(from) <= Len(p) /\ \A i \in 1..Len(from) : p[i] = from[i]
  BY Prefix, Zenon
<1>5. Len(p) \in Nat /\ Len(from) \in Nat /\ Len(to) \in Nat
  OBVIOUS
<1>6. Len(b) = Len(p) /\ Len(q) - Len(to) = Len(p) - Len(from)
  BY <1>1, <1>3, <1>5
<1>7. \A i \in 1..(Len(p) - Len(from)) : p[Len(from) + i] = b[Len(from) + i]
  BY <1>1, <1>3, <1>6, Zenon
<1>8. \A i \in 1..Len(from) : p[i] = b[i]
  BY <1>3, <1>4, Zenon
<1>9. p = b
  BY <1>3, <1>4, <1>5, <1>6, <1>7, <1>8, SamePath, Zenon
<1> QED BY <1>9, Zenon DEF b, q

\* A removal or rename runs alone, and has not been dropped.
LEMMA RunsAlone ==
    ASSUME Inv, ObjectInv, disturbed = {}, NEW c \in Calls, call[c].at \in MovingSteps
    PROVE  /\ \A d \in Calls \ {c} : ~Active(d)
           /\ call[c].live /\ call[c].proc \in Moving /\ call[c].rel \in Seq(Names)
           /\ {"at", "proc", "live", "rel"} \subseteq DOMAIN call[c]
           /\ call[c].at \notin HalfDone => Quiet
<1>1. Active(c) /\ call[c].at # "make"
  BY Zenon DEF Active, MovingSteps
<1>2. CallHolds(call[c], id_to_relative, host) /\ Alone
  BY <1>1, Zenon DEF ObjectInv
<1>3. call[c].rel \in Seq(Names)
  BY <1>1, Zenon DEF Inv, CallInv, CallTyped, Active
<1>4. call[c].at \notin HalfDone => Quiet
  BY <1>1, NothingHalfDone, Zenon
<1> QED BY <1>1, <1>2, <1>3, <1>4, Zenon DEF CallHolds, Alone

\* Its steps keep the invariant if they leave what was told where it is, or where its
\* next step will put it.
LEMMA AloneFrame ==
    ASSUME CallInv, NEW c \in Calls, \A d \in Calls \ {c} : ~Active(d), Consistent',
           NEW new, call' = [call EXCEPT ![c] = new],
           new.at # "done" => CallHolds(new, id_to_relative', host'),
           new.at \notin HalfDone => Located(told', id_to_relative', host'),
           new.at = "forget" => Unlinked(told', id_to_relative', host', new.rel),
           new.at = "remap" => Renamed(told', id_to_relative', host', new.rel, new.to)
    PROVE  ObjectInv'
<1>1. \A d \in Calls : call'[d] = IF d = c THEN new ELSE call[d]
  BY Zenon DEF CallInv
<1>2. \A d \in Calls : d # c => call'[d].at = "done"
  BY <1>1, Zenon DEF Active
<1>3. call'[c] = new
  BY <1>1, Zenon
<1>4. Alone'
  BY <1>2, Zenon DEF Alone, Active
<1>5. ASSUME NEW d \in Calls PROVE call'[d].at # "done" => CallHolds(call'[d], id_to_relative', host')
  BY <1>2, <1>3, Zenon
<1>6. Quiet' => Located(told', id_to_relative', host')
  BY <1>3, Zenon DEF Quiet
<1>7. ASSUME NEW d \in Calls
      PROVE  /\ call'[d].at = "forget" => Unlinked(told', id_to_relative', host', call'[d].rel)
             /\ call'[d].at = "remap" => Renamed(told', id_to_relative', host', call'[d].rel, call'[d].to)
  BY <1>2, <1>3, Zenon
<1> QED BY <1>4, <1>5, <1>6, <1>7, Zenon DEF ObjectInv, Active

\* A removal or rename that fails on the host has changed nothing.
LEMMA FailedObjects ==
    ASSUME Inv, ObjectInv, disturbed = {}, NEW c \in Calls, call[c].at \in MovingSteps \ HalfDone,
           UNCHANGED <<host, id_to_relative, next_file_id, told>>, Goto(c, Done)
    PROVE  ObjectInv'
<1>1. (\A d \in Calls \ {c} : ~Active(d)) /\ Quiet
  BY RunsAlone, Zenon
<1>2. Consistent /\ Located(told, id_to_relative, host)
  BY <1>1, Zenon DEF ObjectInv
<1>3. Consistent' /\ Located(told', id_to_relative', host')
  BY <1>2, Zenon DEF Consistent
<1>4. call' = [call EXCEPT ![c] = Done]
  BY GoesOn, Zenon DEF Inv
<1>5. Done.at = "done" /\ "done" \notin HalfDone
  BY Zenon DEF Done, HalfDone
<1> QED BY <1>1, <1>3, <1>4, <1>5, AloneFrame, Zenon DEF Inv

\* Unlinking an object leaves what is not at its path.
LEMMA UnlinkObjects ==
    ASSUME Inv, ObjectInv, disturbed = {}, NEW c \in Calls, PlainUnlink(c)
    PROVE  ObjectInv'
<1> DEFINE r == call[c]
           new == To(c, "forget")
<1>1. r.at = "unlink" /\ UNCHANGED <<id_to_relative, next_file_id, told>>
  BY Zenon DEF PlainUnlink, UsesHost, At, fsmap, history
<1>2. r.at \in MovingSteps \ HalfDone
  BY <1>1, Zenon DEF MovingSteps, HalfDone
<1>3. /\ \A d \in Calls \ {c} : ~Active(d)
      /\ r.live /\ r.proc \in Moving /\ r.rel \in Seq(Names) /\ Quiet
  BY <1>2, RunsAlone, Zenon
<1>4. CASE UNCHANGED backing /\ Goto(c, Done)
  BY <1>1, <1>2, <1>4, FailedObjects, Zenon DEF backing
<1>5. CASE HostUnlink(r.rel) /\ Goto(c, new)
  <2>1. DOMAIN host' = DOMAIN host \ {r.rel} /\ \A p \in DOMAIN host' : host'[p] = host[p]
    BY <1>5, Zenon DEF HostUnlink, Without, Restrict
  <2>2. Consistent /\ Located(told, id_to_relative, host)
    BY <1>3, Zenon DEF ObjectInv
  <2>3. Unlinked(told', id_to_relative', host', r.rel)
    BY <1>1, <1>3, <2>1, <2>2, StartsWithItself, Zenon DEF Unlinked, Located, IsAt
  <2>4. call' = [call EXCEPT ![c] = new]
    BY <1>3, <1>5, GoesOn, Zenon DEF Inv
  <2>5. CallHolds(new, id_to_relative', host') /\ new.at = "forget" /\ new.rel = r.rel
    BY <1>3, Zenon DEF To, CallHolds, MovingSteps
  <2>6. Consistent'
    BY <1>1, <2>2, Zenon DEF Consistent
  <2>7. "forget" \in HalfDone
    BY Zenon DEF HalfDone
  <2> HIDE DEF new
  <2> QED BY <1>3, <2>3, <2>4, <2>5, <2>6, <2>7, AloneFrame, Zenon DEF Inv
<1> QED BY <1>4, <1>5, Zenon DEF PlainUnlink, UnlinkAt

\* forget_prefix then forgets the identifiers of what is no longer there.
LEMMA ForgetObjects ==
    ASSUME Inv, ObjectInv, disturbed = {}, NEW c \in Calls, Forget(c)
    PROVE  ObjectInv'
<1> DEFINE r == call[c]
<1>1. r.at = "forget" /\ ForgetPrefix(r.rel) /\ Goto(c, Done) /\ UNCHANGED <<host, told>>
  BY Zenon DEF Forget, UsesMap, At, backing, history
<1>2. r.at \in MovingSteps
  BY <1>1, Zenon DEF MovingSteps
<1>3. \A d \in Calls \ {c} : ~Active(d)
  BY <1>2, RunsAlone, Zenon
<1>4. Unlinked(told, id_to_relative, host, r.rel) /\ Consistent
  BY <1>1, Zenon DEF ObjectInv
<1>5. /\ DOMAIN id_to_relative' = DOMAIN id_to_relative \ Below(r.rel)
      /\ \A i \in DOMAIN id_to_relative' : id_to_relative'[i] = id_to_relative[i]
      /\ next_file_id' = next_file_id
  BY <1>1, Zenon DEF ForgetPrefix, Without, Restrict
<1>6. Located(told', id_to_relative', host')
  BY <1>1, <1>4, <1>5, Zenon DEF Located, Unlinked, Below
<1>7. Consistent'
  BY <1>1, <1>4, <1>5, Zenon DEF Consistent
<1>8. call' = [call EXCEPT ![c] = Done]
  BY <1>1, GoesOn, Zenon DEF Inv
<1>9. Done.at = "done"
  BY Zenon DEF Done
<1> QED BY <1>3, <1>6, <1>7, <1>8, <1>9, AloneFrame, Zenon DEF Inv

-----------------------------------------------------------------------------
(* The host stays a tree, so that what is removed or replaced has nothing   *)
(* below it.                                                                *)

\* Whatever has something below it is a directory.
TreeInv ==
    /\ \A q \in DOMAIN host : q \in Seq(Names)
    /\ \A q \in DOMAIN host, p \in Seq(Names) : RelativeStartsWith(q, p) /\ p # q => IsDir(p)

\* Paths that agree over the length of the shorter one
LEMMA StartsWith ==
    ASSUME NEW p \in Seq(Names), NEW x \in Seq(Names), Len(x) <= Len(p),
           \A i \in 1..Len(x) : p[i] = x[i]
    PROVE  RelativeStartsWith(p, x)
<1>1. Len(x) \in Nat /\ Len(p) \in Nat
  OBVIOUS
<1>2. /\ SubSeq(p, 1, Len(x)) \in Seq(Names) /\ Len(SubSeq(p, 1, Len(x))) = Len(x)
      /\ \A i \in 1..Len(x) : SubSeq(p, 1, Len(x))[i] = x[i]
  BY <1>1
<1>3. SubSeq(p, 1, Len(x)) = x
  BY <1>2, SeqEqual, Zenon
<1> QED BY <1>3, Zenon DEF RelativeStartsWith

\* What is below something below a path is below the path.
LEMMA StartsTransitively ==
    ASSUME NEW p \in Seq(Names), NEW x \in Seq(Names), NEW y \in Seq(Names),
           RelativeStartsWith(p, x), RelativeStartsWith(x, y)
    PROVE  RelativeStartsWith(p, y)
<1>1. Len(x) <= Len(p) /\ \A i \in 1..Len(x) : p[i] = x[i]
  BY Prefix, Zenon
<1>2. Len(y) <= Len(x) /\ \A i \in 1..Len(y) : x[i] = y[i]
  BY Prefix, Zenon
<1>3. Len(x) \in Nat /\ Len(p) \in Nat /\ Len(y) \in Nat
  OBVIOUS
<1>4. Len(y) <= Len(p) /\ \A i \in 1..Len(y) : p[i] = y[i]
  BY <1>1, <1>2, <1>3
<1> QED BY <1>4, StartsWith, Zenon

\* Of two paths that something is below, one is below the other.
LEMMA Comparable ==
    ASSUME NEW p \in Seq(Names), NEW x \in Seq(Names), NEW y \in Seq(Names),
           RelativeStartsWith(p, x), RelativeStartsWith(p, y)
    PROVE  RelativeStartsWith(x, y) \/ RelativeStartsWith(y, x)
<1>1. Len(x) <= Len(p) /\ \A i \in 1..Len(x) : p[i] = x[i]
  BY Prefix, Zenon
<1>2. Len(y) <= Len(p) /\ \A i \in 1..Len(y) : p[i] = y[i]
  BY Prefix, Zenon
<1>3. Len(x) \in Nat /\ Len(y) \in Nat
  OBVIOUS
<1>4. CASE Len(x) <= Len(y)
  <2>1. \A i \in 1..Len(x) : y[i] = x[i]
    BY <1>1, <1>2, <1>3, <1>4
  <2> QED BY <1>4, <2>1, StartsWith, Zenon
<1>5. CASE Len(y) <= Len(x)
  <2>1. \A i \in 1..Len(y) : x[i] = y[i]
    BY <1>1, <1>2, <1>3, <1>5
  <2> QED BY <1>5, <2>1, StartsWith, Zenon
<1> QED BY <1>3, <1>4, <1>5

\* What a path is strictly below, its parent is below.
LEMMA AboveParent ==
    ASSUME NEW p \in Seq(Names), NEW x \in Seq(Names), RelativeStartsWith(p, x), x # p
    PROVE  RelativeStartsWith(Parent(p), x)
<1>1. Len(x) <= Len(p) /\ (\A i \in 1..Len(x) : p[i] = x[i]) /\ Len(x) \in Nat /\ Len(p) \in Nat
  BY Prefix
<1>2. Len(x) # Len(p)
  BY <1>1, SeqEqual, Zenon
<1>3. Len(x) <= Len(p) - 1 /\ Len(p) - 1 \in Nat
  BY <1>1, <1>2
<1>4. Len(Parent(p)) = Len(p) - 1 /\ \A i \in 1..(Len(p) - 1) : Parent(p)[i] = p[i]
  <2>1. PICK n \in Nat : n = Len(p) - 1
    BY <1>3, Zenon
  <2>2. Len(SubSeq(p, 1, n)) = n /\ \A i \in 1..n : SubSeq(p, 1, n)[i] = p[i]
    BY <1>1, <2>1
  <2> QED BY <2>1, <2>2, Zenon DEF Parent
<1>5. Parent(p) \in Seq(Names)
  BY ParentIsSeq, Zenon
<1>6. Len(x) <= Len(Parent(p)) /\ \A i \in 1..Len(x) : Parent(p)[i] = x[i]
  BY <1>1, <1>3, <1>4
<1> QED BY <1>5, <1>6, StartsWith, Zenon

\* What was between a moved path and the destination has been moved too.
LEMMA MovedBetween ==
    ASSUME NEW p \in Seq(Names), NEW x \in Seq(Names), NEW from \in Seq(Names), NEW to \in Seq(Names),
           RelativeStartsWith(p, from), RelativeStartsWith(Moved(p, from, to), x), RelativeStartsWith(x, to)
    PROVE  RelativeStartsWith(p, Moved(x, to, from))
<1> DEFINE q == Moved(p, from, to)
           y == Moved(x, to, from)
<1>1. /\ q \in Seq(Names) /\ Len(q) = Len(to) + (Len(p) - Len(from))
      /\ \A i \in 1..(Len(p) - Len(from)) : q[Len(to) + i] = p[Len(from) + i]
  BY MovedShape
<1>2. /\ y \in Seq(Names) /\ Len(y) = Len(from) + (Len(x) - Len(to))
      /\ \A i \in 1..Len(from) : y[i] = from[i]
      /\ \A i \in 1..(Len(x) - Len(to)) : y[Len(from) + i] = x[Len(to) + i]
  BY MovedShape
<1>3. RelativeStartsWith(q, x)
  BY Zenon
<1> HIDE DEF q, y
<1>4. Len(x) <= Len(q) /\ \A i \in 1..Len(x) : q[i] = x[i]
  BY <1>1, <1>3, Prefix, Zenon
<1>5. Len(to) <= Len(x) /\ Len(from) <= Len(p) /\ \A i \in 1..Len(from) : p[i] = from[i]
  BY Prefix, Zenon
<1>6. Len(p) \in Nat /\ Len(x) \in Nat /\ Len(from) \in Nat /\ Len(to) \in Nat
  OBVIOUS
<1>7. Len(y) <= Len(p)
  BY <1>1, <1>2, <1>4, <1>5, <1>6
<1>8. ASSUME NEW i \in 1..Len(y) PROVE p[i] = y[i]
  <2>1. CASE i <= Len(from)
    BY <1>2, <1>5, <1>6, <2>1
  <2>2. CASE ~(i <= Len(from))
    <3>1. PICK j \in Int : j = i - Len(from)
      <4>1. i \in Int /\ i - Len(from) \in Int
        BY <1>6
      <4> QED BY <4>1, Zenon
    <3>2. /\ j \in 1..(Len(x) - Len(to)) /\ j \in 1..(Len(p) - Len(from))
          /\ i = Len(from) + j /\ Len(to) + j \in 1..Len(x)
      BY <1>1, <1>2, <1>4, <1>5, <1>6, <2>2, <3>1
    <3>3. y[i] = x[Len(to) + j]
      BY <1>2, <3>2, Zenon
    <3>4. p[i] = q[Len(to) + j]
      BY <1>1, <3>2, Zenon
    <3>5. q[Len(to) + j] = x[Len(to) + j]
      BY <1>4, <3>2, Zenon
    <3> QED BY <3>3, <3>4, <3>5, Zenon
  <2> QED BY <2>1, <2>2, Zenon
<1>9. RelativeStartsWith(p, y)
  BY <1>2, <1>7, <1>8, StartsWith, Zenon
<1> QED BY <1>9, Zenon DEF y

\* What a rename makes of the host: what is below from comes to lie below to, and
\* what is below neither stays.
LEMMA RenamedHost ==
    ASSUME TreeInv, NEW from \in Seq(Names), NEW to \in Seq(Names), HostRename(from, to)
    PROVE  /\ \A p \in DOMAIN host : RelativeStartsWith(p, from) =>
                 Moved(p, from, to) \in DOMAIN host' /\ host'[Moved(p, from, to)] = host[p]
           /\ \A p \in DOMAIN host : ~RelativeStartsWith(p, from) /\ ~RelativeStartsWith(p, to) =>
                 p \in DOMAIN host' /\ host'[p] = host[p]
           /\ \A q \in DOMAIN host' :
                 \/ \E p \in DOMAIN host : RelativeStartsWith(p, from) /\ q = Moved(p, from, to)
                 \/ q \in DOMAIN host /\ ~RelativeStartsWith(q, from) /\ ~RelativeStartsWith(q, to)
<1> DEFINE stay == DOMAIN host \ (HostBelow(from) \cup HostBelow(to))
           moved == {Moved(q, from, to) : q \in HostBelow(from)}
<1>1. host' = [p \in stay \cup moved |-> IF p \in moved THEN host[Moved(p, to, from)] ELSE host[p]]
  BY Zenon DEF HostRename
<1>2. ASSUME NEW p \in DOMAIN host, RelativeStartsWith(p, from)
      PROVE  Moved(p, from, to) \in moved /\ Moved(Moved(p, from, to), to, from) = p
  BY <1>2, MovedBack, Zenon DEF HostBelow, TreeInv
<1>3. ASSUME NEW p \in moved PROVE RelativeStartsWith(p, to)
  BY MovedBelow, Zenon DEF HostBelow, TreeInv
<1>4. \A p \in DOMAIN host : ~RelativeStartsWith(p, from) /\ ~RelativeStartsWith(p, to) => p \in stay
  BY Zenon DEF HostBelow
<1>5. \A p \in stay : ~RelativeStartsWith(p, from) /\ ~RelativeStartsWith(p, to)
  BY Zenon DEF HostBelow
<1>6. \A q \in moved : \E p \in DOMAIN host : RelativeStartsWith(p, from) /\ q = Moved(p, from, to)
  BY Zenon DEF HostBelow
<1>7. stay \subseteq DOMAIN host
  BY Zenon
<1> HIDE DEF stay, moved
<1> QED BY <1>1, <1>2, <1>3, <1>4, <1>5, <1>6, <1>7, Zenon

\* What is replaced is not also moved: a directory is replaced only when it is empty.
LEMMA ReplacesNothingMoved ==
    ASSUME TreeInv, NEW from \in Seq(Names), NEW to \in Seq(Names), CanRename(from, to),
           NEW p \in Seq(Names), RelativeStartsWith(p, from)
    PROVE  ~Replaces(from, to, p)
<1> SUFFICES ASSUME from # to, RelativeStartsWith(p, to) PROVE FALSE
  BY Zenon DEF Replaces
<1>1. from \in DOMAIN host /\ ~RelativeStartsWith(to, from)
  BY Zenon DEF CanRename, Exists
<1>2. RelativeStartsWith(from, to)
  BY <1>1, Comparable, Zenon
<1>3. IsDir(to)
  BY <1>1, <1>2, Zenon DEF TreeInv
<1>4. IsEmpty(to)
  BY <1>3, Zenon DEF CanRename, IsDir
<1>5. from \in HostBelow(to)
  BY <1>1, <1>2, Zenon DEF HostBelow
<1> QED BY <1>4, <1>5, Zenon DEF IsEmpty

\* A rename keeps the tree.
LEMMA RenameTree ==
    ASSUME TreeInv, NEW from \in Seq(Names), NEW to \in Seq(Names),
           CanRename(from, to), HostRename(from, to)
    PROVE  TreeInv'
<1>1. /\ \A p \in DOMAIN host : RelativeStartsWith(p, from) =>
            Moved(p, from, to) \in DOMAIN host' /\ host'[Moved(p, from, to)] = host[p]
      /\ \A p \in DOMAIN host : ~RelativeStartsWith(p, from) /\ ~RelativeStartsWith(p, to) =>
            p \in DOMAIN host' /\ host'[p] = host[p]
      /\ \A q \in DOMAIN host' :
            \/ \E p \in DOMAIN host : RelativeStartsWith(p, from) /\ q = Moved(p, from, to)
            \/ q \in DOMAIN host /\ ~RelativeStartsWith(q, from) /\ ~RelativeStartsWith(q, to)
  BY RenamedHost, Zenon
<1>2. \A p \in DOMAIN host : p \in Seq(Names)
  BY Zenon DEF TreeInv
<1>3. \A q \in DOMAIN host' : q \in Seq(Names)
  BY <1>1, <1>2, MovedShape
<1>4. ASSUME NEW x \in Seq(Names), IsDir(x), ~RelativeStartsWith(x, from), ~RelativeStartsWith(x, to)
      PROVE  IsDir(x)'
  BY <1>1, <1>4, Zenon DEF IsDir, Exists
<1>5. ASSUME NEW q \in DOMAIN host', NEW x \in Seq(Names), RelativeStartsWith(q, x), x # q
      PROVE  IsDir(x)'
  <2>1. CASE q \in DOMAIN host /\ ~RelativeStartsWith(q, from) /\ ~RelativeStartsWith(q, to)
    <3>1. IsDir(x)
      BY <1>5, <2>1, Zenon DEF TreeInv
    <3>2. ~RelativeStartsWith(x, from) /\ ~RelativeStartsWith(x, to)
      BY <1>2, <1>5, <2>1, StartsTransitively, Zenon
    <3> QED BY <1>4, <3>1, <3>2, Zenon
  <2>2. ASSUME NEW p \in DOMAIN host, RelativeStartsWith(p, from), q = Moved(p, from, to)
        PROVE  IsDir(x)'
    <3>1. p \in Seq(Names) /\ RelativeStartsWith(q, to) /\ q \in Seq(Names)
      BY <1>2, <1>3, <2>2, MovedBelow, Zenon
    <3>2. CASE RelativeStartsWith(x, to)
      <4> DEFINE y == Moved(x, to, from)
      <4>1. y \in Seq(Names) /\ RelativeStartsWith(y, from) /\ Moved(y, from, to) = x
        BY <3>2, MovedShape, MovedBelow, MovedBack, Zenon
      <4>2. RelativeStartsWith(p, y)
        BY <1>5, <2>2, <3>1, <3>2, MovedBetween, Zenon
      <4> HIDE DEF y
      <4>3. y # p
        BY <1>5, <2>2, <4>1, Zenon
      <4>4. IsDir(y)
        BY <4>1, <4>2, <4>3, Zenon DEF TreeInv
      <4> QED BY <1>1, <4>1, <4>4, Zenon DEF IsDir, Exists
    <3>3. CASE ~RelativeStartsWith(x, to)
      <4>1. RelativeStartsWith(to, x) /\ x # to
        BY <1>5, <3>1, <3>3, Comparable, StartsWithItself, Zenon
      <4>2. RelativeStartsWith(Parent(to), x) /\ Parent(to) \in Seq(Names)
        BY <4>1, AboveParent, ParentIsSeq, Zenon
      <4>3. IsDir(Parent(to))
        BY Zenon DEF CanRename
      <4>4. IsDir(x)
        BY <4>2, <4>3, Zenon DEF TreeInv, IsDir, Exists
      <4>5. ~RelativeStartsWith(x, from)
        <5>1. CASE from = to
          BY <3>3, <5>1, Zenon
        <5>2. CASE from # to
          BY <4>1, <5>2, StartsTransitively, Zenon DEF CanRename
        <5> QED BY <5>1, <5>2, Zenon
      <4> QED BY <1>4, <3>3, <4>4, <4>5, Zenon
    <3> QED BY <3>2, <3>3, Zenon
  <2> QED BY <1>1, <2>1, <2>2, Zenon
<1> QED BY <1>3, <1>5, Zenon DEF TreeInv

\* One operation of the host, or none
HostStep ==
    \/ UNCHANGED host
    \/ \E p \in Seq(Names) : \E kind, verifier : CanCreate(p) /\ HostCreate(p, kind, verifier)
    \/ \E p \in Seq(Names) : \E directory \in BOOLEAN : CanUnlink(p, directory) /\ HostUnlink(p)
    \/ \E from \in Seq(Names), to \in Seq(Names) : CanRename(from, to) /\ HostRename(from, to)

\* Wherever links lead, the host finds a path.
LEMMA ResolvedIsSeq ==
    ASSUME NEW p \in Seq(Names), NEW follows, NEW q \in Resolved(p, follows)
    PROVE  q \in Seq(Names)
BY PathsAreSeqs, Zenon DEF Resolved

\* Every step of a call is at most one operation of the host, on paths.
LEMMA NextIsHostStep == ASSUME Inv, Next PROVE HostStep
<1> USE DEF HostStep
<1>1. PICK c \in Calls :
         \/ Lookup(c) \/ LookupDot(c) \/ ReadDir(c)
         \/ GetAttr(c) \/ SetAttr(c) \/ ReadLink(c) \/ Read(c) \/ Write(c) \/ Commit(c)
         \/ Create(c) \/ CreateExclusive(c) \/ Mkdir(c) \/ Symlink(c)
         \/ Remove(c) \/ Rmdir(c) \/ Rename(c)
         \/ Step(c) \/ Drop(c)
  BY Zenon DEF Next
<1>2. ASSUME NEW new, Begin(c, new) PROVE UNCHANGED host
  BY <1>2, Zenon DEF Begin, backing
<1>3. CASE \/ Lookup(c) \/ LookupDot(c) \/ ReadDir(c)
           \/ GetAttr(c) \/ SetAttr(c) \/ ReadLink(c) \/ Read(c) \/ Write(c) \/ Commit(c)
           \/ Create(c) \/ CreateExclusive(c) \/ Mkdir(c) \/ Symlink(c)
           \/ Remove(c) \/ Rmdir(c) \/ Rename(c)
  <2>1. \E new : Begin(c, new)
    BY <1>3, Zenon DEF Lookup, LookupDot, ReadDir, ObjectPath, GetAttr, SetAttr, ReadLink, Read, Write, Commit,
              Changing, Create, CreateExclusive, Mkdir, Symlink, Remove, Rmdir, Rename
  <2> QED BY <1>2, <2>1, Zenon
<1>4. CASE Drop(c)
  BY <1>4, Zenon DEF Drop, backing
<1>5. CASE \/ DotStat(c) \/ Meta(c) \/ Object(c) \/ List(c) \/ Probe(c) \/ Apply(c)
           \/ Created(c) \/ Entry(c) \/ EntryIntern(c) \/ Verify(c) \/ Remember(c)
           \/ Forget(c) \/ ToChild(c) \/ Remap(c)
  BY <1>5, Zenon DEF DotStat, Meta, Stat, StatAt, Object, ObjectAt, List, ListAt, Probe, ProbeAt, Apply,
              Created, Entry, EntryIntern, Verify, Remember, Forget, ToChild, Remap, UsesMap, backing
<1>6. ASSUME call[c].at # "done" PROVE call[c].rel \in Seq(Names) /\ CallTyped(call[c])
  BY <1>6, Zenon DEF Inv, CallInv, CallTyped
<1>7. CASE Make(c)
  <2>1. PICK p \in Seq(Names) : MakeAt(c, p)
    BY <1>6, <1>7, ResolvedIsSeq, Zenon DEF Make, UsesHost, At
  <2>2. CASE CanCreate(p)
    BY <2>1, <2>2, Zenon DEF MakeAt
  <2>3. CASE ~CanCreate(p)
    BY <2>1, <2>3, Zenon DEF MakeAt, backing
  <2> QED BY <2>2, <2>3, Zenon
<1>8. CASE Unlink(c)
  <2>1. PICK p \in Seq(Names) : UnlinkAt(c, p)
    BY <1>6, <1>8, ResolvedIsSeq, Zenon DEF Unlink, UsesHost, At
  <2>2. (call[c].mode = "dir") \in BOOLEAN
    BY Zenon
  <2>3. CASE CanUnlink(p, call[c].mode = "dir")
    BY <2>1, <2>2, <2>3, Zenon DEF UnlinkAt
  <2>4. CASE ~CanUnlink(p, call[c].mode = "dir")
    BY <2>1, <2>4, Zenon DEF UnlinkAt, backing
  <2> QED BY <2>3, <2>4, Zenon
<1>9. CASE Move(c)
  <2>1. call[c].at = "move"
    BY <1>9, Zenon DEF Move, UsesHost, At
  <2>2. call[c].rel \in Seq(Names) /\ call[c].to \in Seq(Names)
    BY <1>6, <2>1, Zenon DEF CallTyped
  <2>3. PICK from \in Seq(Names), to \in Seq(Names) : MoveAt(c, from, to)
    BY <1>9, <2>2, ResolvedIsSeq, Zenon DEF Move
  <2>4. CASE CanRename(from, to)
    BY <2>3, <2>4, Zenon DEF MoveAt
  <2>5. CASE ~CanRename(from, to)
    BY <2>3, <2>5, Zenon DEF MoveAt, backing
  <2> QED BY <2>4, <2>5, Zenon
<1> QED BY <1>1, <1>3, <1>4, <1>5, <1>7, <1>8, <1>9, Zenon DEF Step

\* Every operation of the host keeps the tree.
LEMMA HostStepTree == ASSUME TreeInv, HostStep PROVE TreeInv'
<1>1. CASE UNCHANGED host
  BY <1>1, Zenon DEF TreeInv, IsDir, Exists
<1>2. ASSUME NEW p \in Seq(Names), NEW kind, NEW verifier, CanCreate(p), HostCreate(p, kind, verifier)
      PROVE  TreeInv'
  <2>1. /\ p \notin DOMAIN host /\ DOMAIN host' = DOMAIN host \cup {p}
        /\ \A q \in DOMAIN host : host'[q] = host[q]
    BY <1>2, Zenon DEF CanCreate, Exists, HostCreate, With
  <2>2. ASSUME NEW x, IsDir(x) PROVE IsDir(x)'
    BY <2>1, <2>2, Zenon DEF IsDir, Exists
  <2>3. ASSUME NEW x \in Seq(Names), RelativeStartsWith(p, x), x # p PROVE IsDir(x)
    <3>1. RelativeStartsWith(Parent(p), x) /\ IsDir(Parent(p))
      BY <1>2, <2>3, AboveParent, Zenon DEF CanCreate
    <3> QED BY <3>1, Zenon DEF TreeInv, IsDir, Exists
  <2>4. \A q \in DOMAIN host', x \in Seq(Names) : RelativeStartsWith(q, x) /\ x # q => IsDir(x)
    BY <2>1, <2>3, Zenon DEF TreeInv
  <2>5. \A q \in DOMAIN host', x \in Seq(Names) : RelativeStartsWith(q, x) /\ x # q => IsDir(x)'
    BY <2>2, <2>4, Zenon
  <2> QED BY <2>1, <2>5, Zenon DEF TreeInv
<1>3. ASSUME NEW p \in Seq(Names), NEW directory \in BOOLEAN, CanUnlink(p, directory), HostUnlink(p)
      PROVE  TreeInv'
  <2>1. DOMAIN host' = DOMAIN host \ {p} /\ \A q \in DOMAIN host' : host'[q] = host[q]
    BY <1>3, Zenon DEF HostUnlink, Without, Restrict
  <2>2. ASSUME NEW q \in DOMAIN host', NEW x \in Seq(Names), RelativeStartsWith(q, x), x # q
        PROVE  IsDir(x)'
    <3>1. IsDir(x)
      BY <2>1, <2>2, Zenon DEF TreeInv
    <3>2. x # p
      <4> SUFFICES ASSUME x = p PROVE FALSE
        BY Zenon
      <4>1. IsEmpty(p)
        BY <1>3, <3>1, Zenon DEF CanUnlink
      <4>2. q \in HostBelow(p)
        BY <2>1, <2>2, Zenon DEF HostBelow
      <4> QED BY <2>2, <4>1, <4>2, Zenon DEF IsEmpty
    <3> QED BY <2>1, <3>1, <3>2, Zenon DEF IsDir, Exists
  <2> QED BY <2>1, <2>2, Zenon DEF TreeInv
<1>4. CASE \E from \in Seq(Names), to \in Seq(Names) : CanRename(from, to) /\ HostRename(from, to)
  BY <1>4, RenameTree, Zenon
<1> QED BY <1>1, <1>2, <1>3, <1>4, Zenon DEF HostStep

-----------------------------------------------------------------------------
(* Renames, and the theorem.                                                *)

\* A rename on the host leaves what was told where move_prefix will look for it.
LEMMA MoveObjects ==
    ASSUME Inv, TreeInv, ObjectInv, disturbed = {}, NEW c \in Calls, PlainMove(c)
    PROVE  ObjectInv'
<1> DEFINE r == call[c]
           from == r.rel
           to == r.to
           new == [r EXCEPT !.at = "remap"]
<1>1. r.at = "move" /\ UNCHANGED <<id_to_relative, next_file_id, told>>
  BY Zenon DEF PlainMove, UsesHost, At, fsmap, history
<1>2. r.at \in MovingSteps \ HalfDone
  BY <1>1, Zenon DEF MovingSteps, HalfDone
<1>3. /\ \A d \in Calls \ {c} : ~Active(d)
      /\ r.live /\ r.proc \in Moving /\ from \in Seq(Names) /\ Quiet
      /\ {"at", "proc", "live", "rel"} \subseteq DOMAIN r
  BY <1>2, RunsAlone, Zenon
<1>4. to \in Seq(Names) /\ "to" \in DOMAIN r
  BY <1>1, Zenon DEF Inv, CallInv, CallTyped
<1>5. CASE UNCHANGED backing /\ Goto(c, Done)
  BY <1>1, <1>2, <1>5, FailedObjects, Zenon DEF backing
<1>6. CASE HostRename(from, to) /\ Goto(c, new)
  <2>1. /\ \A p \in DOMAIN host : RelativeStartsWith(p, from) =>
              Moved(p, from, to) \in DOMAIN host' /\ host'[Moved(p, from, to)] = host[p]
        /\ \A p \in DOMAIN host : ~RelativeStartsWith(p, from) /\ ~RelativeStartsWith(p, to) =>
              p \in DOMAIN host' /\ host'[p] = host[p]
    BY <1>3, <1>4, <1>6, RenamedHost
  <2>2. Consistent /\ Located(told, id_to_relative, host)
    BY <1>3, Zenon DEF ObjectInv
  <2>3. call' = [call EXCEPT ![c] = new]
    BY <1>3, <1>6, GoesOn, Zenon DEF Inv
  <2>4. /\ DOMAIN new = DOMAIN r /\ new.at = "remap" /\ new.rel = from /\ new.to = to
        /\ new.proc = r.proc /\ new.live = r.live
    BY <1>3, <1>4, Zenon
  <2> HIDE DEF new
  <2>5. Renamed(told', id_to_relative', host', new.rel, new.to)
    <3> SUFFICES ASSUME NEW t \in told, t[1] \in DOMAIN id_to_relative,
                        ~Replaces(from, to, id_to_relative[t[1]])
                 PROVE  IsAt(host', Relocated(id_to_relative[t[1]], from, to), t[2])
      BY <1>1, <2>4, Zenon DEF Renamed
    <3> DEFINE p == id_to_relative[t[1]]
    <3>1. p \in DOMAIN host /\ host[p].inode = t[2]
      BY <2>2, Zenon DEF Located, IsAt
    <3> HIDE DEF p
    <3>2. CASE RelativeStartsWith(p, from)
      BY <2>1, <3>1, <3>2, Zenon DEF Relocated, IsAt, p
    <3>3. CASE ~RelativeStartsWith(p, from)
      <4>1. ~RelativeStartsWith(p, to)
        BY <3>3, Zenon DEF Replaces, p
      <4> QED BY <2>1, <3>1, <3>3, <4>1, Zenon DEF Relocated, IsAt, p
    <3> QED BY <3>2, <3>3, Zenon
  <2>6. CallHolds(new, id_to_relative', host')
    <3> HIDE DEF r
    <3> QED BY <1>3, <2>4, Zenon DEF CallHolds, MovingSteps
  <2>7. Consistent'
    BY <1>1, <2>2, Zenon DEF Consistent
  <2>8. "remap" \in HalfDone
    BY Zenon DEF HalfDone
  <2> QED BY <1>3, <2>3, <2>4, <2>5, <2>6, <2>7, <2>8, AloneFrame, Zenon DEF Inv
<1> QED BY <1>5, <1>6, Zenon DEF PlainMove, MoveAt

\* What move_prefix makes of the identifiers
LEMMA MovedIdentifiers ==
    ASSUME NEW from \in Seq(Names), NEW to \in Seq(Names), MovePrefix(from, to)
    PROVE  /\ DOMAIN id_to_relative' =
                 {i \in DOMAIN id_to_relative : ~Replaces(from, to, id_to_relative[i])}
           /\ \A i \in DOMAIN id_to_relative' : id_to_relative'[i] = Relocated(id_to_relative[i], from, to)
           /\ next_file_id' = next_file_id
<1> DEFINE gone == Replaced(from, to)
           moving == Below(from) \ gone
           stay == DOMAIN id_to_relative \ gone
<1>1. /\ id_to_relative' = [i \in stay |-> IF i \in moving THEN Moved(id_to_relative[i], from, to)
                                           ELSE id_to_relative[i]]
      /\ next_file_id' = next_file_id
  BY Zenon DEF MovePrefix, Without, Restrict
<1>2. stay = {i \in DOMAIN id_to_relative : ~Replaces(from, to, id_to_relative[i])}
  BY Zenon DEF Replaced, Replaces, Below
<1>3. \A i \in stay : i \in moving <=> RelativeStartsWith(id_to_relative[i], from)
  BY Zenon DEF Below
<1> HIDE DEF stay, moving
<1> QED BY <1>1, <1>2, <1>3, Zenon DEF Relocated

\* move_prefix forgets what the rename replaced and follows what it moved.
LEMMA RemapObjects ==
    ASSUME Inv, ObjectInv, disturbed = {}, NEW c \in Calls, Remap(c)
    PROVE  ObjectInv'
<1> DEFINE r == call[c]
<1>1. r.at = "remap" /\ MovePrefix(r.rel, r.to) /\ Goto(c, Done) /\ UNCHANGED <<host, told>>
  BY Zenon DEF Remap, UsesMap, At, backing, history
<1>2. r.at \in MovingSteps
  BY <1>1, Zenon DEF MovingSteps
<1>3. (\A d \in Calls \ {c} : ~Active(d)) /\ r.rel \in Seq(Names)
  BY <1>2, RunsAlone, Zenon
<1>4. r.to \in Seq(Names)
  BY <1>1, Zenon DEF Inv, CallInv, CallTyped
<1>5. Renamed(told, id_to_relative, host, r.rel, r.to) /\ Consistent
  BY <1>1, Zenon DEF ObjectInv
<1>6. /\ DOMAIN id_to_relative' =
            {i \in DOMAIN id_to_relative : ~Replaces(r.rel, r.to, id_to_relative[i])}
      /\ \A i \in DOMAIN id_to_relative' : id_to_relative'[i] = Relocated(id_to_relative[i], r.rel, r.to)
      /\ next_file_id' = next_file_id
  BY <1>1, <1>3, <1>4, MovedIdentifiers, Zenon
<1>7. Located(told', id_to_relative', host')
  BY <1>1, <1>5, <1>6, Zenon DEF Located, Renamed
<1>8. Consistent'
  BY <1>1, <1>5, <1>6, Zenon DEF Consistent
<1>9. call' = [call EXCEPT ![c] = Done]
  BY <1>1, GoesOn, Zenon DEF Inv
<1>10. Done.at = "done"
  BY Zenon DEF Done
<1> QED BY <1>3, <1>7, <1>8, <1>9, <1>10, AloneFrame, Zenon DEF Inv

\* A removal or rename that is dropped disturbs; another call ends, or goes on without
\* its client as far as the host.
LEMMA DropObjects ==
    ASSUME Inv, Inv', ObjectInv, NEW c \in Calls, Drop(c)
    PROVE  ObjectInv'
<1> DEFINE r == call[c]
           new == [r EXCEPT !.live = FALSE]
<1> SUFFICES ASSUME disturbed' = {} PROVE ObjectInv'
  BY Zenon DEF ObjectInv
<1>1. Active(c) /\ UNCHANGED <<id_to_relative, next_file_id, host>> /\ MapInv'
  BY Zenon DEF Drop, fsmap, backing, Inv
<1>2. r.proc \notin Moving /\ UNCHANGED told /\ disturbed = {}
  <2>1. ~(r.proc \in Moving) /\ disturbed = {} /\ told' = told \cup {}
    BY Uneventful, Zenon DEF Drop
  <2> QED BY <2>1
<1>3. /\ CallHolds(r, id_to_relative, host) /\ r.at \notin MovingSteps
      /\ {"at", "proc", "live", "rel"} \subseteq DOMAIN r
  BY <1>1, <1>2, Zenon DEF ObjectInv, CallHolds
<1>4. Adds /\ r.at \notin HalfDone
  BY <1>1, <1>2, <1>3, AddsNothing, Zenon DEF Inv, HalfDone, MovingSteps
<1>5. CASE r.at \in {"make", "unlink", "move"}
  <2>1. r.at = "make" /\ call' = [call EXCEPT ![c] = new]
    BY <1>3, <1>5, Zenon DEF Drop, MovingSteps, Inv, CallInv
  <2>2. {"mode", "verifier"} \subseteq DOMAIN r /\ (r.mode # "exclusive" => r.verifier = NoVerifier)
        /\ r.proc = "create"
    BY <1>3, <2>1, Zenon DEF CallHolds
  <2>3. /\ DOMAIN new = DOMAIN r /\ new.at = "make" /\ new.proc = r.proc
        /\ new.mode = r.mode /\ new.verifier = r.verifier
    BY <1>3, <2>1, <2>2, Zenon
  <2> HIDE DEF new, r
  <2>4. CallHolds(new, id_to_relative', host')
    BY <1>2, <1>3, <2>2, <2>3, Zenon DEF CallHolds, MovingSteps
  <2>5. new.at \notin HalfDone /\ new.proc = call[c].proc
    BY <2>3, Zenon DEF HalfDone, r
  <2> QED BY <1>1, <1>2, <1>4, <2>1, <2>4, <2>5, Advance, Zenon DEF r
<1>6. CASE r.at \notin {"make", "unlink", "move"}
  <2>1. call' = [call EXCEPT ![c] = Done] /\ Done.at = "done"
    BY <1>6, Zenon DEF Drop, Inv, CallInv, Done
  <2> QED BY <1>1, <1>2, <1>4, <2>1, Advance, Zenon
<1> QED BY <1>5, <1>6, Zenon

\* Every step keeps the tree of the host, and what identifiers denote.
LEMMA NextObjects ==
    ASSUME Inv, TreeInv, ObjectInv, [Next]_vars
    PROVE  TreeInv' /\ ObjectInv'
<1>1. CASE UNCHANGED vars
  <2>1. UNCHANGED <<host, id_to_relative, next_file_id, call, told, disturbed>>
    BY <1>1, Zenon DEF vars, fsmap, backing, history
  <2>2. TreeInv'
    BY <2>1, Zenon DEF TreeInv, IsDir, Exists
  <2>3. ObjectInv'
    BY <2>1, Zenon DEF ObjectInv, Alone, Active, Consistent, Quiet
  <2> QED BY <2>2, <2>3, Zenon
<1>2. CASE Next
  <2>1. TreeInv'
    BY <1>2, NextIsHostStep, HostStepTree, Zenon
  <2> SUFFICES ObjectInv'
    BY <2>1, Zenon
  <2>2. Inv'
    BY StepInv, Zenon
  <2>3. PICK c \in Calls :
           \/ Lookup(c) \/ LookupDot(c) \/ ReadDir(c)
           \/ GetAttr(c) \/ SetAttr(c) \/ ReadLink(c) \/ Read(c) \/ Write(c) \/ Commit(c)
           \/ Create(c) \/ CreateExclusive(c) \/ Mkdir(c) \/ Symlink(c)
           \/ Remove(c) \/ Rmdir(c) \/ Rename(c)
           \/ Step(c) \/ Drop(c)
    BY <1>2, Zenon DEF Next
  <2>4. CASE Step(c)
    <3> SUFFICES ASSUME disturbed' = {} PROVE ObjectInv'
      BY Zenon DEF ObjectInv
    <3>1. PlainStep(c) /\ disturbed = {}
      BY <2>4, Plainly, Zenon
    <3>2. CASE \/ PlainStat(c, "dot_stat", "dot_intern") \/ PlainStat(c, "meta", "intern")
               \/ PlainList(c) \/ PlainProbe(c) \/ Apply(c)
      BY <2>2, <3>1, <3>2, LookingObjects, Zenon
    <3>3. CASE PlainMake(c)
      BY <2>2, <3>1, <3>3, MakeObjects, Zenon
    <3>4. CASE PlainObject(c)
      BY <2>2, <3>1, <3>4, ObjectObjects, Zenon
    <3>5. CASE Created(c) \/ Entry(c) \/ EntryIntern(c)
      BY <2>2, <3>1, <3>5, InterningObjects, Zenon
    <3>6. CASE Verify(c) \/ Remember(c) \/ ToChild(c)
      BY <2>2, <3>1, <3>6, ReadingObjects, Zenon
    <3>7. CASE PlainUnlink(c)
      BY <3>1, <3>7, UnlinkObjects, Zenon
    <3>8. CASE Forget(c)
      BY <3>1, <3>8, ForgetObjects, Zenon
    <3>9. CASE PlainMove(c)
      BY <3>1, <3>9, MoveObjects, Zenon
    <3>10. CASE Remap(c)
      BY <3>1, <3>10, RemapObjects, Zenon
    <3> QED BY <3>1, <3>2, <3>3, <3>4, <3>5, <3>6, <3>7, <3>8, <3>9, <3>10, Zenon DEF PlainStep
  <2>5. CASE Drop(c)
    BY <2>2, <2>5, DropObjects, Zenon
  <2> QED BY <2>3, <2>4, <2>5, BeginObjects, Zenon
<1> QED BY <1>1, <1>2, Zenon

\* At first there is the root, and nothing was told.
LEMMA InitObjects == Init => TreeInv /\ ObjectInv
<1> SUFFICES ASSUME Init PROVE TreeInv /\ ObjectInv
  BY Zenon
<1>1. DOMAIN host = {<<>>}
  BY Zenon DEF Init
<1>2. \A p \in Seq(Names) : RelativeStartsWith(<<>>, p) => p = <<>>
  <2> SUFFICES ASSUME NEW p \in Seq(Names), RelativeStartsWith(<<>>, p) PROVE p = <<>>
    BY Zenon
  <2>1. Len(p) = 0
    BY DEF RelativeStartsWith
  <2> QED BY <2>1
<1>3. TreeInv
  BY <1>1, <1>2 DEF TreeInv
<1>4. told = {} /\ \A c \in Calls : call[c].at = "done"
  BY Zenon DEF Init, Done
<1>5. ObjectInv
  BY <1>4, Zenon DEF ObjectInv, Alone, Active, Consistent, Quiet, Located
<1> QED BY <1>3, <1>5, Zenon

\* The host is a tree, and what the calls and the replies say about it is so, in every
\* reachable state.
THEOREM Truth == Spec => [](TreeInv /\ ObjectInv)
<1>1. Inv /\ (TreeInv /\ ObjectInv) /\ [Next]_vars => (TreeInv /\ ObjectInv)'
  BY NextObjects, Zenon
<1> QED BY <1>1, InitObjects, Invariance, PTL DEF Spec

\* As long as no REMOVE, RMDIR or RENAME of mirrorfs.rs runs beside another call or is
\* dropped, and the host is led through no symbolic link, all replies that name a file
\* identifier are about one inode, and between calls FsMap maps the identifier to
\* where that inode is: for any number of calls, on trees of any depth, where the
\* other calls overlap and are dropped at any of their steps.
THEOREM IdentifiersDenote == Spec => []FileIdDenotesOneObject
<1>1. ObjectInv => FileIdDenotesOneObject
  <2> SUFFICES ASSUME ObjectInv, disturbed = {}
               PROVE  /\ \A t \in told, u \in told : t[1] = u[1] => t[2] = u[2]
                      /\ (\A c \in Calls : ~Active(c)) =>
                            \A t \in told : t[1] \in Known =>
                               Exists(id_to_relative[t[1]]) /\ host[id_to_relative[t[1]]].inode = t[2]
    BY Zenon DEF FileIdDenotesOneObject, NamesOneObject
  <2>1. \A t \in told, u \in told : t[1] = u[1] => t[2] = u[2]
    BY Zenon DEF ObjectInv, Consistent
  <2>2. ASSUME \A c \in Calls : ~Active(c) PROVE Located(told, id_to_relative, host)
    <3>1. Quiet
      BY <2>2, Zenon DEF Quiet, Active, HalfDone
    <3> QED BY <3>1, Zenon DEF ObjectInv
  <2> QED BY <2>1, <2>2, Zenon DEF Located, IsAt, Known, Exists
<1> QED BY <1>1, Truth, PTL

-----------------------------------------------------------------------------
(* Verifiers.                                                               *)
(*                                                                          *)
(* As long as moreover no CREATE is dropped, exclusive_verifiers follows    *)
(* the files that exclusive creations made.  It lags behind the host while  *)
(* a creation has made its file and has yet to remember the verifier, and   *)
(* while a removal or rename is half done.  move_prefix moves only the      *)
(* verifiers of paths with an identifier; every remembered path has one, or *)
(* a CREATE is about to give it one.                                        *)

\* The file at the path was created with the verifier.
IsBy(files, p, verifier) == p \in DOMAIN files /\ files[p].by = verifier
\* A call is about to remember its verifier, or to give its path an identifier.
Remembering(r, p) == r.at = "remember" /\ r.rel = p
Naming(r, p) == r.at \in {"meta", "intern"} /\ r.proc = "create" /\ r.rel = p

Certified(verifiers, files) ==
    \A p \in DOMAIN verifiers : IsBy(files, p, verifiers[p])
CertifiedUnlinked(verifiers, files, gone) ==
    /\ \A p \in DOMAIN verifiers : ~RelativeStartsWith(p, gone) => IsBy(files, p, verifiers[p])
    /\ \A q \in DOMAIN files : files[q].by # NoVerifier =>
          q \in DOMAIN verifiers /\ ~RelativeStartsWith(q, gone)
CertifiedRenamed(verifiers, files, from, to) ==
    /\ \A p \in DOMAIN verifiers : ~Replaces(from, to, p) =>
          IsBy(files, Relocated(p, from, to), verifiers[p])
    /\ \A q \in DOMAIN files : files[q].by # NoVerifier =>
          \E p \in DOMAIN verifiers : ~Replaces(from, to, p) /\ Relocated(p, from, to) = q

\* What makes repetitions recognised
VerifierInv ==
    disturbed = {} /\ ~dropped =>
        /\ \A c \in Calls : Active(c) => call[c].live
        /\ \A c \in Calls : call[c].at = "remember" => IsBy(host, call[c].rel, call[c].verifier)
        /\ \A p \in DOMAIN exclusive_verifiers :
              p \in Range(id_to_relative) \/ \E c \in Calls : Naming(call[c], p)
        /\ Quiet =>
              /\ Certified(exclusive_verifiers, host)
              /\ \A q \in DOMAIN host : host[q].by # NoVerifier =>
                    q \in DOMAIN exclusive_verifiers \/ \E c \in Calls : Remembering(call[c], q)
        /\ \A c \in Calls :
              /\ call[c].at = "forget" => CertifiedUnlinked(exclusive_verifiers, host, call[c].rel)
              /\ call[c].at = "remap" =>
                    CertifiedRenamed(exclusive_verifiers, host, call[c].rel, call[c].to)

\* A step of one call, taken while nothing is half done
LEMMA VerifierFrame ==
    ASSUME CallInv, VerifierInv, disturbed = {}, ~dropped, Quiet,
           NEW c \in Calls, NEW new, call' = [call EXCEPT ![c] = new],
           new.at \notin HalfDone, new.at # "done" => new.live,
           Grows(host, host'), Grows(id_to_relative, id_to_relative'),
           new.at = "remember" => IsBy(host', new.rel, new.verifier),
           Certified(exclusive_verifiers', host'),
           \A q \in DOMAIN host' : host'[q].by # NoVerifier =>
              \/ q \in DOMAIN exclusive_verifiers' \/ Remembering(new, q)
              \/ \E d \in Calls \ {c} : Remembering(call[d], q),
           \A p \in DOMAIN exclusive_verifiers' :
              \/ p \in Range(id_to_relative') \/ Naming(new, p)
              \/ \E d \in Calls \ {c} : Naming(call[d], p)
    PROVE  VerifierInv'
<1>1. \A d \in Calls : call'[d] = IF d = c THEN new ELSE call[d]
  BY Zenon DEF CallInv
<1>2. call'[c] = new /\ \A d \in Calls \ {c} : call'[d] = call[d]
  BY <1>1, Zenon
<1>3. \A d \in Calls : Active(d)' => call'[d].live
  BY <1>2, Zenon DEF VerifierInv, Active
<1>4. ASSUME NEW d \in Calls, call'[d].at = "remember"
      PROVE  IsBy(host', call'[d].rel, call'[d].verifier)
  <2>1. CASE d = c
    BY <1>2, <1>4, <2>1, Zenon
  <2>2. CASE d # c
    <3>1. IsBy(host, call[d].rel, call[d].verifier) /\ call'[d] = call[d]
      BY <1>2, <1>4, <2>2, Zenon DEF VerifierInv
    <3> QED BY <3>1, Zenon DEF IsBy, Grows
  <2> QED BY <2>1, <2>2, Zenon
<1>5. \A p \in DOMAIN exclusive_verifiers' :
         p \in Range(id_to_relative') \/ \E d \in Calls : Naming(call'[d], p)
  BY <1>2, Zenon
<1>6. \A q \in DOMAIN host' : host'[q].by # NoVerifier =>
         q \in DOMAIN exclusive_verifiers' \/ \E d \in Calls : Remembering(call'[d], q)
  BY <1>2, Zenon
<1>7. \A d \in Calls : call'[d].at \notin HalfDone
  BY <1>1, Zenon DEF Quiet
<1>8. \A d \in Calls : call'[d].at # "forget" /\ call'[d].at # "remap"
  BY <1>7, Zenon DEF HalfDone
<1>9. Range(id_to_relative)' = Range(id_to_relative')
  BY Zenon DEF Range
<1> QED BY <1>3, <1>4, <1>5, <1>6, <1>8, <1>9, Zenon DEF VerifierInv

\* A step that leaves the host and the verifiers as they are
LEMMA SameVerifiers ==
    ASSUME CallInv, VerifierInv, disturbed = {}, ~dropped, Quiet,
           NEW c \in Calls, NEW new, call' = [call EXCEPT ![c] = new],
           new.at \notin HalfDone, new.at # "remember", new.at # "done" => new.live,
           call[c].at # "remember", UNCHANGED <<host, exclusive_verifiers>>,
           Grows(id_to_relative, id_to_relative'),
           \A p \in DOMAIN exclusive_verifiers :
              Naming(call[c], p) => p \in Range(id_to_relative') \/ Naming(new, p)
    PROVE  VerifierInv'
<1>1. Grows(host, host') /\ Range(id_to_relative) \subseteq Range(id_to_relative')
  BY Zenon DEF Grows, Range
<1>2. Certified(exclusive_verifiers', host')
  BY Zenon DEF VerifierInv
<1>3. \A q \in DOMAIN host' : host'[q].by # NoVerifier =>
         \/ q \in DOMAIN exclusive_verifiers'
         \/ \E d \in Calls \ {c} : Remembering(call[d], q)
  BY Zenon DEF VerifierInv, Remembering
<1>4. \A p \in DOMAIN exclusive_verifiers' :
         \/ p \in Range(id_to_relative') \/ Naming(new, p)
         \/ \E d \in Calls \ {c} : Naming(call[d], p)
  BY <1>1, Zenon DEF VerifierInv
<1> QED BY <1>1, <1>2, <1>3, <1>4, VerifierFrame, Zenon

\* A step of a call that runs alone
LEMMA VerifierAlone ==
    ASSUME CallInv, NEW c \in Calls, \A d \in Calls \ {c} : ~Active(d),
           NEW new, call' = [call EXCEPT ![c] = new],
           new.at # "remember", new.at # "done" => new.live,
           \A p \in DOMAIN exclusive_verifiers' : p \in Range(id_to_relative'),
           new.at \notin HalfDone =>
              /\ Certified(exclusive_verifiers', host')
              /\ \A q \in DOMAIN host' : host'[q].by # NoVerifier => q \in DOMAIN exclusive_verifiers',
           new.at = "forget" => CertifiedUnlinked(exclusive_verifiers', host', new.rel),
           new.at = "remap" => CertifiedRenamed(exclusive_verifiers', host', new.rel, new.to)
    PROVE  VerifierInv'
<1>1. \A d \in Calls : call'[d] = IF d = c THEN new ELSE call[d]
  BY Zenon DEF CallInv
<1>2. call'[c] = new /\ \A d \in Calls : d # c => call'[d].at = "done"
  BY <1>1, Zenon DEF Active
<1>3. \A d \in Calls : Active(d)' => call'[d].live
  BY <1>2, Zenon DEF Active
<1>4. \A d \in Calls : call'[d].at # "remember"
  BY <1>2, Zenon
<1>5. Quiet' => /\ Certified(exclusive_verifiers', host')
                /\ \A q \in DOMAIN host' : host'[q].by # NoVerifier => q \in DOMAIN exclusive_verifiers'
  BY <1>2, Zenon DEF Quiet
<1>6. ASSUME NEW d \in Calls
      PROVE  /\ call'[d].at = "forget" => CertifiedUnlinked(exclusive_verifiers', host', call'[d].rel)
             /\ call'[d].at = "remap" =>
                   CertifiedRenamed(exclusive_verifiers', host', call'[d].rel, call'[d].to)
  BY <1>2, Zenon
<1>7. Range(id_to_relative)' = Range(id_to_relative')
  BY Zenon DEF Range
<1> QED BY <1>3, <1>4, <1>5, <1>6, <1>7, Zenon DEF VerifierInv

\* A call that begins has made nothing yet.
LEMMA BeginVerifiers ==
    ASSUME Inv, ObjectInv, VerifierInv, NEW c \in Calls,
           \/ Lookup(c) \/ LookupDot(c) \/ ReadDir(c)
           \/ GetAttr(c) \/ SetAttr(c) \/ ReadLink(c) \/ Read(c) \/ Write(c) \/ Commit(c)
           \/ Create(c) \/ CreateExclusive(c) \/ Mkdir(c) \/ Symlink(c)
           \/ Remove(c) \/ Rmdir(c) \/ Rename(c)
    PROVE  VerifierInv'
<1> DEFINE Fresh(new) == new.at \notin HalfDone \cup {"remember"} /\ new.live
<1>1. ASSUME NEW new, Begin(c, new), Fresh(new) PROVE VerifierInv'
  <2> SUFFICES ASSUME disturbed' = {}, ~dropped' PROVE VerifierInv'
    BY Zenon DEF VerifierInv
  <2>1. disturbed = {} /\ Quiet
    BY <1>1, BeginsQuietly, Zenon
  <2>2. ~dropped
    BY <1>1, Zenon DEF Begin
  <2>3. /\ ~Active(c) /\ call' = [call EXCEPT ![c] = new]
        /\ UNCHANGED <<host, exclusive_verifiers, id_to_relative>>
    BY <1>1, Zenon DEF Begin, fsmap, backing
  <2>4. call[c].at # "remember" /\ \A p : ~Naming(call[c], p)
    BY <2>3, Zenon DEF Active, Naming
  <2>5. Grows(id_to_relative, id_to_relative')
    BY <2>3, Zenon DEF Grows
  <2>6. new.at \notin HalfDone /\ new.at # "remember" /\ new.live
    BY <1>1, Zenon
  <2>7. CallInv
    BY Zenon DEF Inv
  <2> QED BY <2>1, <2>2, <2>3, <2>4, <2>5, <2>6, <2>7, SameVerifiers, Zenon
<1> SUFFICES \E new : Begin(c, new) /\ Fresh(new)
  BY <1>1, Zenon
<1> USE DEF HalfDone
<1>2. CASE Lookup(c)
  <2>1. PICK rel : Begin(c, [at |-> "meta", proc |-> "lookup", live |-> TRUE, rel |-> rel, inode |-> 0])
    BY <1>2, Zenon DEF Lookup
  <2> QED BY <2>1
<1>3. CASE LookupDot(c)
  <2>1. PICK rel : Begin(c, [at |-> "dot_stat", proc |-> "lookup", live |-> TRUE, rel |-> rel, inode |-> 0])
    BY <1>3, Zenon DEF LookupDot
  <2> QED BY <2>1
<1>4. CASE ReadDir(c)
  <2>1. PICK id : Begin(c, [at |-> "list", proc |-> "readdir", live |-> TRUE, id |-> id,
                            rel |-> id_to_relative[id], inode |-> 0, children |-> {}])
    BY <1>4, Zenon DEF ReadDir
  <2> QED BY <2>1
<1>5. ASSUME NEW uses, ObjectPath(c, uses) PROVE \E new : Begin(c, new) /\ Fresh(new)
  <2>1. PICK id : Begin(c, [at |-> "object", proc |-> "object", live |-> TRUE, id |-> id,
                            rel |-> id_to_relative[id], uses |-> uses])
    BY <1>5, Zenon DEF ObjectPath
  <2> QED BY <2>1
<1>6. ASSUME NEW proc, NEW at \in {"make", "probe", "unlink"}, NEW mode, NEW verifier,
             Changing(c, proc, at, mode, verifier)
      PROVE  \E new : Begin(c, new) /\ Fresh(new)
  <2>1. PICK rel : Begin(c, [at |-> at, proc |-> proc, live |-> TRUE, rel |-> rel,
                             mode |-> mode, verifier |-> verifier])
    BY <1>6, Zenon DEF Changing
  <2> QED BY <2>1
<1>7. CASE Rename(c)
  <2>1. PICK rel, to_id, to_name :
            Begin(c, [at |-> "to_child", proc |-> "rename", live |-> TRUE, rel |-> rel,
                      to_id |-> to_id, to_name |-> to_name])
    BY <1>7, Zenon DEF Rename
  <2> QED BY <2>1
<1> HIDE DEF Fresh
<1>8. CASE GetAttr(c) \/ SetAttr(c) \/ ReadLink(c) \/ Read(c) \/ Write(c) \/ Commit(c)
  BY <1>5, <1>8, Zenon DEF GetAttr, SetAttr, ReadLink, Read, Write, Commit
<1>9. CASE Create(c) \/ CreateExclusive(c) \/ Mkdir(c) \/ Symlink(c) \/ Remove(c) \/ Rmdir(c)
  BY <1>6, <1>9, Zenon DEF Create, CreateExclusive, Mkdir, Symlink, Remove, Rmdir
<1> QED BY <1>2, <1>3, <1>4, <1>7, <1>8, <1>9, Zenon

\* The steps that make nothing and remember nothing.  A CREATE that has remembered a
\* verifier finds its file, and gives it an identifier.
LEMMA OtherVerifiers ==
    ASSUME Inv, ObjectInv, VerifierInv, disturbed = {}, ~dropped, NEW c \in Calls,
           \/ PlainStat(c, "dot_stat", "dot_intern") \/ PlainStat(c, "meta", "intern")
           \/ PlainList(c) \/ PlainProbe(c) \/ Apply(c) \/ PlainObject(c)
           \/ Created(c) \/ Entry(c) \/ EntryIntern(c) \/ Verify(c) \/ ToChild(c)
    PROVE  VerifierInv'
<1> DEFINE r == call[c]
<1>1. /\ Active(c) /\ UNCHANGED host
      /\ r.at \in {"dot_stat", "meta", "list", "probe", "apply", "object", "intern", "dot_intern",
                   "entry", "entry_intern", "verify", "to_child"}
  BY Zenon DEF PlainStat, StatAt, PlainList, ListAt, PlainProbe, ProbeAt, PlainObject, ObjectAt, Apply,
         Created, Entry, EntryIntern, Verify, ToChild, UsesHost, UsesMap, At, Active, backing
<1>2. /\ CallHolds(r, id_to_relative, host) /\ CallTyped(r)
      /\ {"at", "proc", "live", "rel"} \subseteq DOMAIN r /\ r.live /\ r.rel \in Seq(Names)
  BY <1>1, Zenon DEF ObjectInv, CallHolds, VerifierInv, Inv, CallInv, CallTyped, Active
<1>3. r.at \notin HalfDone /\ r.at # "remember"
  BY <1>1, Zenon DEF HalfDone
<1>4. Quiet
  BY <1>1, <1>3, NothingHalfDone, Zenon
<1>5. CallInv /\ MapInv
  BY Zenon DEF Inv
<1>6. Certified(exclusive_verifiers, host)
  BY <1>4, Zenon DEF VerifierInv
<1>7. ASSUME NEW new, Goto(c, new), new.at \notin HalfDone, new.at # "remember", new.at # "done" => new.live,
             UNCHANGED exclusive_verifiers, Grows(id_to_relative, id_to_relative'),
             \A p \in DOMAIN exclusive_verifiers :
                Naming(r, p) => p \in Range(id_to_relative') \/ Naming(new, p)
      PROVE  VerifierInv'
  <2>1. call' = [call EXCEPT ![c] = new]
    BY <1>2, <1>5, <1>7, GoesOn, Zenon
  <2> QED BY <1>1, <1>3, <1>4, <1>5, <1>7, <2>1, SameVerifiers, Zenon
<1>8. Done.at = "done" /\ "done" \notin HalfDone
  BY Zenon DEF Done, HalfDone
<1>9. r.at \notin {"meta", "intern"} => \A p : ~Naming(r, p)
  BY Zenon DEF Naming
<1>10. UNCHANGED <<exclusive_verifiers, id_to_relative>> =>
          Grows(id_to_relative, id_to_relative') /\ UNCHANGED exclusive_verifiers
  BY Zenon DEF Grows
<1>11. ASSUME NEW next \in {"intern", "dot_intern"}, NEW step \in {"meta", "dot_stat"}, PlainStat(c, step, next),
              (step = "meta") = (next = "intern")
       PROVE  VerifierInv'
  <2> DEFINE new == [r EXCEPT !.at = next, !.inode = host[r.rel].inode]
  <2>1. r.at = step /\ UNCHANGED <<exclusive_verifiers, id_to_relative>>
    BY <1>11, Zenon DEF PlainStat, UsesHost, At, fsmap
  <2>2. /\ new.at = next /\ new.rel = r.rel /\ new.proc = r.proc /\ new.live = r.live
    BY <1>2, Zenon
  <2>3. (Goto(c, new) /\ Exists(r.rel)) \/ (Goto(c, Done) /\ ~Exists(r.rel))
    BY <1>11, Zenon DEF PlainStat, StatAt
  <2> HIDE DEF new
  <2>4. new.at \notin HalfDone /\ new.at # "remember" /\ new.live
    BY <1>2, <2>2, Zenon DEF HalfDone
  <2>5. \A p : Naming(r, p) => Naming(new, p)
    BY <1>11, <2>1, <2>2, Zenon DEF Naming
  <2>6. CASE Goto(c, new)
    BY <1>7, <1>10, <2>1, <2>4, <2>5, <2>6, Zenon
  <2>7. CASE Goto(c, Done) /\ ~Exists(r.rel)
    <3>1. \A p \in DOMAIN exclusive_verifiers : ~Naming(r, p)
      BY <1>6, <2>7, Zenon DEF Certified, IsBy, Exists, Naming
    <3> QED BY <1>7, <1>8, <1>10, <2>1, <2>7, <3>1, Zenon
  <2> QED BY <2>3, <2>6, <2>7, Zenon
<1>12. CASE PlainStat(c, "dot_stat", "dot_intern") \/ PlainStat(c, "meta", "intern")
  BY <1>11, <1>12, Zenon
<1>13. CASE PlainList(c)
  <2> DEFINE dir == r.rel
             children == {<<n, host[Append(dir, n)].inode>> : n \in {m \in Names : Exists(Append(dir, m))}}
             new == [r EXCEPT !.at = "entry", !.children = children]
  <2>1. r.at = "list" /\ UNCHANGED <<exclusive_verifiers, id_to_relative>>
    BY <1>13, Zenon DEF PlainList, UsesHost, At, fsmap
  <2>2. new.at = "entry" /\ new.live = r.live
    BY <1>2, Zenon
  <2>3. Goto(c, new) \/ Goto(c, Done)
    BY <1>13, Zenon DEF PlainList, ListAt
  <2> HIDE DEF new
  <2>4. new.at \notin HalfDone /\ new.at # "remember" /\ new.live
    BY <1>2, <2>2, Zenon DEF HalfDone
  <2> QED BY <1>7, <1>8, <1>9, <1>10, <2>1, <2>3, <2>4, Zenon
<1>14. CASE PlainProbe(c)
  <2>1. PICK at \in {"verify", "make"} : Goto(c, [r EXCEPT !.at = at])
    BY <1>14, Zenon DEF PlainProbe, ProbeAt
  <2> DEFINE new == [r EXCEPT !.at = at]
  <2>2. new.at = at /\ new.live = r.live
    BY <1>2, Zenon
  <2>3. r.at = "probe" /\ UNCHANGED <<exclusive_verifiers, id_to_relative>> /\ Goto(c, new)
    BY <1>14, <2>1, Zenon DEF PlainProbe, UsesHost, At, fsmap
  <2> HIDE DEF new
  <2>4. new.at \notin HalfDone /\ new.at # "remember" /\ new.live
    BY <1>2, <2>2, Zenon DEF HalfDone
  <2> QED BY <1>7, <1>9, <1>10, <2>3, <2>4, Zenon
<1>15. CASE Apply(c) \/ Verify(c)
  <2>1. r.at \in {"apply", "verify"} /\ UNCHANGED <<exclusive_verifiers, id_to_relative>>
    BY <1>15, Zenon DEF Apply, Verify, UsesHost, UsesMap, At, fsmap
  <2>2. Goto(c, To(c, "meta")) \/ Goto(c, Done)
    BY <1>15, Zenon DEF Apply, Verify
  <2>3. To(c, "meta").at \notin HalfDone /\ To(c, "meta").at # "remember" /\ To(c, "meta").live
    BY Zenon DEF To, HalfDone
  <2> QED BY <1>7, <1>8, <1>9, <1>10, <2>1, <2>2, <2>3, Zenon
<1>16. CASE PlainObject(c)
  <2> DEFINE new == [r EXCEPT !.uses = Tail(@)]
  <2>1. r.at = "object" /\ UNCHANGED <<exclusive_verifiers, id_to_relative>>
    BY <1>16, Zenon DEF PlainObject, UsesHost, At, fsmap
  <2>2. new.at = r.at /\ new.live = r.live
    BY <1>2, Zenon
  <2>3. Goto(c, new) \/ Goto(c, Done)
    BY <1>16, Zenon DEF PlainObject, ObjectAt
  <2> HIDE DEF new
  <2>4. new.at \notin HalfDone /\ new.at # "remember" /\ new.live
    BY <1>2, <1>3, <2>2, Zenon
  <2> QED BY <1>7, <1>8, <1>9, <1>10, <2>1, <2>3, <2>4, Zenon
<1>17. ASSUME Intern(r.rel)
       PROVE  /\ UNCHANGED exclusive_verifiers /\ Grows(id_to_relative, id_to_relative')
              /\ r.rel \in Range(id_to_relative')
  <2>1. Grows(id_to_relative, id_to_relative') /\ r.rel \in Range(id_to_relative')
    BY <1>2, <1>5, <1>17, InternAdds, Zenon DEF Range
  <2>2. UNCHANGED exclusive_verifiers
    BY <1>17, Zenon DEF Intern, fsmap
  <2> QED BY <2>1, <2>2, Zenon
<1>18. CASE Created(c)
  <2>1. Intern(r.rel) /\ Goto(c, Done)
    BY <1>18, Zenon DEF Created
  <2>2. \A p : Naming(r, p) => p = r.rel
    BY Zenon DEF Naming
  <2> QED BY <1>7, <1>8, <1>17, <2>1, <2>2, Zenon
<1>19. CASE EntryIntern(c)
  <2> DEFINE new == [r EXCEPT !.at = "entry"]
  <2>1. r.at = "entry_intern" /\ Intern(r.rel) /\ (Goto(c, Done) \/ Goto(c, new))
    BY <1>19, Zenon DEF EntryIntern, UsesMap, At
  <2>2. new.at = "entry" /\ new.live = r.live
    BY <1>2, Zenon
  <2> HIDE DEF new
  <2>3. new.at \notin HalfDone /\ new.at # "remember" /\ new.live
    BY <1>2, <2>2, Zenon DEF HalfDone
  <2> QED BY <1>7, <1>8, <1>9, <1>17, <2>1, <2>3, Zenon
<1>20. CASE Entry(c)
  <2>1. r.at = "entry" /\ UNCHANGED <<exclusive_verifiers, id_to_relative>>
    BY <1>20, Zenon DEF Entry, UsesMap, At, fsmap
  <2>2. PICK child :
            \/ Goto(c, [r EXCEPT !.at = "entry_intern", !.rel = Child(r.id, child[1]),
                                 !.inode = child[2], !.children = @ \ {child}])
            \/ Goto(c, Done)
    BY <1>20, Zenon DEF Entry
  <2> DEFINE new == [r EXCEPT !.at = "entry_intern", !.rel = Child(r.id, child[1]),
                              !.inode = child[2], !.children = @ \ {child}]
  <2>3. new.at = "entry_intern" /\ new.live = r.live
    BY <1>2, Zenon
  <2>4. Goto(c, new) \/ Goto(c, Done)
    BY <2>2, Zenon
  <2> HIDE DEF new
  <2>5. new.at \notin HalfDone /\ new.at # "remember" /\ new.live
    BY <1>2, <2>3, Zenon DEF HalfDone
  <2> QED BY <1>7, <1>8, <1>9, <1>10, <2>1, <2>4, <2>5, Zenon
<1>21. CASE ToChild(c)
  <2>1. PICK to : Goto(c, [at |-> "move", proc |-> "rename", live |-> TRUE, rel |-> r.rel, to |-> to])
                  \/ Goto(c, Done)
    BY <1>21, Zenon DEF ToChild
  <2> DEFINE new == [at |-> "move", proc |-> "rename", live |-> TRUE, rel |-> r.rel, to |-> to]
  <2>2. r.at = "to_child" /\ UNCHANGED <<exclusive_verifiers, id_to_relative>>
    BY <1>21, Zenon DEF ToChild, UsesMap, At, fsmap
  <2>3. new.at \notin HalfDone /\ new.at # "remember" /\ new.live /\ (Goto(c, new) \/ Goto(c, Done))
    BY <2>1, Zenon DEF HalfDone
  <2> HIDE DEF new
  <2> QED BY <1>7, <1>8, <1>9, <1>10, <2>2, <2>3, Zenon
<1> QED BY <1>12, <1>13, <1>14, <1>15, <1>16, <1>18, <1>19, <1>20, <1>21, Zenon

\* An exclusive creation that makes a file is about to remember its verifier; the other
\* creations have none.
LEMMA MakeVerifiers ==
    ASSUME Inv, ObjectInv, VerifierInv, disturbed = {}, ~dropped, NEW c \in Calls, PlainMake(c)
    PROVE  VerifierInv'
<1> DEFINE r == call[c]
           p == r.rel
           made == CanCreate(p)
           remember == [r EXCEPT !.at = "remember"]
<1>1. Active(c) /\ r.at = "make" /\ UNCHANGED <<id_to_relative, exclusive_verifiers>>
  BY Zenon DEF PlainMake, UsesHost, At, Active, fsmap
<1>2. /\ r.live /\ CallInv /\ {"at", "proc", "live", "rel", "mode", "verifier"} \subseteq DOMAIN r
      /\ (r.mode # "exclusive" => r.verifier = NoVerifier)
  BY <1>1, Zenon DEF VerifierInv, ObjectInv, CallHolds, Inv
<1>3. Quiet
  <2>1. r.at \notin HalfDone
    BY <1>1, Zenon DEF HalfDone
  <2> QED BY <1>1, <2>1, NothingHalfDone, Zenon
<1>4. /\ Certified(exclusive_verifiers, host)
      /\ \A q \in DOMAIN host : host[q].by # NoVerifier =>
            \/ q \in DOMAIN exclusive_verifiers
            \/ \E d \in Calls \ {c} : Remembering(call[d], q)
      /\ \A q \in DOMAIN exclusive_verifiers :
            \/ q \in Range(id_to_relative')
            \/ \E d \in Calls \ {c} : Naming(call[d], q)
  BY <1>1, <1>3, Zenon DEF VerifierInv, Remembering, Naming
<1>5. Grows(id_to_relative, id_to_relative')
  BY <1>1, Zenon DEF Grows
<1>6. \/ made /\ r.mode = "exclusive" /\ Goto(c, remember)
      \/ r.mode # "exclusive" /\ \E at \in {"meta", "apply"} : Goto(c, To(c, at))
      \/ ~made /\ Goto(c, Done)
  BY Zenon DEF PlainMake, MakeAt
<1>7. \A new : Goto(c, new) => call' = [call EXCEPT ![c] = new]
  BY <1>2, GoesOn, Zenon
<1>8. ~made => UNCHANGED host
  BY Zenon DEF PlainMake, MakeAt, backing
<1>9. made => /\ p \notin DOMAIN host /\ DOMAIN host' = DOMAIN host \cup {p}
              /\ host'[p].by = r.verifier /\ \A q \in DOMAIN host : host'[q] = host[q]
  <2> SUFFICES ASSUME made
               PROVE  /\ p \notin DOMAIN host /\ DOMAIN host' = DOMAIN host \cup {p}
                      /\ host'[p].by = r.verifier /\ \A q \in DOMAIN host : host'[q] = host[q]
    BY Zenon
  <2>1. PICK kind : host' = With(host, p, [inode |-> inodes + 1, kind |-> kind, by |-> r.verifier])
    BY Zenon DEF PlainMake, MakeAt, HostCreate
  <2>2. p \notin DOMAIN host
    BY Zenon DEF CanCreate, Exists
  <2> QED BY <2>1, <2>2, Zenon DEF With
<1> HIDE DEF made
<1>10. Grows(host, host')
  BY <1>8, <1>9, Zenon DEF Grows
<1>11. Certified(exclusive_verifiers', host')
  BY <1>1, <1>4, <1>10, Zenon DEF Certified, IsBy, Grows
<1>12. ASSUME NEW q \in DOMAIN host', host'[q].by # NoVerifier
       PROVE  \/ q \in DOMAIN exclusive_verifiers'
              \/ made /\ q = p /\ r.mode = "exclusive"
              \/ \E d \in Calls \ {c} : Remembering(call[d], q)
  BY <1>1, <1>2, <1>4, <1>8, <1>9, <1>12, Zenon
<1>13. CASE made /\ r.mode = "exclusive" /\ Goto(c, remember)
  <2>1. /\ remember.at = "remember" /\ remember.rel = p /\ remember.verifier = r.verifier
        /\ remember.live
    BY <1>2, Zenon
  <2>2. call' = [call EXCEPT ![c] = remember]
    BY <1>7, <1>13, Zenon
  <2> HIDE DEF remember
  <2>3. IsBy(host', remember.rel, remember.verifier) /\ remember.at \notin HalfDone
    BY <1>9, <1>13, <2>1, Zenon DEF IsBy, HalfDone
  <2>4. \A q \in DOMAIN host' : host'[q].by # NoVerifier =>
           \/ q \in DOMAIN exclusive_verifiers' \/ Remembering(remember, q)
           \/ \E d \in Calls \ {c} : Remembering(call[d], q)
    BY <1>12, <2>1, Zenon DEF Remembering
  <2> QED BY <1>1, <1>2, <1>3, <1>4, <1>5, <1>10, <1>11, <2>1, <2>2, <2>3, <2>4, VerifierFrame
<1>14. ASSUME NEW new, Goto(c, new), new.at \in {"meta", "apply", "done"}, new.at # "done" => new.live,
              r.mode # "exclusive" \/ ~made
       PROVE  VerifierInv'
  <2>1. call' = [call EXCEPT ![c] = new] /\ new.at \notin HalfDone /\ new.at # "remember"
    BY <1>7, <1>14, Zenon DEF HalfDone
  <2>2. \A q \in DOMAIN host' : host'[q].by # NoVerifier =>
           \/ q \in DOMAIN exclusive_verifiers'
           \/ \E d \in Calls \ {c} : Remembering(call[d], q)
    BY <1>12, <1>14, Zenon
  <2> QED BY <1>1, <1>2, <1>3, <1>4, <1>5, <1>10, <1>11, <1>14, <2>1, <2>2, VerifierFrame, Zenon
<1>15. \A at : To(c, at).at = at /\ To(c, at).live
  BY Zenon DEF To
<1>16. Done.at = "done"
  BY Zenon DEF Done
<1> QED BY <1>6, <1>13, <1>14, <1>15, <1>16, Zenon

\* A verifier is remembered for the file that was made, which the call then names.
LEMMA RememberVerifiers ==
    ASSUME Inv, ObjectInv, VerifierInv, disturbed = {}, ~dropped, NEW c \in Calls, Remember(c)
    PROVE  VerifierInv'
<1> DEFINE r == call[c]
           p == r.rel
           new == To(c, "meta")
<1>1. /\ Active(c) /\ r.at = "remember" /\ UNCHANGED <<id_to_relative, host>> /\ Goto(c, new)
      /\ exclusive_verifiers' = With(exclusive_verifiers, p, r.verifier)
  BY Zenon DEF Remember, UsesMap, At, Active, backing
<1>2. r.live /\ CallInv /\ r.proc = "create" /\ IsBy(host, p, r.verifier)
  BY <1>1, Zenon DEF VerifierInv, ObjectInv, CallHolds, Inv
<1>3. Quiet
  <2>1. r.at \notin HalfDone
    BY <1>1, Zenon DEF HalfDone
  <2> QED BY <1>1, <2>1, NothingHalfDone, Zenon
<1>4. /\ DOMAIN exclusive_verifiers' = DOMAIN exclusive_verifiers \cup {p}
      /\ exclusive_verifiers'[p] = r.verifier
      /\ \A q \in DOMAIN exclusive_verifiers : q # p => exclusive_verifiers'[q] = exclusive_verifiers[q]
  BY <1>1, Zenon DEF With
<1>5. Certified(exclusive_verifiers', host')
  <2>1. Certified(exclusive_verifiers, host)
    BY <1>3, Zenon DEF VerifierInv
  <2> QED BY <1>1, <1>2, <1>4, <2>1, Zenon DEF Certified
<1>6. \A q \in DOMAIN host' : host'[q].by # NoVerifier =>
         \/ q \in DOMAIN exclusive_verifiers'
         \/ \E d \in Calls \ {c} : Remembering(call[d], q)
  BY <1>1, <1>3, <1>4, Zenon DEF VerifierInv, Remembering
<1>7. new.at = "meta" /\ new.proc = "create" /\ new.rel = p /\ new.live
  BY <1>2, Zenon DEF To
<1>8. call' = [call EXCEPT ![c] = new]
  BY <1>1, <1>2, GoesOn, Zenon
<1> HIDE DEF new
<1>9. \A q \in DOMAIN exclusive_verifiers' :
         \/ q \in Range(id_to_relative') \/ Naming(new, q)
         \/ \E d \in Calls \ {c} : Naming(call[d], q)
  BY <1>1, <1>4, <1>7 DEF VerifierInv, Naming
<1>10. new.at \notin HalfDone /\ new.at # "remember"
  BY <1>7, Zenon DEF HalfDone
<1>11. Grows(host, host') /\ Grows(id_to_relative, id_to_relative')
  BY <1>1, Zenon DEF Grows
<1> QED BY <1>2, <1>3, <1>5, <1>6, <1>7, <1>8, <1>9, <1>10, <1>11, VerifierFrame, Zenon

\* When a removal or rename runs, every remembered path has an identifier, and no
\* verifier is still to be remembered.
LEMMA AllRemembered ==
    ASSUME Inv, ObjectInv, VerifierInv, disturbed = {}, ~dropped, NEW c \in Calls, call[c].at \in MovingSteps
    PROVE  /\ \A p \in DOMAIN exclusive_verifiers : p \in Range(id_to_relative)
           /\ call[c].at \notin HalfDone =>
                 /\ Certified(exclusive_verifiers, host)
                 /\ \A q \in DOMAIN host : host[q].by # NoVerifier => q \in DOMAIN exclusive_verifiers
<1>1. (\A d \in Calls \ {c} : ~Active(d)) /\ (call[c].at \notin HalfDone => Quiet)
  BY RunsAlone, Zenon
<1>2. \A d \in Calls : \A p : ~Naming(call[d], p) /\ ~Remembering(call[d], p)
  BY <1>1, Zenon DEF Active, Naming, Remembering, MovingSteps
<1> QED BY <1>1, <1>2, Zenon DEF VerifierInv

\* Nothing is below what is unlinked, so its verifier is the only one to be forgotten.
LEMMA UnlinkVerifiers ==
    ASSUME Inv, TreeInv, ObjectInv, VerifierInv, disturbed = {}, ~dropped, NEW c \in Calls, PlainUnlink(c)
    PROVE  VerifierInv'
<1> DEFINE r == call[c]
           new == To(c, "forget")
<1>1. r.at = "unlink" /\ UNCHANGED <<id_to_relative, exclusive_verifiers>>
  BY Zenon DEF PlainUnlink, UsesHost, At, fsmap
<1>2. r.at \in MovingSteps /\ r.at \notin HalfDone
  BY <1>1, Zenon DEF MovingSteps, HalfDone
<1>3. (\A d \in Calls \ {c} : ~Active(d)) /\ r.live /\ r.rel \in Seq(Names) /\ CallInv
  BY <1>2, RunsAlone, Zenon DEF Inv
<1>4. /\ \A p \in DOMAIN exclusive_verifiers' : p \in Range(id_to_relative')
      /\ Certified(exclusive_verifiers, host)
      /\ \A q \in DOMAIN host : host[q].by # NoVerifier => q \in DOMAIN exclusive_verifiers
  BY <1>1, <1>2, AllRemembered, Zenon
<1>5. CASE UNCHANGED backing /\ Goto(c, Done)
  <2>1. Done.at = "done" /\ call' = [call EXCEPT ![c] = Done]
    BY <1>3, <1>5, GoesOn, Zenon DEF Done
  <2>2. UNCHANGED host
    BY <1>5, Zenon DEF backing
  <2> QED BY <1>1, <1>3, <1>4, <2>1, <2>2, VerifierAlone, Zenon
<1>6. CASE /\ CanUnlink(r.rel, r.mode = "dir") /\ HostUnlink(r.rel) /\ Goto(c, new)
  <2>1. DOMAIN host' = DOMAIN host \ {r.rel} /\ \A p \in DOMAIN host' : host'[p] = host[p]
    BY <1>6, Zenon DEF HostUnlink, Without, Restrict
  <2>2. ASSUME NEW q \in DOMAIN host, q # r.rel PROVE ~RelativeStartsWith(q, r.rel)
    <3> SUFFICES ASSUME RelativeStartsWith(q, r.rel) PROVE FALSE
      BY Zenon
    <3>1. IsDir(r.rel)
      BY <1>3, <2>2, Zenon DEF TreeInv
    <3>2. IsEmpty(r.rel)
      BY <1>6, <3>1, Zenon DEF CanUnlink
    <3> QED BY <2>2, <3>2, Zenon DEF IsEmpty, HostBelow
  <2>3. CertifiedUnlinked(exclusive_verifiers', host', r.rel)
    BY <1>1, <1>3, <1>4, <2>1, <2>2, StartsWithItself, Zenon DEF CertifiedUnlinked, Certified, IsBy
  <2>4. call' = [call EXCEPT ![c] = new]
    BY <1>3, <1>6, GoesOn, Zenon
  <2>5. new.at = "forget" /\ new.rel = r.rel /\ new.live /\ "forget" \in HalfDone
    BY Zenon DEF To, HalfDone
  <2> HIDE DEF new
  <2> QED BY <1>3, <1>4, <2>3, <2>4, <2>5, VerifierAlone, Zenon
<1> QED BY <1>5, <1>6, Zenon DEF PlainUnlink, UnlinkAt

\* forget_prefix forgets the verifiers of what is no longer there.
LEMMA ForgetVerifiers ==
    ASSUME Inv, ObjectInv, VerifierInv, disturbed = {}, ~dropped, NEW c \in Calls, Forget(c)
    PROVE  VerifierInv'
<1> DEFINE r == call[c]
<1>1. r.at = "forget" /\ ForgetPrefix(r.rel) /\ Goto(c, Done) /\ UNCHANGED host
  BY Zenon DEF Forget, UsesMap, At, backing
<1>2. r.at \in MovingSteps
  BY <1>1, Zenon DEF MovingSteps
<1>3. (\A d \in Calls \ {c} : ~Active(d)) /\ r.live /\ CallInv
  BY <1>2, RunsAlone, Zenon DEF Inv
<1>4. CertifiedUnlinked(exclusive_verifiers, host, r.rel)
  BY <1>1, Zenon DEF VerifierInv
<1>5. \A p \in DOMAIN exclusive_verifiers : \E i \in DOMAIN id_to_relative : id_to_relative[i] = p
  BY <1>2, AllRemembered, Zenon DEF Range
<1>6. /\ DOMAIN id_to_relative' = DOMAIN id_to_relative \ Below(r.rel)
      /\ \A i \in DOMAIN id_to_relative' : id_to_relative'[i] = id_to_relative[i]
  BY <1>1, Zenon DEF ForgetPrefix, Without, Restrict
<1>7. /\ DOMAIN exclusive_verifiers' = {p \in DOMAIN exclusive_verifiers : ~RelativeStartsWith(p, r.rel)}
      /\ \A p \in DOMAIN exclusive_verifiers' : exclusive_verifiers'[p] = exclusive_verifiers[p]
  BY <1>1, Zenon DEF ForgetPrefix, Without, Restrict, VerifiersBelow
<1>8. \A p \in DOMAIN exclusive_verifiers' : p \in Range(id_to_relative')
  BY <1>5, <1>6, <1>7, Zenon DEF Below, Range
<1>9. /\ Certified(exclusive_verifiers', host')
      /\ \A q \in DOMAIN host' : host'[q].by # NoVerifier => q \in DOMAIN exclusive_verifiers'
  BY <1>1, <1>4, <1>7, Zenon DEF Certified, CertifiedUnlinked
<1>10. call' = [call EXCEPT ![c] = Done] /\ Done.at = "done"
  BY <1>1, <1>3, GoesOn, Zenon DEF Done
<1> QED BY <1>3, <1>8, <1>9, <1>10, VerifierAlone, Zenon

\* A rename on the host moves the files that were created with a verifier to where
\* move_prefix will look for them.
LEMMA MoveVerifiers ==
    ASSUME Inv, TreeInv, ObjectInv, VerifierInv, disturbed = {}, ~dropped, NEW c \in Calls, PlainMove(c)
    PROVE  VerifierInv'
<1> DEFINE r == call[c]
           from == r.rel
           to == r.to
           new == [r EXCEPT !.at = "remap"]
<1>1. r.at = "move" /\ UNCHANGED <<id_to_relative, exclusive_verifiers>>
  BY Zenon DEF PlainMove, UsesHost, At, fsmap
<1>2. r.at \in MovingSteps /\ r.at \notin HalfDone
  BY <1>1, Zenon DEF MovingSteps, HalfDone
<1>3. /\ \A d \in Calls \ {c} : ~Active(d)
      /\ r.live /\ from \in Seq(Names) /\ CallInv /\ {"at", "live", "rel"} \subseteq DOMAIN r
  BY <1>2, RunsAlone, Zenon DEF Inv
<1>4. /\ \A p \in DOMAIN exclusive_verifiers' : p \in Range(id_to_relative')
      /\ Certified(exclusive_verifiers, host)
      /\ \A q \in DOMAIN host : host[q].by # NoVerifier => q \in DOMAIN exclusive_verifiers
  BY <1>1, <1>2, AllRemembered, Zenon
<1>5. to \in Seq(Names) /\ "to" \in DOMAIN r
  BY <1>1, Zenon DEF Inv, CallInv, CallTyped
<1>6. CASE UNCHANGED backing /\ Goto(c, Done)
  <2>1. Done.at = "done" /\ call' = [call EXCEPT ![c] = Done]
    BY <1>3, <1>6, GoesOn, Zenon DEF Done
  <2>2. UNCHANGED host
    BY <1>6, Zenon DEF backing
  <2> QED BY <1>1, <1>3, <1>4, <2>1, <2>2, VerifierAlone, Zenon
<1>7. CASE CanRename(from, to) /\ HostRename(from, to) /\ Goto(c, new)
  <2>1. /\ \A p \in DOMAIN host : RelativeStartsWith(p, from) =>
              Moved(p, from, to) \in DOMAIN host' /\ host'[Moved(p, from, to)] = host[p]
        /\ \A p \in DOMAIN host : ~RelativeStartsWith(p, from) /\ ~RelativeStartsWith(p, to) =>
              p \in DOMAIN host' /\ host'[p] = host[p]
        /\ \A q \in DOMAIN host' :
              \/ \E p \in DOMAIN host : RelativeStartsWith(p, from) /\ q = Moved(p, from, to)
              \/ q \in DOMAIN host /\ ~RelativeStartsWith(q, from) /\ ~RelativeStartsWith(q, to)
    BY <1>3, <1>5, <1>7, RenamedHost
  <2>2. \A p \in DOMAIN host : RelativeStartsWith(p, from) => ~Replaces(from, to, p)
    BY <1>3, <1>5, <1>7, ReplacesNothingMoved, Zenon DEF TreeInv
  <2>3. call' = [call EXCEPT ![c] = new]
    BY <1>3, <1>7, GoesOn, Zenon
  <2>4. new.at = "remap" /\ new.rel = from /\ new.to = to /\ new.live /\ "remap" \in HalfDone
    BY <1>3, <1>5, Zenon DEF HalfDone
  <2> HIDE DEF new, from, to
  <2>5. ASSUME NEW p \in DOMAIN exclusive_verifiers, ~Replaces(from, to, p)
        PROVE  IsBy(host', Relocated(p, from, to), exclusive_verifiers[p])
    <3>1. IsBy(host, p, exclusive_verifiers[p])
      BY <1>4, Zenon DEF Certified
    <3>2. ~RelativeStartsWith(p, from) => ~RelativeStartsWith(p, to)
      BY <2>5, Zenon DEF Replaces
    <3> QED BY <2>1, <3>1, <3>2, Zenon DEF IsBy, Relocated
  <2>6. ASSUME NEW q \in DOMAIN host', host'[q].by # NoVerifier
        PROVE  \E p \in DOMAIN exclusive_verifiers :
                  ~Replaces(from, to, p) /\ Relocated(p, from, to) = q
    <3>1. ASSUME NEW p \in DOMAIN host, RelativeStartsWith(p, from), q = Moved(p, from, to)
          PROVE  p \in DOMAIN exclusive_verifiers /\ ~Replaces(from, to, p) /\ Relocated(p, from, to) = q
      BY <1>4, <2>1, <2>2, <2>6, <3>1, Zenon DEF Relocated
    <3>2. CASE q \in DOMAIN host /\ ~RelativeStartsWith(q, from) /\ ~RelativeStartsWith(q, to)
      BY <1>4, <2>1, <2>6, <3>2, Zenon DEF Relocated, Replaces
    <3> QED BY <2>1, <3>1, <3>2, Zenon
  <2>7. CertifiedRenamed(exclusive_verifiers', host', from, to)
    BY <1>1, <2>5, <2>6, Zenon DEF CertifiedRenamed
  <2> QED BY <1>3, <1>4, <2>3, <2>4, <2>7, VerifierAlone, Zenon
<1> QED BY <1>6, <1>7, Zenon DEF PlainMove, MoveAt

\* What move_prefix makes of the verifiers, when every remembered path has an
\* identifier: those of what was replaced are forgotten, and the others follow.
LEMMA MovedVerifiers ==
    ASSUME MapInv, NEW from \in Seq(Names), NEW to \in Seq(Names), MovePrefix(from, to),
           \A p \in DOMAIN exclusive_verifiers : \E i \in DOMAIN id_to_relative : id_to_relative[i] = p
    PROVE  /\ \A p \in DOMAIN exclusive_verifiers : ~Replaces(from, to, p) =>
                 /\ Relocated(p, from, to) \in DOMAIN exclusive_verifiers'
                 /\ exclusive_verifiers'[Relocated(p, from, to)] = exclusive_verifiers[p]
           /\ \A q \in DOMAIN exclusive_verifiers' :
                 \E p \in DOMAIN exclusive_verifiers :
                    ~Replaces(from, to, p) /\ q = Relocated(p, from, to)
<1> DEFINE moving == Below(from) \ Replaced(from, to)
           verifiers == IF from = to THEN exclusive_verifiers
                        ELSE Without(exclusive_verifiers, VerifiersBelow(to))
           taken == {id_to_relative[i] : i \in moving} \cap DOMAIN verifiers
           from_verifier(p) == CHOOSE q \in taken : Moved(q, from, to) = p
<1>1. exclusive_verifiers' =
         [p \in (DOMAIN verifiers \ taken) \cup {Moved(q, from, to) : q \in taken} |->
             IF \E q \in taken : Moved(q, from, to) = p THEN verifiers[from_verifier(p)]
             ELSE verifiers[p]]
  BY Zenon DEF MovePrefix
<1>2. \A p \in DOMAIN exclusive_verifiers : p \in Seq(Names)
  BY Zenon DEF MapInv
<1>3. /\ DOMAIN verifiers = {p \in DOMAIN exclusive_verifiers : ~Replaces(from, to, p)}
      /\ \A p \in DOMAIN verifiers : verifiers[p] = exclusive_verifiers[p]
  <2>1. CASE from = to
    BY <2>1, Zenon DEF Replaces
  <2>2. CASE from # to
    BY <2>2, Zenon DEF Replaces, Without, Restrict, VerifiersBelow
  <2> QED BY <2>1, <2>2, Zenon
<1>4. \A p : p \in taken <=> p \in DOMAIN verifiers /\ RelativeStartsWith(p, from)
  <2>1. ASSUME NEW p \in taken PROVE p \in DOMAIN verifiers /\ RelativeStartsWith(p, from)
    BY Zenon DEF Below
  <2>2. ASSUME NEW p \in DOMAIN verifiers, RelativeStartsWith(p, from) PROVE p \in taken
    <3>1. PICK i \in DOMAIN id_to_relative : id_to_relative[i] = p
      BY <1>3, Zenon
    <3>2. i \in Below(from)
      BY <2>2, <3>1, Zenon DEF Below
    <3>3. i \notin Replaced(from, to)
      BY <1>3, <3>1, Zenon DEF Replaced, Replaces, Below
    <3> QED BY <3>1, <3>2, <3>3, Zenon
  <2> HIDE DEF taken, verifiers
  <2> QED BY <2>1, <2>2, Zenon
<1> HIDE DEF verifiers, taken
<1>5. \A q \in taken : RelativeStartsWith(q, from) /\ q \in Seq(Names) /\ q \in DOMAIN verifiers
  BY <1>2, <1>3, <1>4, Zenon
<1>6. ASSUME NEW p \in taken
      PROVE  /\ Moved(p, from, to) \in DOMAIN exclusive_verifiers'
             /\ exclusive_verifiers'[Moved(p, from, to)] = exclusive_verifiers[p]
  <2> DEFINE m == Moved(p, from, to)
  <2>1. from_verifier(m) \in taken /\ Moved(from_verifier(m), from, to) = m
    BY Zenon
  <2>2. from_verifier(m) = p
    BY <1>5, <2>1, MovedInjective, Zenon
  <2> HIDE DEF from_verifier
  <2>3. m \in DOMAIN exclusive_verifiers' /\ exclusive_verifiers'[m] = verifiers[from_verifier(m)]
    BY <1>1, Zenon
  <2> QED BY <1>3, <1>5, <2>2, <2>3, Zenon
<1>7. ASSUME NEW p \in DOMAIN verifiers \ taken
      PROVE  p \in DOMAIN exclusive_verifiers' /\ exclusive_verifiers'[p] = exclusive_verifiers[p]
  <2>1. ~RelativeStartsWith(p, from)
    BY <1>4, Zenon
  <2>2. ~RelativeStartsWith(p, to)
    BY <1>3, <2>1, Zenon DEF Replaces
  <2>3. \A q \in taken : Moved(q, from, to) # p
    BY <1>5, <2>2, MovedBelow
  <2> HIDE DEF from_verifier
  <2> QED BY <1>1, <1>3, <2>3, Zenon
<1>8. ASSUME NEW p \in DOMAIN exclusive_verifiers, ~Replaces(from, to, p)
      PROVE  /\ Relocated(p, from, to) \in DOMAIN exclusive_verifiers'
             /\ exclusive_verifiers'[Relocated(p, from, to)] = exclusive_verifiers[p]
  <2>1. p \in DOMAIN verifiers
    BY <1>3, <1>8, Zenon
  <2>2. CASE p \in taken
    BY <1>4, <1>6, <2>2, Zenon DEF Relocated
  <2>3. CASE p \notin taken
    BY <1>4, <1>7, <2>1, <2>3, Zenon DEF Relocated
  <2> QED BY <2>2, <2>3, Zenon
<1>9. ASSUME NEW q \in DOMAIN exclusive_verifiers'
      PROVE  \E p \in DOMAIN exclusive_verifiers : ~Replaces(from, to, p) /\ q = Relocated(p, from, to)
  <2>1. q \in DOMAIN verifiers \ taken \/ \E p \in taken : q = Moved(p, from, to)
    BY <1>1, Zenon
  <2>2. CASE q \in DOMAIN verifiers \ taken
    BY <1>3, <1>4, <2>2, Zenon DEF Relocated
  <2>3. CASE \E p \in taken : q = Moved(p, from, to)
    BY <1>3, <1>4, <2>3, Zenon DEF Relocated
  <2> QED BY <2>1, <2>2, <2>3, Zenon
<1> QED BY <1>8, <1>9, Zenon

\* move_prefix takes the verifiers along.
LEMMA RemapVerifiers ==
    ASSUME Inv, ObjectInv, VerifierInv, disturbed = {}, ~dropped, NEW c \in Calls, Remap(c)
    PROVE  VerifierInv'
<1> DEFINE r == call[c]
           from == r.rel
           to == r.to
<1>1. r.at = "remap" /\ MovePrefix(from, to) /\ Goto(c, Done) /\ UNCHANGED host
  BY Zenon DEF Remap, UsesMap, At, backing
<1>2. r.at \in MovingSteps
  BY <1>1, Zenon DEF MovingSteps
<1>3. (\A d \in Calls \ {c} : ~Active(d)) /\ r.live /\ CallInv /\ MapInv /\ from \in Seq(Names)
  BY <1>2, RunsAlone, Zenon DEF Inv
<1>4. to \in Seq(Names)
  BY <1>1, Zenon DEF Inv, CallInv, CallTyped
<1>5. CertifiedRenamed(exclusive_verifiers, host, from, to)
  BY <1>1, Zenon DEF VerifierInv
<1>6. \A p \in DOMAIN exclusive_verifiers : \E i \in DOMAIN id_to_relative : id_to_relative[i] = p
  BY <1>2, AllRemembered, Zenon DEF Range
<1>7. /\ \A p \in DOMAIN exclusive_verifiers : ~Replaces(from, to, p) =>
            /\ Relocated(p, from, to) \in DOMAIN exclusive_verifiers'
            /\ exclusive_verifiers'[Relocated(p, from, to)] = exclusive_verifiers[p]
      /\ \A q \in DOMAIN exclusive_verifiers' :
            \E p \in DOMAIN exclusive_verifiers :
               ~Replaces(from, to, p) /\ q = Relocated(p, from, to)
  BY <1>1, <1>3, <1>4, <1>6, MovedVerifiers, Zenon
<1>8. /\ DOMAIN id_to_relative' =
            {i \in DOMAIN id_to_relative : ~Replaces(from, to, id_to_relative[i])}
      /\ \A i \in DOMAIN id_to_relative' : id_to_relative'[i] = Relocated(id_to_relative[i], from, to)
  BY <1>1, <1>3, <1>4, MovedIdentifiers, Zenon
<1>9. call' = [call EXCEPT ![c] = Done] /\ Done.at = "done"
  BY <1>1, <1>3, GoesOn, Zenon DEF Done
<1> HIDE DEF from, to
<1>10. \A q \in DOMAIN exclusive_verifiers' : q \in Range(id_to_relative')
  <2> SUFFICES ASSUME NEW q \in DOMAIN exclusive_verifiers'
               PROVE  \E i \in DOMAIN id_to_relative' : id_to_relative'[i] = q
    BY Zenon DEF Range
  <2>1. PICK p \in DOMAIN exclusive_verifiers : ~Replaces(from, to, p) /\ q = Relocated(p, from, to)
    BY <1>7, Zenon
  <2>2. PICK i \in DOMAIN id_to_relative : id_to_relative[i] = p
    BY <1>6, Zenon
  <2> QED BY <1>8, <2>1, <2>2, Zenon
<1>11. Certified(exclusive_verifiers', host')
  BY <1>1, <1>5, <1>7, Zenon DEF Certified, CertifiedRenamed
<1>12. \A q \in DOMAIN host' : host'[q].by # NoVerifier => q \in DOMAIN exclusive_verifiers'
  BY <1>1, <1>5, <1>7, Zenon DEF CertifiedRenamed
<1> QED BY <1>3, <1>9, <1>10, <1>11, <1>12, VerifierAlone, Zenon

\* A dropped CREATE may leave its file without a verifier; other calls have none.
LEMMA DropVerifiers ==
    ASSUME Inv, ObjectInv, VerifierInv, NEW c \in Calls, Drop(c)
    PROVE  VerifierInv'
<1> DEFINE r == call[c]
<1> SUFFICES ASSUME disturbed' = {}, ~dropped' PROVE VerifierInv'
  BY Zenon DEF VerifierInv
<1>1. disturbed = {} /\ ~dropped /\ r.proc \notin Moving /\ r.proc # "create"
  BY Uneventful, Zenon DEF Drop
<1>2. Active(c) /\ UNCHANGED <<id_to_relative, exclusive_verifiers, host>> /\ CallInv
  BY Zenon DEF Drop, fsmap, backing, Inv
<1>3. CallHolds(r, id_to_relative, host)
  BY <1>1, <1>2, Zenon DEF ObjectInv
<1>4. r.at \notin MovingSteps /\ r.at \notin {"make", "remember"}
  BY <1>1, <1>3, Zenon DEF CallHolds
<1>5. r.at \notin HalfDone /\ r.at \notin {"make", "unlink", "move"}
  BY <1>4, Zenon DEF HalfDone, MovingSteps
<1>6. Quiet
  BY <1>1, <1>2, <1>5, NothingHalfDone, Zenon
<1>7. call' = [call EXCEPT ![c] = Done] /\ Done.at = "done" /\ "done" \notin HalfDone
  BY <1>5, Zenon DEF Drop, Inv, CallInv, Done, HalfDone
<1>8. \A p : ~Naming(r, p)
  BY <1>1, Zenon DEF Naming
<1>9. Grows(id_to_relative, id_to_relative')
  BY <1>2, Zenon DEF Grows
<1>10. Done.at \notin HalfDone /\ Done.at # "remember" /\ (Done.at # "done" => Done.live)
  BY <1>7, Zenon
<1> QED BY <1>1, <1>2, <1>4, <1>6, <1>7, <1>8, <1>9, <1>10, SameVerifiers, Zenon

\* Every step keeps what makes repetitions recognised.
LEMMA NextVerifiers ==
    ASSUME Inv, TreeInv, ObjectInv, VerifierInv, [Next]_vars
    PROVE  VerifierInv'
<1>1. CASE UNCHANGED vars
  <2>1. UNCHANGED <<host, id_to_relative, exclusive_verifiers, call, disturbed, dropped>>
    BY <1>1, Zenon DEF vars, fsmap, backing, history
  <2> QED BY <2>1, Zenon DEF VerifierInv, Active, Quiet, Range
<1>2. CASE Next
  <2>1. PICK c \in Calls :
           \/ Lookup(c) \/ LookupDot(c) \/ ReadDir(c)
           \/ GetAttr(c) \/ SetAttr(c) \/ ReadLink(c) \/ Read(c) \/ Write(c) \/ Commit(c)
           \/ Create(c) \/ CreateExclusive(c) \/ Mkdir(c) \/ Symlink(c)
           \/ Remove(c) \/ Rmdir(c) \/ Rename(c)
           \/ Step(c) \/ Drop(c)
    BY <1>2, Zenon DEF Next
  <2>2. CASE Step(c)
    <3> SUFFICES ASSUME disturbed' = {}, ~dropped' PROVE VerifierInv'
      BY Zenon DEF VerifierInv
    <3>1. PlainStep(c) /\ disturbed = {} /\ ~dropped
      BY <2>2, Plainly, Zenon
    <3>2. CASE \/ PlainStat(c, "dot_stat", "dot_intern") \/ PlainStat(c, "meta", "intern")
               \/ PlainList(c) \/ PlainProbe(c) \/ Apply(c) \/ PlainObject(c)
               \/ Created(c) \/ Entry(c) \/ EntryIntern(c) \/ Verify(c) \/ ToChild(c)
      BY <3>1, <3>2, OtherVerifiers, Zenon
    <3>3. CASE PlainMake(c)
      BY <3>1, <3>3, MakeVerifiers, Zenon
    <3>4. CASE Remember(c)
      BY <3>1, <3>4, RememberVerifiers, Zenon
    <3>5. CASE PlainUnlink(c)
      BY <3>1, <3>5, UnlinkVerifiers, Zenon
    <3>6. CASE Forget(c)
      BY <3>1, <3>6, ForgetVerifiers, Zenon
    <3>7. CASE PlainMove(c)
      BY <3>1, <3>7, MoveVerifiers, Zenon
    <3>8. CASE Remap(c)
      BY <3>1, <3>8, RemapVerifiers, Zenon
    <3> QED BY <3>1, <3>2, <3>3, <3>4, <3>5, <3>6, <3>7, <3>8, Zenon DEF PlainStep
  <2>3. CASE Drop(c)
    BY <2>3, DropVerifiers, Zenon
  <2> QED BY <2>1, <2>2, <2>3, BeginVerifiers, Zenon
<1> QED BY <1>1, <1>2, Zenon

\* At first no verifier is remembered, and the root was created with none.
LEMMA InitVerifiers == Init => VerifierInv
<1> SUFFICES ASSUME Init PROVE VerifierInv
  BY Zenon
<1>1. /\ DOMAIN exclusive_verifiers = {} /\ \A q \in DOMAIN host : host[q].by = NoVerifier
      /\ \A c \in Calls : call[c].at = "done"
  BY Zenon DEF Init, Done
<1> QED BY <1>1, Zenon DEF VerifierInv, Active, Certified

\* What makes repetitions recognised holds in every reachable state.
THEOREM VerifiersFollow == Spec => []VerifierInv
<1>1. Inv /\ (TreeInv /\ ObjectInv) /\ VerifierInv /\ [Next]_vars => VerifierInv'
  BY NextVerifiers, Zenon
<1> QED BY <1>1, InitVerifiers, Invariance, Truth, PTL DEF Spec

\* As long as no REMOVE, RMDIR or RENAME of mirrorfs.rs runs beside another call, no
\* call that changes a name is dropped and no symbolic link is followed, the verifiers that FsMap remembers between calls are exactly those
\* of the files that exclusive creations made, at the paths where renames have put
\* them: a repetition of such a CREATE is recognised, and no other call is.
THEOREM RepetitionsRecognised == Spec => []RepetitionsAreRecognised
<1>1. VerifierInv => RepetitionsAreRecognised
  <2> SUFFICES ASSUME VerifierInv, disturbed = {}, ~dropped, \A c \in Calls : ~Active(c)
               PROVE  /\ \A p \in DOMAIN exclusive_verifiers :
                            Exists(p) /\ host[p].by = exclusive_verifiers[p]
                      /\ \A p \in DOMAIN host : host[p].by # NoVerifier => p \in DOMAIN exclusive_verifiers
    BY Zenon DEF RepetitionsAreRecognised
  <2>1. Quiet
    BY Zenon DEF Quiet, Active, HalfDone
  <2>2. /\ Certified(exclusive_verifiers, host)
        /\ \A q \in DOMAIN host : host[q].by # NoVerifier =>
              q \in DOMAIN exclusive_verifiers \/ \E c \in Calls : Remembering(call[c], q)
    BY <2>1, Zenon DEF VerifierInv
  <2>3. \A c \in Calls : \A q : ~Remembering(call[c], q)
    BY Zenon DEF Active, Remembering
  <2> QED BY <2>2, <2>3, Zenon DEF Certified, IsBy, Exists
<1> QED BY <1>1, VerifiersFollow, PTL
=============================================================================
