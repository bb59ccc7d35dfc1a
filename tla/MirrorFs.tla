------------------------------ MODULE MirrorFs ------------------------------
(***************************************************************************)
(* The file system of examples/mirrorfs.rs, in its unix build: a mirror of *)
(* a host directory.  FsMap gives every path that a client has seen a file *)
(* identifier; the client keeps the identifier, in its handles, while      *)
(* objects move, so the map has to follow what the calls do to the host.   *)
(*                                                                         *)
(* A call is a sequence of steps: one for each use of the map, under its   *)
(* mutex, and one for each operation of tokio::fs.  Calls interleave       *)
(* between steps.  A call whose request times out is dropped; an operation *)
(* that it has handed to tokio::fs is carried out nevertheless.            *)
(*                                                                         *)
(* The host is external: a tree of inodes.  A path that goes on behind a   *)
(* symbolic link, or that is opened and ends at one, is resolved by the    *)
(* host, and may lead anywhere in the tree or nowhere: targets are not     *)
(* part of the model, nor are contents, attributes and accesses by other   *)
(* programs.                                                               *)
(***************************************************************************)
EXTENDS Naturals, Sequences, FiniteSets, Functions

CONSTANTS
    Calls,          \* requests at the same time
    Names,          \* of directory entries
    Verifiers,      \* of exclusive creations
    MaxDepth,       \* bound: the length of paths
    MaxInode,       \* bound: objects that are ever created
    MaxFileId       \* bound: identifiers that are ever given out

ROOT_ID == 1
NoVerifier == "none"

ASSUME MirrorFsConstants ==
    /\ NoVerifier \notin Verifiers
    /\ MaxDepth \in Nat /\ MaxInode \in Nat /\ MaxFileId \in Nat \ {0}

\* Relative paths
Paths == UNION {[1..n -> Names] : n \in 0..MaxDepth}

VARIABLES
    host,           \* path -> inode, kind, and the verifier it was created with
    inodes,         \* the number of objects created so far
    id_to_relative, relative_to_id, exclusive_verifiers, next_file_id,  \* FsMap
    call,           \* the calls in progress
    told,           \* pairs of an identifier and the inode that a reply gave with it
    disturbed,      \* what has befallen a call so far: see Mishaps
    dropped         \* a CREATE was dropped

fsmap == <<id_to_relative, relative_to_id, exclusive_verifiers, next_file_id>>
backing == <<host, inodes>>
history == <<told, disturbed, dropped>>
vars == <<backing, fsmap, call, history>>

Done == [at |-> "done"]
\* A REMOVE, RMDIR or RENAME had company, or was dropped; or a path was resolved
\* through a symbolic link.
Mishaps == {"company", "dropped", "link"}

Init ==
    /\ host = [p \in {<<>>} |-> [inode |-> 0, kind |-> "dir", by |-> NoVerifier]] /\ inodes = 0
    /\ id_to_relative = [i \in {ROOT_ID} |-> <<>>] /\ relative_to_id = [p \in {<<>>} |-> {ROOT_ID}]
    /\ exclusive_verifiers = [p \in {} |-> NoVerifier] /\ next_file_id = ROOT_ID + 1
    /\ call = [c \in Calls |-> Done]
    /\ told = {} /\ disturbed = {} /\ dropped = FALSE

-----------------------------------------------------------------------------
(* Paths.                                                                   *)

Parent(p) == SubSeq(p, 1, Len(p) - 1)
RelativeStartsWith(p, prefix) ==
    Len(prefix) <= Len(p) /\ SubSeq(p, 1, Len(prefix)) = prefix
\* What move_prefix makes of a path that starts with from
Moved(p, from, to) == to \o SubSeq(p, Len(from) + 1, Len(p))

-----------------------------------------------------------------------------
(* FsMap.  On unix a key is its path, and a bucket holds the identifiers of *)
(* one path.                                                                *)

Without(f, keys) == Restrict(f, DOMAIN f \ keys)
With(f, key, value) == [k \in DOMAIN f \cup {key} |-> IF k = key THEN value ELSE f[k]]

\* The identifiers that intern finds for a path
Interned(p) ==
    IF p \notin DOMAIN relative_to_id THEN {}
    ELSE {i \in relative_to_id[p] : i \in DOMAIN id_to_relative /\ id_to_relative[i] = p}
Bucket(p) == IF p \in DOMAIN relative_to_id THEN relative_to_id[p] ELSE {}

\* Mutation: an identifier that was forgotten is given out again.
LowestFree(p) ==
    IF Interned(p) # {} THEN CHOOSE i \in Interned(p) : TRUE
    ELSE CHOOSE i \in 1..next_file_id :
            i \notin DOMAIN id_to_relative /\ \A j \in 1..(i - 1) : j \in DOMAIN id_to_relative
\* What intern returns
FileId(p) == IF Interned(p) # {} THEN CHOOSE i \in Interned(p) : TRUE ELSE next_file_id
Intern(p) ==
    IF Interned(p) # {} THEN UNCHANGED fsmap
    ELSE /\ next_file_id <= MaxFileId
         /\ next_file_id' = next_file_id + 1
         /\ id_to_relative' = With(id_to_relative, FileId(p), p)
         /\ relative_to_id' = With(relative_to_id, p, Bucket(p) \cup {FileId(p)})
         /\ UNCHANGED exclusive_verifiers

\* Mutation: not of what is below it
BelowExactly(prefix) == {i \in DOMAIN id_to_relative : id_to_relative[i] = prefix}
\* The identifiers of a path and of everything below it
Below(prefix) == {i \in DOMAIN id_to_relative : RelativeStartsWith(id_to_relative[i], prefix)}
VerifiersBelow(prefix) == {p \in DOMAIN exclusive_verifiers : RelativeStartsWith(p, prefix)}

\* remove_indexed_id for each of the identifiers: no bucket stays empty.
RemoveIndexed(index, ids) ==
    LET left(p) == index[p] \ ids IN [p \in {q \in DOMAIN index : left(q) # {}} |-> left(p)]

\* Mutation: the verifiers stay behind.
ForgetIdsOnly(prefix) ==
    /\ id_to_relative' = Without(id_to_relative, Below(prefix))
    /\ relative_to_id' = RemoveIndexed(relative_to_id, Below(prefix))
    /\ UNCHANGED <<exclusive_verifiers, next_file_id>>
ForgetPrefix(prefix) ==
    /\ id_to_relative' = Without(id_to_relative, Below(prefix))
    /\ relative_to_id' = RemoveIndexed(relative_to_id, Below(prefix))
    /\ exclusive_verifiers' = Without(exclusive_verifiers, VerifiersBelow(prefix))
    /\ UNCHANGED next_file_id

\* Mutation: what the destination held keeps its identifiers.
NoReplacement(from, to) == {}
\* What move_prefix forgets first
Replaced(from, to) == IF from = to THEN {} ELSE Below(to)

MovePrefix(from, to) ==
    LET gone == Replaced(from, to)
        moving == Below(from) \ gone
        kept == Without(id_to_relative, gone)
        new(i) == Moved(id_to_relative[i], from, to)
        index == RemoveIndexed(relative_to_id, gone \cup moving)
        verifiers == IF from = to THEN exclusive_verifiers
                     ELSE Without(exclusive_verifiers, VerifiersBelow(to))
        \* take_exclusive_verifier: only the verifiers of what has an identifier
        taken == {id_to_relative[i] : i \in moving} \cap DOMAIN verifiers
        from_verifier(p) == CHOOSE q \in taken : Moved(q, from, to) = p
    IN /\ id_to_relative' = [i \in DOMAIN kept |-> IF i \in moving THEN new(i) ELSE kept[i]]
       /\ relative_to_id' = [p \in DOMAIN index \cup {new(i) : i \in moving} |->
                               (IF p \in DOMAIN index THEN index[p] ELSE {})
                                 \cup {i \in moving : new(i) = p}]
       /\ exclusive_verifiers' =
             [p \in (DOMAIN verifiers \ taken) \cup {Moved(q, from, to) : q \in taken} |->
                 IF \E q \in taken : Moved(q, from, to) = p THEN verifiers[from_verifier(p)]
                 ELSE verifiers[p]]
       /\ UNCHANGED next_file_id

-----------------------------------------------------------------------------
(* The host.  Each operation has a guard, and otherwise fails.              *)

Exists(p) == p \in DOMAIN host
IsDir(p) == Exists(p) /\ host[p].kind = "dir"
\* There is room for MaxInode objects.
CanCreate(p) == ~Exists(p) /\ IsDir(Parent(p)) /\ inodes < MaxInode
HostBelow(p) == {q \in DOMAIN host : RelativeStartsWith(q, p)}
IsEmpty(p) == HostBelow(p) = {p}

HostCreate(p, kind, verifier) ==
    /\ inodes' = inodes + 1
    /\ host' = With(host, p, [inode |-> inodes + 1, kind |-> kind, by |-> verifier])

CanUnlink(p, directory) == Exists(p) /\ IsDir(p) = directory /\ (directory => IsEmpty(p))
HostUnlink(p) == host' = Without(host, {p}) /\ UNCHANGED inodes

\* rename(2)
CanRename(from, to) ==
    /\ Exists(from) /\ IsDir(Parent(to)) /\ (from # to => ~RelativeStartsWith(to, from))
    /\ Exists(to) => IsDir(from) = IsDir(to) /\ (from = to \/ IsEmpty(to) \/ ~IsDir(to))
    /\ \A q \in HostBelow(from) : Moved(q, from, to) \in Paths
HostRename(from, to) ==
    /\ host' = LET stay == DOMAIN host \ (HostBelow(from) \cup HostBelow(to))
                   moved == {Moved(q, from, to) : q \in HostBelow(from)}
               IN [p \in stay \cup moved |-> IF p \in moved THEN host[Moved(p, to, from)] ELSE host[p]]
    /\ UNCHANGED inodes

\* Does the host resolve a link to get to p?  Every call resolves the links above p;
\* only open follows one that is p itself.
IsLink(p) == Exists(p) /\ host[p].kind = "link"
Diverted(p, follows) ==
    \/ \E n \in 0..(Len(p) - 1) : IsLink(SubSeq(p, 1, n))
    \/ follows /\ IsLink(p)
\* Where the host may find p
Resolved(p, follows) ==
    IF Diverted(p, follows) THEN {q \in Paths : follows => ~IsLink(q)} ELSE {p}

-----------------------------------------------------------------------------
(* Calls.  The field at of a call names its next step.                      *)

Moving == {"remove", "rmdir", "rename"}
Active(c) == call[c].at # "done"
\* LOOKUP of a dot keeps the mutex of the map over its use of the host.
MapFree(c) == \A d \in Calls \ {c} : call[d].at \notin {"dot_stat", "dot_intern"}

Company(c, proc) ==
    \E d \in Calls \ {c} : Active(d) /\ (proc \in Moving \/ call[d].proc \in Moving)

\* What happens besides, and what a reply tells; told is kept as long as calls were
\* at most dropped.
Record(mishaps, news) ==
    /\ disturbed' = disturbed \cup mishaps
    /\ told' = IF disturbed' \subseteq {"dropped"} THEN told \cup news ELSE {}
When(condition, mishap) == IF condition THEN {mishap} ELSE {}

Begin(c, new) ==
    /\ ~Active(c) /\ MapFree(c)
    /\ call' = [call EXCEPT ![c] = new]
    /\ Record(When(Company(c, new.proc), "company"), {})
    /\ UNCHANGED <<backing, fsmap, dropped>>

At(c, step) == call[c].at = step
UsesMap(c, step) == At(c, step) /\ MapFree(c) /\ UNCHANGED backing
UsesHost(c, step) == At(c, step) /\ UNCHANGED fsmap
\* The host has resolved a path of the call, which may have led through a link.
Resolves(diverted, news) == Record(When(diverted, "link"), news) /\ UNCHANGED dropped
\* Go on, or fail, or end; a call that was dropped goes no further.
Goto(c, new) == call' = [call EXCEPT ![c] = IF @.live THEN new ELSE Done]
\* The step, with what every call keeps
To(c, at) == [at |-> at, proc |-> call[c].proc, live |-> TRUE, rel |-> call[c].rel, inode |-> 0]
Tell(c, id, inode) == Record({}, {<<id, inode>>}) /\ UNCHANGED dropped

\* A child of a directory that the client has
Child(id, name) == Append(id_to_relative[id], name)
Known == DOMAIN id_to_relative

Lookup(c) ==
    \E id \in Known, name \in Names :
       /\ Child(id, name) \in Paths
       /\ Begin(c, [at |-> "meta", proc |-> "lookup", live |-> TRUE, rel |-> Child(id, name), inode |-> 0])

\* LOOKUP of "." and "..", also above the root
LookupDot(c) ==
    \E id \in Known : \E rel \in {id_to_relative[id], Parent(id_to_relative[id])} :
       Begin(c, [at |-> "dot_stat", proc |-> "lookup", live |-> TRUE, rel |-> rel, inode |-> 0])

\* symlink_metadata, which finds the path of the call at p
StatAt(c, p, next) ==
    /\ Goto(c, IF Exists(p) THEN [call[c] EXCEPT !.at = next, !.inode = host[p].inode] ELSE Done)
    /\ UNCHANGED backing
Stat(c, step, next) ==
    /\ UsesHost(c, step)
    /\ \E p \in Resolved(call[c].rel, FALSE) : StatAt(c, p, next)
    /\ Resolves(Diverted(call[c].rel, FALSE), {})
DotStat(c) == Stat(c, "dot_stat", "dot_intern")
\* The metadata of the reply
Meta(c) == Stat(c, "meta", "intern")

\* MirrorFs::created
Created(c) ==
    /\ UsesMap(c, "intern") \/ UsesMap(c, "dot_intern")
    /\ Intern(call[c].rel) /\ Tell(c, FileId(call[c].rel), call[c].inode)
    /\ Goto(c, Done)

\* The other calls take the path of the object and use it, some of them several
\* times: symlink_metadata, which may have to find a certain kind, or open, which
\* follows a link and finds a regular file (or the call fails).  The reply is about
\* the object that they find last.
ObjectPath(c, uses) ==
    \E id \in Known : Begin(c, [at |-> "object", proc |-> "object", live |-> TRUE, id |-> id,
                               rel |-> id_to_relative[id], uses |-> uses])
Finds(kinds) == [kinds |-> kinds, follows |-> FALSE]
Anything == Finds({"file", "dir", "link"})
Opens == [kinds |-> {"file"}, follows |-> TRUE]
GetAttr(c) == ObjectPath(c, <<Anything>>)
SetAttr(c) == ObjectPath(c, <<Anything, Anything>>)
ReadLink(c) == ObjectPath(c, <<Finds({"link"}), Finds({"link"})>>)
Read(c) == ObjectPath(c, <<Opens>>)
Write(c) == ObjectPath(c, <<Finds({"file"}), Opens>>)
Commit(c) == ObjectPath(c, <<Anything, Opens, Anything>>)

\* One use, of the object at p
ObjectAt(c, p) ==
    LET uses == call[c].uses
    IN /\ Goto(c, IF Exists(p) /\ host[p].kind \in Head(uses).kinds /\ Len(uses) > 1
                  THEN [call[c] EXCEPT !.uses = Tail(@)] ELSE Done)
       /\ UNCHANGED backing
Object(c) ==
    LET rel == call[c].rel
        use == Head(call[c].uses)
        last == Len(call[c].uses) = 1
    IN /\ UsesHost(c, "object")
       /\ \E p \in Resolved(rel, use.follows) :
             /\ ObjectAt(c, p)
             /\ Resolves(Diverted(rel, use.follows),
                         IF last /\ Exists(p) /\ host[p].kind \in use.kinds
                         THEN {<<call[c].id, host[p].inode>>} ELSE {})

\* READDIR: the children as they are, and then an identifier for each that the page
\* has room for
ReadDir(c) ==
    \E id \in Known : Begin(c, [at |-> "list", proc |-> "readdir", live |-> TRUE, id |-> id,
                               rel |-> id_to_relative[id], inode |-> 0, children |-> {}])
ListAt(c, dir) ==
    LET children == {<<n, host[Append(dir, n)].inode>> : n \in {m \in Names : Exists(Append(dir, m))}}
    IN /\ Goto(c, IF IsDir(dir) /\ children # {}
                  THEN [call[c] EXCEPT !.at = "entry", !.children = children] ELSE Done)
       /\ UNCHANGED backing
List(c) ==
    /\ UsesHost(c, "list")
    /\ \E dir \in Resolved(call[c].rel, FALSE) : ListAt(c, dir)
    /\ Resolves(Diverted(call[c].rel, FALSE), {})
Entry(c) ==
    /\ UsesMap(c, "entry")
    /\ \E child \in call[c].children :
          Goto(c, IF call[c].id \in Known
                  THEN [call[c] EXCEPT !.at = "entry_intern", !.rel = Child(call[c].id, child[1]),
                                       !.inode = child[2], !.children = @ \ {child}]
                  ELSE Done)
    /\ UNCHANGED <<fsmap, history>>
EntryIntern(c) ==
    /\ UsesMap(c, "entry_intern")
    /\ Intern(call[c].rel) /\ Tell(c, FileId(call[c].rel), call[c].inode)
    /\ \/ Goto(c, Done)
       \/ call[c].children # {} /\ Goto(c, [call[c] EXCEPT !.at = "entry"])

\* parent_snapshot and child_path.  What comes before child_path keeps nothing and
\* can only fail, and is one step with it.  create_object looks whether the parent is
\* a directory; remove_object and rename do not, and the parent may be a link.
Snapshot(id) == \E p \in Resolved(id_to_relative[id], FALSE) : Exists(p)
Changing(c, proc, at, mode, verifier) ==
    \E id \in Known, name \in Names :
       /\ Snapshot(id)
       /\ proc = "create" => \E p \in Resolved(id_to_relative[id], FALSE) : IsDir(p)
       /\ Child(id, name) \in Paths
       /\ Begin(c, [at |-> at, proc |-> proc, live |-> TRUE, rel |-> Child(id, name),
                    mode |-> mode, verifier |-> verifier])
Create(c) == \E mode \in {"unchecked", "guarded"} : Changing(c, "create", "make", mode, NoVerifier)
CreateExclusive(c) == \E v \in Verifiers : Changing(c, "create", "probe", "exclusive", v)
Mkdir(c) == Changing(c, "create", "make", "dir", NoVerifier)
Symlink(c) == Changing(c, "create", "make", "link", NoVerifier)
Remove(c) == Changing(c, "remove", "unlink", "file", NoVerifier)
Rmdir(c) == Changing(c, "rmdir", "unlink", "dir", NoVerifier)

\* An exclusive CREATE looks whether the file is there.
ProbeAt(c, p) ==
    /\ Goto(c, [call[c] EXCEPT !.at = IF Exists(p) THEN "verify" ELSE "make"])
    /\ UNCHANGED backing
Probe(c) ==
    /\ UsesHost(c, "probe")
    /\ \E p \in Resolved(call[c].rel, FALSE) : ProbeAt(c, p)
    /\ Resolves(Diverted(call[c].rel, FALSE), {})
\* If it is, then only a repetition of the call that created it may go on.
Verify(c) ==
    /\ UsesMap(c, "verify")
    /\ LET p == call[c].rel
       IN Goto(c, IF p \in DOMAIN exclusive_verifiers /\ exclusive_verifiers[p] = call[c].verifier
                  THEN To(c, "meta") ELSE Done)
    /\ UNCHANGED <<fsmap, history>>
\* open, create_dir or symlink, at p
MakeAt(c, p) ==
    LET mode == call[c].mode
        made == CanCreate(p)
        kind == IF mode \in {"dir", "link"} THEN mode ELSE "file"
        opened == mode = "unchecked" /\ Exists(p) /\ ~IsDir(p)
    IN /\ IF made THEN HostCreate(p, kind, call[c].verifier) ELSE UNCHANGED backing
       /\ Goto(c, IF ~(made \/ opened) THEN Done
                  ELSE IF mode = "exclusive" THEN [call[c] EXCEPT !.at = "remember"]
                  ELSE To(c, IF mode = "link" THEN "meta" ELSE "apply"))
\* Only the open of an unchecked CREATE follows a link; create_new does not.
Make(c) ==
    LET follows == call[c].mode = "unchecked"
    IN /\ UsesHost(c, "make")
       /\ \E p \in Resolved(call[c].rel, follows) : MakeAt(c, p)
       /\ Resolves(Diverted(call[c].rel, follows), {})
Remember(c) ==
    /\ UsesMap(c, "remember")
    /\ exclusive_verifiers' = With(exclusive_verifiers, call[c].rel, call[c].verifier)
    /\ Goto(c, To(c, "meta"))
    /\ UNCHANGED <<id_to_relative, relative_to_id, next_file_id, history>>
\* apply_attributes may fail, after the object has been created; it may also have
\* nothing to do.
Apply(c) ==
    /\ UsesHost(c, "apply")
    /\ Goto(c, To(c, "meta")) \/ Goto(c, Done)
    /\ UNCHANGED <<backing, history>>

\* remove_object: the check of the kind, and remove_file or remove_dir, at p
UnlinkAt(c, p) ==
    IF CanUnlink(p, call[c].mode = "dir")
    THEN HostUnlink(p) /\ Goto(c, To(c, "forget"))
    ELSE UNCHANGED backing /\ Goto(c, Done)
Unlink(c) ==
    /\ UsesHost(c, "unlink")
    /\ \E p \in Resolved(call[c].rel, FALSE) : UnlinkAt(c, p)
    /\ Resolves(Diverted(call[c].rel, FALSE), {})
Forget(c) ==
    /\ UsesMap(c, "forget")
    /\ ForgetPrefix(call[c].rel) /\ Goto(c, Done)
    /\ UNCHANGED history

Rename(c) ==
    \E id \in Known, to_id \in Known, name \in Names, to_name \in Names :
       /\ Snapshot(id) /\ Snapshot(to_id)
       /\ Child(id, name) \in Paths
       /\ Begin(c, [at |-> "to_child", proc |-> "rename", live |-> TRUE, rel |-> Child(id, name),
                    to_id |-> to_id, to_name |-> to_name])
ToChild(c) ==
    /\ UsesMap(c, "to_child")
    /\ LET to == Child(call[c].to_id, call[c].to_name)
       IN Goto(c, IF call[c].to_id \in Known /\ to \in Paths
                  THEN [at |-> "move", proc |-> "rename", live |-> TRUE, rel |-> call[c].rel, to |-> to]
                  ELSE Done)
    /\ UNCHANGED <<fsmap, history>>
MoveAt(c, from, to) ==
    IF CanRename(from, to)
    THEN HostRename(from, to) /\ Goto(c, [call[c] EXCEPT !.at = "remap"])
    ELSE UNCHANGED backing /\ Goto(c, Done)
Move(c) ==
    /\ UsesHost(c, "move")
    /\ \E from \in Resolved(call[c].rel, FALSE), to \in Resolved(call[c].to, FALSE) : MoveAt(c, from, to)
    /\ Resolves(Diverted(call[c].rel, FALSE) \/ Diverted(call[c].to, FALSE), {})
Remap(c) ==
    /\ UsesMap(c, "remap")
    /\ MovePrefix(call[c].rel, call[c].to) /\ Goto(c, Done)
    /\ UNCHANGED history

\* The request times out, and what tokio::fs has begun is still carried out; or the
\* host fails for a reason of its own.
Drop(c) ==
    /\ Active(c) /\ call[c].live
    /\ call' = [call EXCEPT ![c] = IF @.at \in {"make", "unlink", "move"}
                                   THEN [@ EXCEPT !.live = FALSE] ELSE Done]
    /\ Record(When(call[c].proc \in Moving, "dropped"), {})
    /\ dropped' = (dropped \/ call[c].proc = "create")
    /\ UNCHANGED <<backing, fsmap>>

Step(c) ==
    \/ DotStat(c) \/ Meta(c) \/ Created(c) \/ Object(c) \/ List(c) \/ Entry(c) \/ EntryIntern(c)
    \/ Probe(c) \/ Verify(c) \/ Make(c) \/ Remember(c) \/ Apply(c)
    \/ Unlink(c) \/ Forget(c) \/ ToChild(c) \/ Move(c) \/ Remap(c)

Next ==
    \E c \in Calls :
       \/ Lookup(c) \/ LookupDot(c) \/ ReadDir(c)
       \/ GetAttr(c) \/ SetAttr(c) \/ ReadLink(c) \/ Read(c) \/ Write(c) \/ Commit(c)
       \/ Create(c) \/ CreateExclusive(c) \/ Mkdir(c) \/ Symlink(c)
       \/ Remove(c) \/ Rmdir(c) \/ Rename(c)
       \/ Step(c) \/ Drop(c)

Spec == Init /\ [][Next]_vars

-----------------------------------------------------------------------------
(* Properties.                                                              *)

\* FsMap keeps its two directions in step however calls overlap and wherever they
\* are dropped: the buckets are exactly the identifiers of their path, none is
\* empty, and no two identifiers share a path, so intern never finds two.
IndexAgrees ==
    /\ DOMAIN relative_to_id = Range(id_to_relative)
    /\ \A i \in DOMAIN id_to_relative : relative_to_id[id_to_relative[i]] = {i}

\* An identifier that was forgotten never comes back for another object: a handle
\* with a removed or replaced object stays stale.
StaleStaysStale ==
    [][\A i \in 1..(next_file_id - 1) : i \notin Known => i \notin Known']_vars

\* Every reply that names a file identifier is about the same inode.
NamesOneObject == \A t \in told, u \in told : t[1] = u[1] => t[2] = u[2]

\* As long as removals and renames run alone and to their end, and no path leads
\* through a symbolic link, a file identifier denotes one object for ever: every reply
\* that names it is about the same inode, and between calls the path that it maps to
\* is where that inode is.  (Beside other calls, or through links, MirrorFs does not
\* keep this: the map is changed after the host, and READ replies for the target.)
FileIdDenotesOneObject ==
    disturbed = {} =>
        /\ NamesOneObject
        /\ (\A c \in Calls : ~Active(c)) =>
              \A t \in told : t[1] \in Known =>
                 Exists(id_to_relative[t[1]]) /\ host[id_to_relative[t[1]]].inode = t[2]

\* As long as moreover no CREATE was dropped, the verifiers remembered between calls
\* are those of the files that exclusive creations made, where they are now: a
\* repetition of such a CREATE is recognised, and nothing else is.
RepetitionsAreRecognised ==
    disturbed = {} /\ ~dropped /\ (\A c \in Calls : ~Active(c)) =>
        /\ \A p \in DOMAIN exclusive_verifiers : Exists(p) /\ host[p].by = exclusive_verifiers[p]
        /\ \A p \in DOMAIN host : host[p].by # NoVerifier => p \in DOMAIN exclusive_verifiers

\* What the contract of VirtualFileSystem asks for: a mutation whose future is dropped
\* leaves the file system consistent.  Calls that run alone and do not meet links,
\* but may be dropped at the deadline, leave every identifier with its one object.
CancellationIsSafe == disturbed \subseteq {"dropped"} => NamesOneObject
=============================================================================
