----------------------------- MODULE LegacyNfs -----------------------------
(***************************************************************************)
(* The NFS procedures of the demo stack (src/nfs_handlers.rs) over its     *)
(* file-system trait (src/vfs/legacy.rs).  A procedure is a chain of calls *)
(* to the file system, and other procedures run between them: a step here  *)
(* is what the code does from one such call to the next.                   *)
(*                                                                         *)
(* The file system is external: one directory, and files whose names are   *)
(* in it.  Any of its operations may fail.  A change of an object is an    *)
(* entry of the log, and its ctime the place of its last change there.     *)
(***************************************************************************)
EXTENDS Naturals, Sequences, FiniteSets
LOCAL INSTANCE SequencesExt
LOCAL INSTANCE FiniteSetsExt

CONSTANTS
    Calls, Names,
    NameLength,         \* the bytes of a name
    PageLimits,         \* dircount and maxcount of the listings that clients ask for
    MaxId               \* bound: identifiers that the file system gives

VARIABLES
    capabilities,       \* VFSCapabilities
    tree,               \* the name of each file that exists, by its identifier
    log,                \* the changes: object and call
    call                \* the calls of the clients

vars == <<capabilities, tree, log, call>>

Dir == 0                \* the identifier of the directory, in this model
Ids == 1..MaxId
NoAttr == [has |-> FALSE, ctime |-> 0]
Attr(t) == [has |-> TRUE, ctime |-> t]
Ctime(id) == Max({0} \cup {i \in DOMAIN log : log[i].obj = id})
Exists(id) == id = Dir \/ id \in DOMAIN tree
Named(name) == {id \in DOMAIN tree : tree[id] = name}
Fresh == Ids \ (DOMAIN tree \cup {log[i].obj : i \in DOMAIN log})

Listings == {"READDIR", "READDIRPLUS"}
Makes == {"CREATE", "MKDIR", "SYMLINK"}
Changes == Makes \cup {"REMOVE", "RMDIR", "RENAME", "SETATTR", "WRITE"}
InDir == Makes \cup Listings \cup {"LOOKUP", "REMOVE", "RMDIR", "RENAME"}
Others == {"MKNOD", "LINK", "COMMIT", "INVALID"}

NoPage == [ids |-> <<>>, eof |-> FALSE, size |-> 0, rest |-> <<>>]
NotYet ==
    [at |-> "idle", proc |-> "NULL", how |-> "UNCHECKED", name |-> CHOOSE n \in Names : TRUE, obj |-> Dir, guard |-> NoAttr,
     cookie |-> 0, limits |-> CHOOSE l \in PageLimits : TRUE,
     before |-> NoAttr, before2 |-> NoAttr, after |-> NoAttr, after2 |-> NoAttr,
     status |-> "NFS3_OK", company |-> FALSE, wrapped |-> FALSE, page |-> NoPage, replies |-> <<>>]

Init ==
    /\ capabilities \in {"ReadOnly", "ReadWrite"}
    /\ tree \in UNION {[S -> Names] : S \in {{}, {1}, {1, 2}}} /\ IsInjective(tree)
    /\ log = <<>> /\ call = [c \in Calls |-> NotYet]

\* A reply: its status, and the parts that follow
Reply(status, arms) == [status |-> status, arms |-> arms]
Replied(r, status, arms) == [r EXCEPT !.at = "done", !.status = status, !.replies = Append(@, Reply(status, arms))]
Dropped(r) == [r EXCEPT !.at = "done"]
To(r, at) == [r EXCEPT !.at = at]

\* A call makes a step.  It is noted when others are under way.
UnderWay == {c \in Calls : call[c].at \notin {"idle", "done"}}
Steps(c, r) ==
    LET next == [call EXCEPT ![c] = r]
    IN call' = IF UnderWay \ {c} = {} THEN next
               ELSE [d \in Calls |-> IF d \in UnderWay \cup {c} THEN [next[d] EXCEPT !.company = TRUE] ELSE next[d]]

-----------------------------------------------------------------------------
(* The handlers: the calls to the file system that each makes, in order; and what  *)
(* follows the status when it succeeds, when the operation fails, when the handle  *)
(* is refused, and when the attributes of the object cannot be read: nothing is    *)
(* written then by the handlers that go on without them.                           *)
(* "look" is made by a GUARDED creation only.                                      *)

Post1 == <<"post_op_attr">>
PostBody == <<"post_op_attr", "body">>
Wcc1 == <<"wcc_data">>
Wcc2 == <<"wcc_data", "wcc_data">>
Made == <<"post_op_fh3", "post_op_attr", "wcc_data">>
GoesOn == <<"goes on">>
Handler(steps, ok, fail, early, noattr) ==
    [steps |-> steps, ok |-> ok, fail |-> fail, early |-> early, noattr |-> noattr]

nfsproc3_getattr == Handler(<<"pre">>, <<"attr">>, <<>>, <<>>, <<>>)
nfsproc3_lookup == Handler(<<"pre", "op", "post">>, <<"fh", "post_op_attr", "post_op_attr">>, Post1, Post1, GoesOn)
nfsproc3_read == Handler(<<"pre", "op">>, PostBody, Post1, Post1, GoesOn)
nfsproc3_fsinfo == Handler(<<"op">>, PostBody, <<>>, Post1, GoesOn)
nfsproc3_access == Handler(<<"pre">>, PostBody, Post1, Post1, GoesOn)
nfsproc3_pathconf == Handler(<<"pre">>, PostBody, Post1, Post1, GoesOn)
nfsproc3_fsstat == Handler(<<"pre">>, PostBody, Post1, Post1, GoesOn)
nfsproc3_readdirplus == Handler(<<"pre", "op">>, PostBody, Post1, Post1, GoesOn)
nfsproc3_readdir == Handler(<<"pre", "op">>, PostBody, Post1, Post1, GoesOn)
nfsproc3_write == Handler(<<"pre", "op">>, <<"wcc_data", "body">>, Wcc1, Wcc1, GoesOn)
nfsproc3_create == Handler(<<"pre", "look", "op", "post">>, Made, Wcc1, Wcc1, Wcc1)
nfsproc3_setattr == Handler(<<"pre", "op">>, Wcc1, Wcc1, <<>>, Wcc1)
nfsproc3_remove == Handler(<<"pre", "op", "post">>, Wcc1, Wcc1, Wcc1, Wcc1)
nfsproc3_rename == Handler(<<"pre", "pre2", "op", "post", "post2">>, Wcc2, Wcc2, Wcc1, Wcc1)
nfsproc3_mkdir == Handler(<<"pre", "op", "post">>, Made, Wcc1, Wcc1, Wcc1)
nfsproc3_symlink == Handler(<<"pre", "op", "post">>, Made, Wcc1, Wcc1, Wcc1)
nfsproc3_readlink == Handler(<<"pre", "op">>, PostBody, Post1, <<>>, Post1)

handle_nfs ==
    [GETATTR |-> nfsproc3_getattr, LOOKUP |-> nfsproc3_lookup, READ |-> nfsproc3_read, FSINFO |-> nfsproc3_fsinfo,
     ACCESS |-> nfsproc3_access, PATHCONF |-> nfsproc3_pathconf, FSSTAT |-> nfsproc3_fsstat,
     READDIR |-> nfsproc3_readdir, READDIRPLUS |-> nfsproc3_readdirplus, WRITE |-> nfsproc3_write,
     CREATE |-> nfsproc3_create, SETATTR |-> nfsproc3_setattr, REMOVE |-> nfsproc3_remove, RMDIR |-> nfsproc3_remove,
     RENAME |-> nfsproc3_rename, MKDIR |-> nfsproc3_mkdir, SYMLINK |-> nfsproc3_symlink, READLINK |-> nfsproc3_readlink]
Procs == DOMAIN handle_nfs

\* The reply after the last of the steps, and the step after a step
Ends(r) == Replied(r, r.status, IF r.status = "NFS3_OK" THEN handle_nfs[r.proc].ok ELSE handle_nfs[r.proc].fail)
StepsOf(r) == IF r.how = "GUARDED" THEN handle_nfs[r.proc].steps ELSE SelectSeq(handle_nfs[r.proc].steps, LAMBDA s : s # "look")
Proceeds(r) ==
    LET steps == StepsOf(r)
        i == CHOOSE j \in 0..Len(steps) : IF r.at = "idle" THEN j = 0 ELSE j > 0 /\ steps[j] = r.at
    IN IF i = Len(steps) THEN Ends(r) ELSE To(r, steps[i + 1])

\* fh_to_id, of a handle that is short, or of an earlier, this or a later run
Handles == {"short", "earlier", "current", "later"}
FhToId(handle) ==
    CASE handle = "current" -> "NFS3_OK"
      [] handle = "earlier" -> "NFS3ERR_STALE"
      [] OTHER -> "NFS3ERR_BADHANDLE"

\* The part of a procedure before it first calls the file system.  A WRITE has
\* data of the length it says, or not.
Starts(c, r, handle, says) ==
    \/ r.proc \in Changes /\ capabilities = "ReadOnly" /\ Steps(c, Replied(r, "NFS3ERR_ROFS", <<"wcc_data">>))
    \/ /\ r.proc \in Changes => capabilities = "ReadWrite"
       /\ \/ Steps(c, Dropped(r))                \* the arguments do not decode
          \/ ~says /\ Steps(c, Replied(r, "GARBAGE_ARGS", <<>>))
          \/ /\ says /\ FhToId(handle) # "NFS3_OK"
             /\ Steps(c, Replied(r, FhToId(handle), handle_nfs[r.proc].early))
          \/ says /\ FhToId(handle) = "NFS3_OK" /\ Steps(c, Proceeds(r))

Begin(c) ==
    /\ call[c].at = "idle"
    /\ \E proc \in Procs, handle \in Handles :
         \E name \in IF proc \in InDir \ Listings THEN Names ELSE {NotYet.name},
            obj \in IF proc \in InDir THEN {Dir} ELSE {Dir} \cup DOMAIN tree,
            how \in IF proc = "CREATE" THEN {"UNCHECKED", "GUARDED", "EXCLUSIVE"} ELSE {"UNCHECKED"},
            guard \in IF proc = "SETATTR" THEN {NoAttr} \cup {Attr(t) : t \in 0..Len(log)} ELSE {NoAttr},
            cookie \in IF proc \in Listings THEN {0} \cup DOMAIN tree ELSE {0},
            limits \in IF proc \in Listings THEN PageLimits ELSE {NotYet.limits},
            says \in IF proc = "WRITE" THEN BOOLEAN ELSE {TRUE} :
             Starts(c, [NotYet EXCEPT !.proc = proc, !.name = name, !.obj = obj, !.how = how, !.guard = guard,
                                      !.cookie = cookie, !.limits = limits], handle, says)
    /\ UNCHANGED <<capabilities, tree, log>>
\* NULL, another version of NFS, or a procedure that is not implemented
BeginOther(c) ==
    /\ call[c].at = "idle"
    /\ \E proc \in Others \cup {"NULL"}, version \in {"3", "other"} :
          Steps(c, Replied([NotYet EXCEPT !.proc = proc],
                           IF version = "other" THEN "PROG_MISMATCH"
                           ELSE IF proc = "NULL" THEN "SUCCESS" ELSE "PROC_UNAVAIL", <<>>))
    /\ UNCHANGED <<capabilities, tree, log>>

-----------------------------------------------------------------------------
(* The listings.  Sizes are in bytes.                                       *)

Padded(n) == ((n + 3) \div 4) * 4
\* fileid, cookie, name; and attributes and a handle of 16 bytes
EntrySize(proc, id) == 4 + 8 + 4 + Padded(NameLength[tree[id]]) + 8 + (IF proc = "READDIRPLUS" THEN 88 + 24 ELSE 0)
DirSize(id) == 8 + 4 + NameLength[tree[id]] + 8
HeadSize(attrs) == 24 + 4 + (IF attrs THEN 88 ELSE 4) + 8
PageSize(proc, attrs, ids) == FoldSeq(LAMBDA id, sum : EntrySize(proc, id) + sum, HeadSize(attrs), ids)

\* readdir: the entries after start_after, at most so many of them
Listed(start_after) == SetToSortSeq({id \in DOMAIN tree : id > start_after}, <)
Read(r) ==
    LET rest == Listed(IF r.proc = "READDIRPLUS" THEN r.cookie ELSE 0)
        most == r.limits.dircount \div 16
    IN [entries |-> SubSeq(rest, 1, IF most < Len(rest) THEN most ELSE Len(rest)), end |-> Len(rest) <= most, rest |-> rest]

\* max_bytes_allowed, of dircount for READDIR.  Below 128 the subtraction wraps in
\* a build without overflow checks, so that nothing is too large.
Allowed(r) == IF r.proc = "READDIRPLUS" THEN r.limits.maxcount ELSE r.limits.dircount
Underflows(r) == r.proc \in Listings /\ Allowed(r) < 128
Fits(r, ids) ==
    /\ r.wrapped \/ PageSize(r.proc, r.before.has, ids) < Allowed(r) - 128
    /\ r.proc = "READDIRPLUS" => FoldSeq(LAMBDA id, sum : DirSize(id) + sum, 0, ids) < r.limits.dircount
\* Mutation: the end of the directory is passed on although entries were cut off.
EndAsRead(r) ==
    LET read == Read(r)
        most == CHOOSE n \in 0..Len(read.entries) :
                    /\ \A m \in 1..n : Fits(r, SubSeq(read.entries, 1, m))
                    /\ n < Len(read.entries) => ~Fits(r, SubSeq(read.entries, 1, n + 1))
    IN [ids |-> SubSeq(read.entries, 1, most), eof |-> read.end,
        size |-> PageSize(r.proc, r.before.has, SubSeq(read.entries, 1, most)) + 8, rest |-> read.rest]
\* The entries that are written, up to the first that does not fit
Page(r) ==
    LET read == Read(r)
        most == CHOOSE n \in 0..Len(read.entries) :
                    /\ \A m \in 1..n : Fits(r, SubSeq(read.entries, 1, m))
                    /\ n < Len(read.entries) => ~Fits(r, SubSeq(read.entries, 1, n + 1))
    IN [ids |-> SubSeq(read.entries, 1, most), eof |-> most = Len(read.entries) /\ read.end,
        size |-> PageSize(r.proc, r.before.has, SubSeq(read.entries, 1, most)) + 8, rest |-> read.rest]

-----------------------------------------------------------------------------
(* The steps of a procedure.                                                *)

\* getattr, which fails for an object that is gone and may fail for any
GetAttr(id) == {NoAttr} \cup {Attr(Ctime(i)) : i \in {j \in {id} : Exists(j)}}

Mismatch(r) == r.proc = "SETATTR" /\ r.guard.has /\ r.guard # r.before
\* SETATTR: when the guard does not match, a reply is written, and the call goes on.
Guarded(r) ==
    IF Mismatch(r) THEN [r EXCEPT !.replies = Append(@, Reply("NFS3ERR_NOT_SYNC", Wcc1))] ELSE r
\* The object's attributes before the operation
Pre(c) ==
    /\ call[c].at = "pre"
    /\ \E attr \in GetAttr(call[c].obj) :
          LET r == [call[c] EXCEPT !.before = attr]
              noattr == handle_nfs[r.proc].noattr
          IN IF ~attr.has /\ noattr # GoesOn THEN Steps(c, Replied(r, "NFS3ERR_STALE", noattr))
             ELSE IF Underflows(r) THEN Steps(c, Dropped(r)) \/ Steps(c, Proceeds([r EXCEPT !.wrapped = TRUE]))
             ELSE \/ Steps(c, Proceeds(Guarded(r)))
                  \/ r.proc = "CREATE" /\ r.how # "EXCLUSIVE" /\ Steps(c, Dropped(r))  \* sattr3 does not decode
    /\ UNCHANGED <<capabilities, tree, log>>
\* RENAME: the other directory's
Pre2(c) ==
    /\ call[c].at = "pre2"
    /\ \E attr \in GetAttr(Dir) :
          Steps(c, IF attr.has THEN Proceeds([call[c] EXCEPT !.before2 = attr])
                   ELSE Replied(call[c], "NFS3ERR_STALE", nfsproc3_rename.noattr))
    /\ UNCHANGED <<capabilities, tree, log>>
\* CREATE GUARDED: a lookup that fails, for whatever reason, lets the call go on.
Look(c) ==
    /\ call[c].at = "look"
    /\ \/ Steps(c, To(call[c], "op"))
       \/ Named(call[c].name) # {} /\ Steps(c, [To(call[c], "post") EXCEPT !.status = "NFS3ERR_EXIST"])
    /\ UNCHANGED <<capabilities, tree, log>>

\* The operation itself, and the changes that it makes
By(c, objs) == [i \in DOMAIN objs |-> [obj |-> objs[i], by |-> c]]
Fails(c) ==
    /\ LET r == [call[c] EXCEPT !.status = "NFS3ERR"]
       IN Steps(c, IF r.proc \in {"WRITE", "SETATTR"} THEN Ends([r EXCEPT !.before = NoAttr])
                   ELSE IF r.proc = "LOOKUP" THEN Ends(r) ELSE Proceeds(r))
    /\ UNCHANGED <<tree, log>>
\* READ, READLINK, FSINFO, READDIR, READDIRPLUS
Reads(c) ==
    /\ call[c].proc \in {"READ", "READLINK", "FSINFO"} \cup Listings
    /\ Steps(c, Proceeds(IF call[c].proc \in Listings THEN [call[c] EXCEPT !.page = Page(call[c])] ELSE call[c]))
    /\ UNCHANGED <<tree, log>>
Finds(c) ==
    /\ call[c].proc = "LOOKUP"
    /\ \E id \in Named(call[c].name) : Steps(c, Proceeds([call[c] EXCEPT !.obj = id]))
    /\ UNCHANGED <<tree, log>>
\* WRITE and SETATTR return the attributes.
Alters(c) ==
    /\ call[c].proc \in {"WRITE", "SETATTR"} /\ Exists(call[c].obj)
    /\ log' = log \o By(c, <<call[c].obj>>)
    /\ Steps(c, Proceeds([call[c] EXCEPT !.after = Attr(Len(log) + 1)]))
    /\ UNCHANGED tree
MakesNew(c) ==
    /\ call[c].proc \in Makes /\ Named(call[c].name) = {}
    /\ \E id \in Fresh :
          /\ tree' = [i \in DOMAIN tree \cup {id} |-> IF i = id THEN call[c].name ELSE tree[i]]
          /\ log' = log \o By(c, <<Dir, id>>)
          /\ \A i \in Fresh : id <= i
    /\ Steps(c, Proceeds(call[c]))
\* create of a file that exists truncates it.
MakesOver(c) ==
    /\ call[c].proc = "CREATE" /\ call[c].how # "EXCLUSIVE"
    /\ \E id \in Named(call[c].name) : log' = log \o By(c, <<id>>)
    /\ Steps(c, Proceeds(call[c])) /\ UNCHANGED tree
Removes(c) ==
    /\ call[c].proc \in {"REMOVE", "RMDIR"}
    /\ \E id \in Named(call[c].name) :
          /\ tree' = [i \in DOMAIN tree \ {id} |-> tree[i]]
          /\ log' = log \o By(c, <<Dir, id>>)
    /\ Steps(c, Proceeds(call[c]))
Renames(c) ==
    /\ call[c].proc = "RENAME"
    /\ \E id \in Named(call[c].name), to \in Names \ {call[c].name} :
          /\ tree' = [i \in DOMAIN tree \ Named(to) |-> IF i = id THEN to ELSE tree[i]]
          /\ log' = log \o By(c, <<Dir, id>> \o SetToSeq(Named(to)))
    /\ Steps(c, Proceeds(call[c]))
Op(c) ==
    /\ call[c].at = "op"
    /\ \/ Fails(c) \/ Reads(c) \/ Finds(c) \/ Alters(c)
       \/ MakesNew(c) \/ MakesOver(c) \/ Removes(c) \/ Renames(c)
    /\ UNCHANGED capabilities

\* The attributes of the directory once more, or those of what LOOKUP found
\* Mutation: the attributes from before are sent again.
PostAsBefore(c) ==
    /\ call[c].at = "post"
    /\ Steps(c, Proceeds([call[c] EXCEPT !.after = call[c].before]))
    /\ UNCHANGED <<capabilities, tree, log>>
Post(c) ==
    /\ call[c].at = "post"
    /\ \E attr \in GetAttr(call[c].obj) : Steps(c, Proceeds([call[c] EXCEPT !.after = attr]))
    /\ UNCHANGED <<capabilities, tree, log>>
Post2(c) ==
    /\ call[c].at = "post2"
    /\ \E attr \in GetAttr(Dir) : Steps(c, Proceeds([call[c] EXCEPT !.after2 = attr]))
    /\ UNCHANGED <<capabilities, tree, log>>

Step(c) == Begin(c) \/ BeginOther(c) \/ Pre(c) \/ Pre2(c) \/ Look(c) \/ Op(c) \/ Post(c) \/ Post2(c)
Next == \E c \in Calls : Step(c)
Spec == Init /\ [][Next]_vars

-----------------------------------------------------------------------------
Done == {c \in Calls : call[c].at = "done"}
Changed(c) == {i \in DOMAIN log : log[i].by = c}

\* A call is answered by one result, as the comments above the handlers define it:
\* a SETATTR3res, say, is SETATTR3resok or SETATTR3resfail.
OneResult == \A c \in Done : Len(call[c].replies) <= 1

\* The attributes before and after an operation enclose the change that the call
\* made, whatever runs between the calls to the file system; and when nothing does
\* they enclose no other change, so that a client whose cache agrees with the
\* attributes before may keep it.  RENAME has two such pairs.
Encloses(c, before, after) ==
    LET of(i) == log[i].obj = call[c].obj
    IN /\ \A i \in Changed(c) : of(i) =>
             /\ before.has => before.ctime < i
             /\ after.has => i <= after.ctime
       /\ before.has /\ after.has /\ ~call[c].company =>
             \A i \in (before.ctime + 1)..after.ctime : of(i) => i \in Changed(c)
WccEnclosesChange ==
    \A c \in Done : call[c].proc \in Changes =>
        Encloses(c, call[c].before, call[c].after) /\ Encloses(c, call[c].before2, call[c].after2)

LongestName == Max({NameLength[n] : n \in Names})

\* A page of READDIRPLUS continues after the cookie, says that it is the last exactly
\* when nothing is left, and leads on otherwise: it has an entry, if the client left
\* room for one.  No page is larger than the client allowed, unless that was less than
\* the 128 bytes that the code sets apart.
PagesLeadOn ==
    \A c \in Done : LET r == call[c]
                     IN r.proc \in Listings /\ r.replies # <<>> /\ r.status = "NFS3_OK" =>
        /\ r.page.ids = SubSeq(r.page.rest, 1, Len(r.page.ids))
        /\ r.page.eof = (r.page.ids = r.page.rest)
        /\ r.wrapped \/ r.page.size - 28 <= Allowed(r)
        /\ r.page.ids = <<>> /\ ~r.page.eof => r.limits.dircount <= 20 + LongestName \/ Allowed(r) <= 388 + Padded(LongestName)
=============================================================================
