-------------------------------- MODULE Nfs3 --------------------------------
(***************************************************************************)
(* The NFS program, dispatch_nfs in src/server/connection.rs, with its file *)
(* handles (src/handles/codec.rs), its argument and result unions           *)
(* (src/nfs3/procedures/mod.rs, src/nfs3/codec.rs) and the end of           *)
(* execute_request.  READDIR and READDIRPLUS are in module ReadDir.         *)
(*                                                                          *)
(* A procedure decodes its arguments, awaits one call of the VFS, and some  *)
(* of them then await vfs.getattr for the attributes of the reply: changes  *)
(* by others, a timeout or the end of this run of the server may come       *)
(* between the two.  A call is one step until its first await returns, and  *)
(* a second one if there is a second await.  Handlers share nothing but the *)
(* VFS, so the model follows one call at a time; the others are what they   *)
(* do to the VFS, and replies that overtake each other on the way back.     *)
(*                                                                          *)
(* The VFS and the client are external.  The VFS counts how often each      *)
(* object changed and knows which pieces of data are on stable storage.     *)
(* The client follows RFC 1813: it keeps a piece of data until WRITE says   *)
(* it is stable, or until COMMIT answers with the verifier of its WRITE.    *)
(***************************************************************************)
EXTENDS Xdr, Integers, Sequences, FiniteSets

CONSTANTS
    Exports, Keys,      \* every export has an object for every key
    FirstExport,
    Overflowing,        \* objects with a time that nfstime3 cannot hold
    DataFile, Writes,   \* a file, and the pieces of data the client writes to it
    limits,             \* ServerLimits
    Counts,             \* counts that READ asks for, and lengths of the data of WRITE
    PathLengths,        \* lengths of what symbolic links hold
    MaxRuns,            \* bound: runs of the server
    MaxWire             \* bound: replies under way to the client

Objects == Exports \X Keys

ASSUME Nfs3Constants ==
    /\ limits \in ServerLimits /\ Validate(limits)
    /\ FirstExport \in Exports /\ Overflowing \subseteq Objects /\ DataFile \in Objects
    /\ Counts \subseteq Nat /\ PathLengths \subseteq Nat
    /\ MaxRuns \in Nat \ {0} /\ MaxWire \in Nat

VARIABLES
    instance,   \* HandleCodec::instance_id: each run of the server has its own
    call,       \* Idle, a call in vfs.getattr, or one that has its reply
    wire,       \* what replies to WRITE and COMMIT under way tell the client
    version,    \* VFS: the changes of each object since the call began
    data,       \* VFS: each piece of data is "none", "volatile" or "stable"
    copy,       \* client: each piece is "unsent", "held" or "safe"
    verifier,   \* client: the verifier under which a piece is held
    advert      \* client: rtmax and wtmax, as FSINFO told it

vars == <<instance, call, wire, version, data, copy, verifier, advert>>
client == <<copy, verifier, advert>>

Idle == [stage |-> "idle"]
Unchanged == [o \in Objects |-> 0]

Init ==
    /\ instance = 1 /\ call = Idle /\ wire = {} /\ version = Unchanged
    /\ data = [w \in Writes |-> "none"] /\ copy = [w \in Writes |-> "unsent"]
    /\ verifier = [w \in Writes |-> 0] /\ advert = [read |-> 0, write |-> 0]

-----------------------------------------------------------------------------
(* File handles.  A tag verifies exactly if this run computed it.           *)

Encode(run, o) == [flaw |-> "none", run |-> run, export |-> o[1], key |-> o[2]]

\* What clients have: handles of this run and of earlier ones, and bytes that
\* are no handle
Handles ==
    {Encode(r, o) : r \in 1..instance, o \in Objects} \cup
    {[Encode(instance, DataFile) EXCEPT !.flaw = f] : f \in {"length", "format", "tag"}}

DecodeAny(h) ==
    IF h.flaw = "length" THEN "InvalidLength"
    ELSE IF h.flaw = "format" THEN "InvalidFormat"
    ELSE IF h.run # instance THEN "StaleInstance"
    ELSE IF h.flaw = "tag" THEN "InvalidTag"
    ELSE "Ok"

\* Mutation: the export in the handle is not compared.
DecodeUnscoped(export, h) == DecodeAny(h)

Decode(export, h) ==
    IF DecodeAny(h) = "Ok" /\ h.export # export THEN "WrongExport" ELSE DecodeAny(h)

DecodeObject(h, export) ==
    CASE Decode(export, h) = "Ok" -> "Ok"
      [] Decode(export, h) = "StaleInstance" -> "Stale"
      [] OTHER -> "BadHandle"

\* NfsName::new, by what is wrong with the name
Names == {"fine", "long", "improper"}
NameStatus(name) ==
    CASE name = "fine" -> "Ok" [] name = "long" -> "NameTooLong" [] OTHER -> "Invalid"

-----------------------------------------------------------------------------
(* Arguments.  An object is a handle; a directory operation is a handle and *)
(* a name.                                                                  *)

OneObject == {"GETATTR", "SETATTR", "ACCESS", "READLINK", "READ", "WRITE",
              "FSSTAT", "FSINFO", "PATHCONF", "COMMIT"}
OneName == {"LOOKUP", "CREATE", "MKDIR", "SYMLINK", "MKNOD", "REMOVE", "RMDIR"}
Procedures == OneObject \cup OneName \cup {"RENAME", "LINK"}

ObjectArgs == [handle : Handles, name : {"fine"}]
NameArgs == [handle : Handles, name : Names]
Args(proc) ==
    IF proc \in OneObject THEN {<<o>> : o \in ObjectArgs}
    ELSE IF proc \in OneName THEN {<<n>> : n \in NameArgs}
    ELSE IF proc = "RENAME" THEN NameArgs \X NameArgs
    ELSE ObjectArgs \X NameArgs

\* request_export_id: the first handle tells the export.
RequestExportId(args) ==
    IF DecodeAny(args[1].handle) = "Ok" THEN args[1].handle.export ELSE FirstExport

ArgStatus(arg, export) ==
    IF DecodeObject(arg.handle, export) # "Ok" THEN DecodeObject(arg.handle, export)
    ELSE NameStatus(arg.name)

\* The arguments are decoded in order, and the first error is the answer.
Refusal(args) ==
    LET status(i) == ArgStatus(args[i], RequestExportId(args))
        wrong == {i \in DOMAIN args : status(i) # "Ok"}
    IN IF wrong = {} THEN "Ok" ELSE status(CHOOSE i \in wrong : \A j \in wrong : i <= j)

Accepted(args) == Refusal(args) = "Ok"

\* The object that the VFS of the request's export works on
Target(args, i) == <<RequestExportId(args), args[i].handle.key>>

-----------------------------------------------------------------------------
(* Results.  Optional attributes are a set of at most one.                  *)

Attributes(o) == [object |-> o, version |-> version[o]]
MaybeAttributes(o) == {{}, {Attributes(o)}}
NoWcc == [before |-> {}, after |-> {}]
\* MutationResult of a step that changes o
WccOf(o) == [before |-> {Attributes(o)}, after |-> {[Attributes(o) EXCEPT !.version = @ + 1]}]
MaybeWcc(o) == {NoWcc, WccOf(o)}

\* rest: the bytes of the result besides its attributes
Result(status, posts, wccs, rest) ==
    [status |-> status, posts |-> posts, wccs |-> wccs, rest |-> rest]

QueryArms(proc) == IF proc = "COMMIT" THEN <<0, 1>> ELSE <<1, 0>>

\* The unions of results: how many optional attributes and how much WCC data
Arms(proc, ok) ==
    CASE proc = "GETATTR" -> <<IF ok THEN 1 ELSE 0, 0>>
      [] proc = "LOOKUP" -> <<IF ok THEN 2 ELSE 1, 0>>
      [] proc \in {"ACCESS", "READLINK", "READ"} -> <<1, 0>>
      [] proc \in {"CREATE", "MKDIR", "SYMLINK", "MKNOD"} -> <<IF ok THEN 1 ELSE 0, 1>>
      [] proc \in {"SETATTR", "WRITE", "REMOVE", "RMDIR"} -> <<0, 1>>
      [] proc = "RENAME" -> <<0, 2>>
      [] proc = "LINK" -> <<1, 1>>
      [] OTHER -> QueryArms(proc)

\* Mutation: RENAME's failure is REMOVE's, with one directory.
FailureArmsShort(proc) ==
    CASE proc = "GETATTR" -> <<0, 0>>
      [] proc \in {"LOOKUP", "ACCESS", "READLINK", "READ", "FSSTAT", "FSINFO", "PATHCONF"} -> <<1, 0>>
      [] proc = "LINK" -> <<1, 1>>
      [] OTHER -> <<0, 1>>
\* What nfs_failure_reply_for_procedure, and the same in the handlers, puts behind
\* the status of a failure: how many empty attributes and how much empty WCC data
FailureArms(proc) ==
    CASE proc = "GETATTR" -> <<0, 0>>
      [] proc \in {"LOOKUP", "ACCESS", "READLINK", "READ", "FSSTAT", "FSINFO", "PATHCONF"} -> <<1, 0>>
      [] proc = "RENAME" -> <<0, 2>>
      [] proc = "LINK" -> <<1, 1>>
      [] OTHER -> <<0, 1>>
Failure(proc, status) ==
    Result(status, [i \in 1..FailureArms(proc)[1] |-> {}],
           [i \in 1..FailureArms(proc)[2] |-> NoWcc], 0)

\* The bytes of the i-th optional attributes and of the i-th WCC data, if there
\* are so many; there are at most two of either.
PostSize(posts, i) == IF i <= Len(posts) THEN PostAttributes(posts[i] # {}) ELSE 0
WccSize(wccs, i) == IF i <= Len(wccs) THEN Wcc(wccs[i].before # {}, wccs[i].after # {}) ELSE 0
Size(result) ==
    REPLY_HEADER + 4 + result.rest
    + PostSize(result.posts, 1) + PostSize(result.posts, 2)
    + WccSize(result.wccs, 1) + WccSize(result.wccs, 2)

\* encode_time refuses what it cannot represent.  (FSINFO's time_granularity, a
\* constant of the VFS, is taken to be one that it accepts.)
Carried(result) ==
    UNION ({result.posts[i] : i \in DOMAIN result.posts} \cup
           {result.wccs[i].before \cup result.wccs[i].after : i \in DOMAIN result.wccs})
Encodable(result) == \A a \in Carried(result) : a.object \notin Overflowing

\* The end of execute_request
RpcStatus(result) ==
    IF Encodable(result) /\ OutboundLengthFits(Size(result), limits)
    THEN "SUCCESS" ELSE "SYSTEM_ERR"

-----------------------------------------------------------------------------
(* Steps of a request.                                                      *)

\* A call as the properties see it: the objects that the attributes of its
\* reply belong to, and whether the VFS works on what the handles denote
Request(proc, args, posts, wccs, note) ==
    [proc |-> proc, posts |-> posts, wccs |-> wccs, note |-> note,
     own |-> \A i \in DOMAIN args : LET h == args[i].handle
                                    IN h.run = instance /\ Target(args, i) = <<h.export, h.key>>]
NoNote == [kind |-> "none"]

Replied(request, rpc, result, floor) ==
    [stage |-> "reply", request |-> request, rpc |-> rpc, result |-> result, floor |-> floor]

Answer(request, result) ==
    /\ call = Idle
    /\ call' = Replied(request, RpcStatus(result), result, Unchanged)

\* The call goes on to await vfs.getattr(o).
Await(request, o, result) ==
    /\ call = Idle
    /\ call' = [stage |-> "getattr", request |-> request, object |-> o, result |-> result,
                floor |-> version']

Changes(changed) == version' = [o \in Objects |-> IF o \in changed THEN 1 ELSE 0]

\* The reply has no result, or NULL's empty one.
Empty(rpc) ==
    /\ call = Idle
    /\ call' = Replied(Request("NULL", <<>>, <<>>, <<>>, NoNote), rpc,
                       Result("none", <<>>, <<>>, 0), Unchanged)
    /\ UNCHANGED <<instance, wire, version, data, client>>
\* dispatch_call: another program or version
OtherProgram == Empty("PROG_UNAVAIL") \/ Empty("PROG_MISMATCH")
\* dispatch_nfs: NULL, or a procedure that does not exist
NullOrUnknown == Empty("SUCCESS") \/ Empty("PROC_UNAVAIL")
\* The arguments do not decode.
Malformed == Empty("GARBAGE_ARGS")

\* A WRITE's count is its length, or is not.
ValidateWriteCount(proc) == IF proc = "WRITE" THEN {"Ok", "Invalid"} ELSE {"Ok"}

\* A handle or a name is refused, and in WRITE, before that, a count that is not
\* the length of the data.  The VFS is not called.
Refused ==
    /\ call = Idle
    /\ \E proc \in Procedures : \E args \in Args(proc) :
          \E count \in ValidateWriteCount(proc) :
             LET status == IF count = "Ok" THEN Refusal(args) ELSE count
                 h == args[1].handle
                 old == count = "Ok" /\ h.flaw = "none" /\ h.run # instance
             IN /\ status # "Ok"
                /\ Answer(Request(proc, <<>>, <<>>, <<>>, [kind |-> "refused", old |-> old]),
                          Failure(proc, status))
    /\ UNCHANGED <<instance, wire, version, data, client>>

\* The VFS returns an error.  LOOKUP, ACCESS and READLINK still ask for attributes.
VfsFails ==
    /\ call = Idle
    /\ UNCHANGED <<instance, wire, version, data, client>>
    /\ \E proc \in Procedures : \E args \in Args(proc) :
          /\ Accepted(args)
          /\ IF proc \in {"LOOKUP", "ACCESS", "READLINK"}
             THEN LET o == Target(args, 1)
                  IN Await(Request(proc, args, <<o>>, <<>>, NoNote), o,
                           Result("error", <<>>, <<>>, 0))
             ELSE Answer(Request(proc, args, <<>>, <<>>, NoNote), Failure(proc, "error"))

\* fattr3 has no flag in front of it here.
GetAttr ==
    /\ call = Idle
    /\ \E args \in Args("GETATTR") :
          /\ Accepted(args)
          /\ LET o == Target(args, 1)
             IN Answer(Request("GETATTR", args, <<o>>, <<>>, NoNote),
                       Result("Ok", <<{Attributes(o)}>>, <<>>, -4))
    /\ UNCHANGED <<instance, wire, version, data, client>>

\* SETATTR, REMOVE and RMDIR change one object and report its WCC data.
ChangesOne(proc) ==
    /\ call = Idle
    /\ \E args \in Args(proc) :
          /\ Accepted(args) /\ Changes({Target(args, 1)})
          /\ \E wcc \in MaybeWcc(Target(args, 1)) :
                Answer(Request(proc, args, <<>>, <<Target(args, 1)>>, NoNote),
                       Result("Ok", <<>>, <<wcc>>, 0))
    /\ UNCHANGED <<instance, wire, data, client>>
SetAttr == ChangesOne("SETATTR")
Remove == ChangesOne("REMOVE")
Rmdir == ChangesOne("RMDIR")

\* CREATE, MKDIR, SYMLINK and MKNOD: create_reply
Creates(proc) ==
    /\ call = Idle
    /\ \E args \in Args(proc), key \in Keys :
          LET dir == Target(args, 1)
              object == <<dir[1], key>>
          IN /\ Accepted(args) /\ Changes({dir})
             /\ \E post \in MaybeAttributes(object), wcc \in MaybeWcc(dir) :
                   Answer(Request(proc, args, <<object>>, <<dir>>, NoNote),
                          Result("Ok", <<post>>, <<wcc>>, CreateResult))
    /\ UNCHANGED <<instance, wire, data, client>>
Create == Creates("CREATE")
Mkdir == Creates("MKDIR")
Symlink == Creates("SYMLINK")
Mknod == Creates("MKNOD")

\* RenameResult::Ok
RenameArms(from, to) == <<from, to>>

Rename ==
    /\ call = Idle
    /\ \E args \in Args("RENAME") :
          LET from == Target(args, 1)
              to == Target(args, 2)
          IN /\ Accepted(args) /\ Changes({from, to})
             /\ \E from_wcc \in MaybeWcc(from), to_wcc \in MaybeWcc(to) :
                   Answer(Request("RENAME", args, <<>>, <<from, to>>, NoNote),
                          Result("Ok", <<>>, RenameArms(from_wcc, to_wcc), 0))
    /\ UNCHANGED <<instance, wire, data, client>>

Link ==
    /\ call = Idle
    /\ \E args \in Args("LINK") :
          LET object == Target(args, 1)
              dir == Target(args, 2)
          IN /\ Accepted(args) /\ Changes({object, dir})
             /\ \E wcc \in MaybeWcc(dir) :
                   Await(Request("LINK", args, <<object>>, <<dir>>, NoNote), object,
                         Result("Ok", <<>>, <<wcc>>, 0))
    /\ UNCHANGED <<instance, wire, data, client>>

Lookup ==
    /\ call = Idle
    /\ UNCHANGED <<instance, wire, version, data, client>>
    /\ \E args \in Args("LOOKUP"), key \in Keys :
          LET dir == Target(args, 1)
              object == <<dir[1], key>>
          IN /\ Accepted(args)
             /\ \E post \in MaybeAttributes(object) :
                   Await(Request("LOOKUP", args, <<object, dir>>, <<>>, NoNote), dir,
                         Result("Ok", <<post>>, <<>>, LookupResult))

\* ACCESS, FSSTAT, PATHCONF, READLINK and FSINFO answer with rest bytes and the
\* attributes of the object.
Queries(proc, rest, note) ==
    /\ call = Idle
    /\ UNCHANGED <<instance, wire, version, data, client>>
    /\ \E args \in Args(proc) :
          LET o == Target(args, 1)
          IN Accepted(args) /\ Await(Request(proc, args, <<o>>, <<>>, note), o,
                                     Result("Ok", <<>>, <<>>, rest))
Access == Queries("ACCESS", AccessResult, NoNote)
FsStat == Queries("FSSTAT", FsStatResult, NoNote)
PathConf == Queries("PATHCONF", PathConfResult, NoNote)
ReadLink == \E n \in PathLengths : Queries("READLINK", ReadLinkResult(n), NoNote)

\* Mutation: the sizes of the VFS are advertised as they are.
UnclampedSizes(n) == [kind |-> "fsinfo", read |-> n, write |-> n]
\* The VFS offers transfers of n bytes.
AdvertisedSizes(n) ==
    [kind |-> "fsinfo", read |-> Smaller(n, limits.max_read_size),
     write |-> Smaller(n, limits.max_write_size)]
FsInfo == \E n \in Counts : Queries("FSINFO", FsInfoResult, AdvertisedSizes(n))

\* Mutation: what the VFS returns is not cut to the count.
ReadUncut(length, count) == length
\* dispatch_read: the bytes of the reply
ReadLength(length, count) == Smaller(length, count)

\* The VFS returns less than it was asked for, exactly that, or more.
Read ==
    /\ call = Idle
    /\ \E args \in Args("READ"), asked \in Counts :
          LET o == Target(args, 1)
              count == Smaller(asked, limits.max_read_size)
          IN /\ Accepted(args)
             /\ \E length \in {0, count, count + 4}, post \in MaybeAttributes(o) :
                   Answer(Request("READ", args, <<o>>, <<>>,
                                  [kind |-> "read", short |-> count < asked,
                                   promised |-> asked <= advert.read]),
                          Result("Ok", <<post>>, <<>>, ReadResult(ReadLength(length, count))))
    /\ UNCHANGED <<instance, wire, version, data, client>>

Stability == {"Unstable", "DataSync", "FileSync"}

DurabilitySatisfies(actual, requested) ==
    \/ actual = "FileSync"
    \/ actual = "DataSync" /\ requested # "FileSync"
    \/ actual = "Unstable" /\ requested = "Unstable"

\* Mutation: the verifier is the same in every run.
FixedVerifier(run) == 1
\* HandleCodec::instance_id as writeverf3
WriteVerifier(run) == run

\* The VFS writes a prefix of what it is given, and may report a count or a
\* durability that it was not asked for.
Write ==
    /\ call = Idle
    /\ \E args \in Args("WRITE"), w \in Writes, length \in Counts,
          requested \in Stability, committed \in Stability :
          LET file == Target(args, 1)
              permitted == Smaller(length, limits.max_write_size)
              ours == file = DataFile
          IN /\ Accepted(args) /\ Changes({file})
             /\ ours => copy[w] = "unsent"
             /\ \E count \in {0, 1, permitted, permitted + 1}, wcc \in MaybeWcc(file) :
                   LET whole == ours /\ permitted = length /\ count >= length
                       fine == /\ count <= permitted /\ (permitted = 0 \/ count # 0)
                               /\ DurabilitySatisfies(committed, requested)
                   IN /\ data' = [data EXCEPT ![w] =
                                    IF ~whole \/ @ = "stable" THEN @
                                    ELSE IF committed = "Unstable" THEN "volatile" ELSE "stable"]
                      /\ Answer(Request("WRITE", args, <<>>, <<file>>,
                                        [kind |-> "write", short |-> permitted < length,
                                         promised |-> length <= advert.write,
                                         news |-> IF whole THEN {[piece |-> w, verifier |-> WriteVerifier(instance),
                                                                  stable |-> ~(requested = "Unstable" /\ committed = "Unstable")]}
                                                  ELSE {}]),
                                IF fine THEN Result("Ok", <<>>, <<wcc>>, WriteResult)
                                ELSE Result("ServerFault", <<>>, <<wcc>>, 0))
    /\ UNCHANGED <<instance, wire, client>>

Commit ==
    /\ call = Idle
    /\ \E args \in Args("COMMIT") :
          LET file == Target(args, 1)
              covers == IF file = DataFile THEN {w \in Writes : copy[w] = "held"} ELSE {}
          IN /\ Accepted(args) /\ Changes({file})
             /\ data' = [w \in Writes |-> IF file = DataFile /\ data[w] = "volatile"
                                          THEN "stable" ELSE data[w]]
             /\ \E wcc \in MaybeWcc(file) :
                   Answer(Request("COMMIT", args, <<>>, <<file>>,
                                  [kind |-> "commit", verifier |-> WriteVerifier(instance),
                                   covers |-> [w \in covers |-> verifier[w]]]),
                          Result("Ok", <<>>, <<wcc>>, CommitResult))
    /\ UNCHANGED <<instance, wire, client>>

-----------------------------------------------------------------------------
(* The second await, the way back, and faults.                              *)

\* vfs.getattr(o).await.ok()
FollowUp(o) == MaybeAttributes(o)

GetAttrReturns ==
    /\ call.stage = "getattr"
    /\ \E post \in FollowUp(call.object) :
          LET result == [call.result EXCEPT !.posts = Append(@, post)]
          IN call' = Replied(call.request, RpcStatus(result), result, call.floor)
    /\ UNCHANGED <<instance, wire, version, data, client>>

\* Another request, or another program, changes the object meanwhile.
Elsewhere ==
    /\ call.stage = "getattr" /\ version[call.object] = call.floor[call.object]
    /\ version' = [version EXCEPT ![call.object] = @ + 1]
    /\ UNCHANGED <<instance, call, wire, data, client>>

\* The reply is written.  The client learns from FSINFO, WRITE and COMMIT.
Sent ==
    LET note == call.request.note
        told == call.rpc = "SUCCESS" /\ call.result.status = "Ok"
        news == CASE told /\ note.kind = "write" -> note.news
                  [] told /\ note.kind = "commit" -> {note}
                  [] OTHER -> {}
    IN /\ call.stage = "reply"
       /\ Cardinality(wire \cup news) <= MaxWire
       /\ wire' = wire \cup news
       /\ advert' = IF told /\ note.kind = "fsinfo" THEN [read |-> note.read, write |-> note.write]
                    ELSE advert
       /\ call' = Idle /\ version' = Unchanged
       /\ UNCHANGED <<instance, data, copy, verifier>>

\* The request times out in its await, or its connection ends.
Dropped ==
    /\ call # Idle
    /\ call' = Idle /\ version' = Unchanged
    /\ UNCHANGED <<instance, wire, data, client>>

\* Another run of the server; if the process had crashed, what was volatile is gone.
Restart ==
    /\ instance < MaxRuns
    /\ instance' = instance + 1 /\ call' = Idle /\ version' = Unchanged
    /\ \/ UNCHANGED data
       \/ data' = [w \in Writes |-> IF data[w] = "volatile" THEN "none" ELSE data[w]]
    /\ UNCHANGED <<wire, client>>

\* A reply to WRITE arrives.
ReceiveWrite ==
    \E note \in {n \in wire : "piece" \in DOMAIN n} :
       /\ wire' = wire \ {note}
       /\ IF copy[note.piece] = "safe" THEN UNCHANGED <<copy, verifier>>
          ELSE /\ copy' = [copy EXCEPT ![note.piece] = IF note.stable THEN "safe" ELSE "held"]
               /\ verifier' = [verifier EXCEPT ![note.piece] = note.verifier]
       /\ UNCHANGED <<instance, call, version, data, advert>>

\* A reply to COMMIT arrives: it settles what was held, as it was held, when it
\* was sent.
ReceiveCommit ==
    \E note \in {n \in wire : "covers" \in DOMAIN n} :
       LET settled == {w \in DOMAIN note.covers : copy[w] = "held" /\ verifier[w] = note.covers[w]}
       IN /\ wire' = wire \ {note}
          /\ copy' = [w \in Writes |-> IF w \notin settled THEN copy[w]
                                       ELSE IF verifier[w] = note.verifier THEN "safe" ELSE "unsent"]
          /\ UNCHANGED <<instance, call, version, data, verifier, advert>>

Next ==
    \/ OtherProgram \/ NullOrUnknown \/ Malformed \/ Refused \/ VfsFails
    \/ GetAttr \/ SetAttr \/ Lookup \/ Access \/ ReadLink \/ Read \/ Write
    \/ Create \/ Mkdir \/ Symlink \/ Mknod \/ Remove \/ Rmdir \/ Rename \/ Link
    \/ FsStat \/ FsInfo \/ PathConf \/ Commit
    \/ GetAttrReturns \/ Elsewhere \/ Sent \/ Dropped \/ Restart \/ ReceiveWrite \/ ReceiveCommit

Spec == Init /\ [][Next]_vars

-----------------------------------------------------------------------------
(* Properties.                                                              *)

Of(attributes, o) == \A a \in attributes : a.object = o

\* A result has the arms of its union, and each describes the object that its
\* place names; the attributes fetched last are not older than floor.
Describes(result, request, floor) ==
    /\ <<Len(result.posts), Len(result.wccs)>> = Arms(request.proc, result.status = "Ok")
    /\ \A i \in DOMAIN result.posts : Of(result.posts[i], request.posts[i])
    /\ \A i \in DOMAIN result.wccs :
          Of(result.wccs[i].before \cup result.wccs[i].after, request.wccs[i])
    /\ result.posts # <<>> =>
          \A a \in result.posts[Len(result.posts)] : a.version >= floor[a.object]

\* Every reply has the arms of its result union, each describes the object that
\* its place names, and attributes fetched by the second await of a handler are not older
\* than the operation that they are reported for, whatever other requests did in
\* between.
ReplyDescribesCall ==
    call.stage = "reply" /\ call.result.status # "none" =>
        Describes(call.result, call.request, call.floor)

\* validate_record_length replaces the result of a call that has been executed by
\* SYSTEM_ERR only for a target of a symbolic link that is too long, or for a time
\* that cannot be encoded: the limits that ServerLimits::validate accepts leave
\* room for every other result, whatever the VFS returns.
ExecutedIsReported ==
    call.stage = "reply" /\ call.rpc = "SYSTEM_ERR" =>
        ~Encodable(call.result) \/ call.request.proc = "READLINK"

\* A piece of data that the client no longer keeps is on stable storage, over
\* restarts, crashes, lost replies and replies that overtake each other: the
\* verifier of WRITE and COMMIT is the run of the server, and dispatch_write does
\* not pass on an answer less durable than what was asked for.
NoSilentLoss == \A w \in Writes : copy[w] = "safe" => data[w] = "stable"

\* The VFS of an export is only asked about objects of that export that a handle
\* of this run denotes; a good handle of an earlier run is answered with Stale,
\* which tells the client to mount again, and not with BadHandle.
HandlesStayInExport ==
    call # Idle => /\ call.request.own
                   /\ call.request.note.kind = "refused" /\ call.request.note.old =>
                         call.result.status = "Stale"

\* A READ or a WRITE within the sizes that FSINFO told the client reaches the VFS
\* with its full size, so the client need not handle a short transfer.
AdvertisedSizesHold ==
    call # Idle /\ call.request.note.kind \in {"read", "write"} =>
        ~(call.request.note.promised /\ call.request.note.short)
=============================================================================
