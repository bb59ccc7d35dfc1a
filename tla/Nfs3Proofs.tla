----------------------------- MODULE Nfs3Proofs -----------------------------
(***************************************************************************)
(* Proofs about the NFS program, for any exports, objects, pieces of data  *)
(* and limits, and any number of restarts and of replies under way.  What  *)
(* a reply to WRITE or COMMIT says stays true while it is under way        *)
(* (NoteTrue), for as long as the client can act on it: the data of a run    *)
(* may be lost when the run ends, and then the verifier has changed.       *)
(***************************************************************************)
EXTENDS Nfs3, TLAPS

\* What a reply to WRITE or COMMIT tells the client is true in a run with this store.
NoteTrue(n, run, store) ==
    \/ /\ DOMAIN n = {"piece", "verifier", "stable"}
       /\ n.piece \in Writes /\ n.verifier \in 1..run /\ n.stable \in BOOLEAN
       /\ n.stable => store[n.piece] = "stable"
       /\ n.verifier = run => store[n.piece] # "none"
    \/ /\ DOMAIN n = {"kind", "verifier", "covers"}
       /\ n.verifier \in 1..run
       /\ \A w \in DOMAIN n.covers : w \in Writes /\ (n.covers[w] = n.verifier => store[w] = "stable")

\* The data, the copies that the client holds, and the replies under way
DataInv ==
    /\ instance \in Nat \ {0}
    /\ data \in [Writes -> {"none", "volatile", "stable"}]
    /\ copy \in [Writes -> {"unsent", "held", "safe"}] /\ verifier \in [Writes -> 0..instance]
    /\ \A w \in Writes : copy[w] = "safe" => data[w] = "stable"
    /\ \A w \in Writes : copy[w] = "held" /\ verifier[w] = instance => data[w] # "none"
    /\ \A n \in wire : NoteTrue(n, instance, data)

SizesOK(sizes) ==
    /\ sizes.read \in Nat /\ sizes.read <= limits.max_read_size
    /\ sizes.write \in Nat /\ sizes.write <= limits.max_write_size

\* A call in progress: what its reply will tell
CallOK(c) ==
    \/ c = Idle
    \/ /\ c.stage \in {"getattr", "reply"} /\ c.request.own
       /\ c.request.note.kind = "refused" /\ c.request.note.old => c.result.status = "Stale"
       /\ c.request.note.kind \in {"read", "write"} => ~(c.request.note.promised /\ c.request.note.short)
       /\ c.request.note.kind = "fsinfo" => SizesOK(c.request.note)
       /\ c.stage = "getattr" => c.request.note.kind \in {"none", "fsinfo"}
       /\ c.request.note.kind = "write" /\ c.result.status = "Ok" =>
             \A n \in c.request.note.news : NoteTrue(n, instance, data)
       /\ c.request.note.kind = "commit" => NoteTrue(c.request.note, instance, data)

Inv == DataInv /\ SizesOK(advert) /\ CallOK(call)

\* What most calls leave as it is
Quiet == UNCHANGED <<instance, wire, data, client>>

-----------------------------------------------------------------------------
(* Arguments.                                                               *)

\* Arguments are one or two.
LEMMA ArgsDomain ==
    ASSUME NEW proc, NEW args \in Args(proc)
    PROVE  DOMAIN args = {1} \/ DOMAIN args = {1, 2}
BY DEF Args

\* If the arguments are refused, it is for the first that is wrong.
LEMMA RefusalIsFirst ==
    ASSUME NEW proc, NEW args \in Args(proc)
    PROVE  LET status(i) == ArgStatus(args[i], RequestExportId(args))
           IN /\ status(1) # "Ok" => Refusal(args) = status(1)
              /\ Accepted(args) => \A i \in DOMAIN args : status(i) = "Ok"
<1> DEFINE status(i) == ArgStatus(args[i], RequestExportId(args))
           wrong == {i \in DOMAIN args : status(i) # "Ok"}
           first == CHOOSE i \in wrong : \A j \in wrong : i <= j
<1>1. Refusal(args) = IF wrong = {} THEN "Ok" ELSE status(first)
  BY Zenon DEF Refusal
<1>2. DOMAIN args = {1} \/ DOMAIN args = {1, 2}
  BY ArgsDomain, Zenon
<1>3. wrong # {} => \E i \in wrong : \A j \in wrong : i <= j
  BY <1>2
<1>4. wrong # {} => first \in wrong /\ \A j \in wrong : first <= j
  BY <1>3, Zenon
<1>5. 1 \in wrong => first = 1
  BY <1>2, <1>4
<1>6. status(1) # "Ok" => Refusal(args) = status(1)
  BY <1>1, <1>2, <1>5, Zenon
<1>7. Accepted(args) => \A i \in DOMAIN args : status(i) = "Ok"
  BY <1>1, <1>4, Zenon DEF Accepted
<1> QED BY <1>6, <1>7, Zenon

\* The VFS is asked about what the handles denote, if they are accepted.
LEMMA AcceptedIsOwn ==
    ASSUME NEW proc, NEW args \in Args(proc), Accepted(args)
    PROVE  \A p, posts, wccs, note : Request(p, args, posts, wccs, note).own
<1>1. ASSUME NEW i \in DOMAIN args
      PROVE  args[i].handle.run = instance
             /\ Target(args, i) = <<args[i].handle.export, args[i].handle.key>>
  <2> DEFINE h == args[i].handle
             export == RequestExportId(args)
  <2>1. ArgStatus(args[i], export) = "Ok"
    BY RefusalIsFirst, Zenon
  <2>2. DecodeObject(h, export) = "Ok"
    BY <2>1, Zenon DEF ArgStatus
  <2>3. Decode(export, h) = "Ok"
    BY <2>2, Zenon DEF DecodeObject
  <2>4. DecodeAny(h) = "Ok" /\ h.export = export
    BY <2>3, Zenon DEF Decode
  <2>5. h.run = instance
    BY <2>4, Zenon DEF DecodeAny
  <2> QED BY <2>4, <2>5, Zenon DEF Target
<1> QED BY <1>1, Zenon DEF Request

\* A good handle of an earlier run is answered with Stale.
LEMMA OldIsStale ==
    ASSUME NEW proc, NEW args \in Args(proc),
           args[1].handle.flaw = "none", args[1].handle.run # instance
    PROVE  Refusal(args) = "Stale"
<1> DEFINE h == args[1].handle
           export == RequestExportId(args)
<1>1. DecodeAny(h) = "StaleInstance"
  BY Zenon DEF DecodeAny
<1>2. Decode(export, h) = "StaleInstance"
  BY <1>1, Zenon DEF Decode
<1>3. DecodeObject(h, export) = "Stale"
  BY <1>2, Zenon DEF DecodeObject
<1>4. ArgStatus(args[1], export) = "Stale"
  BY <1>3, Zenon DEF ArgStatus
<1> QED BY <1>4, RefusalIsFirst, Zenon

-----------------------------------------------------------------------------
(* Calls that tell the client nothing about its data.                       *)

\* A request carries its note; one without arguments owns all that it uses.
LEMMA RequestFields ==
    \A p, args, posts, wccs, note :
        /\ Request(p, args, posts, wccs, note).note = note
        /\ Request(p, <<>>, posts, wccs, note).own
BY DEF Request

\* What such a request has to keep to
Plain(request, result) ==
    /\ request.own /\ request.note.kind \in {"none", "refused", "read", "fsinfo"}
    /\ request.note.kind = "refused" /\ request.note.old => result.status = "Stale"
    /\ request.note.kind = "read" => ~(request.note.promised /\ request.note.short)
    /\ request.note.kind = "fsinfo" => SizesOK(request.note)

\* The data and the client are as they were.
LEMMA QuietInv ==
    ASSUME Inv, Quiet
    PROVE  DataInv' /\ SizesOK(advert)'
BY DEF Inv, Quiet, client, DataInv, NoteTrue, SizesOK

\* Such a call answers.
LEMMA AnswerInv ==
    ASSUME Inv, Quiet, NEW request, NEW result, Answer(request, result), Plain(request, result)
    PROVE  Inv'
<1>1. call'.stage = "reply" /\ call'.request = request /\ call'.result = result
  BY Zenon DEF Answer, Replied
<1>2. CallOK(call)'
  BY <1>1, Zenon DEF CallOK, Plain, SizesOK
<1> QED BY <1>2, QuietInv, Zenon DEF Inv

\* Such a call awaits the attributes of an object.
LEMMA AwaitInv ==
    ASSUME Inv, Quiet, NEW request, NEW o, NEW result, Await(request, o, result),
           Plain(request, result), request.note.kind \in {"none", "fsinfo"}
    PROVE  Inv'
<1>1. call'.stage = "getattr" /\ call'.request = request /\ call'.result = result
  BY Zenon DEF Await
<1>2. CallOK(call)'
  BY <1>1, Zenon DEF CallOK, Plain, SizesOK
<1> QED BY <1>2, QuietInv, Zenon DEF Inv

\* A request for accepted arguments whose note says nothing
LEMMA NoNoteIsPlain ==
    ASSUME NEW proc, NEW args \in Args(proc), Accepted(args)
    PROVE  \A p, posts, wccs, result :
              /\ Plain(Request(p, args, posts, wccs, NoNote), result)
              /\ Request(p, args, posts, wccs, NoNote).note.kind = "none"
BY AcceptedIsOwn, RequestFields DEF Plain, NoNote

\* Replies without a result
LEMMA EmptyInv == ASSUME Inv, NEW rpc, Empty(rpc) PROVE Inv'
<1> DEFINE request == Request("NULL", <<>>, <<>>, <<>>, NoNote)
<1>1. call'.stage = "reply" /\ call'.request = request /\ Quiet
  BY Zenon DEF Empty, Replied, Quiet
<1>2. request.own /\ request.note.kind = "none"
  BY RequestFields DEF NoNote
<1> HIDE DEF request
<1>3. CallOK(call)'
  BY <1>1, <1>2, Zenon DEF CallOK
<1> QED BY <1>1, <1>3, QuietInv, Zenon DEF Inv

\* Arguments that are refused
LEMMA RefusedInv == ASSUME Inv, Refused PROVE Inv'
<1>0. PICK proc \in Procedures : \E args \in Args(proc) : \E count \in ValidateWriteCount(proc) :
         LET status == IF count = "Ok" THEN Refusal(args) ELSE count
             h == args[1].handle
             old == count = "Ok" /\ h.flaw = "none" /\ h.run # instance
         IN Answer(Request(proc, <<>>, <<>>, <<>>, [kind |-> "refused", old |-> old]),
                   Failure(proc, status))
  BY Zenon DEF Refused
<1>1. PICK args \in Args(proc), count \in ValidateWriteCount(proc) :
         LET status == IF count = "Ok" THEN Refusal(args) ELSE count
             h == args[1].handle
             old == count = "Ok" /\ h.flaw = "none" /\ h.run # instance
         IN Answer(Request(proc, <<>>, <<>>, <<>>, [kind |-> "refused", old |-> old]),
                   Failure(proc, status))
  BY <1>0, Zenon
<1> DEFINE status == IF count = "Ok" THEN Refusal(args) ELSE count
           old == count = "Ok" /\ args[1].handle.flaw = "none" /\ args[1].handle.run # instance
           note == [kind |-> "refused", old |-> old]
           request == Request(proc, <<>>, <<>>, <<>>, note)
<1>2. Answer(request, Failure(proc, status))
  BY <1>1, Zenon
<1>3. old => status = "Stale"
  BY OldIsStale, Zenon
<1>4. Failure(proc, status).status = status
  BY Zenon DEF Failure, Result
<1>5. request.own /\ request.note = note
  BY RequestFields
<1>6. Plain(request, Failure(proc, status))
  <2>1. note.kind = "refused" /\ note.old = old
    BY Zenon
  <2> HIDE DEF request, status, note, old
  <2>2. request.note.kind = "refused" /\ (request.note.old => Failure(proc, status).status = "Stale")
    BY <1>3, <1>4, <1>5, <2>1, Zenon
  <2> QED BY <1>5, <2>2, Zenon DEF Plain
<1>7. Quiet
  BY Zenon DEF Refused, Quiet
<1> HIDE DEF request, status
<1> QED BY <1>2, <1>6, <1>7, AnswerInv, Zenon

\* The VFS fails.
LEMMA VfsFailsInv == ASSUME Inv, VfsFails PROVE Inv'
<1>1. Quiet
  BY Zenon DEF VfsFails, Quiet
<1>2. PICK proc \in Procedures : \E args \in Args(proc) :
         /\ Accepted(args)
         /\ \/ \E o : Await(Request(proc, args, <<o>>, <<>>, NoNote), o, Result("error", <<>>, <<>>, 0))
            \/ Answer(Request(proc, args, <<>>, <<>>, NoNote), Failure(proc, "error"))
  BY Zenon DEF VfsFails
<1> QED BY <1>1, <1>2, NoNoteIsPlain, AnswerInv, AwaitInv, Zenon

\* The VFS returns, and the client is answered.
Answers(proc) ==
    \E args \in Args(proc) :
       /\ Accepted(args)
       /\ \E posts, wccs, result : Answer(Request(proc, args, posts, wccs, NoNote), result)
\* The VFS returns, and the attributes of an object are awaited.
Awaits(proc) ==
    \E args \in Args(proc) :
       /\ Accepted(args)
       /\ \E posts, wccs, o, result : Await(Request(proc, args, posts, wccs, NoNote), o, result)

\* GETATTR, SETATTR, REMOVE, RMDIR, the four that create, and RENAME
LEMMA AnsweringInv ==
    ASSUME Inv,
           \/ GetAttr \/ SetAttr \/ Remove \/ Rmdir
           \/ Create \/ Mkdir \/ Symlink \/ Mknod \/ Rename
    PROVE  Inv'
<1>1. Quiet
  BY Zenon DEF GetAttr, SetAttr, Remove, Rmdir, ChangesOne, Create, Mkdir, Symlink, Mknod, Creates, Rename, Quiet
<1>2. \E proc : Answers(proc)
  <2>1. CASE GetAttr
    BY <2>1, Zenon DEF GetAttr, Answers
  <2>2. ASSUME NEW proc, ChangesOne(proc) PROVE Answers(proc)
    BY <2>2, Zenon DEF ChangesOne, Answers
  <2>3. ASSUME NEW proc, Creates(proc) PROVE Answers(proc)
    BY <2>3, Zenon DEF Creates, Answers
  <2>4. CASE Rename
    BY <2>4, Zenon DEF Rename, Answers
  <2> QED BY <2>1, <2>2, <2>3, <2>4, Zenon DEF SetAttr, Remove, Rmdir, Create, Mkdir, Symlink, Mknod
<1> QED BY <1>1, <1>2, NoNoteIsPlain, AnswerInv, Zenon DEF Answers

\* LOOKUP, LINK, ACCESS, FSSTAT, PATHCONF and READLINK
LEMMA AwaitingInv ==
    ASSUME Inv, Lookup \/ Link \/ Access \/ FsStat \/ PathConf \/ ReadLink
    PROVE  Inv'
<1>1. Quiet
  BY Zenon DEF Lookup, Link, Access, FsStat, PathConf, ReadLink, Queries, Quiet
<1>2. \E proc : Awaits(proc)
  <2>1. CASE Lookup
    BY <2>1, Zenon DEF Lookup, Awaits
  <2>2. CASE Link
    BY <2>2, Zenon DEF Link, Awaits
  <2>3. ASSUME NEW proc, NEW rest, Queries(proc, rest, NoNote) PROVE Awaits(proc)
    BY <2>3, Zenon DEF Queries, Awaits
  <2> QED BY <2>1, <2>2, <2>3, Zenon DEF Access, FsStat, PathConf, ReadLink
<1> QED BY <1>1, <1>2, NoNoteIsPlain, AwaitInv, Zenon DEF Awaits

-----------------------------------------------------------------------------
(* READ and FSINFO.                                                         *)

\* The smaller of two sizes is within both.
LEMMA SmallerBounds ==
    ASSUME NEW a \in Nat, NEW b \in Nat
    PROVE  Smaller(a, b) \in Nat /\ Smaller(a, b) <= b /\ (a <= b => Smaller(a, b) = a)
BY DEF Smaller

\* The limits on transfers are numbers.
LEMMA LimitsAreNat == limits.max_read_size \in Nat /\ limits.max_write_size \in Nat
BY Nfs3Constants, Zenon DEF ServerLimits

\* FSINFO advertises no more than the limits.
LEMMA FsInfoInv == ASSUME Inv, FsInfo PROVE Inv'
<1>1. PICK n \in Counts : Queries("FSINFO", FsInfoResult, AdvertisedSizes(n))
  BY Zenon DEF FsInfo
<1> DEFINE note == AdvertisedSizes(n)
<1>2. n \in Nat
  BY Nfs3Constants, Zenon
<1>3. note.kind = "fsinfo" /\ SizesOK(note)
  BY <1>2, LimitsAreNat, SmallerBounds, Zenon DEF AdvertisedSizes, SizesOK
<1>4. Quiet
  BY <1>1, Zenon DEF Queries, Quiet
<1> HIDE DEF note
<1>5. PICK args \in Args("FSINFO") : Accepted(args)
         /\ \E o : Await(Request("FSINFO", args, <<o>>, <<>>, note), o, Result("Ok", <<>>, <<>>, FsInfoResult))
  BY <1>1, Zenon DEF Queries, note
<1>6. \A o : Request("FSINFO", args, <<o>>, <<>>, note).own /\ Request("FSINFO", args, <<o>>, <<>>, note).note = note
  BY <1>5, AcceptedIsOwn, RequestFields
<1>7. \A o, result : Plain(Request("FSINFO", args, <<o>>, <<>>, note), result)
  BY <1>3, <1>6, Zenon DEF Plain
<1> QED BY <1>3, <1>4, <1>5, <1>6, <1>7, AwaitInv, Zenon

\* A READ of what FSINFO promised is not cut.
LEMMA ReadInv == ASSUME Inv, Read PROVE Inv'
<1>1. PICK args \in Args("READ"), asked \in Counts :
         /\ Accepted(args)
         /\ \E posts, result :
               Answer(Request("READ", args, posts, <<>>,
                              [kind |-> "read", short |-> Smaller(asked, limits.max_read_size) < asked,
                               promised |-> asked <= advert.read]), result)
  BY Zenon DEF Read
<1> DEFINE note == [kind |-> "read", short |-> Smaller(asked, limits.max_read_size) < asked,
                    promised |-> asked <= advert.read]
<1>2. PICK posts, result : Answer(Request("READ", args, posts, <<>>, note), result)
  BY <1>1, Zenon
<1>3. asked \in Nat /\ advert.read \in Nat /\ advert.read <= limits.max_read_size
  BY Nfs3Constants, Zenon DEF Inv, SizesOK
<1>4. note.kind = "read" /\ ~(note.promised /\ note.short)
  <2>1. /\ note.kind = "read" /\ note.promised = (asked <= advert.read)
        /\ note.short = (Smaller(asked, limits.max_read_size) < asked)
    BY Zenon
  <2>2. ~(asked <= advert.read /\ Smaller(asked, limits.max_read_size) < asked)
    BY <1>3, LimitsAreNat DEF Smaller
  <2> HIDE DEF note
  <2> QED BY <2>1, <2>2, Zenon
<1> DEFINE request == Request("READ", args, posts, <<>>, note)
<1>5. request.own /\ request.note = note
  BY <1>1, AcceptedIsOwn, RequestFields
<1>6. Answer(request, result)
  BY <1>2, Zenon
<1> HIDE DEF note, request
<1>7. Plain(request, result)
  BY <1>4, <1>5, Zenon DEF Plain
<1>8. Quiet
  BY Zenon DEF Read, Quiet
<1> QED BY <1>6, <1>7, <1>8, AnswerInv, Zenon

-----------------------------------------------------------------------------
(* WRITE and COMMIT.                                                        *)

\* Within a run, what is stable stays so, and what is there stays there.
DataGrows ==
    /\ UNCHANGED <<instance, wire, client>>
    /\ data' \in [Writes -> {"none", "volatile", "stable"}]
    /\ \A w \in Writes : /\ data[w] = "stable" => data'[w] = "stable"
                         /\ data[w] # "none" => data'[w] # "none"

\* Then what replies say stays true.
LEMMA GrowsInv ==
    ASSUME Inv, DataGrows
    PROVE  DataInv' /\ SizesOK(advert)'
<1>1. ASSUME NEW n, NoteTrue(n, instance, data) PROVE NoteTrue(n, instance', data')
  BY <1>1, Zenon DEF DataGrows, NoteTrue
<1>2. \A n \in wire' : NoteTrue(n, instance', data')
  BY <1>1, Zenon DEF Inv, DataInv, DataGrows
<1>3. /\ instance' \in Nat \ {0} /\ data' \in [Writes -> {"none", "volatile", "stable"}]
      /\ copy' \in [Writes -> {"unsent", "held", "safe"}] /\ verifier' \in [Writes -> 0..instance']
  BY Zenon DEF Inv, DataInv, DataGrows, client
<1>4. \A w \in Writes : /\ copy'[w] = "safe" => data'[w] = "stable"
                        /\ copy'[w] = "held" /\ verifier'[w] = instance' => data'[w] # "none"
  BY Zenon DEF Inv, DataInv, DataGrows, client
<1>5. SizesOK(advert)'
  BY Zenon DEF Inv, DataGrows, client, SizesOK
<1> QED BY <1>2, <1>3, <1>4, <1>5, Zenon DEF DataInv

\* A WRITE with these arguments, for which the VFS reports committed
Writing(args, w, length, requested, committed) ==
    LET file == Target(args, 1)
        permitted == Smaller(length, limits.max_write_size)
        ours == file = DataFile
    IN /\ Accepted(args) /\ Changes({file})
       /\ ours => copy[w] = "unsent"
       /\ \E count \in {0, 1, permitted, permitted + 1}, wcc \in MaybeWcc(file) :
             LET whole == ours /\ permitted = length /\ count >= length
                 fine == /\ count <= permitted /\ (permitted = 0 \/ count # 0)
                         /\ DurabilitySatisfies(committed, requested)
             IN /\ data' = [data EXCEPT ![w] =
                              IF ~whole \/ @ = "stable" THEN @
                              ELSE IF committed = "Unstable" THEN "volatile" ELSE "stable"]
                /\ Answer(Request("WRITE", args, <<>>, <<file>>,
                                  [kind |-> "write", short |-> permitted < length,
                                   promised |-> length <= advert.write,
                                   news |-> IF whole THEN {[piece |-> w, verifier |-> WriteVerifier(instance),
                                                            stable |-> ~(requested = "Unstable" /\ committed = "Unstable")]}
                                            ELSE {}]),
                          IF fine THEN Result("Ok", <<>>, <<wcc>>, WriteResult)
                          ELSE Result("ServerFault", <<>>, <<wcc>>, 0))

\* A WRITE tells the truth about its data, since a VFS that did less than it was
\* asked for is answered with ServerFault.
LEMMA WriteInv == ASSUME Inv, Write PROVE Inv'
<1> DEFINE Permitted(length) == Smaller(length, limits.max_write_size)
           Whole(args, length, count) ==
               Target(args, 1) = DataFile /\ Permitted(length) = length /\ count >= length
           News(w, requested, committed) ==
               [piece |-> w, verifier |-> WriteVerifier(instance),
                stable |-> ~(requested = "Unstable" /\ committed = "Unstable")]
           Note(whole, length, news) ==
               [kind |-> "write", short |-> Permitted(length) < length,
                promised |-> length <= advert.write, news |-> IF whole THEN {news} ELSE {}]
<1>1. PICK args \in Args("WRITE"), w \in Writes, length \in Counts,
           requested \in Stability, committed \in Stability :
         Writing(args, w, length, requested, committed)
  BY Zenon DEF Write, Writing
<1>2. PICK count, result :
         LET whole == Whole(args, length, count)
         IN /\ data' = [data EXCEPT ![w] =
                          IF ~whole \/ @ = "stable" THEN @
                          ELSE IF committed = "Unstable" THEN "volatile" ELSE "stable"]
            /\ Answer(Request("WRITE", args, <<>>, <<Target(args, 1)>>,
                              Note(whole, length, News(w, requested, committed))), result)
            /\ result.status = "Ok" => DurabilitySatisfies(committed, requested)
  <2>1. PICK count \in {0, 1, Permitted(length), Permitted(length) + 1}, wcc \in MaybeWcc(Target(args, 1)) :
           LET whole == Whole(args, length, count)
               fine == /\ count <= Permitted(length) /\ (Permitted(length) = 0 \/ count # 0)
                       /\ DurabilitySatisfies(committed, requested)
           IN /\ data' = [data EXCEPT ![w] =
                            IF ~whole \/ @ = "stable" THEN @
                            ELSE IF committed = "Unstable" THEN "volatile" ELSE "stable"]
              /\ Answer(Request("WRITE", args, <<>>, <<Target(args, 1)>>,
                                Note(whole, length, News(w, requested, committed))),
                        IF fine THEN Result("Ok", <<>>, <<wcc>>, WriteResult)
                        ELSE Result("ServerFault", <<>>, <<wcc>>, 0))
    BY <1>1, Zenon DEF Writing
  <2> DEFINE fine == /\ count <= Permitted(length) /\ (Permitted(length) = 0 \/ count # 0)
                     /\ DurabilitySatisfies(committed, requested)
             result == IF fine THEN Result("Ok", <<>>, <<wcc>>, WriteResult)
                       ELSE Result("ServerFault", <<>>, <<wcc>>, 0)
  <2>2. result.status = "Ok" => DurabilitySatisfies(committed, requested)
    BY Zenon DEF Result
  <2> HIDE DEF Whole, Note, News, result
  <2> WITNESS count, result
  <2> QED BY <2>1, <2>2, Zenon DEF result
<1> DEFINE whole == Whole(args, length, count)
           news == News(w, requested, committed)
           note == Note(whole, length, news)
           request == Request("WRITE", args, <<>>, <<Target(args, 1)>>, note)
<1>3. /\ data' = [data EXCEPT ![w] = IF ~whole \/ @ = "stable" THEN @
                                     ELSE IF committed = "Unstable" THEN "volatile" ELSE "stable"]
      /\ Answer(request, result)
      /\ result.status = "Ok" => DurabilitySatisfies(committed, requested)
  BY <1>2, Zenon
<1>4. UNCHANGED <<instance, wire, client>>
  BY Zenon DEF Write
<1>5. DataGrows
  BY <1>3, <1>4, Zenon DEF DataGrows, Inv, DataInv
<1>6. request.own /\ request.note = note
  BY <1>1, AcceptedIsOwn, RequestFields DEF Writing
<1>7. /\ note.kind = "write" /\ note.news = (IF whole THEN {news} ELSE {})
      /\ note.promised = (length <= advert.write) /\ note.short = (Permitted(length) < length)
  BY Zenon
<1>8. ~(length <= advert.write /\ Permitted(length) < length)
  <2>1. length \in Nat /\ advert.write \in Nat /\ advert.write <= limits.max_write_size
    BY Nfs3Constants, Zenon DEF Inv, SizesOK
  <2> QED BY <2>1, LimitsAreNat DEF Smaller
<1>9. ASSUME whole, result.status = "Ok" PROVE NoteTrue(news, instance', data')
  <2>1. data'[w] = IF data[w] = "stable" THEN "stable"
                   ELSE IF committed = "Unstable" THEN "volatile" ELSE "stable"
    <3> HIDE DEF whole
    <3> QED BY <1>3, <1>9, Zenon DEF Inv, DataInv
  <2>2. committed = "Unstable" => requested = "Unstable"
    BY <1>3, <1>9, Zenon DEF DurabilitySatisfies
  <2>3. /\ DOMAIN news = {"piece", "verifier", "stable"} /\ news.piece = w /\ news.verifier = instance
        /\ news.stable = ~(requested = "Unstable" /\ committed = "Unstable")
    BY Zenon DEF WriteVerifier
  <2> HIDE DEF news
  <2>4. news.stable \in BOOLEAN /\ (news.stable => data'[w] = "stable")
    <3>1. news.stable => committed # "Unstable"
      BY <2>2, <2>3, Zenon
    <3>2. news.stable \in BOOLEAN
      BY <2>3, Zenon
    <3> QED BY <2>1, <3>1, <3>2, Zenon
  <2>5. data'[w] # "none"
    BY <2>1, Zenon
  <2>6. instance' = instance /\ instance \in 1..instance
    BY <1>4 DEF Inv, DataInv
  <2> QED BY <2>3, <2>4, <2>5, <2>6, Zenon DEF NoteTrue
<1>10. call'.stage = "reply" /\ call'.request = request /\ call'.result = result
  BY <1>3, Zenon DEF Answer, Replied
<1> HIDE DEF request, note, news, whole, Permitted
<1>11. ~(note.promised /\ note.short)
  BY <1>7, <1>8, Zenon
<1>12. result.status = "Ok" => \A n \in note.news : NoteTrue(n, instance', data')
  BY <1>7, <1>9, Zenon
<1>13. CallOK(call)'
  BY <1>6, <1>7, <1>10, <1>11, <1>12, Zenon DEF CallOK
<1> QED BY <1>5, <1>13, GrowsInv, Zenon DEF Inv

\* A COMMIT tells the truth about what the client holds of this run.
LEMMA CommitInv == ASSUME Inv, Commit PROVE Inv'
<1> DEFINE Covers(file) == IF file = DataFile THEN {w \in Writes : copy[w] = "held"} ELSE {}
           Note(file) == [kind |-> "commit", verifier |-> WriteVerifier(instance),
                          covers |-> [w \in Covers(file) |-> verifier[w]]]
<1>1. PICK args \in Args("COMMIT") :
         /\ Accepted(args)
         /\ data' = [w \in Writes |-> IF Target(args, 1) = DataFile /\ data[w] = "volatile"
                                      THEN "stable" ELSE data[w]]
         /\ \E result : Answer(Request("COMMIT", args, <<>>, <<Target(args, 1)>>, Note(Target(args, 1))), result)
  BY Zenon DEF Commit
<1> DEFINE file == Target(args, 1)
           note == Note(file)
           request == Request("COMMIT", args, <<>>, <<file>>, note)
<1>2. PICK result : Answer(request, result)
  BY <1>1, Zenon
<1>3. UNCHANGED <<instance, wire, client>>
  BY Zenon DEF Commit
<1>4. DataGrows
  BY <1>1, <1>3, Zenon DEF DataGrows, Inv, DataInv
<1>5. request.own /\ request.note = note
  BY <1>1, AcceptedIsOwn, RequestFields
<1>6. /\ DOMAIN note = {"kind", "verifier", "covers"} /\ note.kind = "commit"
      /\ note.verifier = instance /\ DOMAIN note.covers = Covers(file)
      /\ \A w \in Covers(file) : note.covers[w] = verifier[w]
  BY Zenon DEF WriteVerifier
<1>7. ASSUME NEW w \in Covers(file), verifier[w] = instance PROVE w \in Writes /\ data'[w] = "stable"
  <2>1. file = DataFile /\ w \in Writes /\ copy[w] = "held"
    BY <1>7, Zenon
  <2>2. data[w] \in {"volatile", "stable"}
    BY <1>7, <2>1, Zenon DEF Inv, DataInv
  <2> QED BY <1>1, <2>1, <2>2, Zenon
<1>8. Covers(file) \subseteq Writes
  BY Zenon
<1>9. call'.stage = "reply" /\ call'.request = request
  BY <1>2, Zenon DEF Answer, Replied
<1>10. instance' = instance /\ instance \in 1..instance
  BY <1>3 DEF Inv, DataInv
<1> HIDE DEF request, note, Covers
<1>11. NoteTrue(note, instance', data')
  BY <1>6, <1>7, <1>8, <1>10, Zenon DEF NoteTrue
<1>12. CallOK(call)'
  BY <1>5, <1>6, <1>9, <1>11, Zenon DEF CallOK
<1> QED BY <1>4, <1>12, GrowsInv, Zenon DEF Inv

-----------------------------------------------------------------------------
(* The second await, the way back, and faults.                              *)

\* The call returns from its second await, or others change what it asks about.
LEMMA SecondAwaitInv == ASSUME Inv, GetAttrReturns \/ Elsewhere PROVE Inv'
<1>1. Quiet
  BY Zenon DEF GetAttrReturns, Elsewhere, Quiet
<1>2. CASE GetAttrReturns
  <2>1. call.stage = "getattr" /\ call # Idle
    BY <1>2 DEF GetAttrReturns, Idle
  <2>2. call'.stage = "reply" /\ call'.request = call.request
    BY <1>2 DEF GetAttrReturns, Replied
  <2>3. CallOK(call)'
    BY <2>1, <2>2, Zenon DEF Inv, CallOK, SizesOK
  <2> QED BY <1>1, <2>3, QuietInv, Zenon DEF Inv
<1>3. CASE Elsewhere
  <2>1. UNCHANGED call
    BY <1>3, Zenon DEF Elsewhere
  <2>2. CallOK(call)'
    BY <1>1, <2>1, Zenon DEF Inv, Quiet, CallOK, SizesOK, Idle
  <2> QED BY <1>1, <2>2, QuietInv, Zenon DEF Inv
<1> QED BY <1>2, <1>3, Zenon

\* The reply is on its way: what it tells was true of the call.
LEMMA SentInv == ASSUME Inv, Sent PROVE Inv'
<1> DEFINE note == call.request.note
           told == call.rpc = "SUCCESS" /\ call.result.status = "Ok"
           news == CASE told /\ note.kind = "write" -> note.news
                     [] told /\ note.kind = "commit" -> {note}
                     [] OTHER -> {}
<1>1. /\ call.stage = "reply" /\ wire' = wire \cup news
      /\ advert' = IF told /\ note.kind = "fsinfo" THEN [read |-> note.read, write |-> note.write] ELSE advert
      /\ call' = Idle /\ UNCHANGED <<instance, data, copy, verifier>>
  BY Zenon DEF Sent
<1>2. call # Idle
  BY <1>1 DEF Idle
<1>3. \A n \in news : NoteTrue(n, instance, data)
  <2>1. CASE told /\ note.kind = "write"
    BY <1>2, <2>1, Zenon DEF Inv, CallOK
  <2>2. CASE told /\ note.kind = "commit"
    BY <1>2, <2>2, Zenon DEF Inv, CallOK
  <2>3. CASE ~(told /\ note.kind = "write") /\ ~(told /\ note.kind = "commit")
    BY <2>3, Zenon
  <2> QED BY <2>1, <2>2, <2>3, Zenon
<1>4. SizesOK(advert)'
  BY <1>1, <1>2, Zenon DEF Inv, CallOK, SizesOK
<1> HIDE DEF news
<1>5. DataInv'
  BY <1>1, <1>3, Zenon DEF Inv, DataInv
<1>6. CallOK(call)'
  BY <1>1, Zenon DEF CallOK, Idle
<1> QED BY <1>4, <1>5, <1>6, Zenon DEF Inv

\* The call is dropped.
LEMMA DroppedInv == ASSUME Inv, Dropped PROVE Inv'
<1>1. Quiet /\ call' = Idle
  BY Zenon DEF Dropped, Quiet
<1>2. CallOK(call)'
  BY <1>1, Zenon DEF CallOK, Idle
<1> QED BY <1>1, <1>2, QuietInv, Zenon DEF Inv

\* In a new run every verifier that the client has seen is old.
LEMMA RestartInv == ASSUME Inv, Restart PROVE Inv'
<1>1. /\ instance \in Nat \ {0} /\ instance' = instance + 1 /\ call' = Idle
      /\ UNCHANGED <<wire, copy, verifier, advert>>
      /\ data' \in [Writes -> {"none", "volatile", "stable"}]
      /\ \A w \in Writes : data[w] = "stable" => data'[w] = "stable"
  BY Zenon DEF Inv, DataInv, Restart, client
<1>2. ASSUME NEW n, NoteTrue(n, instance, data) PROVE NoteTrue(n, instance', data')
  <2>1. \A v \in 1..instance : v \in 1..instance' /\ v # instance'
    BY <1>1
  <2> QED BY <1>1, <1>2, <2>1, Zenon DEF NoteTrue
<1>3. \A n \in wire' : NoteTrue(n, instance', data')
  BY <1>1, <1>2, Zenon DEF Inv, DataInv
<1>4. \A w \in Writes : verifier'[w] \in 0..instance' /\ verifier'[w] # instance'
  BY <1>1 DEF Inv, DataInv
<1>5. DataInv'
  BY <1>1, <1>3, <1>4 DEF Inv, DataInv
<1>6. SizesOK(advert)' /\ CallOK(call)'
  BY <1>1, Zenon DEF Inv, SizesOK, CallOK, Idle
<1> QED BY <1>5, <1>6, Zenon DEF Inv

\* A reply to WRITE reaches the client.
LEMMA ReceiveWriteInv == ASSUME Inv, ReceiveWrite PROVE Inv'
<1>1. PICK n \in wire :
         /\ "piece" \in DOMAIN n /\ wire' = wire \ {n}
         /\ IF copy[n.piece] = "safe" THEN UNCHANGED <<copy, verifier>>
            ELSE /\ copy' = [copy EXCEPT ![n.piece] = IF n.stable THEN "safe" ELSE "held"]
                 /\ verifier' = [verifier EXCEPT ![n.piece] = n.verifier]
         /\ UNCHANGED <<instance, call, version, data, advert>>
  BY Zenon DEF ReceiveWrite
<1>2. /\ n.piece \in Writes /\ n.verifier \in 1..instance /\ n.stable \in BOOLEAN
      /\ n.stable => data[n.piece] = "stable"
      /\ n.verifier = instance => data[n.piece] # "none"
  <2>1. NoteTrue(n, instance, data)
    BY Zenon DEF Inv, DataInv
  <2> QED BY <1>1, <2>1 DEF NoteTrue
<1>3. DataInv'
  <2>1. \A m \in wire' : NoteTrue(m, instance', data')
    BY <1>1, Zenon DEF Inv, DataInv
  <2>2. CASE copy[n.piece] = "safe"
    BY <1>1, <2>1, <2>2, Zenon DEF Inv, DataInv
  <2>3. CASE copy[n.piece] # "safe"
    <3>1. /\ copy' = [copy EXCEPT ![n.piece] = IF n.stable THEN "safe" ELSE "held"]
          /\ verifier' = [verifier EXCEPT ![n.piece] = n.verifier]
          /\ instance' = instance /\ data' = data
      BY <1>1, <2>3, Zenon
    <3>2. copy' \in [Writes -> {"unsent", "held", "safe"}] /\ verifier' \in [Writes -> 0..instance]
      BY <1>2, <3>1 DEF Inv, DataInv
    <3>3. \A w \in Writes : copy'[w] = "safe" => data[w] = "stable"
      BY <1>2, <3>1, Zenon DEF Inv, DataInv
    <3>4. \A w \in Writes : copy'[w] = "held" /\ verifier'[w] = instance => data[w] # "none"
      BY <1>2, <3>1, Zenon DEF Inv, DataInv
    <3> QED BY <2>1, <3>1, <3>2, <3>3, <3>4, Zenon DEF Inv, DataInv
  <2> QED BY <2>2, <2>3, Zenon
<1>4. SizesOK(advert)' /\ CallOK(call)'
  BY <1>1, Zenon DEF Inv, SizesOK, CallOK, Idle
<1> QED BY <1>3, <1>4, Zenon DEF Inv

\* A reply to COMMIT reaches the client.
LEMMA ReceiveCommitInv == ASSUME Inv, ReceiveCommit PROVE Inv'
<1> DEFINE Settled(n) == {w \in DOMAIN n.covers : copy[w] = "held" /\ verifier[w] = n.covers[w]}
<1>1. PICK n \in wire :
         /\ "covers" \in DOMAIN n /\ wire' = wire \ {n}
         /\ copy' = [w \in Writes |-> IF w \notin Settled(n) THEN copy[w]
                                      ELSE IF verifier[w] = n.verifier THEN "safe" ELSE "unsent"]
         /\ UNCHANGED <<instance, call, version, data, verifier, advert>>
  BY Zenon DEF ReceiveCommit
<1>2. \A w \in DOMAIN n.covers : n.covers[w] = n.verifier => data[w] = "stable"
  <2>1. NoteTrue(n, instance, data)
    BY Zenon DEF Inv, DataInv
  <2> QED BY <1>1, <2>1 DEF NoteTrue
<1>3. \A m \in wire' : NoteTrue(m, instance', data')
  BY <1>1, Zenon DEF Inv, DataInv
<1>4. \A w \in Writes : copy'[w] = "safe" => data[w] = "stable"
  BY <1>1, <1>2, Zenon DEF Inv, DataInv
<1>5. \A w \in Writes : copy'[w] = "held" => copy[w] = "held"
  BY <1>1, Zenon
<1>6. copy' \in [Writes -> {"unsent", "held", "safe"}]
  BY <1>1, Zenon DEF Inv, DataInv
<1>7. DataInv'
  BY <1>1, <1>3, <1>4, <1>5, <1>6, Zenon DEF Inv, DataInv
<1>8. SizesOK(advert)' /\ CallOK(call)'
  BY <1>1, Zenon DEF Inv, SizesOK, CallOK, Idle
<1> QED BY <1>7, <1>8, Zenon DEF Inv

-----------------------------------------------------------------------------
(* The theorems.                                                            *)

\* The server starts in its first run, with nothing sent.
LEMMA InitInv == Init => Inv
<1> SUFFICES ASSUME Init PROVE Inv
  BY Zenon
<1>1. DataInv
  BY DEF Init, DataInv
<1>2. SizesOK(advert)
  BY LimitsAreNat DEF Init, SizesOK
<1>3. CallOK(call)
  BY Zenon DEF Init, CallOK
<1> QED BY <1>1, <1>2, <1>3, Zenon DEF Inv

\* Every step keeps the invariant.
LEMMA StepInv == ASSUME Inv, [Next]_vars PROVE Inv'
<1>1. CASE Next
  <2>1. CASE OtherProgram \/ NullOrUnknown \/ Malformed
    BY <2>1, EmptyInv, Zenon DEF OtherProgram, NullOrUnknown, Malformed
  <2>2. CASE \/ GetAttr \/ SetAttr \/ Remove \/ Rmdir
             \/ Create \/ Mkdir \/ Symlink \/ Mknod \/ Rename
    BY <2>2, AnsweringInv, Zenon
  <2>3. CASE Lookup \/ Link \/ Access \/ FsStat \/ PathConf \/ ReadLink
    BY <2>3, AwaitingInv, Zenon
  <2> QED BY <1>1, <2>1, <2>2, <2>3, RefusedInv, VfsFailsInv, FsInfoInv, ReadInv, WriteInv, CommitInv,
             SecondAwaitInv, SentInv, DroppedInv, RestartInv, ReceiveWriteInv, ReceiveCommitInv, Zenon DEF Next
<1>2. CASE UNCHANGED vars
  <2>1. Quiet /\ UNCHANGED call
    BY <1>2, Zenon DEF vars, Quiet, client
  <2>2. CallOK(call)'
    BY <2>1, Zenon DEF Inv, Quiet, CallOK, SizesOK, Idle
  <2> QED BY <2>1, <2>2, QuietInv, Zenon DEF Inv
<1> QED BY <1>1, <1>2, Zenon

\* The invariant holds in every reachable state.
THEOREM Invariance == Spec => []Inv
<1>1. Inv /\ [Next]_vars => Inv'
  BY StepInv, Zenon
<1> QED BY <1>1, InitInv, PTL DEF Spec

\* Data that the client no longer keeps is on stable storage: the verifier of WRITE and
\* COMMIT changes with every run, and dispatch_write passes on no answer that is
\* less durable than what was asked for.  There may be any number of restarts, and
\* replies may be lost and overtake each other.
THEOREM DataIsNotLost == Spec => []NoSilentLoss
<1>1. Inv => NoSilentLoss
  BY Zenon DEF Inv, DataInv, NoSilentLoss
<1> QED BY <1>1, Invariance, PTL

\* HandleCodec::decode and decode_any let through only handles of this run, each to the
\* export that it belongs to, and tell old handles from bad ones.
THEOREM HandlesAreScoped == Spec => []HandlesStayInExport
<1>1. Inv => HandlesStayInExport
  BY Zenon DEF Inv, CallOK, HandlesStayInExport
<1> QED BY <1>1, Invariance, PTL

\* READ and WRITE never cut what is within the sizes that FSINFO advertised.
THEOREM SizesAreHonoured == Spec => []AdvertisedSizesHold
<1>1. Inv => AdvertisedSizesHold
  BY Zenon DEF Inv, CallOK, AdvertisedSizesHold
<1> QED BY <1>1, Invariance, PTL

-----------------------------------------------------------------------------
(* What ServerLimits::validate guarantees, for all limits it accepts.       *)

\* Rounding up the quotient and multiplying back are each other's adjoint.
LEMMA DivCeilGalois ==
    ASSUME NEW a \in Nat, NEW b \in Nat \ {0}, NEW n \in Nat
    PROVE  DivCeil(a, b) <= n <=> a <= b * n
<1> DEFINE q == a \div b
           m == a % b
<1>1. q \in Nat /\ m \in 0..(b - 1) /\ a = b * q + m
  OBVIOUS
<1>2. DivCeil(a, b) = q + (IF m = 0 THEN 0 ELSE 1)
  BY Zenon DEF DivCeil
<1> HIDE DEF q, m
<1>3. CASE m = 0
  <2>1. q <= n => b * q <= b * n
    BY <1>1
  <2>2. n < q => b * n < b * q
    BY <1>1
  <2> QED BY <1>1, <1>2, <1>3, <2>1, <2>2
<1>4. CASE m # 0
  <2>1. q + 1 <= n => b * (q + 1) <= b * n
    BY <1>1
  <2>2. n <= q => b * n <= b * q
    BY <1>1
  <2>3. b * (q + 1) = b * q + b
    BY <1>1
  <2> QED BY <1>1, <1>2, <1>4, <2>1, <2>2, <2>3
<1> QED BY <1>3, <1>4, Zenon

\* Limits that validate accepts have a positive fragment size, and their
\* capacity is a number.
LEMMA TransportTypes ==
    ASSUME NEW l \in ServerLimits, TransportValid(l)
    PROVE  /\ l.max_rpc_record_size \in Nat
           /\ l.max_rpc_fragment_size \in Nat \ {0}
           /\ l.max_fragments_per_record \in Nat
           /\ l.max_rpc_record_size <= USIZE_MAX
           /\ TransportRecordCapacity(l) \in Nat
<1>1. /\ l.max_rpc_record_size \in Nat /\ l.max_rpc_fragment_size \in Nat \ {0}
      /\ l.max_fragments_per_record \in Nat /\ l.max_rpc_record_size <= U32_MAX
  BY Zenon DEF ServerLimits, TransportValid
<1>2. l.max_rpc_fragment_size * l.max_fragments_per_record \in Nat
  BY <1>1
<1>3. TransportRecordCapacity(l) \in Nat
  BY <1>1, <1>2, PlatformConstants, Zenon DEF TransportRecordCapacity, SaturatingMul, Smaller
<1> QED BY <1>1, <1>3, PlatformConstants

\* transport_record_capacity, which validate compares the transfer limits with, is
\* exactly the largest record that validate_record_length and
\* outbound_length_fits let out: the two computations, one with a saturating
\* product and one with a rounded quotient, never disagree.
THEOREM CapacityIsExact ==
    ASSUME NEW l \in ServerLimits, TransportValid(l), NEW n \in Nat
    PROVE  OutboundLengthFits(n, l) <=> n <= TransportRecordCapacity(l)
<1> DEFINE r == l.max_rpc_record_size
           f == l.max_rpc_fragment_size
           m == l.max_fragments_per_record
<1>1. r \in Nat /\ f \in Nat \ {0} /\ m \in Nat /\ r <= USIZE_MAX
  BY TransportTypes, Zenon
<1>2. OutboundLengthFits(n, l) <=> n <= r /\ n <= f * m
  <2> HIDE DEF r, f, m
  <2>1. DivCeil(n, f) <= m <=> n <= f * m
    BY <1>1, DivCeilGalois, Zenon
  <2> QED BY <2>1, Zenon DEF OutboundLengthFits, r, f, m
<1>3. TransportRecordCapacity(l) = Smaller(r, Smaller(f * m, USIZE_MAX))
  BY Zenon DEF TransportRecordCapacity, SaturatingMul
<1> HIDE DEF r, f, m
<1>4. f * m \in Nat
  BY <1>1
<1> QED BY <1>1, <1>2, <1>3, <1>4, PlatformConstants DEF Smaller

\* A server with limits that validate accepts can send every mutation reply, and
\* so every smaller one: no side effect is executed whose reply, or the system
\* error in place of a reply, execute_request then has to withhold.
THEOREM MutationRepliesFit ==
    ASSUME NEW l \in ServerLimits, Validate(l), NEW n \in 0..MAXIMUM_MUTATION_REPLY_SIZE
    PROVE  OutboundLengthFits(n, l)
<1>1. TransportValid(l) /\ OutboundLengthFits(MAXIMUM_MUTATION_REPLY_SIZE, l)
  BY Zenon DEF Validate, MutationReplyFits
<1>2. MAXIMUM_MUTATION_REPLY_SIZE \in Nat /\ n \in Nat /\ n <= MAXIMUM_MUTATION_REPLY_SIZE
  BY DEF MAXIMUM_MUTATION_REPLY_SIZE
<1>3. MAXIMUM_MUTATION_REPLY_SIZE <= TransportRecordCapacity(l)
  BY <1>1, <1>2, CapacityIsExact, Zenon
<1>4. n <= TransportRecordCapacity(l)
  BY <1>1, <1>2, <1>3, TransportTypes
<1> QED BY <1>1, <1>2, <1>4, CapacityIsExact, Zenon

\* With limits that validate accepts, a READ or READDIR that stays within its
\* transfer limit has a reply that fits one record, and a WRITE within its limit
\* is a call that fits one.
THEOREM TransfersFit ==
    ASSUME NEW l \in ServerLimits, Validate(l), NEW n \in Nat
    PROVE  /\ n <= l.max_read_size => OutboundLengthFits(MAXIMUM_READ_REPLY_OVERHEAD + n, l)
           /\ n <= l.max_write_size => OutboundLengthFits(MAXIMUM_WRITE_RECORD_OVERHEAD + n, l)
           /\ n <= l.max_readdir_response_size =>
                 OutboundLengthFits(READDIR_REPLY_OVERHEAD + n, l)
<1>1. TransportValid(l) /\ TransfersValid(l)
  BY Zenon DEF Validate
<1>2. TransportRecordCapacity(l) \in Nat
  BY <1>1, TransportTypes, Zenon
<1>3. ASSUME NEW size \in Nat, NEW overhead \in Nat, n <= size, size # 0,
             size <= SaturatingSub(TransportRecordCapacity(l), overhead)
      PROVE  OutboundLengthFits(overhead + n, l)
  <2>1. overhead + n <= TransportRecordCapacity(l)
    BY <1>2, <1>3 DEF SaturatingSub
  <2> QED BY <1>1, <2>1, CapacityIsExact
<1>4. /\ l.max_read_size \in Nat /\ l.max_write_size \in Nat
      /\ l.max_readdir_response_size \in Nat
  BY Zenon DEF ServerLimits
<1>5. /\ MAXIMUM_READ_REPLY_OVERHEAD \in Nat /\ MAXIMUM_WRITE_RECORD_OVERHEAD \in Nat
      /\ READDIR_REPLY_OVERHEAD \in Nat
  BY DEF MAXIMUM_READ_REPLY_OVERHEAD, MAXIMUM_WRITE_RECORD_OVERHEAD, READDIR_REPLY_OVERHEAD,
         MAX_VALID_RPC_CALL_PREFIX_SIZE, WRITE_ARGUMENT_FIXED_SIZE
<1> QED BY <1>1, <1>3, <1>4, <1>5, Zenon DEF TransfersValid

-----------------------------------------------------------------------------
(* What a reply describes, and that it can be sent.  Apart from READ and    *)
(* READLINK, no result is larger than the one validate leaves room for.     *)

PostSets == SUBSET [object : Objects, version : Nat]
Wccs == [before : PostSets, after : PostSets]
Statuses == {"Ok", "error", "ServerFault", "Stale", "BadHandle", "NameTooLong", "Invalid"}
Results == [status : Statuses, posts : Seq(PostSets), wccs : Seq(Wccs), rest : Int]

\* The arms of a result describe the objects that the request names.
Arranged(request, result) ==
    /\ \A i \in DOMAIN result.posts : Of(result.posts[i], request.posts[i])
    /\ \A i \in DOMAIN result.wccs :
          Of(result.wccs[i].before \cup result.wccs[i].after, request.wccs[i])

\* A result that a handler hands over to be sent
Complete(request, result) ==
    /\ result \in Results
    /\ <<Len(result.posts), Len(result.wccs)>> = Arms(request.proc, result.status = "Ok")
    /\ Arranged(request, result)
    /\ request.proc # "READLINK" => OutboundLengthFits(Size(result), limits)

\* The largest result with p optional attributes and q times WCC data
Largest(rest, p, q) == 28 + rest + 88 * p + 116 * q

\* A result that lacks the attributes of o, which the handler still asks for
Pending(request, o, result) ==
    /\ result \in Results
    /\ <<Len(result.posts) + 1, Len(result.wccs)>> = Arms(request.proc, result.status = "Ok")
    /\ Arranged(request, result)
    /\ request.posts[Len(result.posts) + 1] = o
    /\ Len(result.posts) \in 0..1 /\ Len(result.wccs) \in 0..2
    /\ request.proc # "READLINK" =>
          /\ result.rest \in Nat
          /\ Largest(result.rest, Len(result.posts) + 1, Len(result.wccs))
                <= MAXIMUM_MUTATION_REPLY_SIZE

ReplyOK(c) ==
    /\ c.stage = "reply"
    /\ c.result.status # "none" => Describes(c.result, c.request, c.floor)
    /\ c.rpc = "SYSTEM_ERR" => ~Encodable(c.result) \/ c.request.proc = "READLINK"

AwaitOK(c, now) ==
    /\ DOMAIN c = {"stage", "request", "object", "result", "floor"}
    /\ c.stage = "getattr"
    /\ Pending(c.request, c.object, c.result)
    /\ c.object \in Objects /\ c.floor \in [Objects -> Nat]
    /\ c.floor[c.object] <= now[c.object]

ShapeInv ==
    /\ version \in [Objects -> Nat]
    /\ call = Idle \/ ReplyOK(call) \/ AwaitOK(call, version)

\* The arms of the results of calls that succeed
LEMMA ArmsTable ==
    /\ Arms("GETATTR", TRUE) = <<1, 0>> /\ Arms("LOOKUP", TRUE) = <<2, 0>>
    /\ \A p \in {"ACCESS", "READLINK", "READ", "FSSTAT", "FSINFO", "PATHCONF"} :
          Arms(p, TRUE) = <<1, 0>>
    /\ \A p \in {"CREATE", "MKDIR", "SYMLINK", "MKNOD"} : Arms(p, TRUE) = <<1, 1>>
    /\ \A p \in {"SETATTR", "WRITE", "REMOVE", "RMDIR", "COMMIT"} : Arms(p, TRUE) = <<0, 1>>
    /\ Arms("WRITE", FALSE) = <<0, 1>>
    /\ Arms("RENAME", TRUE) = <<0, 2>> /\ Arms("LINK", TRUE) = <<1, 1>>
    /\ \A p \in {"LOOKUP", "ACCESS", "READLINK"} : Arms(p, FALSE) = <<1, 0>>
BY Zenon DEF Arms, QueryArms

\* and of those that fail
LEMMA FailedArms ==
    ASSUME NEW p \in Procedures
    PROVE  Arms(p, FALSE) \in {<<0, 0>>, <<1, 0>>, <<0, 1>>, <<0, 2>>, <<1, 1>>}
BY Zenon DEF Arms, QueryArms, Procedures, OneObject, OneName

\* A post_op_attr takes 4 bytes without attributes and 88 with them.
LEMMA PostBytes ==
    ASSUME NEW posts \in Seq(PostSets), NEW i \in Nat \ {0}
    PROVE  /\ PostSize(posts, i) \in Nat
           /\ i <= Len(posts) => PostSize(posts, i) \in 4..88
           /\ i > Len(posts) => PostSize(posts, i) = 0
BY DEF PostSize, PostAttributes

\* A wcc_data takes between 8 bytes, with neither side, and 116 with both.
LEMMA WccBytes ==
    ASSUME NEW wccs \in Seq(Wccs), NEW i \in Nat \ {0}
    PROVE  /\ WccSize(wccs, i) \in Nat
           /\ i <= Len(wccs) => WccSize(wccs, i) \in 8..116
           /\ i > Len(wccs) => WccSize(wccs, i) = 0
BY DEF WccSize, Wcc, PostAttributes

\* The size of a result
LEMMA SizeBounds ==
    ASSUME NEW result, result.posts \in Seq(PostSets), result.wccs \in Seq(Wccs),
           result.rest \in Int, Len(result.posts) \in 0..2, Len(result.wccs) \in 0..2
    PROVE  /\ Size(result) \in Int
           /\ Size(result) >= 28 + result.rest
           /\ Size(result) <= Largest(result.rest, Len(result.posts), Len(result.wccs))
<1> DEFINE p == Len(result.posts)
           q == Len(result.wccs)
           p1 == PostSize(result.posts, 1)
           p2 == PostSize(result.posts, 2)
           q1 == WccSize(result.wccs, 1)
           q2 == WccSize(result.wccs, 2)
<1>1. /\ p1 \in Nat /\ (1 <= p => p1 \in 4..88) /\ (1 > p => p1 = 0)
      /\ p2 \in Nat /\ (2 <= p => p2 \in 4..88) /\ (2 > p => p2 = 0)
  <2>1. 1 \in Nat \ {0} /\ 2 \in Nat \ {0}
    OBVIOUS
  <2>2. /\ p1 \in Nat /\ (1 <= p => p1 \in 4..88) /\ (1 > p => p1 = 0)
    BY <2>1, PostBytes, Zenon
  <2>3. /\ p2 \in Nat /\ (2 <= p => p2 \in 4..88) /\ (2 > p => p2 = 0)
    BY <2>1, PostBytes, Zenon
  <2> QED BY <2>2, <2>3, Zenon
<1>2. /\ q1 \in Nat /\ (1 <= q => q1 \in 8..116) /\ (1 > q => q1 = 0)
      /\ q2 \in Nat /\ (2 <= q => q2 \in 8..116) /\ (2 > q => q2 = 0)
  BY WccBytes
<1>3. Size(result) = 28 + result.rest + p1 + p2 + q1 + q2
  BY DEF Size, REPLY_HEADER
<1>4. PICK r \in Int : r = result.rest
  BY Zenon
<1>5. p \in 0..2 /\ q \in 0..2
  BY Zenon
<1> HIDE DEF p1, p2, q1, q2, p, q
<1>6. p1 + p2 <= 88 * p /\ q1 + q2 <= 116 * q
  BY <1>1, <1>2, <1>5
<1>7. Size(result) = 28 + r + p1 + p2 + q1 + q2
  BY <1>3, <1>4, Zenon
<1>8. Size(result) <= 28 + r + 88 * p + 116 * q
  BY <1>1, <1>2, <1>5, <1>6, <1>7
<1>9. Size(result) \in Int /\ Size(result) >= 28 + r
  BY <1>1, <1>2, <1>7
<1> QED BY <1>4, <1>8, <1>9, Zenon DEF Largest, p, q

\* What fits the room that validate requires can be sent.
LEMMA SmallFits ==
    ASSUME NEW result, result.posts \in Seq(PostSets), result.wccs \in Seq(Wccs),
           result.rest \in Int, 0 <= 28 + result.rest,
           Len(result.posts) \in 0..2, Len(result.wccs) \in 0..2,
           Largest(result.rest, Len(result.posts), Len(result.wccs)) <= MAXIMUM_MUTATION_REPLY_SIZE
    PROVE  OutboundLengthFits(Size(result), limits)
<1>1. Size(result) \in Int /\ Size(result) >= 28 + result.rest
      /\ Size(result) <= Largest(result.rest, Len(result.posts), Len(result.wccs))
  BY SizeBounds, Zenon
<1>2. PICK l : l = Largest(result.rest, Len(result.posts), Len(result.wccs))
  BY Zenon
<1>4. l \in Int /\ l <= 304
  BY <1>2 DEF Largest, MAXIMUM_MUTATION_REPLY_SIZE
<1>5. PICK n : n = Size(result)
  BY Zenon
<1>6. n \in Int /\ n >= 0 /\ n <= l
  BY <1>1, <1>2, <1>5
<1>7. n \in 0..304
  BY <1>4, <1>6
<1>3. Size(result) \in 0..MAXIMUM_MUTATION_REPLY_SIZE
  BY <1>5, <1>7, Zenon DEF MAXIMUM_MUTATION_REPLY_SIZE
<1> QED BY <1>3, MutationRepliesFit, Nfs3Constants, Zenon

\* A result that is small enough is complete when its arms are.
LEMMA SmallIsComplete ==
    ASSUME NEW request, NEW status \in Statuses, NEW posts \in Seq(PostSets),
           NEW wccs \in Seq(Wccs), NEW rest \in Int, 0 <= 28 + rest,
           Len(posts) \in 0..2, Len(wccs) \in 0..2,
           Largest(rest, Len(posts), Len(wccs)) <= MAXIMUM_MUTATION_REPLY_SIZE,
           status = "Ok" => <<Len(posts), Len(wccs)>> = Arms(request.proc, TRUE),
           status # "Ok" => <<Len(posts), Len(wccs)>> = Arms(request.proc, FALSE),
           \A i \in DOMAIN posts : Of(posts[i], request.posts[i]),
           \A i \in DOMAIN wccs : Of(wccs[i].before \cup wccs[i].after, request.wccs[i])
    PROVE  Complete(request, Result(status, posts, wccs, rest))
<1> DEFINE r == Result(status, posts, wccs, rest)
<1>1. /\ r.status = status /\ r.posts = posts /\ r.wccs = wccs /\ r.rest = rest
      /\ r \in Results
  BY Zenon DEF Result, Results
<1> HIDE DEF r
<1>2. OutboundLengthFits(Size(r), limits)
  BY <1>1, SmallFits, Zenon
<1>3. Arranged(request, r)
  BY <1>1, Zenon DEF Arranged
<1>4. <<Len(posts), Len(wccs)>> = Arms(request.proc, status = "Ok")
  <2>1. CASE status = "Ok"
    BY <2>1, Zenon
  <2>2. CASE status # "Ok"
    BY <2>2, Zenon
  <2> QED BY <2>1, <2>2, Zenon
<1> QED BY <1>1, <1>2, <1>3, <1>4, Zenon DEF Complete, r

\* A sequence of n equal elements is a sequence of length n.
LEMMA Repeated ==
    ASSUME NEW S, NEW e \in S, NEW n \in Nat
    PROVE  [i \in 1..n |-> e] \in Seq(S) /\ Len([i \in 1..n |-> e]) = n
OBVIOUS

\* nfs_failure_reply_for_procedure builds the failure arm of the procedure's union.
LEMMA FailuresHaveTheirArms ==
    ASSUME NEW p \in Procedures
    PROVE  FailureArms(p) = Arms(p, FALSE)
BY Zenon DEF FailureArms, Arms, QueryArms, Procedures, OneObject, OneName

LEMMA FailureIsComplete ==
    ASSUME NEW request, request.proc \in Procedures, NEW status \in Statuses \ {"Ok"}
    PROVE  Complete(request, Failure(request.proc, status))
<1> DEFINE p == FailureArms(request.proc)[1]
           q == FailureArms(request.proc)[2]
           posts == [i \in 1..p |-> {}]
           wccs == [i \in 1..q |-> NoWcc]
<1>1. <<p, q>> = Arms(request.proc, FALSE) /\ p \in 0..1 /\ q \in 0..2 /\ (p = 1 => q <= 1)
  <2>1. PICK a : a = FailureArms(request.proc) /\ a = Arms(request.proc, FALSE)
    BY FailuresHaveTheirArms, Zenon
  <2>2. a \in {<<0, 0>>, <<1, 0>>, <<0, 1>>, <<0, 2>>, <<1, 1>>}
    BY <2>1, FailedArms, Zenon
  <2>3. /\ a = <<a[1], a[2]>> /\ a[1] \in 0..1 /\ a[2] \in 0..2
        /\ a[1] = 1 => a[2] <= 1
    BY <2>2
  <2> QED BY <2>1, <2>3, Zenon
<1>2. p \in 0..1 /\ q \in 0..2 /\ (p = 1 => q <= 1)
  BY <1>1, Zenon
<1> HIDE DEF p, q
<1>0. p \in Nat /\ q \in Nat
  BY <1>2
<1>3. {} \in PostSets /\ NoWcc \in Wccs /\ NoWcc.before = {} /\ NoWcc.after = {}
  BY Zenon DEF PostSets, Wccs, NoWcc
<1>4. posts \in Seq(PostSets) /\ Len(posts) = p
  BY <1>0, <1>3, Repeated, Zenon
<1>5. wccs \in Seq(Wccs) /\ Len(wccs) = q
  BY <1>0, <1>3, Repeated, Zenon
<1>6. /\ \A i \in DOMAIN posts : Of(posts[i], request.posts[i])
      /\ \A i \in DOMAIN wccs : Of(wccs[i].before \cup wccs[i].after, request.wccs[i])
  BY <1>3, Zenon DEF Of
<1>7. Largest(0, p, q) <= MAXIMUM_MUTATION_REPLY_SIZE
  <2>1. 88 * p + 116 * q <= 232
    <3>1. CASE p = 0
      BY <1>2, <3>1
    <3>2. CASE p = 1
      BY <1>2, <3>2
    <3> QED BY <1>2, <3>1, <3>2
  <2> QED BY <1>2, <2>1 DEF Largest, MAXIMUM_MUTATION_REPLY_SIZE
<1>8. <<Len(posts), Len(wccs)>> = Arms(request.proc, FALSE)
  BY <1>1, <1>4, <1>5, Zenon
<1>9. Failure(request.proc, status) = Result(status, posts, wccs, 0)
  BY Zenon DEF Failure, p, q
<1> HIDE DEF posts, wccs
<1>10. /\ Len(posts) \in 0..2 /\ Len(wccs) \in 0..2 /\ 0 \in Int /\ 0 <= 28 + 0
       /\ Largest(0, Len(posts), Len(wccs)) <= MAXIMUM_MUTATION_REPLY_SIZE
  BY <1>2, <1>4, <1>5, <1>7
<1>11. Complete(request, Result(status, posts, wccs, 0))
  BY <1>4, <1>5, <1>6, <1>8, <1>10, SmallIsComplete, ZenonT(30)
<1> QED BY <1>9, <1>11, Zenon

\* A request as its reply sees it
LEMMA RequestNames ==
    \A p, args, posts, wccs, note :
        /\ Request(p, args, posts, wccs, note).proc = p
        /\ Request(p, args, posts, wccs, note).posts = posts
        /\ Request(p, args, posts, wccs, note).wccs = wccs
BY DEF Request

\* A handle names an export and a key, and so the VFS is asked about an object.
LEMMA TargetIsObject ==
    ASSUME NEW proc \in Procedures, NEW args \in Args(proc), NEW i \in DOMAIN args
    PROVE  Target(args, i) \in Objects
<1>1. \A h \in Handles : h.export \in Exports /\ h.key \in Keys
  BY Nfs3Constants DEF Handles, Encode, Objects
<1>2. \A j \in DOMAIN args : args[j].handle \in Handles
  BY DEF Args, ObjectArgs, NameArgs
<1>3. 1 \in DOMAIN args
  BY ArgsDomain, Zenon
<1>4. RequestExportId(args) \in Exports
  BY <1>1, <1>2, <1>3, Nfs3Constants, Zenon DEF RequestExportId
<1> QED BY <1>1, <1>2, <1>4, Zenon DEF Target, Objects

\* Attributes and WCC data that the VFS returns for an object are of that object.
LEMMA VfsDescribes ==
    ASSUME version \in [Objects -> Nat], NEW o \in Objects
    PROVE  /\ \A post \in MaybeAttributes(o) : post \in PostSets /\ Of(post, o)
           /\ \A wcc \in MaybeWcc(o) : wcc \in Wccs /\ Of(wcc.before \cup wcc.after, o)
<1>1. Attributes(o) \in [object : Objects, version : Nat] /\ Attributes(o).object = o
  BY Zenon DEF Attributes
<1>2. [Attributes(o) EXCEPT !.version = @ + 1] = [object |-> o, version |-> version[o] + 1]
  BY DEF Attributes
<1>3. WccOf(o) \in Wccs /\ Of(WccOf(o).before \cup WccOf(o).after, o)
  BY <1>1, <1>2 DEF WccOf, Wccs, PostSets, Of
<1>4. NoWcc \in Wccs /\ Of(NoWcc.before \cup NoWcc.after, o)
  BY Zenon DEF NoWcc, Wccs, PostSets, Of
<1> QED BY <1>1, <1>3, <1>4, Zenon DEF MaybeAttributes, MaybeWcc, PostSets, Of

\* What a VFS call changes moves version numbers only, so they stay numbers.
LEMMA ChangesCount == ASSUME NEW changed, Changes(changed) PROVE version' \in [Objects -> Nat]
BY Zenon DEF Changes

\* A complete answer is one that ReplyOK describes.
LEMMA AnswerShape ==
    ASSUME NEW request, NEW result, Answer(request, result), Complete(request, result),
           version' \in [Objects -> Nat]
    PROVE  ShapeInv'
<1>1. call' = Replied(request, RpcStatus(result), result, Unchanged)
  BY Zenon DEF Answer
<1>2. /\ call'.stage = "reply" /\ call'.request = request /\ call'.rpc = RpcStatus(result)
      /\ call'.result = result /\ call'.floor = Unchanged
  BY <1>1, Zenon DEF Replied
<1>3. ASSUME result.posts # <<>>, NEW a \in result.posts[Len(result.posts)]
      PROVE  a.version >= Unchanged[a.object]
  <2>1. result.posts \in Seq(PostSets)
    BY Zenon DEF Complete, Results
  <2>2. result.posts[Len(result.posts)] \in PostSets
    BY <1>3, <2>1
  <2>3. a.version \in Nat /\ a.object \in Objects
    BY <1>3, <2>2, Zenon DEF PostSets
  <2> QED BY <2>3 DEF Unchanged
<1>4. Describes(result, request, Unchanged)
  BY <1>3, Zenon DEF Describes, Complete, Arranged
<1>5. RpcStatus(result) = "SYSTEM_ERR" => ~Encodable(result) \/ request.proc = "READLINK"
  BY Zenon DEF RpcStatus, Complete
<1>6. ReplyOK(call')
  BY <1>2, <1>4, <1>5, Zenon DEF ReplyOK
<1> QED BY <1>6, Zenon DEF ShapeInv

\* A handler that goes to its second await leaves a pending result behind.
LEMMA AwaitShape ==
    ASSUME NEW request, NEW o \in Objects, NEW result, Await(request, o, result),
           Pending(request, o, result), version' \in [Objects -> Nat]
    PROVE  ShapeInv'
<1>1. call' = [stage |-> "getattr", request |-> request, object |-> o, result |-> result,
               floor |-> version']
  BY Zenon DEF Await
<1>2. AwaitOK(call', version')
  BY <1>1 DEF AwaitOK
<1> QED BY <1>2, Zenon DEF ShapeInv

\* A result that lacks its last attributes
LEMMA IsPending ==
    ASSUME NEW request, NEW o, NEW status \in Statuses, NEW posts \in Seq(PostSets),
           NEW wccs \in Seq(Wccs), NEW rest \in Nat,
           Len(posts) \in 0..1, Len(wccs) \in 0..2,
           status = "Ok" => <<Len(posts) + 1, Len(wccs)>> = Arms(request.proc, TRUE),
           status # "Ok" => <<Len(posts) + 1, Len(wccs)>> = Arms(request.proc, FALSE),
           request.posts[Len(posts) + 1] = o,
           request.proc # "READLINK" =>
              Largest(rest, Len(posts) + 1, Len(wccs)) <= MAXIMUM_MUTATION_REPLY_SIZE,
           \A i \in DOMAIN posts : Of(posts[i], request.posts[i]),
           \A i \in DOMAIN wccs : Of(wccs[i].before \cup wccs[i].after, request.wccs[i])
    PROVE  Pending(request, o, Result(status, posts, wccs, rest))
<1> DEFINE r == Result(status, posts, wccs, rest)
<1>1. /\ r.status = status /\ r.posts = posts /\ r.wccs = wccs /\ r.rest = rest
      /\ r \in Results
  BY DEF Result, Results
<1> HIDE DEF r
<1>3. Arranged(request, r)
  BY <1>1, Zenon DEF Arranged
<1>4. <<Len(posts) + 1, Len(wccs)>> = Arms(request.proc, status = "Ok")
  <2>1. CASE status = "Ok"
    BY <2>1, Zenon
  <2>2. CASE status # "Ok"
    BY <2>2, Zenon
  <2> QED BY <2>1, <2>2, Zenon
<1> QED BY <1>1, <1>3, <1>4, Zenon DEF Pending, r

\* The attributes are all that the result lacks.
LEMMA FirstIsPending ==
    ASSUME NEW request, NEW o, NEW status \in Statuses, NEW rest \in Nat,
           status = "Ok" => Arms(request.proc, TRUE) = <<1, 0>>,
           status # "Ok" => Arms(request.proc, FALSE) = <<1, 0>>,
           request.posts = <<o>>, request.proc # "READLINK" => rest <= 188
    PROVE  Pending(request, o, Result(status, <<>>, <<>>, rest))
<1>1. <<>> \in Seq(PostSets) /\ <<>> \in Seq(Wccs) /\ Len(<<>>) = 0 /\ DOMAIN <<>> = {}
  OBVIOUS
<1>2. <<Len(<<>>) + 1, Len(<<>>)>> = <<1, 0>> /\ request.posts[Len(<<>>) + 1] = o
  BY <1>1
<1>3. request.proc # "READLINK" =>
         Largest(rest, Len(<<>>) + 1, Len(<<>>)) <= MAXIMUM_MUTATION_REPLY_SIZE
  BY <1>1 DEF Largest, MAXIMUM_MUTATION_REPLY_SIZE
<1>4. Len(<<>>) \in 0..1 /\ Len(<<>>) \in 0..2
  BY <1>1
<1> QED BY <1>1, <1>2, <1>3, <1>4, IsPending, ZenonT(30)

\* A reply without a result (PROG_UNAVAIL, GARBAGE_ARGS and the like) has no
\* arms to get wrong.
LEMMA EmptyShape ==
    ASSUME ShapeInv, NEW rpc, rpc # "SYSTEM_ERR", Empty(rpc) PROVE ShapeInv'
<1>1. call' = Replied(Request("NULL", <<>>, <<>>, <<>>, NoNote), rpc,
                      Result("none", <<>>, <<>>, 0), Unchanged)
  BY Zenon DEF Empty
<1>2. call'.stage = "reply" /\ call'.result.status = "none" /\ call'.rpc = rpc
  BY <1>1, Zenon DEF Replied, Result
<1>3. ReplyOK(call')
  BY <1>2, Zenon DEF ReplyOK
<1> QED BY <1>3, Zenon DEF ShapeInv, Empty

\* Handle and name checks refuse with a status of the protocol.
LEMMA RefusalStatus == \A args : Refusal(args) \in Statuses
<1>1. \A arg, export : ArgStatus(arg, export) \in Statuses
  BY Zenon DEF ArgStatus, DecodeObject, NameStatus, Statuses
<1> QED BY <1>1, Zenon DEF Refusal, Statuses

\* A call refused before the VFS is reached gets the failure arm of its union.
LEMMA RefusedShape == ASSUME ShapeInv, Refused PROVE ShapeInv'
<1>1. PICK proc \in Procedures : \E args \in Args(proc), count \in ValidateWriteCount(proc) :
         LET status == IF count = "Ok" THEN Refusal(args) ELSE count
             h == args[1].handle
             old == count = "Ok" /\ h.flaw = "none" /\ h.run # instance
         IN /\ status # "Ok"
            /\ Answer(Request(proc, <<>>, <<>>, <<>>, [kind |-> "refused", old |-> old]),
                      Failure(proc, status))
  BY Zenon DEF Refused
<1>2. PICK args \in Args(proc), count \in ValidateWriteCount(proc) :
         LET status == IF count = "Ok" THEN Refusal(args) ELSE count
             h == args[1].handle
             old == count = "Ok" /\ h.flaw = "none" /\ h.run # instance
         IN /\ status # "Ok"
            /\ Answer(Request(proc, <<>>, <<>>, <<>>, [kind |-> "refused", old |-> old]),
                      Failure(proc, status))
  BY <1>1, Zenon
<1> DEFINE status == IF count = "Ok" THEN Refusal(args) ELSE count
           h == args[1].handle
           old == count = "Ok" /\ h.flaw = "none" /\ h.run # instance
           request == Request(proc, <<>>, <<>>, <<>>, [kind |-> "refused", old |-> old])
<1>3. status \in Statuses \ {"Ok"}
  BY <1>2, RefusalStatus, Zenon DEF ValidateWriteCount, Statuses
<1>4. request.proc = proc /\ Answer(request, Failure(proc, status))
  BY <1>2, RequestNames
<1> HIDE DEF request, status
<1>5. Complete(request, Failure(proc, status))
  BY <1>3, <1>4, FailureIsComplete, Zenon
<1>6. version' \in [Objects -> Nat]
  BY Zenon DEF Refused, ShapeInv
<1> QED BY <1>4, <1>5, <1>6, AnswerShape, Zenon

\* A call that the VFS fails gets the failure arm of its union, with the
\* attributes that the handler still asks for.
LEMMA VfsFailsShape == ASSUME ShapeInv, VfsFails PROVE ShapeInv'
<1>0. PICK proc \in Procedures : \E args \in Args(proc) :
         IF proc \in {"LOOKUP", "ACCESS", "READLINK"}
         THEN LET o == Target(args, 1)
              IN Await(Request(proc, args, <<o>>, <<>>, NoNote), o,
                       Result("error", <<>>, <<>>, 0))
         ELSE Answer(Request(proc, args, <<>>, <<>>, NoNote), Failure(proc, "error"))
  BY Zenon DEF VfsFails
<1>1. PICK args \in Args(proc) :
         IF proc \in {"LOOKUP", "ACCESS", "READLINK"}
         THEN LET o == Target(args, 1)
              IN Await(Request(proc, args, <<o>>, <<>>, NoNote), o,
                       Result("error", <<>>, <<>>, 0))
         ELSE Answer(Request(proc, args, <<>>, <<>>, NoNote), Failure(proc, "error"))
  BY <1>0, Zenon
<1>2. version' \in [Objects -> Nat]
  BY Zenon DEF VfsFails, ShapeInv
<1>3. CASE proc \in {"LOOKUP", "ACCESS", "READLINK"}
  <2> DEFINE o == Target(args, 1)
             request == Request(proc, args, <<o>>, <<>>, NoNote)
  <2>1. o \in Objects
    BY ArgsDomain, TargetIsObject, Zenon
  <2>2. request.proc = proc /\ request.posts = <<o>> /\ request.wccs = <<>>
    BY RequestNames
  <2>3. Await(request, o, Result("error", <<>>, <<>>, 0))
    BY <1>1, <1>3, Zenon
  <2> HIDE DEF o, request
  <2>4. Arms(proc, FALSE) = <<1, 0>> /\ "error" \in Statuses \ {"Ok"}
    <3>1. Arms(proc, FALSE) = <<1, 0>>
      BY <1>3, ArmsTable, Zenon
    <3> QED BY <3>1, Zenon DEF Statuses
  <2>5. 0 \in Nat /\ 0 <= 188 /\ "error" # "Ok"
    OBVIOUS
  <2>6. Pending(request, o, Result("error", <<>>, <<>>, 0))
    BY <2>2, <2>4, <2>5, FirstIsPending, Zenon
  <2> QED BY <1>2, <2>1, <2>3, <2>6, AwaitShape, Zenon
<1>4. CASE proc \notin {"LOOKUP", "ACCESS", "READLINK"}
  <2> DEFINE request == Request(proc, args, <<>>, <<>>, NoNote)
  <2>1. request.proc = proc /\ Answer(request, Failure(proc, "error"))
    BY <1>1, <1>4, RequestNames
  <2> HIDE DEF request
  <2>2. Complete(request, Failure(proc, "error"))
    BY <2>1, FailureIsComplete, Zenon DEF Statuses
  <2> QED BY <1>2, <2>1, <2>2, AnswerShape, Zenon
<1> QED BY <1>3, <1>4, Zenon

\* Results with the WCC data of one object, and nothing else that depends on it
LEMMA WccIsComplete ==
    ASSUME NEW request, NEW o, NEW status \in Statuses, NEW rest \in Nat, NEW wcc \in Wccs,
           status = "Ok" => Arms(request.proc, TRUE) = <<0, 1>>,
           status # "Ok" => Arms(request.proc, FALSE) = <<0, 1>>,
           request.wccs = <<o>>, Of(wcc.before \cup wcc.after, o), rest <= 160
    PROVE  Complete(request, Result(status, <<>>, <<wcc>>, rest))
<1>1. /\ <<>> \in Seq(PostSets) /\ Len(<<>>) = 0 /\ DOMAIN <<>> = {}
      /\ <<wcc>> \in Seq(Wccs) /\ Len(<<wcc>>) = 1 /\ DOMAIN <<wcc>> = {1} /\ <<wcc>>[1] = wcc
  OBVIOUS
<1>2. Largest(rest, Len(<<>>), Len(<<wcc>>)) <= MAXIMUM_MUTATION_REPLY_SIZE
  BY <1>1 DEF Largest, MAXIMUM_MUTATION_REPLY_SIZE
<1>3. Len(<<>>) \in 0..2 /\ Len(<<wcc>>) \in 0..2 /\ rest \in Int /\ 0 <= 28 + rest
  BY <1>1
<1>4. \A i \in DOMAIN <<wcc>> : Of(<<wcc>>[i].before \cup <<wcc>>[i].after, request.wccs[i])
  BY <1>1
<1>5. \A i \in DOMAIN <<>> : Of(<<>>[i], request.posts[i])
  BY <1>1, Zenon
<1>6. <<Len(<<>>), Len(<<wcc>>)>> = <<0, 1>>
  BY <1>1, Zenon
<1> QED BY <1>1, <1>2, <1>3, <1>4, <1>5, <1>6, SmallIsComplete, ZenonT(30)

\* The success arm of CREATE, MKDIR, SYMLINK and MKNOD: one post_op_attr of the
\* object, one wcc_data of its directory, and at most 72 bytes more, which is
\* the handle.
LEMMA CreateIsComplete ==
    ASSUME NEW request, NEW object, NEW dir, NEW rest \in Nat, NEW post \in PostSets,
           NEW wcc \in Wccs, Arms(request.proc, TRUE) = <<1, 1>>,
           request.posts = <<object>>, Of(post, object),
           request.wccs = <<dir>>, Of(wcc.before \cup wcc.after, dir), rest <= 72
    PROVE  Complete(request, Result("Ok", <<post>>, <<wcc>>, rest))
<1>1. /\ <<post>> \in Seq(PostSets) /\ Len(<<post>>) = 1 /\ DOMAIN <<post>> = {1} /\ <<post>>[1] = post
      /\ <<wcc>> \in Seq(Wccs) /\ Len(<<wcc>>) = 1 /\ DOMAIN <<wcc>> = {1} /\ <<wcc>>[1] = wcc
  OBVIOUS
<1>2. Largest(rest, Len(<<post>>), Len(<<wcc>>)) <= MAXIMUM_MUTATION_REPLY_SIZE
  BY <1>1 DEF Largest, MAXIMUM_MUTATION_REPLY_SIZE
<1>3. Len(<<post>>) \in 0..2 /\ Len(<<wcc>>) \in 0..2 /\ rest \in Int /\ 0 <= 28 + rest
  BY <1>1
<1>4. \A i \in DOMAIN <<wcc>> : Of(<<wcc>>[i].before \cup <<wcc>>[i].after, request.wccs[i])
  BY <1>1
<1>5. \A i \in DOMAIN <<post>> : Of(<<post>>[i], request.posts[i])
  BY <1>1
<1>6. <<Len(<<post>>), Len(<<wcc>>)>> = <<1, 1>> /\ "Ok" \in Statuses
  BY <1>1, Zenon DEF Statuses
<1> QED BY <1>1, <1>2, <1>3, <1>4, <1>5, <1>6, SmallIsComplete, ZenonT(30)

\* SETATTR, REMOVE and RMDIR
LEMMA ChangesOneShape ==
    ASSUME ShapeInv, NEW proc \in {"SETATTR", "REMOVE", "RMDIR"}, ChangesOne(proc)
    PROVE  ShapeInv'
<1>1. PICK args \in Args(proc) :
         /\ Changes({Target(args, 1)})
         /\ \E wcc \in MaybeWcc(Target(args, 1)) :
               Answer(Request(proc, args, <<>>, <<Target(args, 1)>>, NoNote),
                      Result("Ok", <<>>, <<wcc>>, 0))
  BY Zenon DEF ChangesOne
<1> DEFINE o == Target(args, 1)
           request == Request(proc, args, <<>>, <<o>>, NoNote)
<1>2. PICK wcc \in MaybeWcc(o) : Answer(request, Result("Ok", <<>>, <<wcc>>, 0))
  BY <1>1, Zenon
<1>3. o \in Objects
  BY ArgsDomain, TargetIsObject, Zenon DEF Procedures, OneObject, OneName
<1>4. request.proc = proc /\ request.wccs = <<o>>
  BY RequestNames
<1> HIDE DEF o, request
<1>5. wcc \in Wccs /\ Of(wcc.before \cup wcc.after, o)
  BY <1>2, <1>3, VfsDescribes, Zenon DEF ShapeInv
<1>6. Arms(proc, TRUE) = <<0, 1>>
  BY ArmsTable, Zenon
<1>7. 0 \in Nat /\ 0 <= 160 /\ "Ok" \in Statuses
  BY DEF Statuses
<1>8. Complete(request, Result("Ok", <<>>, <<wcc>>, 0))
  BY <1>4, <1>5, <1>6, <1>7, WccIsComplete, Zenon
<1> QED BY <1>1, <1>2, <1>8, ChangesCount, AnswerShape, Zenon

\* CREATE, MKDIR, SYMLINK and MKNOD
LEMMA CreatesShape ==
    ASSUME ShapeInv, NEW proc \in {"CREATE", "MKDIR", "SYMLINK", "MKNOD"}, Creates(proc)
    PROVE  ShapeInv'
<1>1. PICK args \in Args(proc), key \in Keys :
         LET dir == Target(args, 1)
             object == <<dir[1], key>>
         IN /\ Changes({dir})
            /\ \E post \in MaybeAttributes(object), wcc \in MaybeWcc(dir) :
                  Answer(Request(proc, args, <<object>>, <<dir>>, NoNote),
                         Result("Ok", <<post>>, <<wcc>>, CreateResult))
  BY Zenon DEF Creates
<1> DEFINE dir == Target(args, 1)
           object == <<dir[1], key>>
           request == Request(proc, args, <<object>>, <<dir>>, NoNote)
<1>2. PICK post \in MaybeAttributes(object), wcc \in MaybeWcc(dir) :
         Answer(request, Result("Ok", <<post>>, <<wcc>>, CreateResult))
  BY <1>1, Zenon
<1>3. dir \in Objects
  BY ArgsDomain, TargetIsObject, Zenon DEF Procedures, OneObject, OneName
<1>4. request.proc = proc /\ request.posts = <<object>> /\ request.wccs = <<dir>>
  BY RequestNames
<1>5. Changes({dir})
  BY <1>1, Zenon
<1> HIDE DEF dir, request
<1>6. object \in Objects
  BY <1>3, Zenon DEF Objects
<1> HIDE DEF object
<1>7. wcc \in Wccs /\ Of(wcc.before \cup wcc.after, dir) /\ post \in PostSets /\ Of(post, object)
  BY <1>2, <1>3, <1>6, VfsDescribes, Zenon DEF ShapeInv
<1>8. Arms(proc, TRUE) = <<1, 1>>
  BY ArmsTable, Zenon
<1>9. CreateResult = 56
  BY DEF CreateResult, Opaque, Padded, DivCeil, HANDLE_SIZE
<1>10. CreateResult \in Nat /\ CreateResult <= 72
  BY <1>9
<1>11. Complete(request, Result("Ok", <<post>>, <<wcc>>, CreateResult))
  BY <1>4, <1>7, <1>8, <1>10, CreateIsComplete, Zenon
<1> QED BY <1>2, <1>5, <1>11, ChangesCount, AnswerShape, Zenon

\* GETATTR keeps the invariant of results.
LEMMA GetAttrShape == ASSUME ShapeInv, GetAttr PROVE ShapeInv'
<1>1. PICK args \in Args("GETATTR") :
         LET o == Target(args, 1)
         IN Answer(Request("GETATTR", args, <<o>>, <<>>, NoNote),
                   Result("Ok", <<{Attributes(o)}>>, <<>>, -4))
  BY Zenon DEF GetAttr
<1> DEFINE o == Target(args, 1)
           post == {Attributes(o)}
           request == Request("GETATTR", args, <<o>>, <<>>, NoNote)
<1>2. Answer(request, Result("Ok", <<post>>, <<>>, -4))
  BY <1>1, Zenon
<1>3. o \in Objects
  BY ArgsDomain, TargetIsObject, Zenon DEF Procedures, OneObject, OneName
<1>4. request.proc = "GETATTR" /\ request.posts = <<o>>
  BY RequestNames
<1> HIDE DEF o, request
<1>5. post \in PostSets /\ Of(post, o)
  BY <1>3, VfsDescribes, Zenon DEF ShapeInv, MaybeAttributes
<1> HIDE DEF post
<1>6. /\ <<>> \in Seq(Wccs) /\ Len(<<>>) = 0 /\ DOMAIN <<>> = {}
      /\ <<post>> \in Seq(PostSets) /\ Len(<<post>>) = 1 /\ DOMAIN <<post>> = {1} /\ <<post>>[1] = post
  BY <1>5
<1>7. /\ Largest(-4, Len(<<post>>), Len(<<>>)) <= MAXIMUM_MUTATION_REPLY_SIZE
      /\ Len(<<post>>) \in 0..2 /\ Len(<<>>) \in 0..2 /\ -4 \in Int /\ 0 <= 28 + -4
  BY <1>6 DEF Largest, MAXIMUM_MUTATION_REPLY_SIZE
<1>8. <<Len(<<post>>), Len(<<>>)>> = Arms(request.proc, TRUE) /\ "Ok" \in Statuses
  BY <1>4, <1>6, ArmsTable, Zenon DEF Statuses
<1>9. /\ \A i \in DOMAIN <<post>> : Of(<<post>>[i], request.posts[i])
      /\ \A i \in DOMAIN <<>> : Of(<<>>[i].before \cup <<>>[i].after, request.wccs[i])
  BY <1>4, <1>5, <1>6
<1>10. Complete(request, Result("Ok", <<post>>, <<>>, -4))
  BY <1>6, <1>7, <1>8, <1>9, SmallIsComplete, ZenonT(30)
<1>11. version' \in [Objects -> Nat]
  BY Zenon DEF GetAttr, ShapeInv
<1> QED BY <1>2, <1>10, <1>11, AnswerShape, Zenon

\* RENAME keeps the invariant of results; it writes the wcc_data of both
\* directories.
LEMMA RenameShape == ASSUME ShapeInv, Rename PROVE ShapeInv'
<1>1. PICK args \in Args("RENAME") :
         LET from == Target(args, 1)
             to == Target(args, 2)
         IN /\ Changes({from, to})
            /\ \E from_wcc \in MaybeWcc(from), to_wcc \in MaybeWcc(to) :
                  Answer(Request("RENAME", args, <<>>, <<from, to>>, NoNote),
                         Result("Ok", <<>>, RenameArms(from_wcc, to_wcc), 0))
  BY Zenon DEF Rename
<1> DEFINE from == Target(args, 1)
           to == Target(args, 2)
           request == Request("RENAME", args, <<>>, <<from, to>>, NoNote)
<1>2. PICK from_wcc \in MaybeWcc(from), to_wcc \in MaybeWcc(to) :
         Answer(request, Result("Ok", <<>>, <<from_wcc, to_wcc>>, 0))
  BY <1>1, Zenon DEF RenameArms
<1>3. from \in Objects /\ to \in Objects
  <2>1. DOMAIN args = {1, 2}
    BY DEF Args, OneObject, OneName
  <2> QED BY <2>1, TargetIsObject, Zenon DEF Procedures
<1>4. request.proc = "RENAME" /\ request.wccs = <<from, to>>
  BY RequestNames
<1>5. Changes({from, to})
  BY <1>1, Zenon
<1> HIDE DEF from, to, request
<1>6. /\ from_wcc \in Wccs /\ Of(from_wcc.before \cup from_wcc.after, from)
      /\ to_wcc \in Wccs /\ Of(to_wcc.before \cup to_wcc.after, to)
  BY <1>2, <1>3, VfsDescribes, Zenon DEF ShapeInv
<1> DEFINE wccs == <<from_wcc, to_wcc>>
<1>7. /\ <<>> \in Seq(PostSets) /\ Len(<<>>) = 0 /\ DOMAIN <<>> = {}
      /\ wccs \in Seq(Wccs) /\ Len(wccs) = 2 /\ DOMAIN wccs = {1, 2}
      /\ wccs[1] = from_wcc /\ wccs[2] = to_wcc
  BY <1>6
<1> HIDE DEF wccs
<1>8. /\ Largest(0, Len(<<>>), Len(wccs)) <= MAXIMUM_MUTATION_REPLY_SIZE
      /\ Len(<<>>) \in 0..2 /\ Len(wccs) \in 0..2 /\ 0 \in Int /\ 0 <= 28 + 0
  BY <1>7 DEF Largest, MAXIMUM_MUTATION_REPLY_SIZE
<1>9. <<Len(<<>>), Len(wccs)>> = Arms(request.proc, TRUE) /\ "Ok" \in Statuses
  BY <1>4, <1>7, ArmsTable, Zenon DEF Statuses
<1>10. /\ \A i \in DOMAIN <<>> : Of(<<>>[i], request.posts[i])
       /\ \A i \in DOMAIN wccs : Of(wccs[i].before \cup wccs[i].after, request.wccs[i])
  <2>1. request.wccs[1] = from /\ request.wccs[2] = to
    BY <1>4
  <2> QED BY <1>6, <1>7, <2>1, Zenon
<1>11. Complete(request, Result("Ok", <<>>, wccs, 0))
  BY <1>7, <1>8, <1>9, <1>10, SmallIsComplete, ZenonT(30)
<1> QED BY <1>2, <1>5, <1>11, ChangesCount, AnswerShape, Zenon DEF wccs

\* LINK keeps the invariant of results; it asks for the attributes of the file
\* once the VFS has linked it.
LEMMA LinkShape == ASSUME ShapeInv, Link PROVE ShapeInv'
<1>1. PICK args \in Args("LINK") :
         LET object == Target(args, 1)
             dir == Target(args, 2)
         IN /\ Changes({object, dir})
            /\ \E wcc \in MaybeWcc(dir) :
                  Await(Request("LINK", args, <<object>>, <<dir>>, NoNote), object,
                        Result("Ok", <<>>, <<wcc>>, 0))
  BY Zenon DEF Link
<1> DEFINE object == Target(args, 1)
           dir == Target(args, 2)
           request == Request("LINK", args, <<object>>, <<dir>>, NoNote)
<1>2. PICK wcc \in MaybeWcc(dir) : Await(request, object, Result("Ok", <<>>, <<wcc>>, 0))
  BY <1>1, Zenon
<1>3. object \in Objects /\ dir \in Objects
  <2>1. DOMAIN args = {1, 2}
    BY DEF Args, OneObject, OneName
  <2> QED BY <2>1, TargetIsObject, Zenon DEF Procedures
<1>4. request.proc = "LINK" /\ request.posts = <<object>> /\ request.wccs = <<dir>>
  BY RequestNames
<1>5. Changes({object, dir})
  BY <1>1, Zenon
<1> HIDE DEF object, dir, request
<1>6. wcc \in Wccs /\ Of(wcc.before \cup wcc.after, dir)
  BY <1>2, <1>3, VfsDescribes, Zenon DEF ShapeInv
<1>7. /\ <<>> \in Seq(PostSets) /\ Len(<<>>) = 0 /\ DOMAIN <<>> = {}
      /\ <<wcc>> \in Seq(Wccs) /\ Len(<<wcc>>) = 1 /\ DOMAIN <<wcc>> = {1} /\ <<wcc>>[1] = wcc
  BY <1>6
<1>8. /\ Largest(0, Len(<<>>) + 1, Len(<<wcc>>)) <= MAXIMUM_MUTATION_REPLY_SIZE
      /\ Len(<<>>) \in 0..1 /\ Len(<<wcc>>) \in 0..2 /\ 0 \in Nat
  BY <1>7 DEF Largest, MAXIMUM_MUTATION_REPLY_SIZE
<1>9. <<Len(<<>>) + 1, Len(<<wcc>>)>> = Arms(request.proc, TRUE) /\ "Ok" \in Statuses
  <2>1. <<Len(<<>>) + 1, Len(<<wcc>>)>> = <<1, 1>> /\ "Ok" \in Statuses
    BY <1>7 DEF Statuses
  <2> QED BY <1>4, <2>1, ArmsTable, Zenon
<1>10. /\ \A i \in DOMAIN <<>> : Of(<<>>[i], request.posts[i])
       /\ \A i \in DOMAIN <<wcc>> : Of(<<wcc>>[i].before \cup <<wcc>>[i].after, request.wccs[i])
       /\ request.posts[Len(<<>>) + 1] = object
  <2>1. request.wccs[1] = dir /\ request.posts[Len(<<>>) + 1] = object
    BY <1>4, <1>7
  <2> QED BY <1>6, <1>7, <2>1, Zenon
<1>11. Pending(request, object, Result("Ok", <<>>, <<wcc>>, 0))
  BY <1>7, <1>8, <1>9, <1>10, IsPending, ZenonT(30)
<1> QED BY <1>2, <1>3, <1>5, <1>11, ChangesCount, AwaitShape, Zenon

\* LOOKUP keeps the invariant of results; it asks for the attributes of the
\* directory after those of the object.
LEMMA LookupShape == ASSUME ShapeInv, Lookup PROVE ShapeInv'
<1>1. PICK args \in Args("LOOKUP"), key \in Keys :
         LET dir == Target(args, 1)
             object == <<dir[1], key>>
         IN \E post \in MaybeAttributes(object) :
               Await(Request("LOOKUP", args, <<object, dir>>, <<>>, NoNote), dir,
                     Result("Ok", <<post>>, <<>>, LookupResult))
  BY Zenon DEF Lookup
<1> DEFINE dir == Target(args, 1)
           object == <<dir[1], key>>
           request == Request("LOOKUP", args, <<object, dir>>, <<>>, NoNote)
<1>2. PICK post \in MaybeAttributes(object) :
         Await(request, dir, Result("Ok", <<post>>, <<>>, LookupResult))
  BY <1>1, Zenon
<1>3. dir \in Objects
  BY ArgsDomain, TargetIsObject, Zenon DEF Procedures, OneObject, OneName
<1>4. request.proc = "LOOKUP" /\ request.posts = <<object, dir>>
  BY RequestNames
<1> HIDE DEF dir, request
<1>5. object \in Objects
  BY <1>3, Zenon DEF Objects
<1> HIDE DEF object
<1>6. post \in PostSets /\ Of(post, object)
  BY <1>2, <1>5, VfsDescribes, Zenon DEF ShapeInv
<1>7. /\ <<>> \in Seq(Wccs) /\ Len(<<>>) = 0 /\ DOMAIN <<>> = {}
      /\ <<post>> \in Seq(PostSets) /\ Len(<<post>>) = 1 /\ DOMAIN <<post>> = {1} /\ <<post>>[1] = post
  BY <1>6
<1>8. LookupResult = 52
  BY DEF LookupResult, Opaque, Padded, DivCeil, HANDLE_SIZE
<1>9. /\ Largest(LookupResult, Len(<<post>>) + 1, Len(<<>>)) <= MAXIMUM_MUTATION_REPLY_SIZE
      /\ Len(<<post>>) \in 0..1 /\ Len(<<>>) \in 0..2 /\ LookupResult \in Nat
  BY <1>7, <1>8 DEF Largest, MAXIMUM_MUTATION_REPLY_SIZE
<1>10. <<Len(<<post>>) + 1, Len(<<>>)>> = Arms(request.proc, TRUE) /\ "Ok" \in Statuses
  <2>1. <<Len(<<post>>) + 1, Len(<<>>)>> = <<2, 0>> /\ "Ok" \in Statuses
    BY <1>7 DEF Statuses
  <2> QED BY <1>4, <2>1, ArmsTable, Zenon
<1>11. /\ \A i \in DOMAIN <<post>> : Of(<<post>>[i], request.posts[i])
       /\ \A i \in DOMAIN <<>> : Of(<<>>[i].before \cup <<>>[i].after, request.wccs[i])
       /\ request.posts[Len(<<post>>) + 1] = dir
  <2>1. request.posts[1] = object /\ request.posts[Len(<<post>>) + 1] = dir
    BY <1>4, <1>7
  <2> QED BY <1>6, <1>7, <2>1, Zenon
<1>12. Pending(request, dir, Result("Ok", <<post>>, <<>>, LookupResult))
  BY <1>7, <1>9, <1>10, <1>11, IsPending, ZenonT(30)
<1>13. version' \in [Objects -> Nat]
  BY Zenon DEF Lookup, ShapeInv
<1> QED BY <1>2, <1>3, <1>12, <1>13, AwaitShape, Zenon

\* ACCESS, FSSTAT, PATHCONF, READLINK and FSINFO
LEMMA QueriesShape ==
    ASSUME ShapeInv, NEW proc \in {"ACCESS", "FSSTAT", "FSINFO", "PATHCONF", "READLINK"},
           NEW rest \in Nat, NEW note, Queries(proc, rest, note),
           proc # "READLINK" => rest <= 188
    PROVE  ShapeInv'
<1>1. PICK args \in Args(proc) :
         LET o == Target(args, 1)
         IN Await(Request(proc, args, <<o>>, <<>>, note), o, Result("Ok", <<>>, <<>>, rest))
  BY Zenon DEF Queries
<1> DEFINE o == Target(args, 1)
           request == Request(proc, args, <<o>>, <<>>, note)
<1>2. Await(request, o, Result("Ok", <<>>, <<>>, rest))
  BY <1>1, Zenon
<1>3. o \in Objects
  BY ArgsDomain, TargetIsObject, Zenon DEF Procedures, OneObject, OneName
<1>4. request.proc = proc /\ request.posts = <<o>>
  BY RequestNames
<1> HIDE DEF o, request
<1>5. Arms(proc, TRUE) = <<1, 0>>
  BY ArmsTable, Zenon
<1>6. "Ok" \in Statuses
  BY Zenon DEF Statuses
<1>7. Pending(request, o, Result("Ok", <<>>, <<>>, rest))
  BY <1>4, <1>5, <1>6, FirstIsPending, Zenon
<1>8. version' \in [Objects -> Nat]
  BY Zenon DEF Queries, ShapeInv
<1> QED BY <1>2, <1>3, <1>7, <1>8, AwaitShape, Zenon

\* Padding is at most three bytes.
LEMMA PaddedBounds == ASSUME NEW n \in Nat PROVE Padded(n) \in Nat /\ Padded(n) <= n + 3
BY DEF Padded, DivCeil

\* The procedures that read and then ask for attributes keep the invariant of
\* results.
LEMMA QueryShape ==
    ASSUME ShapeInv, Access \/ FsStat \/ PathConf \/ ReadLink \/ FsInfo PROVE ShapeInv'
<1>1. CASE Access
  BY <1>1, QueriesShape DEF Access, AccessResult
<1>2. CASE FsStat
  BY <1>2, QueriesShape DEF FsStat, FsStatResult
<1>3. CASE PathConf
  BY <1>3, QueriesShape DEF PathConf, PathConfResult
<1>4. CASE FsInfo
  BY <1>4, QueriesShape DEF FsInfo, FsInfoResult
<1>5. CASE ReadLink
  <2>1. PICK n \in PathLengths : Queries("READLINK", ReadLinkResult(n), NoNote)
    BY <1>5, Zenon DEF ReadLink
  <2>2. Padded(n) \in Nat
    BY PaddedBounds, Nfs3Constants, Zenon
  <2>3. ReadLinkResult(n) \in Nat
    BY <2>2 DEF ReadLinkResult, Opaque
  <2> QED BY <2>1, <2>3, QueriesShape, Zenon
<1> QED BY <1>1, <1>2, <1>3, <1>4, <1>5, Zenon

\* A READ of what max_read_size allows fits, whatever the VFS returns.
LEMMA ReadFits ==
    ASSUME NEW n \in Nat, n <= limits.max_read_size, NEW result,
           result.posts \in Seq(PostSets), Len(result.posts) = 1,
           result.wccs = <<>>, result.rest = ReadResult(n)
    PROVE  ReadResult(n) \in Nat /\ OutboundLengthFits(Size(result), limits)
<1>1. PICK m : m = Padded(n)
  BY Zenon
<1>2. m \in Nat /\ m <= n + 3
  BY <1>1, PaddedBounds, Zenon
<1>3. ReadResult(n) = 12 + m
  BY <1>1, <1>2 DEF ReadResult, Opaque
<1>4. result.wccs \in Seq(Wccs) /\ Len(result.wccs) = 0
  OBVIOUS
<1>5. /\ Size(result) \in Int /\ Size(result) >= 28 + result.rest
      /\ Size(result) <= Largest(result.rest, Len(result.posts), Len(result.wccs))
  <2>1. result.rest \in Int /\ Len(result.posts) \in 0..2 /\ Len(result.wccs) \in 0..2
    BY <1>2, <1>3, <1>4
  <2> QED BY <1>4, <2>1, SizeBounds, Zenon
<1>6. Largest(result.rest, Len(result.posts), Len(result.wccs)) = 128 + m
  BY <1>2, <1>3, <1>4 DEF Largest
<1>7. PICK size : size = Size(result)
  BY Zenon
<1>8. size \in Nat /\ size <= 131 + n
  BY <1>2, <1>3, <1>5, <1>6, <1>7
<1>9. MAXIMUM_READ_REPLY_OVERHEAD = 131
  BY DEF MAXIMUM_READ_REPLY_OVERHEAD
<1>10. OutboundLengthFits(131 + n, limits)
  BY <1>9, TransfersFit, Nfs3Constants, Zenon
<1>11. TransportValid(limits) /\ TransportRecordCapacity(limits) \in Nat
  BY Nfs3Constants, TransportTypes, Zenon DEF Validate
<1>12. 131 + n \in Nat /\ 131 + n <= TransportRecordCapacity(limits)
  BY <1>10, <1>11, CapacityIsExact, Nfs3Constants
<1>13. OutboundLengthFits(size, limits)
  BY <1>8, <1>11, <1>12, CapacityIsExact, Nfs3Constants
<1> QED BY <1>2, <1>3, <1>7, <1>13

\* READ keeps the invariant of results: what it returns is within the transfer
\* limit, which validate has compared with the capacity.
LEMMA ReadShape == ASSUME ShapeInv, Read PROVE ShapeInv'
<1>1. PICK args \in Args("READ"), asked \in Counts :
         LET o == Target(args, 1)
             count == Smaller(asked, limits.max_read_size)
         IN \E length \in {0, count, count + 4}, post \in MaybeAttributes(o) :
               Answer(Request("READ", args, <<o>>, <<>>,
                              [kind |-> "read", short |-> count < asked,
                               promised |-> asked <= advert.read]),
                      Result("Ok", <<post>>, <<>>, ReadResult(ReadLength(length, count))))
  BY Zenon DEF Read
<1> DEFINE o == Target(args, 1)
           count == Smaller(asked, limits.max_read_size)
           request == Request("READ", args, <<o>>, <<>>,
                              [kind |-> "read", short |-> count < asked,
                               promised |-> asked <= advert.read])
<1>2. PICK length \in {0, count, count + 4}, post \in MaybeAttributes(o) :
         Answer(request, Result("Ok", <<post>>, <<>>, ReadResult(ReadLength(length, count))))
  BY <1>1, Zenon
<1>3. o \in Objects
  BY ArgsDomain, TargetIsObject, Zenon DEF Procedures, OneObject, OneName
<1>4. request.proc = "READ" /\ request.posts = <<o>>
  BY RequestNames
<1>5. count \in Nat /\ count <= limits.max_read_size
  BY LimitsAreNat, Nfs3Constants DEF Smaller
<1> HIDE DEF o, request, count
<1>6. ReadLength(length, count) \in Nat /\ ReadLength(length, count) <= limits.max_read_size
  BY <1>5, LimitsAreNat DEF ReadLength, Smaller
<1>7. post \in PostSets /\ Of(post, o)
  BY <1>2, <1>3, VfsDescribes, Zenon DEF ShapeInv
<1> DEFINE n == ReadLength(length, count)
           r == Result("Ok", <<post>>, <<>>, ReadResult(n))
<1>8. r.status = "Ok" /\ r.posts = <<post>> /\ r.wccs = <<>> /\ r.rest = ReadResult(n)
  BY Zenon DEF Result
<1>9. r = [status |-> "Ok", posts |-> <<post>>, wccs |-> <<>>, rest |-> ReadResult(n)]
  BY Zenon DEF Result
<1> HIDE DEF n, r
<1>10. r.posts \in Seq(PostSets) /\ Len(r.posts) = 1 /\ DOMAIN r.posts = {1} /\ r.posts[1] = post
  BY <1>7, <1>8
<1>11. ReadResult(n) \in Nat /\ OutboundLengthFits(Size(r), limits)
  BY <1>6, <1>8, <1>10, ReadFits, Zenon DEF n
<1>12. r \in Results
  BY <1>7, <1>9, <1>11 DEF Results, Statuses
<1>13. Arranged(request, r)
  <2>1. request.posts[1] = o /\ DOMAIN r.wccs = {}
    BY <1>4, <1>8
  <2> QED BY <1>7, <1>10, <2>1, Zenon DEF Arranged
<1>14. <<Len(r.posts), Len(r.wccs)>> = Arms(request.proc, r.status = "Ok")
  <2>1. <<Len(r.posts), Len(r.wccs)>> = <<1, 0>> /\ (r.status = "Ok") = TRUE
    BY <1>8, <1>10, Zenon
  <2>2. Arms(request.proc, TRUE) = <<1, 0>>
    BY <1>4, ArmsTable, Zenon
  <2> QED BY <2>1, <2>2, Zenon
<1>15. Complete(request, r)
  BY <1>11, <1>12, <1>13, <1>14, Zenon DEF Complete
<1>16. version' \in [Objects -> Nat]
  BY Zenon DEF Read, ShapeInv
<1> QED BY <1>2, <1>15, <1>16, AnswerShape, Zenon DEF r, n

\* WRITE keeps the invariant of results.
LEMMA WriteShape == ASSUME ShapeInv, Write PROVE ShapeInv'
<1>1. PICK args \in Args("WRITE"), w \in Writes, length \in Counts,
           requested \in Stability, committed \in Stability :
         Writing(args, w, length, requested, committed)
  BY Zenon DEF Write, Writing
<1> DEFINE file == Target(args, 1)
           permitted == Smaller(length, limits.max_write_size)
           Fine(count) == /\ count <= permitted /\ (permitted = 0 \/ count # 0)
                          /\ DurabilitySatisfies(committed, requested)
           Note(count) ==
               [kind |-> "write", short |-> permitted < length,
                promised |-> length <= advert.write,
                news |-> IF file = DataFile /\ permitted = length /\ count >= length
                         THEN {[piece |-> w, verifier |-> WriteVerifier(instance),
                                stable |-> ~(requested = "Unstable" /\ committed = "Unstable")]}
                         ELSE {}]
<1>11. PICK count \in {0, 1, permitted, permitted + 1}, wcc \in MaybeWcc(file) :
          Answer(Request("WRITE", args, <<>>, <<file>>, Note(count)),
                 IF Fine(count) THEN Result("Ok", <<>>, <<wcc>>, WriteResult)
                 ELSE Result("ServerFault", <<>>, <<wcc>>, 0))
  BY <1>1, Zenon DEF Writing
<1> DEFINE note == Note(count)
<1>2. \/ Answer(Request("WRITE", args, <<>>, <<file>>, note), Result("Ok", <<>>, <<wcc>>, WriteResult))
      \/ Answer(Request("WRITE", args, <<>>, <<file>>, note), Result("ServerFault", <<>>, <<wcc>>, 0))
  <2> HIDE DEF note, Fine, file
  <2> QED BY <1>11, Zenon DEF note
<1> HIDE DEF note
<1> DEFINE request == Request("WRITE", args, <<>>, <<file>>, note)
<1>3. file \in Objects
  BY ArgsDomain, TargetIsObject, Zenon DEF Procedures, OneObject, OneName
<1>4. request.proc = "WRITE" /\ request.wccs = <<file>>
  BY RequestNames
<1>5. version' \in [Objects -> Nat]
  BY <1>1, ChangesCount, Zenon DEF Writing
<1>6. \/ Answer(request, Result("Ok", <<>>, <<wcc>>, WriteResult))
      \/ Answer(request, Result("ServerFault", <<>>, <<wcc>>, 0))
  BY <1>2, Zenon
<1> HIDE DEF file, request
<1>7. wcc \in Wccs /\ Of(wcc.before \cup wcc.after, file)
  BY <1>3, VfsDescribes, Zenon DEF ShapeInv
<1>8. Arms("WRITE", TRUE) = <<0, 1>> /\ Arms("WRITE", FALSE) = <<0, 1>>
  BY ArmsTable, Zenon
<1>9. /\ WriteResult \in Nat /\ WriteResult <= 160 /\ 0 \in Nat /\ 0 <= 160
      /\ "Ok" \in Statuses /\ "ServerFault" \in Statuses
  BY DEF WriteResult, Statuses
<1>10. /\ Complete(request, Result("Ok", <<>>, <<wcc>>, WriteResult))
       /\ Complete(request, Result("ServerFault", <<>>, <<wcc>>, 0))
  BY <1>4, <1>7, <1>8, <1>9, WccIsComplete, ZenonT(30)
<1> QED BY <1>5, <1>6, <1>10, AnswerShape, Zenon

\* COMMIT keeps the invariant of results.
LEMMA CommitShape == ASSUME ShapeInv, Commit PROVE ShapeInv'
<1>1. PICK args \in Args("COMMIT") :
         /\ Changes({Target(args, 1)})
         /\ \E wcc \in MaybeWcc(Target(args, 1)) : \E note :
               Answer(Request("COMMIT", args, <<>>, <<Target(args, 1)>>, note),
                      Result("Ok", <<>>, <<wcc>>, CommitResult))
  BY Zenon DEF Commit
<1> DEFINE file == Target(args, 1)
<1>11. PICK wcc \in MaybeWcc(file) : \E note :
         Answer(Request("COMMIT", args, <<>>, <<file>>, note), Result("Ok", <<>>, <<wcc>>, CommitResult))
  BY <1>1, Zenon
<1>2. PICK note :
         Answer(Request("COMMIT", args, <<>>, <<file>>, note), Result("Ok", <<>>, <<wcc>>, CommitResult))
  BY <1>11, Zenon
<1> DEFINE request == Request("COMMIT", args, <<>>, <<file>>, note)
<1>3. file \in Objects
  BY ArgsDomain, TargetIsObject, Zenon DEF Procedures, OneObject, OneName
<1>4. request.proc = "COMMIT" /\ request.wccs = <<file>>
  BY RequestNames
<1>5. version' \in [Objects -> Nat]
  BY <1>1, ChangesCount, Zenon
<1>6. Answer(request, Result("Ok", <<>>, <<wcc>>, CommitResult))
  BY <1>2, Zenon
<1> HIDE DEF file, request
<1>7. wcc \in Wccs /\ Of(wcc.before \cup wcc.after, file)
  BY <1>3, VfsDescribes, Zenon DEF ShapeInv
<1>8. Arms("COMMIT", TRUE) = <<0, 1>>
  BY ArmsTable, Zenon
<1>9. CommitResult \in Nat /\ CommitResult <= 160 /\ "Ok" \in Statuses
  BY DEF CommitResult, Statuses
<1>10. Complete(request, Result("Ok", <<>>, <<wcc>>, CommitResult))
  BY <1>4, <1>7, <1>8, <1>9, WccIsComplete, ZenonT(30)
<1> QED BY <1>5, <1>6, <1>10, AnswerShape, Zenon

\* The attributes of the second await are not older than the operation, whatever
\* changed the object in between.
LEMMA GetAttrReturnsShape == ASSUME ShapeInv, GetAttrReturns PROVE ShapeInv'
<1> DEFINE o == call.object
           request == call.request
           old == call.result
<1>1. AwaitOK(call, version) /\ version \in [Objects -> Nat]
  <2>1. call.stage = "getattr" /\ call # Idle
    BY DEF GetAttrReturns, Idle
  <2> QED BY <2>1, Zenon DEF ShapeInv, ReplyOK
<1>2. PICK post \in MaybeAttributes(o) :
         LET result == [old EXCEPT !.posts = Append(@, post)]
         IN call' = Replied(request, RpcStatus(result), result, call.floor)
  BY Zenon DEF GetAttrReturns, FollowUp
<1> DEFINE result == [old EXCEPT !.posts = Append(@, post)]
<1>3. /\ old \in Results /\ Arranged(request, old) /\ o \in Objects
      /\ Len(old.posts) \in 0..1 /\ Len(old.wccs) \in 0..2
      /\ request.posts[Len(old.posts) + 1] = o
      /\ <<Len(old.posts) + 1, Len(old.wccs)>> = Arms(request.proc, old.status = "Ok")
  BY <1>1, Zenon DEF AwaitOK, Pending
<1>4. /\ old.posts \in Seq(PostSets) /\ old.wccs \in Seq(Wccs) /\ old.rest \in Int
      /\ result.posts = Append(old.posts, post) /\ result.wccs = old.wccs
      /\ result.status = old.status /\ result.rest = old.rest
  BY <1>3, Zenon DEF Results
<1>5. call' = Replied(request, RpcStatus(result), result, call.floor)
  BY <1>2, Zenon
<1>6. post \in PostSets /\ Of(post, o) /\ \A a \in post : a.version >= call.floor[a.object]
  <2>1. post \in PostSets /\ Of(post, o)
    BY <1>1, <1>3, VfsDescribes, Zenon
  <2>2. \A a \in post : a.object = o /\ a.version = version[o]
    BY DEF MaybeAttributes, Attributes
  <2>3. version[o] >= call.floor[o]
    BY <1>1, <1>3, Zenon DEF AwaitOK
  <2> QED BY <2>1, <2>2, <2>3, Zenon
<1>7. request.proc # "READLINK" =>
         /\ old.rest \in Nat
         /\ Largest(old.rest, Len(old.posts) + 1, Len(old.wccs)) <= MAXIMUM_MUTATION_REPLY_SIZE
  BY <1>1, Zenon DEF AwaitOK, Pending
<1> HIDE DEF result, old, o, request
<1>8. /\ result.posts \in Seq(PostSets) /\ Len(result.posts) = Len(old.posts) + 1
      /\ result.posts[Len(result.posts)] = post
      /\ \A i \in DOMAIN old.posts : result.posts[i] = old.posts[i]
      /\ DOMAIN result.posts = DOMAIN old.posts \cup {Len(old.posts) + 1}
  BY <1>4, <1>6
<1>9. request.proc # "READLINK" => OutboundLengthFits(Size(result), limits)
  <2> SUFFICES ASSUME request.proc # "READLINK" PROVE OutboundLengthFits(Size(result), limits)
    BY Zenon
  <2>1. Len(result.posts) \in 0..2 /\ Len(result.wccs) \in 0..2 /\ result.wccs \in Seq(Wccs)
    BY <1>3, <1>4, <1>8
  <2>2. result.rest \in Int /\ 0 <= 28 + result.rest
    BY <1>4, <1>7
  <2>3. Largest(result.rest, Len(result.posts), Len(result.wccs)) <= MAXIMUM_MUTATION_REPLY_SIZE
    BY <1>4, <1>7, <1>8, Zenon
  <2> QED BY <1>8, <2>1, <2>2, <2>3, SmallFits, Zenon
<1>10. Arranged(request, result)
  BY <1>3, <1>4, <1>6, <1>8, Zenon DEF Arranged
<1>11. Describes(result, request, call.floor)
  BY <1>3, <1>4, <1>6, <1>8, <1>10, Zenon DEF Describes, Arranged
<1>12. RpcStatus(result) = "SYSTEM_ERR" => ~Encodable(result) \/ request.proc = "READLINK"
  BY <1>9, Zenon DEF RpcStatus
<1>13. /\ call'.stage = "reply" /\ call'.request = request /\ call'.rpc = RpcStatus(result)
       /\ call'.result = result /\ call'.floor = call.floor
  BY <1>5, Zenon DEF Replied
<1>14. ReplyOK(call')
  BY <1>11, <1>12, <1>13, Zenon DEF ReplyOK
<1>15. version' \in [Objects -> Nat]
  BY <1>1, Zenon DEF GetAttrReturns
<1> QED BY <1>14, <1>15, Zenon DEF ShapeInv

\* What other clients do to the objects leaves the call in progress its result.
LEMMA ElsewhereShape == ASSUME ShapeInv, Elsewhere PROVE ShapeInv'
<1>1. call.stage = "getattr" /\ call # Idle /\ call' = call
  BY DEF Elsewhere, Idle
<1>2. AwaitOK(call, version) /\ version \in [Objects -> Nat]
  BY <1>1, Zenon DEF ShapeInv, ReplyOK
<1>3. call.object \in Objects /\ call.floor \in [Objects -> Nat] /\ call.floor[call.object] <= version[call.object]
  BY <1>2, Zenon DEF AwaitOK
<1>4. /\ version' \in [Objects -> Nat] /\ call.floor[call.object] <= version'[call.object]
  BY <1>2, <1>3 DEF Elsewhere
<1>5. AwaitOK(call, version')
  BY <1>2, <1>4, Zenon DEF AwaitOK
<1> QED BY <1>1, <1>4, <1>5, Zenon DEF ShapeInv

\* The call ends, or something else happens.
LEMMA OtherShape ==
    ASSUME ShapeInv,
           Sent \/ Dropped \/ Restart \/ ReceiveWrite \/ ReceiveCommit \/ UNCHANGED vars
    PROVE  ShapeInv'
<1>1. CASE Sent \/ Dropped \/ Restart
  <2>1. call' = Idle /\ version' = Unchanged
    BY <1>1, Zenon DEF Sent, Dropped, Restart
  <2> QED BY <2>1, Zenon DEF ShapeInv, Unchanged, Idle
<1>2. CASE ReceiveWrite \/ ReceiveCommit \/ UNCHANGED vars
  <2>1. call' = call /\ version' = version
    BY <1>2, Zenon DEF ReceiveWrite, ReceiveCommit, vars
  <2> QED BY <2>1, Zenon DEF ShapeInv, Idle
<1> QED BY <1>1, <1>2, Zenon

\* Before the first call there is no result.
LEMMA InitShape == Init => ShapeInv
BY DEF Init, ShapeInv, Unchanged

\* Every step of every procedure keeps the invariant of results: one lemma per
\* handler, put together.
LEMMA StepShape == ASSUME ShapeInv, [Next]_vars PROVE ShapeInv'
<1>1. CASE OtherProgram \/ NullOrUnknown \/ Malformed
  BY <1>1, EmptyShape, Zenon DEF OtherProgram, NullOrUnknown, Malformed
<1>2. CASE SetAttr \/ Remove \/ Rmdir
  BY <1>2, ChangesOneShape, Zenon DEF SetAttr, Remove, Rmdir
<1>3. CASE Create \/ Mkdir \/ Symlink \/ Mknod
  BY <1>3, CreatesShape, Zenon DEF Create, Mkdir, Symlink, Mknod
<1> QED
  BY <1>1, <1>2, <1>3, RefusedShape, VfsFailsShape, GetAttrShape, LookupShape, QueryShape,
     ReadShape, WriteShape, RenameShape, LinkShape, CommitShape, GetAttrReturnsShape,
     ElsewhereShape, OtherShape, Zenon DEF Next

\* A pending result of execute_request lacks exactly the attributes that the
\* handler still asks for, and has room for them; a finished one has every arm
\* of its union.
THEOREM Shapes == Spec => []ShapeInv
<1>1. ShapeInv /\ [Next]_vars => ShapeInv'
  BY StepShape, Zenon
<1> QED BY <1>1, InitShape, PTL DEF Spec

\* Every reply has the arms of its union, the failures of
\* nfs_failure_reply_for_procedure included, each about the object that its place
\* names; what the second await of a handler fetched is not older than the
\* operation, whatever other requests did to the object in between.
THEOREM RepliesDescribeTheirCalls == Spec => []ReplyDescribesCall
<1>1. ShapeInv => ReplyDescribesCall
  BY DEF ShapeInv, ReplyDescribesCall, ReplyOK, AwaitOK, Idle
<1> QED BY <1>1, Shapes, PTL

\* Under any limits that ServerLimits::validate accepts, execute_request replaces
\* the result of a call that was executed by SYSTEM_ERR only for a symbolic link
\* that is too long, or for a time that nfstime3 cannot hold.
THEOREM ExecutedCallsAreReported == Spec => []ExecutedIsReported
<1>1. ShapeInv => ExecutedIsReported
  BY DEF ShapeInv, ExecutedIsReported, ReplyOK, AwaitOK, Idle
<1> QED BY <1>1, Shapes, PTL

=============================================================================
