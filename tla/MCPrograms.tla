----------------------------- MODULE MCPrograms -----------------------------
(***************************************************************************)
(* The procedures of both stacks on small instances.  dispatch_call: the   *)
(* NFS procedures (Nfs3), a walk over a directory (ReadDir) and the MOUNT  *)
(* program (MountTable).  The demo stack: its NFS procedures (LegacyNfs).  *)
(* They share no state, so a behaviour is about one of them and leaves the *)
(* others as they start.                                                   *)
(***************************************************************************)
EXTENDS Nfs3

CONSTANTS a, b, f, g, m1, m2, c1, c2, d1, d2

Limited(record, fragment, fragments, read, write, readdir, mounted) ==
    [max_connections |-> 1, max_requests_per_connection |-> 1, max_inflight_requests |-> 1,
     max_rpc_record_size |-> record, max_rpc_fragment_size |-> fragment,
     max_fragments_per_record |-> fragments,
     max_buffered_request_bytes |-> record, max_buffered_reply_bytes |-> record,
     max_read_size |-> read, max_write_size |-> write, max_readdir_response_size |-> readdir,
     replay_cache_capacity |-> 1, replay_cache_max_bytes |-> 1, max_mounts |-> mounted]

-----------------------------------------------------------------------------
(* Two exports with two objects each, and limits that are as tight as      *)
(* validate allows: a record of 600 bytes in one fragment.                 *)

TightLimits ==
    Limited(600, 600, 1, 600 - MAXIMUM_READ_REPLY_OVERHEAD, 600 - MAXIMUM_WRITE_RECORD_OVERHEAD,
            600 - READDIR_REPLY_OVERHEAD, 1)

File == <<a, f>>
FarTimes == {<<b, g>>}
\* Nothing, what both sizes allow, and more than either
SomeCounts == {0, TightLimits.max_write_size, 600}
SomePaths == {1, 600}

\* While a reply to WRITE or COMMIT is under way, only calls that the client
\* learns from are followed: the others read and write nothing of its protocol.
WireIsForWrites ==
    wire = {} \/ call = Idle \/ call.request.proc \in {"WRITE", "COMMIT"}
\* The sizes that the client was told and the data that it sent do not affect each
\* other: once there is data, FSINFO has not been called.
SizesOrData ==
    \/ advert = [read |-> 0, write |-> 0]
    \/ wire = {} /\ \A w \in Writes : data[w] = "none" /\ copy[w] = "unsent"

-----------------------------------------------------------------------------
(* A directory of up to four entries.  The transport carries 560 bytes in  *)
(* one case because of its fragments, and max_readdir_response_size leaves *)
(* it no slack.  The longest name is an entry of 280 bytes, or 428 with    *)
(* attributes and handle.                                                  *)

VARIABLES
    walk_limits, directory, changes, walk_call, page, cookie, walking, seen, steady, walk_reply
walk == <<walk_limits, directory, changes, walk_call, page, cookie, walking, seen, steady, walk_reply>>

WalkLimits == {Limited(1000, 280, 2, 1, 1, 532, 1), Limited(700, 700, 1, 1, 1, 200, 1)}
\* No room, the empty result alone, an entry or two, all of the directory
WalkCounts == {19, 20, 110, 240, 2000}

NameLengths == <<1, 5, 255, 4>>
Cookies == 1..4

D == INSTANCE ReadDir WITH
        LimitChoices <- WalkLimits,
        Counts <- WalkCounts, MaxChanges <- 1,
        limits <- walk_limits, call <- walk_call, reply <- walk_reply
ASSUME D!ReadDirConstants

-----------------------------------------------------------------------------
(* Two calls of two clients.  The paths are long, so that a DUMP of two    *)
(* entries does not fit the transport.                                     *)

VARIABLES mounts, phase, request, mount_reply, told, lost
mount == <<mounts, phase, request, mount_reply, told, lost>>

MountExports == {<<"a">>, <<"a", "b">>}
\* An export, the same with a slash, one below an export, two that nobody exports
MountPaths ==
    {[components |-> p[1], spelling |-> p[2]] :
        p \in {<< <<"a">>, "plain">>, << <<"a">>, "slash">>, << <<"a", "b", "c">>, "plain">>,
               << <<"c">>, "plain">>, << <<"a">>, "relative">>}}

MountCalls == {m1, m2}
Clients == {c1, c2}
HostLength == [c \in Clients |-> 9]
PathLength == [path \in MountPaths |-> 250 + Len(path.components)]
MountLimits == Limited(1000, 280, 2, 1, 1, 100, 2)

M == INSTANCE MountTable WITH
        Calls <- MountCalls, Exports <- MountExports, Paths <- MountPaths,
        limits <- MountLimits, reply <- mount_reply
ASSUME M!MountConstants

-----------------------------------------------------------------------------
(* The demo stack, with two calls at a time on a directory of up to two    *)
(* files.                                                                  *)

VARIABLES capabilities, tree, log, demo_call
demo == <<capabilities, tree, log, demo_call>>

\* Too small for the code, for one entry, for both; and for the head alone
DemoPageLimits ==
    {[dircount |-> l[1], maxcount |-> l[2]] :
        l \in {<<15, 600>>, <<40, 600>>, <<100, 100>>, <<130, 130>>, <<600, 428>>, <<600, 600>>}}

DemoCalls == {d1, d2}
DemoNameLength == [a |-> 1, b |-> 27]
DemoNames == DOMAIN DemoNameLength

L == INSTANCE LegacyNfs WITH
        Calls <- DemoCalls, Names <- DemoNames, NameLength <- DemoNameLength,
        PageLimits <- DemoPageLimits, MaxId <- 4, call <- demo_call

\* The calls are alike: d1 is the first of them.
InOrder == demo_call[d1].at = "idle" => demo_call[d2].at = "idle"
\* A call that only reads does nothing to others, and what others do to it between
\* its steps is that a later one fails, as it may anyway: it is followed alone.
ReadersAlone ==
    \A c \in DemoCalls : demo_call[c].company => demo_call[c].proc \in L!Changes
\* A call that has ended and changed nothing leaves the other one as it would run
\* without it, and that is followed anyway.
LeavesTraces == \A c \in L!Done : L!Changed(c) # {}

-----------------------------------------------------------------------------
VARIABLE part   \* what this behaviour is about

ProgramsInit ==
    /\ part \in {"procedures", "listing", "mount", "demo"}
    /\ Init /\ D!Init /\ M!Init /\ L!Init
    /\ part # "listing" => directory = {} /\ walk_limits.max_rpc_record_size = 700
    /\ part # "demo" => capabilities = "ReadOnly" /\ tree = <<>>

Procedure == part = "procedures" /\ Next /\ UNCHANGED <<walk, mount, demo, part>>
Listing == part = "listing" /\ D!Next /\ UNCHANGED <<vars, mount, demo, part>>
Mounting == part = "mount" /\ M!Next /\ UNCHANGED <<vars, walk, demo, part>>
Demo ==
    /\ part = "demo" /\ LeavesTraces
    /\ L!Next /\ (InOrder /\ ReadersAlone)'
    /\ UNCHANGED <<vars, walk, mount, part>>

ProgramsNext == Procedure \/ Listing \/ Mounting \/ Demo
Exploration == WireIsForWrites /\ SizesOrData

DemoSpec == ProgramsInit /\ part = "demo" /\ [][Demo]_<<vars, walk, mount, demo, part>>
ProgramsSpec == ProgramsInit /\ [][ProgramsNext]_<<vars, walk, mount, demo, part>>

\* ReadDir: pages fit what the client and the transport allow and lead on, and a walk
\* ends with every entry that was there all the time, each once.
WalkIsComplete == D!WalkIsComplete
\* MountTable: the list is what its clients were told, will be told or could not be
\* told, within max_mounts.
ListIsAccountedFor == M!ListIsAccountedFor
\* LegacyNfs: attributes before and after a change enclose it.
WccEnclosesChange == L!WccEnclosesChange
\* LegacyNfs: a call is answered by one result.
OneResult == L!OneResult
\* LegacyNfs: a page of READDIRPLUS continues after the cookie and leads on.
PagesLeadOn == L!PagesLeadOn
=============================================================================
