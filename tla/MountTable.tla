----------------------------- MODULE MountTable -----------------------------
(***************************************************************************)
(* The MOUNT program, dispatch_mount in src/server/connection.rs: calls of *)
(* several clients on the one list of mounts.  MNT awaits the VFS, once    *)
(* for every component of the path and once for the attributes, before it  *)
(* takes the lock of the list; the other procedures only take the lock.    *)
(* A call is an execution of its own: it goes on when its connection is    *)
(* gone, and ends early only at its deadline or with the server.           *)
(*                                                                         *)
(* A path is the sequence of its components with its spelling: the list    *)
(* tells "/a" from "/a/", the lookup of an export does not.                *)
(***************************************************************************)
EXTENDS Limits, Sequences, FiniteSets, SequencesExt

CONSTANTS
    Calls, Clients, \* concurrent MNT calls; the addresses of the clients
    Exports,        \* the paths of the exports, as sequences of components
    Paths,          \* what clients ask for: [components, spelling]
    HostLength,     \* the length of each address as text
    PathLength,     \* the length of a path in bytes
    limits          \* ServerLimits

MountConstants ==
    /\ limits \in ServerLimits /\ Validate(limits)
    /\ Exports \subseteq Seq(STRING)
    /\ Paths \subseteq [components : Seq(STRING), spelling : {"plain", "slash", "relative"}]
    /\ HostLength \in [Clients -> 1..39]
    /\ \A p \in Paths : PathLength[p] \in 0..1024

VARIABLES
    mounts,         \* state.mounts, a sequence of entries
    phase, request, \* each MNT call: idle, resolving, attributes or locking, and then
                    \* answering, or outdated by an unmount of its entry; its entry
    reply,          \* history: the status of the last result, all VFS errors as one
    told,           \* history: the mounts that clients were told they have
    lost            \* history: those whose client was never told

vars == <<mounts, phase, request, reply, told, lost>>

NoRequest == <<>>

Init ==
    /\ mounts = <<>>
    /\ phase = [c \in Calls |-> "idle"] /\ request = [c \in Calls |-> NoRequest]
    /\ reply = "none" /\ told = {} /\ lost = {}

Finish(c) ==
    /\ phase' = [phase EXCEPT ![c] = "idle"]
    /\ request' = [request EXCEPT ![c] = NoRequest]
Enters(c, p) == phase' = [phase EXCEPT ![c] = p] /\ UNCHANGED <<request, reply>>

-----------------------------------------------------------------------------
(* MNT.                                                                     *)

\* export_matches: an export serves itself and what is below it.
ExportMatches(export, path) ==
    path.spelling # "relative" /\ IsPrefix(export, path.components)

\* The longest export that matches
SelectExport(path) ==
    LET matching == {e \in Exports : ExportMatches(e, path)}
    IN {e \in matching : \A d \in matching : Len(d) <= Len(e)}

\* The path is parsed and its export selected.
MntStart(c, client, path) ==
    /\ phase[c] = "idle" /\ SelectExport(path) # {}
    /\ phase' = [phase EXCEPT ![c] = "resolving"]
    /\ request' = [request EXCEPT ![c] = <<client, path>>]
    /\ UNCHANGED <<mounts, reply, told, lost>>

MntNoExport(path) ==
    /\ SelectExport(path) = {} /\ reply' = "NotFound"
    /\ UNCHANGED <<mounts, phase, request, told, lost>>

\* resolve_mount_object found every component.
MntResolved(c) ==
    /\ phase[c] = "resolving" /\ Enters(c, "attributes")
    /\ UNCHANGED <<mounts, told, lost>>

\* The attributes are those of a directory.
MntDirectory(c) ==
    /\ phase[c] = "attributes" /\ Enters(c, "locking")
    /\ UNCHANGED <<mounts, told, lost>>

\* A component is not found, the VFS fails, or the object is no directory.  An
\* export itself is the root of its VFS and needs no lookup.
MntFails(c) ==
    /\ \/ /\ phase[c] = "resolving" /\ reply' = "VfsError"
          /\ request[c][2].components \notin SelectExport(request[c][2])
       \/ phase[c] = "attributes" /\ reply' \in {"VfsError", "NotDirectory"}
    /\ Finish(c)
    /\ UNCHANGED <<mounts, told, lost>>

\* The deadline of the execution passes, or the server aborts it, at an await.
MntDropped(c) ==
    /\ phase[c] \in {"resolving", "attributes", "locking"} /\ Finish(c)
    /\ UNCHANGED <<mounts, reply, told, lost>>

HasRoom == Len(mounts) < limits.max_mounts

AlreadyMounted(entry) == \E i \in DOMAIN mounts : mounts[i] = entry

\* Under the lock, which is held over the check and the push.  Nothing is
\* awaited after it: what is left is the way of the reply to the client.
MntLocked(c) ==
    LET entry == request[c]
        ok == AlreadyMounted(entry) \/ HasRoom
    IN /\ phase[c] = "locking"
       /\ mounts' = IF ok /\ ~AlreadyMounted(entry) THEN Append(mounts, entry) ELSE mounts
       /\ reply' = IF ok THEN "Ok" ELSE "Io"
       /\ IF ok THEN phase' = [phase EXCEPT ![c] = "answering"] /\ UNCHANGED request ELSE Finish(c)
       /\ UNCHANGED <<told, lost>>

\* The client reads the reply.
MntReplied(c) ==
    /\ \/ /\ phase[c] = "answering"
          /\ told' = told \cup {request[c]} /\ lost' = lost \ {request[c]}
       \/ phase[c] = "outdated" /\ UNCHANGED <<told, lost>>
    /\ Finish(c)
    /\ UNCHANGED <<mounts, reply>>

\* The connection is gone, or the reply does not get into its queue in time.
MntUnheard(c) ==
    /\ \/ phase[c] = "answering" /\ lost' = lost \cup ({request[c]} \ told)
       \/ phase[c] = "outdated" /\ UNCHANGED lost
    /\ Finish(c)
    /\ UNCHANGED <<mounts, reply, told>>

-----------------------------------------------------------------------------
(* The other procedures.                                                    *)

XdrOpaqueSize(length) == 4 + 4 * DivCeil(length, 4)
DumpSize ==
    FoldLeft(LAMBDA size, e : size + 4 + XdrOpaqueSize(HostLength[e[1]])
                                       + XdrOpaqueSize(PathLength[e[2]]),
             24 + 4, mounts)

Dump ==
    /\ reply' = IF OutboundLengthFits(DumpSize, limits) THEN "Ok" ELSE "SYSTEM_ERR"
    /\ UNCHANGED <<mounts, phase, request, told, lost>>

\* Mutation: the path is unmounted for everybody.
RemainsByPath(entry, client, path) == entry[2] # path
Remains(entry, client, path) == entry[1] # client \/ entry[2] # path

\* What has been unmounted is what nobody has been, or will be, told rightly.
Unmounts(entries) ==
    /\ told' = told \ entries /\ lost' = lost \ entries
    /\ phase' = [c \in Calls |-> IF phase[c] = "answering" /\ request[c] \in entries THEN "outdated" ELSE phase[c]]
    /\ reply' = "Ok"
    /\ UNCHANGED request

Umnt(client, path) ==
    /\ mounts' = SelectSeq(mounts, LAMBDA entry : Remains(entry, client, path))
    /\ Unmounts({<<client, path>>})

Umntall(client) ==
    /\ mounts' = SelectSeq(mounts, LAMBDA entry : entry[1] # client)
    /\ Unmounts({client} \X Paths)

Next ==
    \/ \E client \in Clients, path \in Paths :
          Umnt(client, path) \/ \E c \in Calls : MntStart(c, client, path)
    \/ \E path \in Paths : MntNoExport(path)
    \/ \E c \in Calls :
          \/ MntResolved(c) \/ MntDirectory(c) \/ MntFails(c) \/ MntDropped(c)
          \/ MntLocked(c) \/ MntReplied(c) \/ MntUnheard(c)
    \/ \E client \in Clients : Umntall(client)
    \/ Dump

Spec == Init /\ [][Next]_vars

-----------------------------------------------------------------------------
(* Properties.                                                              *)

\* The list holds the mounts that their clients were told they have, those that
\* they are about to be told, and those whose reply was lost behind a push that
\* had been done, until the client repeats the MNT or unmounts: a refused, failed
\* or cancelled MNT leaves nothing behind, and nobody unmounts for somebody else.
\* It never grows past max_mounts and names no mount twice, although calls for
\* the same mount, or for the last free place, pass their awaits together.
ListIsAccountedFor ==
    /\ {mounts[i] : i \in DOMAIN mounts} =
          told \cup lost \cup {request[c] : c \in {d \in Calls : phase[d] = "answering"}}
    /\ told \cap lost = {}
    /\ Len(mounts) <= limits.max_mounts
    /\ \A i, j \in DOMAIN mounts : mounts[i] = mounts[j] => i = j
=============================================================================
