------------------------------ MODULE ReadDir ------------------------------
(***************************************************************************)
(* READDIR and READDIRPLUS, src/server/connection.rs: a client walks a     *)
(* directory page by page while other clients change it.  The server       *)
(* bounds the request, takes a page from the VFS, takes the attributes of  *)
(* the directory in a second call, and cuts the page to what the client    *)
(* and the transport have room for.  The client goes on from the cookie of *)
(* the last entry it was given.                                            *)
(*                                                                         *)
(* An entry is named by its cookie, and cookies are handed out in order.   *)
(* Sizes are the real XDR sizes, in bytes.                                 *)
(***************************************************************************)
EXTENDS Xdr, Sequences, FiniteSets, SequencesExt

CONSTANTS
    LimitChoices,   \* the ServerLimits to explore
    Cookies,        \* bound: the cookies the directory can use
    NameLengths,    \* the length of the name behind each cookie
    Counts,         \* what a client gives for count, dircount and maxcount
    MaxChanges      \* bound: changes of the directory during the walk

ReadDirConstants ==
    /\ \A l \in LimitChoices : l \in ServerLimits /\ Validate(l)
    /\ Cookies \subseteq Nat \ {0} /\ IsFiniteSet(Cookies)
    /\ NameLengths \in [Cookies -> 1..255]
    /\ Counts \subseteq Nat /\ MaxChanges \in Nat

VARIABLES
    limits,
    directory, changes, \* the cookies in use, and how often that changed
    call,               \* the request the server works on, or Idle
    page,               \* the page that the VFS returned for it
    cookie, walking,    \* the client: where it goes on, and whether it does
    seen, steady,       \* history: cookies received; in use since the walk began
    reply               \* history: the reply just given, with its request

vars == <<limits, directory, changes, call, page, cookie, walking, seen, steady, reply>>

Idle == [plus |-> FALSE, dircount |-> 0, maxcount |-> 0]
NoPage == [entries |-> << >>, eof |-> FALSE]
Failed(status) == [status |-> status, attributes |-> FALSE, entries |-> << >>, eof |-> FALSE]
NoReply == [call |-> Idle, result |-> Failed("none")]

Init ==
    /\ limits \in LimitChoices /\ directory \in SUBSET Cookies /\ changes = 0
    /\ call = Idle /\ page = NoPage
    /\ cookie = 0 /\ walking = TRUE
    /\ seen = << >> /\ steady = directory /\ reply = NoReply

-----------------------------------------------------------------------------
(* Sizes: encode_readdir_entry and ReadDirResult::encode_result.            *)

BasicSize(c) == 4 + 8 + Opaque(NameLengths[c]) + 8
\* The VFS gives attributes for the entries with an even cookie.
PlusSize(c) == BasicSize(c) + PostAttributes(c % 2 = 0) + 4 + Opaque(HANDLE_SIZE)
EntrySize(plus, c) == IF plus THEN PlusSize(c) ELSE BasicSize(c)

\* The result without its status
EmptySize(attributes) == PostAttributes(attributes) + 8 + 4 + 4
EntriesSize(plus, entries) ==
    FoldLeft(LAMBDA sum, c : sum + EntrySize(plus, c), 0, entries)
ResultSize(plus, attributes, entries) ==
    EmptySize(attributes) + EntriesSize(plus, entries)

-----------------------------------------------------------------------------
(* readdir_reply: the page is cut to what fits.                             *)

SelectedAttributes(attributes, wire_limit) ==
    attributes /\ EmptySize(TRUE) <= wire_limit

\* Does the loop push the entry at i, if it gets there?
EntryFits(c, selected, wire_limit, entries, i) ==
    LET prefix == SubSeq(entries, 1, i)
    IN /\ c.plus => EntriesSize(FALSE, prefix) + 4 <= c.dircount
       /\ ResultSize(c.plus, selected, prefix) <= wire_limit

\* Mutation: an entry that does not fit is passed over and the loop goes on.
SkipsEntries(c, selected, wire_limit, entries) ==
    SelectSeq(entries, LAMBDA e : EntryFits(c, selected, wire_limit, <<e>>, 1))

\* The loop breaks at the first entry that does not fit.
FittingEntries(c, selected, wire_limit, entries) ==
    LET n == Max({0} \cup {i \in 1..Len(entries) :
                    \A j \in 1..i : EntryFits(c, selected, wire_limit, entries, j)})
    IN SubSeq(entries, 1, n)

ReadDirReply(c, p, attributes, wire_limit) ==
    LET selected == SelectedAttributes(attributes, wire_limit)
        entries == FittingEntries(c, selected, wire_limit, p.entries)
        truncated == Len(entries) < Len(p.entries)
    IN IF EmptySize(selected) > wire_limit \/ (truncated /\ entries = << >>)
       THEN [Failed("TooSmall") EXCEPT !.attributes = attributes]
       ELSE [status |-> "Ok", attributes |-> selected, entries |-> entries,
             eof |-> p.eof /\ ~truncated]

-----------------------------------------------------------------------------
(* The handler, around its two awaits, and the client.                      *)

WireLimit(c) == Smaller(c.maxcount, limits.max_readdir_response_size)

\* The client takes a reply: what it received, and where it goes on.
Deliver(c, result) ==
    /\ reply' = [call |-> c, result |-> result]
    /\ seen' = seen \o result.entries
    /\ cookie' = IF result.entries = << >> THEN cookie ELSE Last(result.entries)
    /\ walking' = (walking /\ ~result.eof)
    /\ call' = Idle /\ page' = NoPage

\* The VFS, external: a page holds some of the entries behind the cookie, one at
\* least if there is one, in order; the hint obliges it to nothing.
Following == SetToSortSeq({c \in directory : c > cookie}, <)
VfsPages ==
    {[entries |-> SubSeq(Following, 1, n), eof |-> n = Len(Following)] :
        n \in (IF Following = << >> THEN {0} ELSE 1..Len(Following))}

\* READDIR has one count.
Requests ==
    {c \in [plus : BOOLEAN, dircount : Counts, maxcount : Counts] :
        c.plus \/ c.dircount = c.maxcount}

\* A bad handle, a count that holds no reply, or an error of the VFS
ReaddirFails(c) ==
    /\ walking /\ call = Idle
    /\ \E status \in {"error", "TooSmall"} :
          /\ status = "TooSmall" => WireLimit(c) < 20
          /\ Deliver(c, Failed(status))
    /\ UNCHANGED <<limits, directory, changes, steady>>

\* vfs.readdir returns a page.
Readdir(c) ==
    /\ walking /\ call = Idle /\ WireLimit(c) >= 20
    /\ call' = c /\ page' \in VfsPages /\ reply' = NoReply
    /\ UNCHANGED <<limits, directory, changes, cookie, walking, seen, steady>>

\* vfs.getattr returns, with attributes or with an error, and the reply goes out.
Getattr(attributes) ==
    /\ call # Idle
    /\ Deliver(call, ReadDirReply(call, page, attributes, WireLimit(call)))
    /\ UNCHANGED <<limits, directory, changes, steady>>

\* The entries whose attributes the loop encodes, the one it breaks at included
EntriesEncoded(c, p, attributes) ==
    LET wire_limit == WireLimit(c)
        selected == SelectedAttributes(attributes, wire_limit)
        n == Len(FittingEntries(c, selected, wire_limit, p.entries))
    IN {i \in 1..Smaller(n + 1, Len(p.entries)) :
           /\ c.plus /\ p.entries[i] % 2 = 0
           /\ EntriesSize(FALSE, SubSeq(p.entries, 1, i)) + 4 <= c.dircount}

\* The VFS gave a time that encode_time refuses, for the directory or for an entry:
\* readdir_reply returns EncodeError, and execute_request answers SYSTEM_ERR.
Unencodable(attributes) ==
    /\ call # Idle /\ (attributes \/ EntriesEncoded(call, page, attributes) # {})
    /\ Deliver(call, Failed("SYSTEM_ERR"))
    /\ UNCHANGED <<limits, directory, changes, steady>>

\* Another client creates or removes a file.
Change(c) ==
    /\ changes < MaxChanges /\ changes' = changes + 1
    /\ directory' = IF c \in directory THEN directory \ {c} ELSE directory \cup {c}
    /\ steady' = steady \ {c}
    /\ UNCHANGED <<limits, call, page, cookie, walking, seen, reply>>

\* The client walks the directory again.
Rewind ==
    /\ ~walking
    /\ walking' = TRUE /\ cookie' = 0 /\ seen' = << >> /\ steady' = directory
    /\ reply' = NoReply
    /\ UNCHANGED <<limits, directory, changes, call, page>>

Next ==
    \/ \E c \in Requests : ReaddirFails(c) \/ Readdir(c)
    \/ \E attributes \in BOOLEAN : Getattr(attributes) \/ Unencodable(attributes)
    \/ \E c \in Cookies : Change(c)
    \/ Rewind

Spec == Init /\ [][Next]_vars

-----------------------------------------------------------------------------
(* Properties.                                                              *)

\* A successful reply is no larger than the client asked for and fits the
\* transport: the record that carries it passes validate_record_length, so
\* execute_request never turns a page into a system error for its size (only for
\* a time that cannot be encoded, which is Unencodable).  And it takes the client
\* further: it has an entry or it says that the directory ends.
\* An empty page without eof would be asked for forever.
PageLeadsOn ==
    LET result == reply.result
        size == ResultSize(reply.call.plus, result.attributes, result.entries)
    IN result.status = "Ok" =>
         /\ size <= reply.call.maxcount
         /\ OutboundLengthFits(READDIR_REPLY_OVERHEAD + size, limits)
         /\ reply.call.plus => EntriesSize(FALSE, result.entries) <= reply.call.dircount
         /\ result.eof \/ result.entries # << >>

\* A walk that is told eof has been given every entry that was in the directory
\* all the time, and no walk is given an entry twice or out of order, however
\* its pages were cut and whatever was created and removed on the way.
WalkIsComplete ==
    /\ PageLeadsOn
    /\ ~walking => steady \subseteq {seen[i] : i \in DOMAIN seen}
    /\ \A i \in 1..(Len(seen) - 1) : seen[i] < seen[i + 1]
=============================================================================
