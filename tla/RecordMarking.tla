--------------------------- MODULE RecordMarking ---------------------------
(***************************************************************************)
(* RPC record marking, src/rpc/record.rs: a writer that splits a record,   *)
(* held in three segments, into fragments and hands them to a socket that  *)
(* takes any prefix of what it is offered, the byte stream, and a reader   *)
(* that reserves its budget, follows the fragment headers and puts the     *)
(* record together again.  The reader's peer is a server like itself or a  *)
(* client that fragments as it likes.                                      *)
(*                                                                         *)
(* A payload byte is named by its record, its segment and its position, so *)
(* a lost, repeated or misplaced byte shows.  A fragment header is one     *)
(* item of the stream: both sides treat its four bytes as a unit.          *)
(***************************************************************************)
EXTENDS Naturals, Sequences, FiniteSets, FiniteSetsExt, SequencesExt

CONSTANTS
    LimitChoices,   \* the RecordLimits to explore
    Segmentations,  \* the records to write, as the lengths of their segments
    MaxRecords,     \* bound: records per behaviour
    FragmentSizes,  \* what a client puts in a fragment
    MaxFragments    \* bound: fragments a client sends

RecordLimits ==
    [max_record_size : Nat, max_fragment_size : Nat, max_fragments : Nat \ {0}]

ASSUME RecordConstants ==
    /\ LimitChoices \subseteq RecordLimits
    /\ Segmentations \subseteq [1..3 -> Nat]
    /\ FragmentSizes \subseteq Nat
    /\ MaxRecords \in Nat /\ MaxFragments \in Nat

VARIABLES
    limits, peer,       \* the RecordLimits of both sides; "server" or "client"
    writing,            \* the lengths of the segments being written, or << >>
    cursor,             \* segment_index and segment_offset
    remaining_total,
    slices,             \* what the socket has not taken of the current fragment
    client,             \* is a record of the client open, and how many fragments it sent
    stream,             \* what the reader has not taken
    reader,             \* "header", "reserving", "body" or the name of an error
    record, capacity,   \* the bytes read, and the capacity of their Vec
    missing,            \* bytes of the current fragment that are not read yet
    fragments,          \* the headers read of the current record
    reserved,           \* does the reader hold its reservation?
    sent, received      \* history: the records written and read

writer_vars == <<writing, cursor, remaining_total, slices>>
reader_vars == <<reader, record, capacity, missing, fragments, reserved, received>>
vars == <<limits, peer, writer_vars, client, reader_vars, stream, sent>>

Errors == {"EmptyFragment", "FragmentTooLarge", "RecordTooLarge", "TooManyFragments"}
Byte == [record : Nat, segment : 1..3, at : Nat]
Header == [length : Nat, last : BOOLEAN]

TypeOK ==
    /\ limits \in LimitChoices /\ peer \in {"server", "client"}
    /\ writing \in Segmentations \cup {<< >>}
    /\ cursor \in [index : 1..3, offset : Nat] /\ remaining_total \in Nat
    \* the array in the code has room for a header and three slices
    /\ Len(slices) <= 4
    /\ \A i \in DOMAIN slices : slices[i] # << >> /\ slices[i] \in Seq(Byte \cup Header)
    /\ client \in [open : BOOLEAN, fragments : Nat]
    /\ stream \in Seq(Byte \cup Header)
    /\ reader \in {"header", "reserving", "body"} \cup Errors
    /\ record \in Seq(Byte) /\ capacity \in Nat /\ missing \in Nat
    /\ fragments \in Seq(Header) /\ reserved \in BOOLEAN
    /\ sent \in Seq(Seq(Byte)) /\ received \in Seq(Seq(Byte))

Init ==
    /\ limits \in LimitChoices /\ peer \in {"server", "client"}
    /\ writing = << >> /\ cursor = [index |-> 1, offset |-> 0]
    /\ remaining_total = 0 /\ slices = << >>
    /\ client = [open |-> FALSE, fragments |-> 0]
    /\ reader = "header" /\ record = << >> /\ capacity = 0 /\ missing = 0
    /\ fragments = << >> /\ reserved = FALSE
    /\ stream = << >> /\ sent = << >> /\ received = << >>

-----------------------------------------------------------------------------
(* The writer: write_record_segments_limited.                               *)

Monus(a, b) == IF a >= b THEN a - b ELSE 0
DivCeil(a, b) == (a + b - 1) \div b

FragmentCount(length, l) == IF length = 0 THEN 1 ELSE DivCeil(length, l.max_fragment_size)

\* validate_record_length returns Ok.
ValidateRecordLength(length, l) ==
    /\ length <= l.max_record_size
    /\ l.max_fragment_size # 0
    /\ FragmentCount(length, l) <= l.max_fragments

Length(segments) == MapThenSumSet(LAMBDA i : segments[i], DOMAIN segments)
Bytes(n, segments) ==
    [i \in 1..3 |-> [p \in 1..segments[i] |-> [record |-> n, segment |-> i, at |-> p]]]

\* What a fragment of n bytes takes from each segment, from the cursor on
Start(i) == IF i = cursor.index THEN cursor.offset ELSE 0
Available(i) == IF i < cursor.index THEN 0 ELSE writing[i] - Start(i)
Take(n, i) ==
    Min({Available(i), Monus(n, MapThenSumSet(Available, 1..(i - 1)))})

\* Mutation: the cursor forgets what was taken of its segment before.
AdvanceFromZero(n) ==
    LET i == Max({1} \cup {j \in 1..3 : Take(n, j) > 0})
    IN [index |-> i, offset |-> Take(n, i)]

\* advance_segments stops in the segment of the last byte.
AdvanceSegments(n) ==
    LET i == Max({cursor.index} \cup {j \in 1..3 : Take(n, j) > 0})
    IN [index |-> i, offset |-> Start(i) + Take(n, i)]

\* Mutation: an empty record has no header.
StartRecordSilent(segments) ==
    /\ peer = "server" /\ writing = << >> /\ Len(sent) < MaxRecords
    /\ ValidateRecordLength(Length(segments), limits)
    /\ writing' = segments
    /\ remaining_total' = Length(segments)
    /\ cursor' = [index |-> 1, offset |-> 0]
    /\ slices' = << >>
    /\ sent' = Append(sent, FlattenSeq(Bytes(Len(sent) + 1, segments)))
    /\ UNCHANGED <<limits, peer, client, reader_vars, stream>>

\* A record that is not valid is not written, and its connection fails.
StartRecord(segments) ==
    /\ peer = "server" /\ writing = << >> /\ Len(sent) < MaxRecords
    /\ ValidateRecordLength(Length(segments), limits)
    /\ writing' = segments
    /\ remaining_total' = Length(segments)
    /\ cursor' = [index |-> 1, offset |-> 0]
    /\ slices' = IF Length(segments) = 0 THEN << <<[length |-> 0, last |-> TRUE]>> >> ELSE << >>
    /\ sent' = Append(sent, FlattenSeq(Bytes(Len(sent) + 1, segments)))
    /\ UNCHANGED <<limits, peer, client, reader_vars, stream>>

\* A fragment is gathered and the cursor moves over it.
StartFragment ==
    LET n == Min({remaining_total, limits.max_fragment_size})
        bytes == Bytes(Len(sent), writing)
        parts == [i \in 1..3 |-> SubSeq(bytes[i], Start(i) + 1, Start(i) + Take(n, i))]
    IN /\ remaining_total > 0 /\ slices = << >>
       /\ slices' = << <<[length |-> n, last |-> n = remaining_total]>> >>
                    \o SelectSeq(parts, LAMBDA s : s # << >>)
       /\ cursor' = AdvanceSegments(n)
       /\ remaining_total' = remaining_total - n
       /\ UNCHANGED <<limits, peer, writing, client, reader_vars, stream, sent>>

\* write_vectored takes a prefix of n items, advance_slices drops it.
Write(n) ==
    LET offered == FlattenSeq(slices)
        Skipped(i) == Monus(n, MapThenSumSet(LAMBDA j : Len(slices[j]), 1..(i - 1)))
        rest == [i \in DOMAIN slices |->
                    SubSeq(slices[i], Skipped(i) + 1, Len(slices[i]))]
    IN /\ slices # << >> /\ n <= Len(offered)
       /\ stream' = stream \o SubSeq(offered, 1, n)
       /\ slices' = SelectSeq(rest, LAMBDA s : s # << >>)
       /\ UNCHANGED <<limits, peer, writing, cursor, remaining_total, client, reader_vars, sent>>

EndRecord ==
    /\ writing # << >> /\ remaining_total = 0 /\ slices = << >>
    /\ writing' = << >>
    /\ UNCHANGED <<limits, peer, cursor, remaining_total, slices, client, reader_vars, stream, sent>>

-----------------------------------------------------------------------------
(* A client: any fragments, in one record after another.                    *)

ClientSends(n, last) ==
    LET before == IF client.open THEN Last(sent) ELSE << >>
        number == IF client.open THEN Len(sent) ELSE Len(sent) + 1
        body == [p \in 1..n |-> [record |-> number, segment |-> 1, at |-> Len(before) + p]]
    IN /\ peer = "client" /\ client.fragments < MaxFragments
       /\ client' = [open |-> ~last, fragments |-> client.fragments + 1]
       /\ sent' = SubSeq(sent, 1, number - 1) \o <<before \o body>>
       /\ stream' = stream \o <<[length |-> n, last |-> last]>> \o body
       /\ UNCHANGED <<limits, peer, writer_vars, reader_vars>>

-----------------------------------------------------------------------------
(* The reader: read_record_budgeted.  read_record is the same without the   *)
(* reservation.                                                             *)

\* The checks on a header, in their order; "" if it passes
HeaderError(h) ==
    CASE h.length = 0 /\ ~h.last -> "EmptyFragment"
      [] h.length > limits.max_fragment_size -> "FragmentTooLarge"
      [] Len(record) + h.length > limits.max_record_size -> "RecordTooLarge"
      [] OTHER -> ""

\* Mutation: the capacity is doubled whatever the limit.
GrowsFreely(required) ==
    IF required <= capacity THEN capacity ELSE Max({2 * capacity, required})

\* reserve_record
ReserveRecord(required) ==
    IF required <= capacity THEN capacity
    ELSE Min({Max({2 * capacity, required}), limits.max_record_size})

StartBody(length) ==
    /\ reader' = "body"
    /\ missing' = length
    /\ capacity' = ReserveRecord(Len(record) + length)

Fails(error) ==
    /\ reader' = error /\ reserved' = FALSE /\ record' = << >> /\ capacity' = 0
    /\ UNCHANGED <<missing, received>>

\* A fragment header; the first one waits for the reservation.
ReadHeader ==
    /\ reader = "header" /\ stream # << >>
    /\ LET h == Head(stream)
       IN /\ fragments' = Append(fragments, h)
          /\ \/ HeaderError(h) # "" /\ Fails(HeaderError(h))
             \/ /\ HeaderError(h) = "" /\ reserved
                /\ StartBody(h.length)
                /\ UNCHANGED <<record, reserved, received>>
             \/ /\ HeaderError(h) = "" /\ ~reserved
                /\ reader' = "reserving"
                /\ UNCHANGED <<record, capacity, missing, reserved, received>>
    /\ stream' = Tail(stream)
    /\ UNCHANGED <<limits, peer, writer_vars, client, sent>>

Reserve ==
    /\ reader = "reserving"
    /\ reserved' = TRUE
    /\ StartBody(Head(fragments).length)
    /\ UNCHANGED <<limits, peer, writer_vars, client, record, fragments, received, stream, sent>>

\* read_exact goes on as bytes arrive.
ReadByte ==
    /\ reader = "body" /\ missing > 0 /\ stream # << >>
    /\ record' = Append(record, Head(stream))
    /\ stream' = Tail(stream)
    /\ missing' = missing - 1
    /\ UNCHANGED <<limits, peer, writer_vars, client, reader, capacity, fragments, reserved,
                   received, sent>>

\* Mutation: one fragment more than the limit is read.
OneTooMany(n) == n > limits.max_fragments

TooMany(n) == n >= limits.max_fragments

\* The end of a fragment.  A whole record goes to the caller with its permit.
EndFragment ==
    /\ reader = "body" /\ missing = 0
    /\ \/ /\ Last(fragments).last
          /\ received' = Append(received, record)
          /\ reader' = "header" /\ record' = << >> /\ capacity' = 0
          /\ fragments' = << >> /\ reserved' = FALSE
          /\ UNCHANGED missing
       \/ /\ ~Last(fragments).last /\ TooMany(Len(fragments))
          /\ Fails("TooManyFragments")
          /\ UNCHANGED fragments
       \/ /\ ~Last(fragments).last /\ ~TooMany(Len(fragments))
          /\ reader' = "header"
          /\ UNCHANGED <<record, capacity, missing, fragments, reserved, received>>
    /\ UNCHANGED <<limits, peer, writer_vars, client, stream, sent>>

-----------------------------------------------------------------------------
WriterStep ==
    \/ \E s \in Segmentations : StartRecord(s)
    \/ StartFragment \/ EndRecord
    \/ \E n \in 1..Len(FlattenSeq(slices)) : Write(n)
ReaderStep == ReadHeader \/ Reserve \/ ReadByte \/ EndFragment
Next ==
    \/ WriterStep \/ ReaderStep
    \/ \E n \in FragmentSizes, last \in BOOLEAN : ClientSends(n, last)

Spec == Init /\ [][Next]_vars

\* A record that was started is written on: a write the socket does not take
\* in time fails the connection, which ends this behaviour.  What is in the
\* stream is read, since reservations are freed in the end.
FairSpec ==
    /\ Spec
    /\ WF_vars(StartFragment \/ EndRecord \/ \E n \in 1..Len(FlattenSeq(slices)) : Write(n))
    /\ WF_vars(ReaderStep)

-----------------------------------------------------------------------------
(* Properties.                                                              *)

\* Records are read as they were written: same bytes, same order, whatever
\* the segments, the fragments and the partial writes.  Only the last record
\* of a client may be unfinished.
RoundTrip ==
    /\ TypeOK
    /\ Len(received) <= Len(sent)
    /\ \A i \in DOMAIN received : received[i] = sent[i]

\* The rules of a record, over the headers read so far
Legal ==
    /\ Len(fragments) <= limits.max_fragments
    /\ \A i \in DOMAIN fragments :
          /\ fragments[i].length <= limits.max_fragment_size
          /\ fragments[i].length > 0 \/ fragments[i].last
    /\ MapThenSumSet(LAMBDA i : fragments[i].length, DOMAIN fragments) <= limits.max_record_size
    /\ fragments # << >> =>
          Len(fragments) < limits.max_fragments \/ Last(fragments).last

\* A reader refuses exactly the records that break a limit: at the limit is
\* still accepted, and an illegal record gets at most its body read.  A record
\* that passes validate_record_length is never refused by a reader with the
\* same limits: the two draw the line at the same place.
RefusesExactly ==
    /\ peer = "server" => reader \notin Errors
    /\ reader \in Errors => ~Legal
    /\ ~Legal => reader \in Errors \cup {"reserving", "body"}

\* Memory for a record is allocated only under the reservation and never
\* beyond the record limit that the reservation is for.
AllocationIsReserved ==
    /\ capacity > 0 => reserved
    /\ Len(record) + (IF reader = "body" THEN missing ELSE 0) <= capacity
    /\ capacity <= limits.max_record_size

\* A record the server starts to write is read.
RecordArrives ==
    \A n \in 1..MaxRecords : peer = "server" /\ Len(sent) >= n ~> Len(received) >= n
=============================================================================
