-------------------------- MODULE LegacyTransport --------------------------
(***************************************************************************)
(* A connection of the demo stack (src/tcp.rs, src/rpcwire.rs).  The pump  *)
(* copies what the client sends into a pipe and writes the replies that    *)
(* are queued; the reader takes records from the pipe and spawns a task    *)
(* for each; the tasks run the calls and queue their replies.  The pump    *)
(* does one thing at a time: while it waits for room in the pipe it writes *)
(* no replies, and while it writes a reply it reads nothing.               *)
(*                                                                         *)
(* The client sends calls, and repeats them, on one connection after the   *)
(* other from the same address.  The bytes of a record, the programs that  *)
(* the calls are for, and the budget of buffered bytes that connections    *)
(* share are not part of this module.                                      *)
(***************************************************************************)
EXTENDS TransactionTracker, FiniteSets

CONSTANTS
    MAX_IN_FLIGHT_MESSAGES, MAX_QUEUED_REPLIES,
    PIPE,                   \* records that the duplex stream holds
    CHUNK,                  \* records that one read of the socket returns at most
    MaxSends, MaxRepeats,   \* bounds: records that the client sends, and repeats
    MaxConnections, MaxClock

Client == "address"

VARIABLES
    sent,           \* the records so far: the transaction of each
    underway,       \* and those that are neither answered, ignored nor lost
    window,         \* the records that the client lets be under way
    connection,     \* the number of the connection
    up,             \* the client has not closed it
    socket,         \* records in the socket
    pump,           \* process_socket
    duplex,         \* records in the pipe
    reader,         \* the loop of SocketMessageHandler::read
    tasks,          \* the calls, with the steps that they are at
    replies,        \* reply_send_channel: whether a reply is an error, and its record
    ran             \* transaction -> its last execution

channel == <<socket, duplex, replies>>
client == <<sent, window, connection, up>>
vars == <<clock, tracker, client, underway, channel, pump, reader, tasks, ran>>

Never == [state |-> "Never"]
Idle == [at |-> "select", held |-> <<>>]
Reading == [at |-> "read", held |-> <<>>]
Ended == [at |-> "done", held |-> <<>>]

\* The connection can hold this much and still move on.
Capacity == PIPE + MAX_IN_FLIGHT_MESSAGES + MAX_QUEUED_REPLIES + 1

Init ==
    /\ clock = 0 /\ TrackerInit
    /\ sent = <<>> /\ underway = {} /\ window \in Capacity..(Capacity + 1)
    /\ connection = 1 /\ up = TRUE
    /\ socket = <<>> /\ duplex = <<>> /\ replies = <<>>
    /\ pump = Idle /\ reader = Reading /\ tasks = {} /\ ran = <<>>

Settles(n) == underway' = underway \ {n}

-----------------------------------------------------------------------------
(* The client.                                                              *)

Send(xid) ==
    /\ up /\ pump # Ended /\ Len(sent) < MaxSends /\ Cardinality(underway) < window
    /\ sent' = Append(sent, xid) /\ underway' = underway \cup {Len(sent) + 1}
    /\ socket' = Append(socket, Len(sent) + 1)
    /\ UNCHANGED <<clock, tracker, window, connection, up, duplex, replies, pump, reader, tasks>>
Call == Send(Len(sent) + 1) /\ ran' = Append(ran, Never)
Repeats == Cardinality({n \in DOMAIN sent : sent[n] # n})
Repeat ==
    /\ Repeats < MaxRepeats
    /\ \E n \in DOMAIN sent : sent[n] = n /\ Send(n)
    /\ ran' = Append(ran, Never)
Close ==
    /\ up /\ up' = FALSE
    /\ UNCHANGED <<clock, tracker, sent, window, connection, underway, channel, pump, reader, tasks, ran>>

\* A new connection, when the old one has given its permit back: the pump and the
\* reader hold it.  What the old one still held is lost.
Reconnect ==
    /\ pump = Ended /\ reader = Ended /\ connection < MaxConnections
    /\ connection' = connection + 1 /\ up' = TRUE
    /\ underway' = {}
    /\ socket' = <<>> /\ duplex' = <<>> /\ replies' = <<>> /\ pump' = Idle /\ reader' = Reading
    /\ UNCHANGED <<clock, tracker, sent, window, tasks, ran>>

Tick ==
    /\ clock < MaxClock /\ clock' = clock + 1
    /\ UNCHANGED <<tracker, client, underway, channel, pump, reader, tasks, ran>>

-----------------------------------------------------------------------------
(* The pump.                                                                *)

Others == <<clock, tracker, client, tasks, ran>>

\* process_socket returns: the socket and the receiver of replies are dropped.
PumpEnds == pump' = Ended /\ socket' = <<>> /\ replies' = <<>>

PumpReads ==
    /\ pump.at = "select"
    /\ \E k \in 1..CHUNK :
          /\ k <= Len(socket)
          /\ pump' = [at |-> "feed", held |-> SubSeq(socket, 1, k)]
          /\ socket' = SubSeq(socket, k + 1, Len(socket))
    /\ UNCHANGED <<Others, underway, duplex, replies, reader>>
\* The end of the stream, or an error of the socket
PumpCloses ==
    /\ pump.at = "select" /\ ~up
    /\ PumpEnds
    /\ UNCHANGED <<Others, underway, duplex, reader>>
\* write_all into the pipe; its failure, when there is no reader, is ignored.
PumpFeeds ==
    /\ pump.at = "feed"
    /\ IF reader = Ended THEN pump' = Idle /\ UNCHANGED duplex
       ELSE /\ Len(duplex) < PIPE
            /\ duplex' = Append(duplex, Head(pump.held))
            /\ pump' = IF Len(pump.held) = 1 THEN Idle ELSE [pump EXCEPT !.held = Tail(@)]
    /\ UNCHANGED <<Others, underway, socket, replies, reader>>
PumpTakesReply ==
    /\ pump.at = "select" /\ replies # <<>>
    /\ IF Head(replies).error THEN PumpEnds
       ELSE /\ pump' = [at |-> "write", held |-> <<Head(replies).n>>] /\ replies' = Tail(replies)
            /\ UNCHANGED socket
    /\ UNCHANGED <<Others, underway, duplex, reader>>
\* write_fragment.  Its failure is noted only.
PumpWrites ==
    /\ pump.at = "write"
    /\ pump' = Idle /\ Settles(pump.held[1])
    /\ UNCHANGED <<Others, channel, reader>>
\* Nothing can send replies any more.
PumpIsAlone ==
    /\ pump.at = "select" /\ replies = <<>> /\ reader = Ended
    /\ \A t \in tasks : t.connection # connection
    /\ PumpEnds
    /\ UNCHANGED <<Others, underway, duplex, reader>>
Pump == PumpReads \/ PumpCloses \/ PumpFeeds \/ PumpTakesReply \/ PumpWrites \/ PumpIsAlone

-----------------------------------------------------------------------------
(* The reader.                                                              *)

ReaderTakes ==
    /\ reader.at = "read" /\ duplex # <<>>
    /\ reader' = [at |-> "permit", held |-> <<Head(duplex)>>] /\ duplex' = Tail(duplex)
    /\ UNCHANGED <<Others, underway, socket, replies, pump>>
\* The stream has ended, because the pump has.
ReaderEnds ==
    /\ reader.at = "read" /\ duplex = <<>> /\ pump = Ended
    /\ reader' = Ended
    /\ UNCHANGED <<Others, underway, channel, pump>>
\* No record in RPC_RECORD_READ_TIMEOUT, or one that record.rs refuses
ReaderFails ==
    /\ reader.at = "read" /\ duplex = <<>>
    /\ reader' = Ended
    /\ UNCHANGED <<Others, underway, channel, pump>>
InFlight == Cardinality({t \in tasks : t.connection = connection})
ReaderSpawns ==
    /\ reader.at = "permit" /\ InFlight < MAX_IN_FLIGHT_MESSAGES
    /\ tasks' = tasks \cup {[n |-> reader.held[1], connection |-> connection, at |-> "new"]}
    /\ reader' = Reading
    /\ UNCHANGED <<clock, tracker, client, underway, channel, pump, ran>>
Reader == ReaderTakes \/ ReaderEnds \/ ReaderSpawns

-----------------------------------------------------------------------------
(* The tasks: handle_rpc, and the reply.                                    *)

Steps(t, at) == tasks' = (tasks \ {t}) \cup {[t EXCEPT !.at = at]}
Ends(t) == tasks' = tasks \ {t}
Around == <<clock, client, pump, reader>>
Xid(t) == sent[t.n]

\* Not a call, or one that does not decode; or not version 2 of RPC
NotDispatched(t) ==
    /\ t.at = "new"
    /\ \E result \in {"reply", "error"} : Steps(t, result)
    /\ UNCHANGED <<Around, tracker, underway, channel, ran>>
Dispatched(t) ==
    /\ t.at = "new"
    /\ IsRetransmission(Client, Xid(t))
    /\ IF Known(Client, Xid(t)) THEN Ends(t) /\ Settles(t.n) /\ UNCHANGED ran
       ELSE Steps(t, "run") /\ ran' = [ran EXCEPT ![Xid(t)] = InProgress] /\ UNCHANGED underway
    /\ UNCHANGED <<Around, channel>>
\* The handler returns, with a reply or with an error.
Processed(t) ==
    /\ t.at = "run"
    /\ MarkProcessed(Client, Xid(t)) /\ ran' = [ran EXCEPT ![Xid(t)] = Completed(clock)]
    /\ \E result \in {"reply", "error"} : Steps(t, result)
    /\ UNCHANGED <<Around, underway, channel>>
\* The handler panics, and so does the task.
Panics(t) ==
    /\ t.at = "run"
    /\ Ends(t) /\ Settles(t.n)
    /\ UNCHANGED <<Around, tracker, channel, ran>>
\* Mutation: one place of the channel is not used.
NearlyFull == Len(replies) + 1 < MAX_QUEUED_REPLIES
HasRoom == Len(replies) < MAX_QUEUED_REPLIES
\* Mutation: a reply that finds no room is dropped.
RepliesOrNot(t) ==
    /\ t.at \in {"reply", "error"}
    /\ replies' = IF HasRoom THEN Append(replies, [error |-> t.at = "error", n |-> t.n]) ELSE replies
    /\ Ends(t)
    /\ UNCHANGED <<Around, tracker, underway, socket, duplex, ran>>
\* send, which fails when the pump has ended
Replies(t) ==
    /\ t.at \in {"reply", "error"}
    /\ IF t.connection # connection \/ pump = Ended THEN UNCHANGED replies
       ELSE HasRoom /\ replies' = Append(replies, [error |-> t.at = "error", n |-> t.n])
    /\ Ends(t)
    /\ UNCHANGED <<Around, tracker, underway, socket, duplex, ran>>
Task(t) == NotDispatched(t) \/ Dispatched(t) \/ Processed(t) \/ Panics(t) \/ Replies(t)

Next ==
    \/ Call \/ Repeat \/ Close \/ Reconnect \/ Tick
    \/ Pump \/ Reader \/ ReaderFails \/ \E t \in tasks : Task(t)

\* Tokio runs the tasks; handlers return; the client reads the replies.
Fairness == WF_vars(Pump) /\ WF_vars(Reader) /\ WF_vars(\E t \in tasks : Task(t))
Spec == Init /\ [][Next]_vars /\ Fairness

-----------------------------------------------------------------------------
\* A call is not executed again while it runs, nor in the retention period after
\* its handler returned, however it is repeated: before its execution has ended,
\* after its reply was lost with the connection, or when housekeeping has just
\* taken other calls of the same client.
NotRepeatedTooSoon ==
    [][\A t \in tasks : t.at = "new" /\ [t EXCEPT !.at = "run"] \in tasks' =>
          \/ ran[Xid(t)] = Never
          \/ ran[Xid(t)] # InProgress /\ clock - ran[Xid(t)].completed_at >= Retention]_vars

\* The pump waits for room in the pipe, which waits for the reader, which waits for
\* a task to end, while the tasks wait for the pump to take a reply.
Stalled ==
    /\ pump.at = "feed" /\ reader.at = "permit" /\ Len(duplex) >= PIPE
    /\ InFlight >= MAX_IN_FLIGHT_MESSAGES /\ ~HasRoom
    /\ \A t \in tasks : t.connection = connection => t.at \in {"reply", "error"}

\* That happens only to a client that has more calls under way than the pipe, the
\* tasks and the queue of replies hold, with one more in the reader's hands: below
\* that the circle of waits never closes.
StallNeedsFullPipes == Stalled => window > Capacity

\* Unless the connection stalls, every record that the client sends is answered,
\* dropped as a repetition, or lost with the task or with the connection; and the
\* pump and the reader both end after the client has closed it, so that the listener
\* gets the permit of the connection back.
RequestSettles ==
    /\ \A n \in 1..MaxSends :
          (n \in underway) ~> (n \notin underway \/ pump = Ended \/ reader = Ended \/ Stalled)
    /\ ~up ~> (pump = Ended /\ reader = Ended) \/ up \/ Stalled
=============================================================================
