------------------------- MODULE TransactionTracker -------------------------
(***************************************************************************)
(* src/transaction_tracker.rs: the calls of the demo stack that are in     *)
(* progress or were completed a short while ago, by client address and     *)
(* transaction identifier.  Times are readings of one clock.               *)
(***************************************************************************)
EXTENDS Naturals, Sequences, Functions
LOCAL INSTANCE SequencesExt

CONSTANT Retention      \* retention_period, in ticks of the clock

VARIABLES
    clock,              \* Instant::now()
    transactions,       \* client -> xid -> TransactionState
    completed_order     \* the completions, oldest first

tracker == <<transactions, completed_order>>

\* TransactionState
InProgress == [state |-> "InProgress"]
Completed(at) == [state |-> "Completed", completed_at |-> at]

TrackerInit ==
    /\ transactions = [client \in {} |-> <<>>]
    /\ completed_order = <<>>

Put(f, key, value) == [k \in DOMAIN f \cup {key} |-> IF k = key THEN value ELSE f[k]]
Drop(f, keys) == Restrict(f, DOMAIN f \ keys)

Aged(completed) == clock - completed.at >= Retention

\* The items at the front of the queue that housekeeping takes
Popped ==
    LET young == SelectInSeq(completed_order, LAMBDA completed : ~Aged(completed))
    IN IF young = 0 THEN completed_order ELSE SubSeq(completed_order, 1, young - 1)

\* The transactions of a client that they still stand for
Expired(client) ==
    {xid \in DOMAIN transactions[client] :
        \E i \in DOMAIN Popped :
            /\ Popped[i].client = client /\ Popped[i].xid = xid
            /\ transactions[client][xid] = Completed(Popped[i].at)}

\* Mutation: the client goes with its first transaction.
WholeClients ==
    Drop(transactions, {c \in DOMAIN transactions : Expired(c) # {}})

\* housekeeping: a client goes with its last transaction.
Kept ==
    LET left(client) == Drop(transactions[client], Expired(client))
    IN [client \in {c \in DOMAIN transactions : DOMAIN left(c) # {}} |-> left(client)]

Known(client, xid) == client \in DOMAIN Kept /\ xid \in DOMAIN Kept[client]

\* is_retransmission, which also notes a new transaction
IsRetransmission(client, xid) ==
    /\ completed_order' = SubSeq(completed_order, Len(Popped) + 1, Len(completed_order))
    /\ transactions' =
          IF Known(client, xid) THEN Kept
          ELSE Put(Kept, client,
                   Put(IF client \in DOMAIN Kept THEN Kept[client] ELSE <<>>, xid, InProgress))

\* Mutation: the completion is not queued.
MarkOnly(client, xid) ==
    IF client \in DOMAIN transactions /\ xid \in DOMAIN transactions[client]
    THEN /\ transactions' = [transactions EXCEPT ![client][xid] = Completed(clock)]
         /\ UNCHANGED completed_order
    ELSE UNCHANGED tracker
MarkProcessed(client, xid) ==
    IF client \in DOMAIN transactions /\ xid \in DOMAIN transactions[client]
    THEN /\ transactions' = [transactions EXCEPT ![client][xid] = Completed(clock)]
         /\ completed_order' = Append(completed_order, [client |-> client, xid |-> xid, at |-> clock])
    ELSE UNCHANGED tracker

-----------------------------------------------------------------------------
\* The queue and the map of the tracker are about the same completions: every
\* completed transaction is queued once, with its time, so that housekeeping will
\* find it; the queue is in order of time, so that its front is the oldest; and no
\* client is kept without transactions.
TrackerAgrees ==
    /\ \A client \in DOMAIN transactions : DOMAIN transactions[client] # {}
    /\ \A client \in DOMAIN transactions : \A xid \in DOMAIN transactions[client] :
          transactions[client][xid] # InProgress =>
             \E i \in DOMAIN completed_order :
                /\ completed_order[i].client = client /\ completed_order[i].xid = xid
                /\ transactions[client][xid] = Completed(completed_order[i].at)
    /\ \A i, j \in DOMAIN completed_order : i < j =>
          /\ completed_order[i].at <= completed_order[j].at
          /\ <<completed_order[i].client, completed_order[i].xid>> # <<completed_order[j].client, completed_order[j].xid>>
=============================================================================
