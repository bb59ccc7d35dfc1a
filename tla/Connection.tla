----------------------------- MODULE Connection -----------------------------
(***************************************************************************)
(* The request pipeline of src/server/connection.rs: the reader, processor *)
(* and writer of each connection, the request tasks the processor spawns,  *)
(* the executions they hand to the ExecutionTracker, and the semaphores    *)
(* and the replay cache that all connections share.                        *)
(*                                                                         *)
(* reader, processor and writer are the three futures of one tokio task    *)
(* (try_join!): an error of one drops the others, their queues and their   *)
(* JoinSet at once.  Request tasks and executions are tasks of their own;  *)
(* dropping the JoinSet aborts a request task at its next await, and an    *)
(* execution goes on without its connection.  The replay cache is          *)
(* ReplayService, which ReplayCache is shown to implement.                 *)
(*                                                                         *)
(* Every reservation is for one record of max_rpc_record_size bytes, so a  *)
(* byte budget is counted in records.  A wait that has a deadline may time *)
(* out whenever what it waits for is not there.                            *)
(***************************************************************************)
EXTENDS Naturals, Sequences, FiniteSets

CONSTANTS
    Conns, Reqs,            \* connections, and the requests sent on them
    ConnOf,                 \* the connection a request is sent on
    Xids, Args, XidOf, ArgsOf,  \* the replay key and the fingerprint of a request
    MaxRequestsPerConnection,   \* capacity of both queues and of the JoinSet
    MaxInflight,            \* permits of `requests`
    RequestRecords,         \* max_buffered_request_bytes, in records
    ReplyRecords,           \* max_buffered_reply_bytes, in records
    Empty, NoCall           \* the sentinels of ReplayService

ASSUME ConnectionConstants ==
    /\ IsFiniteSet(Reqs)
    /\ ConnOf \in [Reqs -> Conns]
    /\ XidOf \in [Reqs -> Xids]
    /\ ArgsOf \in [Reqs -> Args]
    /\ MaxRequestsPerConnection \in Nat \ {0}
    /\ MaxInflight \in Nat \ {0}
    /\ RequestRecords \in Nat \ {0}
    /\ ReplyRecords \in Nat \ {0}

VARIABLES
    shutdown, tracker,          \* the watch channel; is the ExecutionTracker alive?
    link,                       \* each connection: "open", "closed" or "failed"
    reader, processor, writer,  \* the futures of each connection
    request_queue, reply_queue, \* the two mpsc channels of each connection
    task,                       \* where each request is, up to its request task
    exec,                       \* its execution: "none", "running" or "over"
    reply,                      \* its reply: "none", "queued", "writing", "written" or "lost"
    request_buffers, reply_buffers, requests,  \* the requests that hold a permit of each semaphore
    slot, stage, source         \* the replay cache

conns == <<link, reader, processor, writer, request_queue, reply_queue>>
cache == <<slot, stage, source>>
charges == <<request_buffers, reply_buffers, requests>>
vars == <<shutdown, tracker, conns, task, exec, reply, charges, cache>>

Replay == INSTANCE ReplayService
    WITH Calls <- Reqs, Requests <- Xids, Fingerprints <- Args

ASSUME EmptyIsNoSlot == Empty \notin Replay!Slots

\* The record is in connection_reader; its task runs; its task has ended.
Arriving == {"receiving", "sending"}
Spawned == {"charging", "waiting", "admitting", "running", "replying"}
Ended == {"finished", "erred"}
TaskStates == Arriving \cup Spawned \cup Ended \cup
              {"unsent", "queued", "joined", "aborted", "dropped"}

TypeOK ==
    /\ shutdown \in BOOLEAN /\ tracker \in BOOLEAN
    /\ link \in [Conns -> {"open", "closed", "failed"}]
    /\ reader \in [Conns -> {"reading", "done"}]
    /\ processor \in [Conns -> {"running", "draining", "done"}]
    /\ writer \in [Conns -> {"running", "done"}]
    /\ request_queue \in [Conns -> Seq(Reqs)]
    /\ reply_queue \in [Conns -> Seq(Reqs)]
    /\ \A c \in Conns : /\ Len(request_queue[c]) <= MaxRequestsPerConnection
                        /\ Len(reply_queue[c]) <= MaxRequestsPerConnection
    /\ task \in [Reqs -> TaskStates]
    /\ exec \in [Reqs -> {"none", "running", "over"}]
    /\ reply \in [Reqs -> {"none", "queued", "writing", "written", "lost"}]
    /\ request_buffers \subseteq Reqs /\ Cardinality(request_buffers) <= RequestRecords
    /\ reply_buffers \subseteq Reqs /\ Cardinality(reply_buffers) <= ReplyRecords
    /\ requests \subseteq Reqs /\ Cardinality(requests) <= MaxInflight
    /\ slot \in [Xids -> Replay!Slots \cup {Empty}]
    /\ stage \in [Reqs -> Replay!Stages]
    /\ source \in [Reqs -> Reqs \cup {NoCall}]

Init ==
    /\ shutdown = FALSE /\ tracker = TRUE
    /\ link = [c \in Conns |-> "open"]
    /\ reader = [c \in Conns |-> "reading"]
    /\ processor = [c \in Conns |-> "running"]
    /\ writer = [c \in Conns |-> "running"]
    /\ request_queue = [c \in Conns |-> << >>]
    /\ reply_queue = [c \in Conns |-> << >>]
    /\ task = [r \in Reqs |-> "unsent"]
    /\ exec = [r \in Reqs |-> "none"]
    /\ reply = [r \in Reqs |-> "none"]
    /\ request_buffers = {} /\ reply_buffers = {} /\ requests = {}
    /\ Replay!Init

-----------------------------------------------------------------------------
(* Helpers.                                                                 *)

Of(c) == {r \in Reqs : ConnOf[r] = c}
InReader(c) == {r \in Of(c) : task[r] \in Arriving}
JoinSet(c) == {r \in Of(c) : task[r] \in Spawned \cup Ended}
Moves(r, from, to) == task[r] = from /\ task' = [task EXCEPT ![r] = to]
ReceiverClosed(c) == processor[c] # "running" \/ reader[c] = "done"

\* try_join! ends with an error, or the connection task is aborted: what the
\* three futures own is dropped.
Teardown(c) ==
    LET held == {r \in Of(c) : task[r] \in Arriving \cup {"queued"}}
        unsent == {r \in Of(c) : reply[r] \in {"queued", "writing"}}
    IN /\ link[c] = "open"
       /\ link' = [link EXCEPT ![c] = "failed"]
       /\ reader' = [reader EXCEPT ![c] = "done"]
       /\ processor' = [processor EXCEPT ![c] = "done"]
       /\ writer' = [writer EXCEPT ![c] = "done"]
       /\ request_queue' = [request_queue EXCEPT ![c] = << >>]
       /\ reply_queue' = [reply_queue EXCEPT ![c] = << >>]
       /\ task' = [r \in Reqs |-> IF r \in held THEN "dropped" ELSE task[r]]
       /\ reply' = [r \in Reqs |-> IF r \in unsent THEN "lost" ELSE reply[r]]
       /\ request_buffers' = request_buffers \ held
       /\ reply_buffers' = reply_buffers \ unsent
       /\ UNCHANGED <<shutdown, tracker, exec, requests, cache>>

-----------------------------------------------------------------------------
(* connection_reader                                                        *)

\* read_record_budgeted: the header is read and the whole record reserved
\* before its first body byte is.
ReadHeader(r) ==
    LET c == ConnOf[r]
    IN /\ link[c] = "open" /\ reader[c] = "reading" /\ ~shutdown /\ InReader(c) = {}
       /\ Cardinality(request_buffers) < RequestRecords
       /\ Moves(r, "unsent", "receiving")
       /\ request_buffers' = request_buffers \cup {r}
       /\ UNCHANGED <<shutdown, tracker, conns, exec, reply, reply_buffers, requests, cache>>

ReadBody(r) ==
    /\ Moves(r, "receiving", "sending")
    /\ UNCHANGED <<shutdown, tracker, conns, exec, reply, charges, cache>>

Enqueue(r) ==
    LET c == ConnOf[r]
    IN /\ ~ReceiverClosed(c)
       /\ Len(request_queue[c]) < MaxRequestsPerConnection
       /\ Moves(r, "sending", "queued")
       /\ request_queue' = [request_queue EXCEPT ![c] = Append(@, r)]
       /\ UNCHANGED <<shutdown, tracker, link, reader, processor, writer, reply_queue, exec, reply,
                      charges, cache>>

\* The reader returns Ok: idle, end of stream, shutdown, or a closed queue.
ReaderReturns(c) ==
    /\ link[c] = "open" /\ reader[c] = "reading"
    /\ \A r \in InReader(c) : task[r] = "sending" => shutdown \/ ReceiverClosed(c)
    /\ reader' = [reader EXCEPT ![c] = "done"]
    /\ task' = [r \in Reqs |-> IF r \in InReader(c) THEN "dropped" ELSE task[r]]
    /\ request_buffers' = request_buffers \ InReader(c)
    /\ UNCHANGED <<shutdown, tracker, link, processor, writer, request_queue, reply_queue, exec,
                   reply, reply_buffers, requests, cache>>

\* The reader fails: a malformed record, or no room in the queue in time.
ReaderFails(c) ==
    /\ reader[c] = "reading"
    /\ \A r \in InReader(c) : task[r] = "sending" =>
           Len(request_queue[c]) = MaxRequestsPerConnection
    /\ Teardown(c)

-----------------------------------------------------------------------------
(* connection_processor                                                     *)

NoticeShutdown(c) ==
    /\ shutdown /\ link[c] = "open" /\ processor[c] = "running"
    /\ processor' = [processor EXCEPT ![c] = "draining"]
    /\ UNCHANGED <<shutdown, tracker, link, reader, writer, request_queue, reply_queue, task, exec,
                   reply, charges, cache>>

SpawnRequest(c) ==
    /\ link[c] = "open" /\ request_queue[c] # << >>
    /\ Cardinality(JoinSet(c)) < MaxRequestsPerConnection
    /\ Moves(Head(request_queue[c]), "queued", "charging")
    /\ request_queue' = [request_queue EXCEPT ![c] = Tail(@)]
    /\ UNCHANGED <<shutdown, tracker, link, reader, processor, writer, reply_queue, exec, reply,
                   charges, cache>>

\* Mutation: tasks are joined only while no request is queued.
JoinFinishedWhenIdle(r) ==
    /\ link[ConnOf[r]] = "open" /\ request_queue[ConnOf[r]] = << >>
    /\ Moves(r, "finished", "joined")
    /\ UNCHANGED <<shutdown, tracker, conns, exec, reply, charges, cache>>

\* join_next: a task that ended well is forgotten, an error ends the connection
JoinFinished(r) ==
    /\ link[ConnOf[r]] = "open"
    /\ Moves(r, "finished", "joined")
    /\ UNCHANGED <<shutdown, tracker, conns, exec, reply, charges, cache>>

JoinErred(r) == task[r] = "erred" /\ Teardown(ConnOf[r])

\* Mutation: the processor returns while its tasks still run.
ProcessorIdleEarly(c) == ReceiverClosed(c) /\ request_queue[c] = << >>

\* Mutation: the end of the stream does not end the processor.
ProcessorIdleOnShutdown(c) ==
    processor[c] = "draining" /\ request_queue[c] = << >> /\ JoinSet(c) = {}

ProcessorIdle(c) == ReceiverClosed(c) /\ request_queue[c] = << >> /\ JoinSet(c) = {}

ProcessorReturns(c) ==
    /\ link[c] = "open" /\ processor[c] # "done"
    /\ ProcessorIdle(c)
    /\ processor' = [processor EXCEPT ![c] = "done"]
    /\ UNCHANGED <<shutdown, tracker, link, reader, writer, request_queue, reply_queue, task, exec,
                   reply, charges, cache>>

-----------------------------------------------------------------------------
(* The request task: reply budget, dispatch_record, reply queue.            *)

\* The task returns RequestTimeout without any reply.
ChargeTimesOut(r) ==
    /\ Cardinality(reply_buffers) >= ReplyRecords
    /\ Moves(r, "charging", "erred")
    /\ request_buffers' = request_buffers \ {r}
    /\ UNCHANGED <<shutdown, tracker, conns, exec, reply, reply_buffers, requests, cache>>

\* The task takes its reply budget and goes on, without an await, to the
\* replay cache.
Charged(r, to) ==
    /\ Cardinality(reply_buffers) < ReplyRecords
    /\ Moves(r, "charging", to)
    /\ reply_buffers' = reply_buffers \cup {r}
    /\ UNCHANGED <<shutdown, tracker, conns, exec, reply, requests>>

\* dispatch_record returns at once, with a reply or with an error that becomes
\* one, and the record is dropped.
AnsweredAtOnce(r) == Charged(r, "replying") /\ request_buffers' = request_buffers \ {r}

\* A header that does not decode, a bad credential or version, or a refusal
\* by policy is answered without the replay cache.
Reject(r) == AnsweredAtOnce(r) /\ UNCHANGED cache
BeginReplay(r) == AnsweredAtOnce(r) /\ Replay!Replay(r, XidOf[r], ArgsOf[r])
BeginRefused(r) == AnsweredAtOnce(r) /\ Replay!Refuse(r)

BeginWait(r) ==
    /\ Charged(r, "waiting") /\ UNCHANGED request_buffers
    /\ Replay!Join(r, XidOf[r], ArgsOf[r])

BeginExecute(r) ==
    /\ Charged(r, "admitting") /\ UNCHANGED request_buffers
    /\ Replay!Execute(r, XidOf[r], ArgsOf[r])

\* dispatch_record returns after a wait.
Answers(r, from) ==
    /\ Moves(r, from, "replying")
    /\ request_buffers' = request_buffers \ {r}
    /\ UNCHANGED <<shutdown, tracker, conns, exec, reply, reply_buffers, requests>>

WaitEnds(r) == stage[r] # "awaiting" /\ Answers(r, "waiting") /\ UNCHANGED cache
WaitTimesOut(r) == Replay!Leave(r) /\ Answers(r, "waiting")

\* The execution takes the permit, the lease and both buffer charges along.  The
\* permit and the lock of the tracker are taken in one step: a task that is
\* dropped between the two gives the permit back and drops its lease.
Admit(r) ==
    /\ tracker /\ Cardinality(requests) < MaxInflight
    /\ Moves(r, "admitting", "running")
    /\ exec' = [exec EXCEPT ![r] = "running"]
    /\ requests' = requests \cup {r}
    /\ UNCHANGED <<shutdown, tracker, conns, reply, request_buffers, reply_buffers, cache>>

\* No permit in time, or no tracker any more: the lease is dropped.
AdmitFails(r) ==
    /\ Cardinality(requests) >= MaxInflight \/ ~tracker
    /\ Replay!Fail(r)
    /\ Answers(r, "admitting")

\* Mutation: a failed execution does not report to its task.
ReceiveReplyOfSuccess(r) ==
    exec[r] = "over" /\ stage[r] = "answered" /\ Answers(r, "running") /\ UNCHANGED cache

ReceiveReply(r) == exec[r] = "over" /\ Answers(r, "running") /\ UNCHANGED cache

SendReply(r) ==
    LET c == ConnOf[r]
    IN /\ link[c] = "open" /\ Len(reply_queue[c]) < MaxRequestsPerConnection
       /\ Moves(r, "replying", "finished")
       /\ reply_queue' = [reply_queue EXCEPT ![c] = Append(@, r)]
       /\ reply' = [reply EXCEPT ![r] = "queued"]
       /\ UNCHANGED <<shutdown, tracker, link, reader, processor, writer, request_queue, exec,
                      charges, cache>>

\* The deadline covers the reply queue too; a task whose writer is gone ends.
SendReplyFails(r) ==
    LET c == ConnOf[r]
    IN /\ \/ /\ link[c] = "open" /\ Len(reply_queue[c]) = MaxRequestsPerConnection
             /\ Moves(r, "replying", "erred")
          \/ link[c] # "open" /\ Moves(r, "replying", "finished")
       /\ reply' = [reply EXCEPT ![r] = "lost"]
       /\ reply_buffers' = reply_buffers \ {r}
       /\ UNCHANGED <<shutdown, tracker, conns, exec, request_buffers, requests, cache>>

\* Mutation: a lease that is dropped is not cancelled.
LeaseForgotten(r) == UNCHANGED cache

\* Mutation: the lease of a running execution goes with its task.
LeaseOfAny(r) == IF stage[r] = "executing" THEN Replay!Fail(r) ELSE UNCHANGED cache

\* What the replay cache sees when the task is dropped at an await: Drop of
\* the lease, or of the receiver.
LeaseOf(r) ==
    CASE task[r] = "admitting" -> Replay!Fail(r)
      [] task[r] = "waiting" /\ stage[r] = "awaiting" -> Replay!Leave(r)
      [] OTHER -> UNCHANGED cache

\* Mutation: the charges are dropped with the task although its execution runs.
ChargesDropped(held, r) == held \ {r}

\* What is left of a semaphore's holders when the task is dropped: the
\* execution has its own handle on the permit.
AfterAbort(held, r) == IF exec[r] = "running" THEN held ELSE held \ {r}

AbortTask(r) ==
    /\ link[ConnOf[r]] # "open" /\ task[r] \in Spawned
    /\ task' = [task EXCEPT ![r] = "aborted"]
    /\ request_buffers' = AfterAbort(request_buffers, r)
    /\ reply_buffers' = AfterAbort(reply_buffers, r)
    /\ LeaseOf(r)
    /\ UNCHANGED <<shutdown, tracker, conns, exec, reply, requests>>

-----------------------------------------------------------------------------
(* The execution, which outlives its connection.                            *)

\* Its permit and its charges go; the reply stays charged to a waiting task.
ExecutionEnds(r) ==
    /\ exec[r] = "running"
    /\ exec' = [exec EXCEPT ![r] = "over"]
    /\ requests' = requests \ {r}
    /\ request_buffers' = request_buffers \ {r}
    /\ reply_buffers' = IF task[r] = "running" THEN reply_buffers ELSE reply_buffers \ {r}
    /\ UNCHANGED <<shutdown, tracker, conns, task, reply>>

ExecutionCompletes(r) == ExecutionEnds(r) /\ Replay!Finish(r)

\* Mutation: an execution has no deadline; only what ends the server ends it.
ExecutionHasNoDeadline(r) == ~tracker /\ ExecutionEnds(r) /\ Replay!Fail(r)

\* An error of the server, the deadline, a panic, or the tracker's abort_all.
ExecutionFails(r) == ExecutionEnds(r) /\ Replay!Fail(r)

-----------------------------------------------------------------------------
(* connection_writer, and the end of the connection                         *)

TakeReply(c) ==
    /\ link[c] = "open" /\ reply_queue[c] # << >>
    /\ \A r \in Of(c) : reply[r] # "writing"
    /\ reply' = [reply EXCEPT ![Head(reply_queue[c])] = "writing"]
    /\ reply_queue' = [reply_queue EXCEPT ![c] = Tail(@)]
    /\ UNCHANGED <<shutdown, tracker, link, reader, processor, writer, request_queue, task, exec,
                   charges, cache>>

WriteReply(r) ==
    /\ reply[r] = "writing"
    /\ reply' = [reply EXCEPT ![r] = "written"]
    /\ reply_buffers' = reply_buffers \ {r}
    /\ UNCHANGED <<shutdown, tracker, conns, task, exec, request_buffers, requests, cache>>

\* Mutation: a write has no deadline, and waits for a peer that does not read.
WriteNeverFails(r) == reply[r] = "gone" /\ Teardown(ConnOf[r])

\* The peer is gone or does not read for request_timeout.
WriteFails(r) == reply[r] = "writing" /\ Teardown(ConnOf[r])

WriterReturns(c) ==
    /\ link[c] = "open" /\ writer[c] = "running" /\ processor[c] = "done"
    /\ reply_queue[c] = << >>
    /\ \A r \in Of(c) : reply[r] # "writing"
    /\ writer' = [writer EXCEPT ![c] = "done"]
    /\ UNCHANGED <<shutdown, tracker, link, reader, processor, request_queue, reply_queue, task,
                   exec, reply, charges, cache>>

Close(c) ==
    /\ link[c] = "open"
    /\ reader[c] = "done" /\ processor[c] = "done" /\ writer[c] = "done"
    /\ link' = [link EXCEPT ![c] = "closed"]
    /\ UNCHANGED <<shutdown, tracker, reader, processor, writer, request_queue, reply_queue, task,
                   exec, reply, charges, cache>>

-----------------------------------------------------------------------------
(* The surroundings: shutdown, and a server that stops.               *)

Shutdown ==
    /\ ~shutdown /\ shutdown' = TRUE
    /\ UNCHANGED <<tracker, conns, task, exec, reply, charges, cache>>

\* run returns: the tracker goes, and with it what the server still runs.
ServerReturns ==
    /\ tracker /\ tracker' = FALSE
    /\ UNCHANGED <<shutdown, conns, task, exec, reply, charges, cache>>

\* The graceful deadline passed, or run dropped the connection's JoinSet.
AbortConnection(c) == (shutdown \/ ~tracker) /\ Teardown(c)

ReaderStep(c) ==
    \/ \E r \in Of(c) : ReadHeader(r) \/ ReadBody(r) \/ Enqueue(r)
    \/ ReaderReturns(c) \/ ReaderFails(c)
ProcessorStep(c) ==
    \/ NoticeShutdown(c) \/ SpawnRequest(c) \/ ProcessorReturns(c)
    \/ \E r \in Of(c) : JoinFinished(r) \/ JoinErred(r)
WriterStep(c) ==
    \/ TakeReply(c) \/ WriterReturns(c) \/ Close(c)
    \/ \E r \in Of(c) : WriteReply(r) \/ WriteFails(r)
TaskStep(r) ==
    \/ ChargeTimesOut(r)
    \/ Reject(r) \/ BeginReplay(r) \/ BeginRefused(r) \/ BeginWait(r) \/ BeginExecute(r)
    \/ WaitEnds(r) \/ WaitTimesOut(r) \/ Admit(r) \/ AdmitFails(r) \/ ReceiveReply(r)
    \/ SendReply(r) \/ SendReplyFails(r) \/ AbortTask(r)
ExecutionStep(r) == ExecutionCompletes(r) \/ ExecutionFails(r)

Next ==
    \/ \E c \in Conns : ReaderStep(c) \/ ProcessorStep(c) \/ WriterStep(c) \/ AbortConnection(c)
    \/ \E r \in Reqs : TaskStep(r) \/ ExecutionStep(r)
    \/ Shutdown \/ ServerReturns

Spec == Init /\ [][Next]_vars

\* Deadlines pass and tasks are polled, so each future of a connection and each
\* task that can go on does so.  Nothing is assumed of the peers and of the VFS:
\* a peer may never read and a call of the VFS may never return, and it is the
\* deadlines of the write and of the execution that end them.
Fairness ==
    /\ \A c \in Conns :
          /\ WF_vars(ReaderStep(c)) /\ WF_vars(ProcessorStep(c))
          /\ WF_vars(TakeReply(c) \/ WriterReturns(c) \/ Close(c) \/ \E r \in Of(c) : WriteFails(r))
    /\ \A r \in Reqs : WF_vars(TaskStep(r)) /\ WF_vars(ExecutionFails(r))
FairSpec == Spec /\ Fairness

-----------------------------------------------------------------------------
(* Properties.                                                              *)

\* The requests whose record is in memory: dispatch_record keeps it in its frame
\* until it returns, and the arguments of an execution are a slice of it.
Records ==
    {r \in Reqs : \/ task[r] \in Arriving \cup {"queued", "charging", "waiting", "admitting", "running"}
                  \/ exec[r] = "running"}

\* The execution is over and has taken the charge along, and dispatch_record has
\* not yet received the reply.
Outlived == {r \in Reqs : task[r] = "running" /\ exec[r] # "running"}

\* A request is charged to a budget exactly as long as the bytes the budget
\* stands for may exist, in the connection or in an execution that outlived it,
\* with one exception: between the end of an execution and the next poll of its
\* task the record is still there and its charge is not.  These records are
\* charged as replies, so there are never more of them than the reply budget
\* has room for.  No charge outlasts its bytes, and (in TypeOK) no budget is
\* exceeded.
ChargesFollowBytes ==
    /\ TypeOK
    /\ request_buffers = Records \ Outlived
    /\ Outlived \subseteq reply_buffers
    /\ reply_buffers = {r \in Reqs :
           \/ task[r] \in Spawned \ {"charging"}
           \/ exec[r] = "running"
           \/ reply[r] \in {"queued", "writing"}}
    /\ requests = {r \in Reqs : exec[r] = "running"}

\* Whoever leads an execution in the replay cache is about to run it or runs
\* it, and whoever awaits one is there to be answered: no failure, timeout or
\* abort leaves a lease or a waiter behind.
LeaseHasOwner ==
    \A r \in Reqs :
        /\ stage[r] = "executing" <=> task[r] = "admitting" \/ exec[r] = "running"
        /\ stage[r] = "awaiting" => task[r] = "waiting"

\* A retransmission, on this or another connection, never runs beside the
\* execution it repeats, even if the connection of that execution is gone.
RepeatsNeverRunTogether ==
    \A r, s \in Reqs :
        /\ r # s /\ exec[r] = "running" /\ exec[s] = "running"
        /\ XidOf[r] = XidOf[s] /\ ArgsOf[r] = ArgsOf[s]
        => \E q \in Reqs : XidOf[q] = XidOf[r] /\ ArgsOf[q] # ArgsOf[r] /\ stage[q] # "idle"

\* A connection that ends without error has answered every request it took
\* from the wire into its queue: end of stream and shutdown drain it.
CleanCloseAnswersAll ==
    \A r \in Reqs :
        link[ConnOf[r]] = "closed" /\ task[r] \notin {"unsent", "dropped"} => reply[r] = "written"

\* A queued request is settled: answered, timed out, or dropped with its
\* connection, and its lease in the replay cache ends, which is what ReplayCache
\* assumes of its callers.  The waits for a place among the tasks of the
\* connection, for the reply budget, a permit, a duplicate, the execution and a
\* place in the reply queue end, whatever other requests hold at that time.
\* A request passes these states once, so to be out of them again and again is
\* to be out of them for good.
RequestSettles ==
    \A r \in Reqs : []<>(task[r] \notin {"queued"} \cup Spawned /\ stage[r] # "executing")

\* A connection whose reader stopped, or whose server shuts down, ends.  All of
\* these are final.
ConnectionEnds == \A c \in Conns : []<>(shutdown \/ reader[c] = "done" => link[c] # "open")
=============================================================================
