------------------------------- MODULE Server -------------------------------
(***************************************************************************)
(* The life of one server run: the accept loop and the shutdown sequence   *)
(* of src/server/mod.rs (run), the ExecutionTracker, the standalone        *)
(* portmapper service of src/server/portmapper.rs, and the ServerHandle.   *)
(*                                                                         *)
(* Connections, request tasks and executions are tokio tasks.  Aborting a  *)
(* task, or dropping the JoinSet that owns it, does not stop it: a task    *)
(* that is being polled on another thread finishes its poll.  Such a task  *)
(* is "aborted" here until it is dropped, and an aborted request task may  *)
(* still take the steps that need no wait.                                 *)
(*                                                                         *)
(* What happens inside a connection is the subject of Connection; here a   *)
(* connection only starts request tasks, and may end at any time.          *)
(***************************************************************************)
EXTENDS Naturals, FiniteSets

CONSTANTS
    NfsConns, PortmapConns, \* connections to the NFS listener and to the portmapper
    Reqs, ConnOf,           \* requests, and the NFS connection each is sent on
    MaxConnections,         \* limits.max_connections, shared by both listeners
    HasPortmapper,          \* is a standalone portmapper configured?
    Waiters,                \* callers of ServerHandle::wait
    NoWaiter

ASSUME ServerConstants ==
    /\ NfsConns \cap PortmapConns = {}
    /\ ConnOf \in [Reqs -> NfsConns]
    /\ MaxConnections \in Nat \ {0}
    /\ HasPortmapper \in BOOLEAN
    /\ NoWaiter \notin Waiters

VARIABLES
    shutdown,     \* the watch channel
    run,          \* where `run` is
    result,       \* how it ended: "none", "ok", "failed", or "aborted" by its handle
    service,      \* the task of run_portmapper
    conn,         \* the task of each connection
    connections,  \* the connections that hold a permit of the semaphore
    requester,    \* the request task of each request
    holds,        \* the request tasks that hold the upgraded ExecutionTracker
    exec,         \* the execution of each request
    handle, slot, \* is the handle held?  has its JoinHandle not been consumed?
    locked,       \* the waiter that has locked the slot
    waiter        \* each caller of wait

tasks == <<conn, connections, requester, holds, exec>>
owner == <<handle, slot, locked, waiter>>
vars == <<shutdown, run, result, service, tasks, owner>>

Joining == {"joining_tasks", "joining_services", "joining_executions"}
Aborting == {"aborting_tasks", "aborting_services", "aborting_executions",
             "executions_aborted", "waiting_executions"}
Alive == {"running", "aborted"}

TypeOK ==
    /\ shutdown \in BOOLEAN
    /\ run \in {"accepting", "returned"} \cup Joining \cup Aborting
    /\ result \in {"none", "ok", "failed", "aborted"}
    /\ service \in {"absent", "stopping", "ended", "joined"} \cup Alive
    /\ conn \in [NfsConns \cup PortmapConns -> {"absent", "rejected", "ended", "joined"} \cup Alive]
    /\ connections \subseteq NfsConns \cup PortmapConns
    /\ Cardinality(connections) <= MaxConnections
    /\ requester \in [Reqs -> {"none", "gone"} \cup Alive]
    /\ holds \subseteq Reqs
    /\ exec \in [Reqs -> {"none", "over"} \cup Alive]
    /\ handle \in BOOLEAN /\ slot \in BOOLEAN
    /\ locked \in Waiters \cup {NoWaiter}
    /\ waiter \in [Waiters -> {"idle", "queued", "awaiting", "done"}]

\* start_inner, connection_state, and the spawn of the service in run
Init ==
    /\ shutdown = FALSE /\ run = "accepting" /\ result = "none"
    /\ service = IF HasPortmapper THEN "running" ELSE "absent"
    /\ conn = [c \in NfsConns \cup PortmapConns |-> "absent"]
    /\ connections = {} /\ holds = {}
    /\ requester = [r \in Reqs |-> "none"]
    /\ exec = [r \in Reqs |-> "none"]
    /\ handle = TRUE /\ slot = TRUE /\ locked = NoWaiter
    /\ waiter = [w \in Waiters |-> "idle"]

-----------------------------------------------------------------------------
(* Tasks.                                                                   *)

\* abort_all, or the drop of the JoinSet with the tasks S
Aborted(state, S) == [t \in DOMAIN state |->
    IF t \in S /\ state[t] = "running" THEN "aborted" ELSE state[t]]

\* The end of a connection drops the JoinSet with its request tasks.
ConnectionDropped(c) == Aborted(requester, {r \in Reqs : ConnOf[r] = c})

\* Mutation: executions are detached from the tracker.
TrackerDetached(ended, held) == exec

\* The last Arc of the tracker is gone: its JoinSet goes, and the executions.
TrackerAfter(ended, held) == IF ended /\ held = {} THEN Aborted(exec, Reqs) ELSE exec

TrackerAlive == run # "returned" \/ holds # {}
TrackerLocked == run \in {"joining_executions", "waiting_executions"}

\* Mutation: a portmapper connection, too, returns its permit when it is joined.
ConnectionEndsUnjoined(c) ==
    /\ conn[c] \in Alive
    /\ conn' = [conn EXCEPT ![c] = "ended"]
    /\ connections' = IF run = "returned" THEN connections \ {c} ELSE connections
    /\ requester' = ConnectionDropped(c)
    /\ UNCHANGED <<shutdown, run, result, service, holds, exec, owner>>

ConnectionEnds(c) ==
    /\ conn[c] \in Alive
    /\ conn' = [conn EXCEPT ![c] = "ended"]
    \* an NFS task returns its permit to whoever joins it, a portmapper task drops it
    /\ connections' = IF c \in PortmapConns \/ run = "returned"
                      THEN connections \ {c} ELSE connections
    /\ requester' = ConnectionDropped(c)
    /\ UNCHANGED <<shutdown, run, result, service, holds, exec, owner>>

StartRequest(r) ==
    /\ conn[ConnOf[r]] = "running" /\ requester[r] = "none"
    /\ requester' = [requester EXCEPT ![r] = "running"]
    /\ UNCHANGED <<shutdown, run, result, service, conn, connections, holds, exec, owner>>

\* state.executions.upgrade()
Upgrade(r) ==
    /\ requester[r] \in Alive /\ exec[r] = "none" /\ r \notin holds
    /\ TrackerAlive
    /\ holds' = holds \cup {r}
    /\ UNCHANGED <<shutdown, run, result, service, conn, connections, requester, exec, owner>>

\* ExecutionTracker::spawn, which waits for the lock
Spawn(r) ==
    /\ r \in holds /\ exec[r] = "none" /\ ~TrackerLocked
    /\ exec' = [exec EXCEPT ![r] = "running"]
    /\ UNCHANGED <<shutdown, run, result, service, conn, connections, requester, holds, owner>>

\* The request task ends: without execution (a wait timed out, no tracker),
\* with its answer, or aborted at an await.
RequesterEnds(r) ==
    /\ \/ requester[r] = "aborted"
       \/ requester[r] = "running" /\ exec[r] \in {"none", "over"} /\ (r \in holds => exec[r] = "over")
    /\ requester' = [requester EXCEPT ![r] = "gone"]
    /\ holds' = holds \ {r}
    /\ exec' = IF r \in holds THEN TrackerAfter(run = "returned", holds') ELSE exec
    /\ UNCHANGED <<shutdown, run, result, service, conn, connections, owner>>

\* The execution completes, reaches its deadline, or is dropped.
ExecutionEnds(r) ==
    /\ exec[r] \in Alive
    /\ exec' = [exec EXCEPT ![r] = "over"]
    /\ UNCHANGED <<shutdown, run, result, service, conn, connections, requester, holds, owner>>

-----------------------------------------------------------------------------
(* The two accept loops.  A permit is tried, never waited for.              *)

Accepts(c) ==
    /\ conn[c] = "absent"
    /\ IF Cardinality(connections) < MaxConnections
       THEN /\ conn' = [conn EXCEPT ![c] = "running"]
            /\ connections' = connections \cup {c}
       ELSE /\ conn' = [conn EXCEPT ![c] = "rejected"]
            /\ UNCHANGED connections
    /\ UNCHANGED <<shutdown, run, result, service, requester, holds, exec, owner>>

Accept(c) == run = "accepting" /\ Accepts(c)
PortmapAccept(c) == service = "running" /\ Accepts(c)

\* join_next: the permit comes back with the joined task
JoinConnection(c) ==
    /\ \/ c \in NfsConns /\ run \in {"accepting", "joining_tasks", "aborting_tasks"}
       \/ c \in PortmapConns /\ service \in {"running", "stopping"}
    /\ conn[c] = "ended"
    /\ conn' = [conn EXCEPT ![c] = "joined"]
    /\ connections' = connections \ {c}
    /\ UNCHANGED <<shutdown, run, result, service, requester, holds, exec, owner>>

Joined(S) == \A c \in S : conn[c] \in {"absent", "rejected", "joined"}

-----------------------------------------------------------------------------
(* run_portmapper                                                           *)

ServiceNoticesShutdown ==
    /\ service = "running" /\ shutdown
    /\ service' = "stopping"
    /\ UNCHANGED <<shutdown, run, result, tasks, owner>>

ServiceStops ==
    /\ service = "stopping" /\ Joined(PortmapConns)
    /\ service' = "ended"
    /\ UNCHANGED <<shutdown, run, result, tasks, owner>>

\* An accept or receive error, or the drop of an aborted service: its JoinSet goes.
ServiceFails ==
    /\ service \in Alive
    /\ service' = "ended"
    /\ conn' = Aborted(conn, PortmapConns)
    /\ UNCHANGED <<shutdown, run, result, connections, requester, holds, exec, owner>>

-----------------------------------------------------------------------------
(* run                                                                      *)

Advance(from, to) == run = from /\ run' = to

\* run returns or is dropped, and with it `tasks`, `services` and its Arc of
\* the tracker.  Nothing is joined here.
Returns(outcome) ==
    /\ run # "returned" /\ run' = "returned"
    /\ result' = outcome
    /\ conn' = Aborted(conn, NfsConns)
    /\ connections' = {c \in connections : conn[c] \in Alive}
    /\ service' = IF service \in {"running", "stopping"} THEN "aborted" ELSE service
    /\ exec' = TrackerAfter(TRUE, holds)
    /\ UNCHANGED <<shutdown, requester, holds, owner>>

\* listener.accept() fails
AcceptFails == run = "accepting" /\ Returns("failed")

\* The service ended although nobody asked for a shutdown, or it panicked: the
\* error of the join is returned before the watch channel is looked at.  How the
\* service ended is not recorded.
ServiceEndsRun == run = "accepting" /\ service = "ended" /\ Returns("failed")

\* The loop breaks for the watch channel, or for a service that saw it first.
NoticeShutdown ==
    /\ shutdown /\ Advance("accepting", "joining_tasks")
    /\ UNCHANGED <<shutdown, result, service, tasks, owner>>

JoinService ==
    /\ \/ run = "accepting" /\ shutdown /\ run' = "joining_tasks"
       \/ run \in {"joining_services", "aborting_services"} /\ UNCHANGED run
    /\ service = "ended" /\ service' = "joined"
    /\ UNCHANGED <<shutdown, result, tasks, owner>>

TasksJoined ==
    /\ Joined(NfsConns)
    /\ Advance("joining_tasks", "joining_services")
    /\ UNCHANGED <<shutdown, result, service, tasks, owner>>

ServicesJoined ==
    /\ service \in {"absent", "joined"}
    /\ \/ Advance("joining_services", "joining_executions")
       \/ Advance("aborting_services", "aborting_executions")
    /\ UNCHANGED <<shutdown, result, service, tasks, owner>>

ExecutionsJoined ==
    /\ run \in {"joining_executions", "waiting_executions"}
    /\ \A r \in Reqs : exec[r] \notin Alive
    /\ Returns("ok")

\* Mutation: the tasks are not aborted before they are joined.
DeadlineWithoutAbort ==
    /\ run \in Joining /\ run' = "aborting_tasks"
    /\ UNCHANGED <<shutdown, result, service, tasks, owner>>

\* The graceful deadline passes: tasks.abort_all().
DeadlinePasses ==
    /\ run \in Joining /\ run' = "aborting_tasks"
    /\ conn' = Aborted(conn, NfsConns)
    /\ UNCHANGED <<shutdown, result, service, connections, requester, holds, exec, owner>>

AbortServices ==
    /\ Joined(NfsConns)
    /\ Advance("aborting_tasks", "aborting_services")
    /\ service' = IF service \in {"running", "stopping"} THEN "aborted" ELSE service
    /\ UNCHANGED <<shutdown, result, tasks, owner>>

\* executions.abort_all(), which unlocks the tracker before wait locks it again
AbortExecutions ==
    /\ Advance("aborting_executions", "executions_aborted")
    /\ exec' = Aborted(exec, Reqs)
    /\ UNCHANGED <<shutdown, result, service, conn, connections, requester, holds, owner>>

LockExecutions ==
    /\ Advance("executions_aborted", "waiting_executions")
    /\ UNCHANGED <<shutdown, result, service, tasks, owner>>

-----------------------------------------------------------------------------
(* ServerHandle                                                             *)

Shutdown ==
    /\ handle /\ shutdown' = TRUE
    /\ UNCHANGED <<run, result, service, tasks, owner>>

Wait(w) ==
    /\ handle /\ waiter[w] = "idle"
    /\ waiter' = [waiter EXCEPT ![w] = "queued"]
    /\ UNCHANGED <<shutdown, run, result, service, tasks, handle, slot, locked>>

\* The waiter locks the slot; if the JoinHandle has been consumed it returns.
WaitLocks(w) ==
    /\ waiter[w] = "queued" /\ locked = NoWaiter
    /\ waiter' = [waiter EXCEPT ![w] = IF slot THEN "awaiting" ELSE "done"]
    /\ locked' = IF slot THEN w ELSE NoWaiter
    /\ UNCHANGED <<shutdown, run, result, service, tasks, handle, slot>>

WaitJoins(w) ==
    /\ waiter[w] = "awaiting" /\ run = "returned"
    /\ waiter' = [waiter EXCEPT ![w] = "done"]
    /\ slot' = FALSE /\ locked' = NoWaiter
    /\ UNCHANGED <<shutdown, run, result, service, tasks, handle>>

WaitCancelled(w) ==
    /\ waiter[w] \in {"queued", "awaiting"}
    /\ waiter' = [waiter EXCEPT ![w] = "idle"]
    /\ locked' = IF locked = w THEN NoWaiter ELSE locked
    /\ UNCHANGED <<shutdown, run, result, service, tasks, handle, slot>>

\* A waiter borrows the handle, so the slot is never locked here.
DropHandle ==
    /\ handle /\ \A w \in Waiters : waiter[w] \in {"idle", "done"}
    /\ handle' = FALSE /\ shutdown' = TRUE
    /\ UNCHANGED <<run, result, service, tasks, slot, locked, waiter>>

\* task.abort() of Drop takes effect.
RunAborted == ~handle /\ slot /\ Returns("aborted")

-----------------------------------------------------------------------------
ServiceStep == ServiceNoticesShutdown \/ ServiceStops \/ ServiceFails
RunStep ==
    \/ \E c \in NfsConns : JoinConnection(c)
    \/ NoticeShutdown \/ ServiceEndsRun \/ JoinService \/ TasksJoined \/ ServicesJoined
    \/ ExecutionsJoined \/ DeadlinePasses \/ AbortServices \/ AbortExecutions \/ LockExecutions
    \/ RunAborted
RequestStep(r) == StartRequest(r) \/ Upgrade(r) \/ Spawn(r) \/ RequesterEnds(r) \/ ExecutionEnds(r)
WaiterStep(w) == Wait(w) \/ WaitLocks(w) \/ WaitJoins(w) \/ WaitCancelled(w)

Next ==
    \/ \E c \in NfsConns : Accept(c) \/ ConnectionEnds(c)
    \/ \E c \in PortmapConns : PortmapAccept(c) \/ ConnectionEnds(c) \/ JoinConnection(c)
    \/ \E r \in Reqs : RequestStep(r)
    \/ \E w \in Waiters : WaiterStep(w)
    \/ RunStep \/ ServiceStep \/ AcceptFails \/ Shutdown \/ DropHandle

Spec == Init /\ [][Next]_vars

\* run and the portmapper service are polled, the graceful deadline passes,
\* an aborted task is dropped, an execution has a deadline, and the lock of
\* the handle's slot is granted in turn.  Nobody need close a connection.
Fairness ==
    /\ WF_vars(RunStep)
    /\ WF_vars(ServiceNoticesShutdown \/ ServiceStops \/ (service = "aborted" /\ ServiceFails))
    /\ \A c \in NfsConns \cup PortmapConns : WF_vars(conn[c] = "aborted" /\ ConnectionEnds(c))
    /\ \A c \in PortmapConns : WF_vars(JoinConnection(c))
    /\ \A r \in Reqs : WF_vars(ExecutionEnds(r)) /\ WF_vars(RequesterEnds(r))
    /\ \A w \in Waiters : SF_vars(WaitLocks(w)) /\ WF_vars(WaitJoins(w))
FairSpec == Spec /\ Fairness

-----------------------------------------------------------------------------
(* Properties.                                                              *)

\* The permits of max_connections are held by the connections that live and
\* by the NFS connections that ended but are not joined yet, through accept
\* errors, aborts and a failing portmapper; and (in TypeOK) there are no more.
PermitsFollowConnections ==
    /\ TypeOK
    /\ connections = {c \in NfsConns \cup PortmapConns :
          conn[c] \in Alive \/ (c \in NfsConns /\ conn[c] = "ended" /\ run # "returned")}

\* A shutdown that run reports as Ok has joined every NFS connection and the
\* portmapper.  An execution that still runs was spawned by request tasks
\* that had been aborted in the middle of a poll, and those hold the tracker.
\* However run ends, no execution runs on once the last request task that
\* upgraded the tracker is gone: no reference cycle keeps the tracker alive.
\* And no wait returns before run has ended, also when an earlier wait was
\* cancelled and when several wait at once.
StopIsComplete ==
    /\ result = "ok" =>
          /\ Joined(NfsConns) /\ service \in {"absent", "joined"}
          /\ (\E r \in Reqs : exec[r] = "running") =>
                 holds # {} /\ \A r \in holds : requester[r] = "aborted"
    /\ ~TrackerAlive => \A r \in Reqs : exec[r] # "running"
    /\ \A w \in Waiters : waiter[w] = "done" => run = "returned"

\* "Waits for all listener and connection tasks to terminate."
\* (src/server/handle.rs:61)
WaitMeansTerminated ==
    (\E w \in Waiters : waiter[w] = "done") =>
        \A c \in NfsConns \cup PortmapConns : conn[c] \notin Alive

\* After a shutdown request run returns, whatever the peers, the portmapper
\* and the executions do, and so does each caller of wait unless it is
\* cancelled.  Once run has returned, on this or another way, every task it
\* owned ends.
ShutdownTerminates ==
    /\ shutdown ~> run = "returned"
    /\ run = "returned" ~> /\ \A c \in NfsConns \cup PortmapConns : conn[c] \notin Alive
                           /\ \A r \in Reqs : requester[r] \notin Alive /\ exec[r] \notin Alive
                           /\ service \notin Alive
    /\ \A w \in Waiters : shutdown /\ waiter[w] = "queued" ~> waiter[w] \in {"idle", "done"}
=============================================================================
