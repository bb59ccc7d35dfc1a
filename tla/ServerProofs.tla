---------------------------- MODULE ServerProofs ----------------------------
(***************************************************************************)
(* Proofs about the life of a server run, for any connections, requests,   *)
(* callers of wait and any max_connections.  That a stop is complete rests *)
(* on what each stage of run has joined before it is entered (StageInv)    *)
(* and on whom a request task depends (RequesterInv).                      *)
(***************************************************************************)
EXTENDS Server, FiniteSetTheorems, TLAPS

AllConns == NfsConns \cup PortmapConns

\* The connections that should hold a permit
Holders == {c \in AllConns :
    conn[c] \in Alive \/ (c \in NfsConns /\ conn[c] = "ended" /\ run # "returned")}

PermitInv == TypeOK /\ IsFiniteSet(connections) /\ connections = Holders

\* The stages of run that are entered when `tasks`, and `services`, are joined
AfterTasks == {"joining_services", "joining_executions", "aborting_services",
               "aborting_executions", "executions_aborted", "waiting_executions"}
AfterServices == {"joining_executions", "aborting_executions", "executions_aborted",
                  "waiting_executions"}

StageInv ==
    /\ result = "ok" => run = "returned"
    /\ run \in AfterTasks \/ result = "ok" => Joined(NfsConns)
    /\ run \in AfterServices \/ result = "ok" => service \in {"absent", "joined"}

\* A request task that is not aborted has its connection, and only a live one
\* holds the tracker.
RequesterInv ==
    /\ \A r \in Reqs : requester[r] = "running" => conn[ConnOf[r]] \in Alive
    /\ \A r \in holds : requester[r] \in Alive
    /\ ~TrackerAlive => \A r \in Reqs : exec[r] # "running"

WaitInv ==
    /\ ~slot => run = "returned"
    /\ \A w \in Waiters : waiter[w] = "done" => run = "returned"

Inv == PermitInv /\ StageInv /\ RequesterInv /\ WaitInv


-----------------------------------------------------------------------------
(* Types.                                                                   *)

\* Aborting tasks keeps the type of their states, and aborts those that run.
LEMMA AbortedType ==
    ASSUME TypeOK, NEW S
    PROVE  /\ Aborted(conn, S) \in [AllConns -> {"absent", "rejected", "ended", "joined"} \cup Alive]
           /\ \A c \in AllConns : Aborted(conn, S)[c] =
                 IF c \in S /\ conn[c] = "running" THEN "aborted" ELSE conn[c]
           /\ Aborted(requester, S) \in [Reqs -> {"none", "gone"} \cup Alive]
           /\ \A r \in Reqs : Aborted(requester, S)[r] =
                 IF r \in S /\ requester[r] = "running" THEN "aborted" ELSE requester[r]
           /\ Aborted(exec, S) \in [Reqs -> {"none", "over"} \cup Alive]
           /\ \A r \in Reqs : Aborted(exec, S)[r] =
                 IF r \in S /\ exec[r] = "running" THEN "aborted" ELSE exec[r]
<1>1. DOMAIN conn = AllConns /\ DOMAIN requester = Reqs /\ DOMAIN exec = Reqs
  BY Zenon DEF TypeOK, AllConns
<1>2. /\ Aborted(conn, S) \in [AllConns -> {"absent", "rejected", "ended", "joined"} \cup Alive]
      /\ \A c \in AllConns : Aborted(conn, S)[c] =
            IF c \in S /\ conn[c] = "running" THEN "aborted" ELSE conn[c]
  BY <1>1, Zenon DEF Aborted, TypeOK, Alive, AllConns
<1>3. /\ Aborted(requester, S) \in [Reqs -> {"none", "gone"} \cup Alive]
      /\ \A r \in Reqs : Aborted(requester, S)[r] =
            IF r \in S /\ requester[r] = "running" THEN "aborted" ELSE requester[r]
  BY <1>1, Zenon DEF Aborted, TypeOK, Alive
<1>4. /\ Aborted(exec, S) \in [Reqs -> {"none", "over"} \cup Alive]
      /\ \A r \in Reqs : Aborted(exec, S)[r] =
            IF r \in S /\ exec[r] = "running" THEN "aborted" ELSE exec[r]
  BY <1>1, Zenon DEF Aborted, TypeOK, Alive
<1> QED BY <1>2, <1>3, <1>4, Zenon

\* Permits are counted: there are finitely many, and the count is right.
LEMMA PermitCount ==
    ASSUME IsFiniteSet(connections), Cardinality(connections) <= MaxConnections
    PROVE  /\ Cardinality(connections) \in Nat
           /\ \A c : /\ IsFiniteSet(connections \cup {c})
                     /\ Cardinality(connections) < MaxConnections =>
                           Cardinality(connections \cup {c}) <= MaxConnections
           /\ \A T \in SUBSET connections :
                 IsFiniteSet(T) /\ Cardinality(T) <= MaxConnections
<1>1. Cardinality(connections) \in Nat
  BY FS_CardinalityType, Zenon
<1>2. ASSUME NEW c
      PROVE  /\ IsFiniteSet(connections \cup {c})
             /\ Cardinality(connections) < MaxConnections =>
                   Cardinality(connections \cup {c}) <= MaxConnections
  <2>1. /\ IsFiniteSet(connections \cup {c})
        /\ Cardinality(connections \cup {c}) =
              IF c \in connections THEN Cardinality(connections) ELSE Cardinality(connections) + 1
    BY FS_AddElement, Zenon
  <2> QED BY <1>1, <2>1, ServerConstants
<1>3. ASSUME NEW T \in SUBSET connections
      PROVE  IsFiniteSet(T) /\ Cardinality(T) <= MaxConnections
  <2>1. IsFiniteSet(T) /\ Cardinality(T) <= Cardinality(connections)
    BY FS_Subset, Zenon
  <2>2. Cardinality(T) \in Nat
    BY <2>1, FS_CardinalityType, Zenon
  <2> QED BY <1>1, <2>1, <2>2, ServerConstants
<1> QED BY <1>1, <1>2, <1>3, Zenon

\* A server starts with nothing to join.
LEMMA InitInv == Init => Inv
<1> SUFFICES ASSUME Init PROVE Inv
  BY Zenon
<1>1. IsFiniteSet(connections) /\ Cardinality(connections) = 0
  BY FS_EmptySet, Zenon DEF Init
<1>2. TypeOK
  <2>1. Cardinality(connections) <= MaxConnections
    BY <1>1, ServerConstants
  <2>2. service \in {"absent", "stopping", "ended", "joined"} \cup Alive
    BY Zenon DEF Init, Alive
  <2>3. /\ conn \in [NfsConns \cup PortmapConns ->
                    {"absent", "rejected", "ended", "joined"} \cup Alive]
        /\ connections \subseteq NfsConns \cup PortmapConns
    BY Zenon DEF Init
  <2>4. /\ requester \in [Reqs -> {"none", "gone"} \cup Alive] /\ holds \subseteq Reqs
        /\ exec \in [Reqs -> {"none", "over"} \cup Alive]
    BY Zenon DEF Init
  <2>5. shutdown \in BOOLEAN /\ handle \in BOOLEAN /\ slot \in BOOLEAN
    BY Zenon DEF Init
  <2>6. run \in {"accepting", "returned"} \cup Joining \cup Aborting
        /\ result \in {"none", "ok", "failed", "aborted"}
    BY Zenon DEF Init
  <2>7. locked \in Waiters \cup {NoWaiter}
        /\ waiter \in [Waiters -> {"idle", "queued", "awaiting", "done"}]
    BY Zenon DEF Init
  <2> QED BY <2>1, <2>2, <2>3, <2>4, <2>5, <2>6, <2>7, Zenon DEF TypeOK
<1>3. connections = Holders
  BY Zenon DEF Init, Holders, AllConns, Alive
<1>4. StageInv
  BY Zenon DEF Init, StageInv, AfterTasks, AfterServices
<1>5. RequesterInv
  BY Zenon DEF Init, RequesterInv, TrackerAlive
<1>6. WaitInv
  BY Zenon DEF Init, WaitInv
<1> QED BY <1>1, <1>2, <1>3, <1>4, <1>5, <1>6, Zenon DEF Inv, PermitInv

-----------------------------------------------------------------------------
(* Connections.                                                             *)

\* A connection that ends gives up its request tasks, and its permit unless run
\* will take it.
LEMMA ConnectionEndsInv ==
    ASSUME Inv, NEW c \in AllConns, ConnectionEnds(c)
    PROVE  Inv'
<1> USE DEF Inv, PermitInv
<1>1. /\ conn[c] \in Alive /\ conn' = [conn EXCEPT ![c] = "ended"]
      /\ connections' = IF c \in PortmapConns \/ run = "returned"
                        THEN connections \ {c} ELSE connections
      /\ requester' = Aborted(requester, {r \in Reqs : ConnOf[r] = c})
      /\ UNCHANGED <<shutdown, run, result, service, holds, exec, handle, slot, locked, waiter>>
  BY Zenon DEF ConnectionEnds, ConnectionDropped, owner
<1>2. /\ requester' \in [Reqs -> {"none", "gone"} \cup Alive]
      /\ \A r \in Reqs : requester'[r] =
            IF ConnOf[r] = c /\ requester[r] = "running" THEN "aborted" ELSE requester[r]
  BY <1>1, AbortedType
<1>3. IsFiniteSet(connections') /\ Cardinality(connections') <= MaxConnections
  BY <1>1, PermitCount, Zenon DEF TypeOK
<1>4. conn' \in [AllConns -> {"absent", "rejected", "ended", "joined"} \cup Alive]
  BY <1>1, Zenon DEF TypeOK, AllConns
<1>5. TypeOK'
  <2>1. connections' \subseteq NfsConns \cup PortmapConns
    BY <1>1, Zenon DEF TypeOK
  <2> QED BY <1>1, <1>2, <1>3, <1>4, <2>1 DEF TypeOK, AllConns
<1>6. connections' = Holders'
  BY <1>1, <1>4, ServerConstants DEF Holders, TypeOK, Alive, AllConns
<1>7. StageInv'
  <2>1. Joined(NfsConns) => Joined(NfsConns)'
    BY <1>1, Zenon DEF Joined, TypeOK, AllConns, Alive
  <2> QED BY <1>1, <2>1, Zenon DEF StageInv
<1>8. RequesterInv'
  <2>1. \A r \in Reqs : requester'[r] = "running" => conn'[ConnOf[r]] \in Alive
    BY <1>1, <1>2, ServerConstants, Zenon DEF RequesterInv, TypeOK, AllConns
  <2>2. \A r \in holds' : requester'[r] \in Alive
    BY <1>1, <1>2, Zenon DEF RequesterInv, TypeOK, Alive
  <2> QED BY <1>1, <2>1, <2>2, Zenon DEF RequesterInv, TrackerAlive
<1>9. WaitInv'
  BY <1>1, Zenon DEF WaitInv
<1> QED BY <1>3, <1>5, <1>6, <1>7, <1>8, <1>9, Zenon

\* A connection is accepted with a permit, or rejected.
LEMMA AcceptsInv ==
    ASSUME Inv, NEW c \in AllConns, Accepts(c), c \in NfsConns => run = "accepting"
    PROVE  Inv'
<1> USE DEF Inv, PermitInv
<1>1. /\ conn[c] = "absent"
      /\ IF Cardinality(connections) < MaxConnections
         THEN conn' = [conn EXCEPT ![c] = "running"] /\ connections' = connections \cup {c}
         ELSE conn' = [conn EXCEPT ![c] = "rejected"] /\ connections' = connections
      /\ UNCHANGED <<shutdown, run, result, service, requester, holds, exec,
                     handle, slot, locked, waiter>>
  BY Zenon DEF Accepts, owner
<1>2. IsFiniteSet(connections') /\ Cardinality(connections') <= MaxConnections
  BY <1>1, PermitCount, Zenon DEF TypeOK
<1>3. conn' \in [AllConns -> {"absent", "rejected", "ended", "joined"} \cup Alive]
  BY <1>1 DEF TypeOK, AllConns, Alive
<1>4. connections' \subseteq AllConns
  BY <1>1, Zenon DEF TypeOK, AllConns
<1>5. TypeOK'
  BY <1>1, <1>2, <1>3, <1>4 DEF TypeOK, AllConns
<1>6. connections' = Holders'
  BY <1>1, <1>3 DEF Holders, TypeOK, Alive, AllConns
<1>7. StageInv'
  <2>1. c \in NfsConns => run \notin AfterTasks /\ result # "ok"
    BY Zenon DEF StageInv, AfterTasks
  <2>2. c \notin NfsConns /\ Joined(NfsConns) => Joined(NfsConns)'
    BY <1>1, Zenon DEF Joined, TypeOK, AllConns
  <2> QED BY <1>1, <2>1, <2>2, Zenon DEF StageInv
<1>8. RequesterInv'
  BY <1>1, ServerConstants DEF RequesterInv, TrackerAlive, TypeOK, AllConns, Alive
<1>9. WaitInv'
  BY <1>1, Zenon DEF WaitInv
<1> QED BY <1>2, <1>5, <1>6, <1>7, <1>8, <1>9, Zenon

\* A connection that ended is joined.
LEMMA JoinConnectionInv ==
    ASSUME Inv, NEW c \in AllConns, JoinConnection(c)
    PROVE  Inv'
<1> USE DEF Inv, PermitInv
<1>1. /\ conn[c] = "ended" /\ conn' = [conn EXCEPT ![c] = "joined"]
      /\ connections' = connections \ {c}
      /\ UNCHANGED <<shutdown, run, result, service, requester, holds, exec,
                     handle, slot, locked, waiter>>
  BY Zenon DEF JoinConnection, owner
<1>2. IsFiniteSet(connections') /\ Cardinality(connections') <= MaxConnections
  BY <1>1, PermitCount, Zenon DEF TypeOK
<1>3. conn' \in [AllConns -> {"absent", "rejected", "ended", "joined"} \cup Alive]
  BY <1>1, Zenon DEF TypeOK, AllConns
<1>4. TypeOK'
  BY <1>1, <1>2, <1>3 DEF TypeOK, AllConns
<1>5. connections' = Holders'
  BY <1>1, <1>3, Zenon DEF Holders, TypeOK, Alive, AllConns
<1>6. StageInv'
  <2>1. Joined(NfsConns) => Joined(NfsConns)'
    BY <1>1, Zenon DEF Joined, TypeOK, AllConns
  <2> QED BY <1>1, <2>1, Zenon DEF StageInv
<1>7. RequesterInv'
  BY <1>1, ServerConstants, Zenon DEF RequesterInv, TrackerAlive, TypeOK, AllConns, Alive
<1>8. WaitInv'
  BY <1>1, Zenon DEF WaitInv
<1> QED BY <1>2, <1>4, <1>5, <1>6, <1>7, <1>8, Zenon

-----------------------------------------------------------------------------
(* Request tasks and executions.                                            *)

\* A request task is started, takes the tracker, spawns and ends, and an
\* execution ends: the last one to let go of the tracker ends the executions.
LEMMA RequestInv ==
    ASSUME Inv, NEW r \in Reqs, RequestStep(r)
    PROVE  Inv'
<1> USE DEF Inv, PermitInv
<1>1. UNCHANGED <<shutdown, run, result, service, conn, connections, handle, slot, locked, waiter>>
  BY Zenon DEF RequestStep, StartRequest, Upgrade, Spawn, RequesterEnds, ExecutionEnds, owner
<1>2. connections' = Holders' /\ IsFiniteSet(connections')
  BY <1>1, Zenon DEF Holders, TypeOK
<1>3. StageInv' /\ WaitInv'
  BY <1>1, Zenon DEF StageInv, WaitInv, Joined
<1>4. ASSUME /\ requester' \in [Reqs -> {"none", "gone"} \cup Alive] /\ holds' \subseteq Reqs
             /\ exec' \in [Reqs -> {"none", "over"} \cup Alive]
             /\ RequesterInv'
      PROVE  Inv'
  <2>1. TypeOK'
    BY <1>1, <1>4 DEF TypeOK
  <2> QED BY <1>2, <1>3, <1>4, <2>1, Zenon
<1>5. CASE StartRequest(r)
  <2>1. /\ conn[ConnOf[r]] = "running" /\ requester[r] = "none"
        /\ requester' = [requester EXCEPT ![r] = "running"] /\ UNCHANGED <<holds, exec>>
    BY <1>5, Zenon DEF StartRequest
  <2>2. RequesterInv'
    BY <1>1, <2>1, Zenon DEF RequesterInv, TrackerAlive, TypeOK, Alive
  <2> QED BY <1>4, <2>1, <2>2, Zenon DEF TypeOK, Alive
<1>6. CASE Upgrade(r)
  <2>1. /\ requester[r] \in Alive /\ TrackerAlive
        /\ holds' = holds \cup {r} /\ UNCHANGED <<requester, exec>>
    BY <1>6, Zenon DEF Upgrade
  <2>2. RequesterInv'
    BY <1>1, <2>1, Zenon DEF RequesterInv, TrackerAlive, TypeOK
  <2> QED BY <1>4, <2>1, <2>2, Zenon DEF TypeOK
<1>7. CASE Spawn(r)
  <2>1. r \in holds /\ exec' = [exec EXCEPT ![r] = "running"] /\ UNCHANGED <<requester, holds>>
    BY <1>7, Zenon DEF Spawn
  <2>2. RequesterInv'
    BY <1>1, <2>1, Zenon DEF RequesterInv, TrackerAlive, TypeOK
  <2> QED BY <1>4, <2>1, <2>2, Zenon DEF TypeOK, Alive
<1>8. CASE RequesterEnds(r)
  <2>1. /\ requester' = [requester EXCEPT ![r] = "gone"] /\ holds' = holds \ {r}
        /\ exec' = IF r \in holds /\ run = "returned" /\ holds' = {} THEN Aborted(exec, Reqs) ELSE exec
    BY <1>8, Zenon DEF RequesterEnds, TrackerAfter
  <2>2. /\ exec' \in [Reqs -> {"none", "over"} \cup Alive]
        /\ \A q \in Reqs : exec'[q] = "running" =>
              exec[q] = "running" /\ ~(r \in holds /\ run = "returned" /\ holds' = {})
    BY <2>1, AbortedType DEF TypeOK
  <2>3. ~TrackerAlive' => \A q \in Reqs : exec'[q] # "running"
    BY <1>1, <2>1, <2>2, Zenon DEF RequesterInv, TrackerAlive
  <2>4. \A q \in Reqs : requester'[q] = "running" => conn'[ConnOf[q]] \in Alive
    BY <1>1, <2>1, Zenon DEF RequesterInv, TypeOK
  <2>5. \A q \in holds' : requester'[q] \in Alive
    BY <2>1, Zenon DEF RequesterInv, TypeOK
  <2>6. RequesterInv'
    BY <2>3, <2>4, <2>5, Zenon DEF RequesterInv
  <2> QED BY <1>4, <2>1, <2>2, <2>6, Zenon DEF TypeOK
<1>9. CASE ExecutionEnds(r)
  <2>1. exec' = [exec EXCEPT ![r] = "over"] /\ UNCHANGED <<requester, holds>>
    BY <1>9, Zenon DEF ExecutionEnds
  <2>2. RequesterInv'
    BY <1>1, <2>1, Zenon DEF RequesterInv, TrackerAlive, TypeOK
  <2> QED BY <1>4, <2>1, <2>2, Zenon DEF TypeOK
<1> QED BY <1>5, <1>6, <1>7, <1>8, <1>9, Zenon DEF RequestStep

-----------------------------------------------------------------------------
(* run and the portmapper service.                                          *)

\* The end of run, in whatever way: what it owned is aborted.
LEMMA ReturnsInv ==
    ASSUME Inv, NEW outcome \in {"ok", "failed", "aborted"}, Returns(outcome),
           outcome = "ok" => /\ Joined(NfsConns) /\ service \in {"absent", "joined"}
    PROVE  Inv'
<1> USE DEF Inv, PermitInv
<1>1. /\ run # "returned" /\ run' = "returned" /\ result' = outcome
      /\ conn' = Aborted(conn, NfsConns)
      /\ connections' = {c \in connections : conn[c] \in Alive}
      /\ service' = IF service \in {"running", "stopping"} THEN "aborted" ELSE service
      /\ exec' = IF holds = {} THEN Aborted(exec, Reqs) ELSE exec
      /\ UNCHANGED <<shutdown, requester, holds, handle, slot, locked, waiter>>
  BY Zenon DEF Returns, TrackerAfter, owner
<1>2. /\ conn' \in [AllConns -> {"absent", "rejected", "ended", "joined"} \cup Alive]
      /\ \A c \in AllConns : conn'[c] =
            IF c \in NfsConns /\ conn[c] = "running" THEN "aborted" ELSE conn[c]
  BY <1>1, AbortedType, Zenon
<1>3. /\ exec' \in [Reqs -> {"none", "over"} \cup Alive]
      /\ holds = {} => \A r \in Reqs : exec'[r] # "running"
  BY <1>1, AbortedType DEF TypeOK
<1>4. IsFiniteSet(connections') /\ Cardinality(connections') <= MaxConnections
  BY <1>1, PermitCount, Zenon DEF TypeOK
<1>5. service' \in {"absent", "stopping", "ended", "joined"} \cup Alive
  BY <1>1, Zenon DEF TypeOK, Alive
<1>6. connections' \subseteq AllConns
  BY <1>1, Zenon DEF TypeOK, AllConns
<1>7. TypeOK'
  BY <1>1, <1>2, <1>3, <1>4, <1>5, <1>6, Zenon DEF TypeOK, AllConns
<1>8. connections' = Holders'
  BY <1>1, <1>2, Zenon DEF Holders, Alive, AllConns
<1>9. StageInv'
  <2>1. Joined(NfsConns) => Joined(NfsConns)'
    BY <1>2, Zenon DEF Joined, AllConns
  <2> QED BY <1>1, <2>1, Zenon DEF StageInv, AfterTasks, AfterServices
<1>10. RequesterInv'
  <2>1. \A r \in Reqs : requester'[r] = "running" => conn'[ConnOf[r]] \in Alive
    BY <1>1, <1>2, ServerConstants, Zenon DEF RequesterInv, Alive, AllConns
  <2> QED BY <1>1, <1>3, <2>1, Zenon DEF RequesterInv, TrackerAlive
<1>11. WaitInv'
  BY <1>1, Zenon DEF WaitInv
<1> QED BY <1>4, <1>7, <1>8, <1>9, <1>10, <1>11, Zenon

\* run goes from one stage to the next, and the service ends or is joined: the
\* stages say what has been joined.
LEMMA StageStepInv ==
    ASSUME Inv, \/ NoticeShutdown \/ JoinService \/ TasksJoined \/ ServicesJoined
                \/ AbortServices \/ LockExecutions \/ ServiceNoticesShutdown \/ ServiceStops
    PROVE  Inv'
<1> USE DEF Inv, PermitInv
<1>1. UNCHANGED <<result, conn, connections, requester, holds, exec, handle, slot, locked, waiter, shutdown>>
  BY Zenon DEF NoticeShutdown, JoinService, TasksJoined, ServicesJoined, AbortServices, LockExecutions,
         ServiceNoticesShutdown, ServiceStops, tasks, owner
<1>2. /\ run' \in {"accepting", "returned"} \cup Joining \cup Aborting
      /\ run' = "returned" <=> run = "returned"
  BY Zenon DEF NoticeShutdown, JoinService, TasksJoined, ServicesJoined, AbortServices, LockExecutions,
         ServiceNoticesShutdown, ServiceStops, Advance, Joining, Aborting, TypeOK
<1>3. service' \in {"absent", "stopping", "ended", "joined"} \cup Alive
  BY Zenon DEF NoticeShutdown, JoinService, TasksJoined, ServicesJoined, AbortServices, LockExecutions,
         ServiceNoticesShutdown, ServiceStops, Alive, TypeOK
<1>4. TypeOK'
  BY <1>1, <1>2, <1>3, Zenon DEF TypeOK
<1>5. connections' = Holders' /\ IsFiniteSet(connections')
  BY <1>1, <1>2, Zenon DEF Holders
<1>6. RequesterInv' /\ WaitInv'
  BY <1>1, <1>2, Zenon DEF RequesterInv, WaitInv, TrackerAlive
<1>7. StageInv'
  <2>1. Joined(NfsConns)' <=> Joined(NfsConns)
    BY <1>1, Zenon DEF Joined
  <2>2. run' \in AfterTasks => run \in AfterTasks \/ Joined(NfsConns)
    BY Zenon DEF NoticeShutdown, JoinService, TasksJoined, ServicesJoined, AbortServices, LockExecutions,
           ServiceNoticesShutdown, ServiceStops, Advance, AfterTasks
  <2>3. run' \in AfterServices => run \in AfterServices \/ service \in {"absent", "joined"}
    BY Zenon DEF NoticeShutdown, JoinService, TasksJoined, ServicesJoined, AbortServices, LockExecutions,
           ServiceNoticesShutdown, ServiceStops, Advance, AfterServices
  <2>4. service \in {"absent", "joined"} => service' = service
    BY Zenon DEF NoticeShutdown, JoinService, TasksJoined, ServicesJoined, AbortServices, LockExecutions,
           ServiceNoticesShutdown, ServiceStops
  <2> QED BY <1>1, <1>2, <2>1, <2>2, <2>3, <2>4, Zenon DEF StageInv
<1> QED BY <1>4, <1>5, <1>6, <1>7, Zenon

\* The graceful deadline passes, executions are aborted, or the service fails:
\* tasks that run become aborted ones.
LEMMA AbortStepInv ==
    ASSUME Inv, DeadlinePasses \/ AbortExecutions \/ ServiceFails
    PROVE  Inv'
<1> USE DEF Inv, PermitInv
<1>1. /\ UNCHANGED <<result, connections, requester, holds, handle, slot, locked, waiter, shutdown>>
      /\ conn' = conn \/ conn' = Aborted(conn, NfsConns) \/ conn' = Aborted(conn, PortmapConns)
      /\ exec' = Aborted(exec, Reqs) \/ exec' = exec
  BY Zenon DEF DeadlinePasses, AbortExecutions, ServiceFails, owner
<1>2. /\ conn' \in [AllConns -> {"absent", "rejected", "ended", "joined"} \cup Alive]
      /\ \A c \in AllConns : conn'[c] = conn[c] \/ (conn[c] \in Alive /\ conn'[c] \in Alive)
  <2>1. CASE conn' = conn
    BY <2>1, Zenon DEF TypeOK, AllConns
  <2>2. CASE conn' # conn
    BY <1>1, <2>2, AbortedType DEF Alive
  <2> QED BY <2>1, <2>2, Zenon
<1>3. /\ exec' \in [Reqs -> {"none", "over"} \cup Alive]
      /\ \A r \in Reqs : exec'[r] = "running" => exec[r] = "running"
  BY <1>1, AbortedType DEF TypeOK
<1>4. /\ run' \in {"accepting", "returned"} \cup Joining \cup Aborting
      /\ run' = "returned" <=> run = "returned"
  BY Zenon DEF DeadlinePasses, AbortExecutions, ServiceFails, Advance, Joining, Aborting, TypeOK
<1>5. service' \in {"absent", "stopping", "ended", "joined"} \cup Alive
  BY Zenon DEF DeadlinePasses, AbortExecutions, ServiceFails, Alive, TypeOK
<1>6. TypeOK'
  BY <1>1, <1>2, <1>3, <1>4, <1>5, Zenon DEF TypeOK, AllConns
<1>7. connections' = Holders' /\ IsFiniteSet(connections')
  BY <1>1, <1>2, <1>4, Zenon DEF Holders, Alive, AllConns
<1>8. WaitInv'
  BY <1>1, <1>4, Zenon DEF WaitInv
<1>9. RequesterInv'
  <2>1. \A r \in Reqs : requester'[r] = "running" => conn'[ConnOf[r]] \in Alive
    BY <1>1, <1>2, ServerConstants, Zenon DEF RequesterInv, AllConns
  <2> QED BY <1>1, <1>3, <1>4, <2>1, Zenon DEF RequesterInv, TrackerAlive
<1>10. StageInv'
  <2>1. Joined(NfsConns) => Joined(NfsConns)'
    BY <1>2, Zenon DEF Joined, AllConns, Alive
  <2>2. /\ run' \in AfterTasks => run \in AfterTasks
        /\ run' \in AfterServices => run \in AfterServices
    BY Zenon DEF DeadlinePasses, AbortExecutions, ServiceFails, Advance, AfterTasks, AfterServices
  <2>3. service \in {"absent", "joined"} => service' = service
    BY Zenon DEF DeadlinePasses, AbortExecutions, ServiceFails, Alive
  <2> QED BY <1>1, <1>4, <2>1, <2>2, <2>3, Zenon DEF StageInv
<1> QED BY <1>6, <1>7, <1>8, <1>9, <1>10, Zenon

-----------------------------------------------------------------------------
(* ServerHandle.                                                            *)

\* A request to stop, the drop of the handle, and the steps of wait
LEMMA HandleInv ==
    ASSUME Inv, Shutdown \/ DropHandle \/ \E w \in Waiters : WaiterStep(w)
    PROVE  Inv'
<1> USE DEF Inv, PermitInv
<1>1. UNCHANGED <<run, result, service, conn, connections, requester, holds, exec>>
  BY Zenon DEF Shutdown, DropHandle, WaiterStep, Wait, WaitLocks, WaitJoins, WaitCancelled, tasks
<1>2. /\ shutdown' \in BOOLEAN /\ handle' \in BOOLEAN /\ slot' \in BOOLEAN
      /\ ~slot' => ~slot \/ run = "returned"
  BY Zenon DEF Shutdown, DropHandle, WaiterStep, Wait, WaitLocks, WaitJoins, WaitCancelled, owner, TypeOK
<1>3. /\ locked' \in Waiters \cup {NoWaiter}
      /\ waiter' \in [Waiters -> {"idle", "queued", "awaiting", "done"}]
      /\ \A w \in Waiters : waiter'[w] = "done" => waiter[w] = "done" \/ ~slot \/ run = "returned"
  <2>1. CASE Shutdown \/ DropHandle
    BY <2>1, Zenon DEF Shutdown, DropHandle, owner, TypeOK
  <2>2. ASSUME NEW v \in Waiters, WaiterStep(v)
        PROVE  <1>3!1 /\ <1>3!2 /\ <1>3!3
    BY <2>2, Zenon DEF WaiterStep, Wait, WaitLocks, WaitJoins, WaitCancelled, TypeOK
  <2> QED BY <2>1, <2>2, Zenon
<1>4. TypeOK'
  BY <1>1, <1>2, <1>3, Zenon DEF TypeOK
<1>5. connections' = Holders' /\ IsFiniteSet(connections')
  BY <1>1, Zenon DEF Holders
<1>6. StageInv' /\ RequesterInv'
  BY <1>1, Zenon DEF StageInv, RequesterInv, TrackerAlive, Joined
<1>7. WaitInv'
  BY <1>1, <1>2, <1>3, Zenon DEF WaitInv
<1> QED BY <1>4, <1>5, <1>6, <1>7, Zenon

-----------------------------------------------------------------------------
(* Theorems.                                                                *)

\* Every step of the server preserves the invariant.
LEMMA NextInv == Inv /\ [Next]_vars => Inv'
<1> SUFFICES ASSUME Inv, [Next]_vars PROVE Inv'
  BY Zenon
<1>1. ASSUME NEW c \in NfsConns, Accept(c) \/ ConnectionEnds(c) PROVE Inv'
  BY <1>1, AcceptsInv, ConnectionEndsInv, Zenon DEF Accept, AllConns
<1>2. ASSUME NEW c \in PortmapConns, PortmapAccept(c) \/ ConnectionEnds(c) \/ JoinConnection(c)
      PROVE  Inv'
  BY <1>2, AcceptsInv, ConnectionEndsInv, JoinConnectionInv, ServerConstants, Zenon
     DEF PortmapAccept, AllConns
<1>3. ASSUME NEW r \in Reqs, RequestStep(r) PROVE Inv'
  BY <1>3, RequestInv, Zenon
<1>4. CASE Shutdown \/ DropHandle \/ \E w \in Waiters : WaiterStep(w)
  BY <1>4, HandleInv, Zenon
<1>5. CASE AcceptFails \/ ServiceEndsRun \/ RunAborted
  BY <1>5, ReturnsInv, Zenon DEF AcceptFails, ServiceEndsRun, RunAborted
<1>6. CASE ExecutionsJoined
  <2>1. Joined(NfsConns) /\ service \in {"absent", "joined"}
    BY <1>6, Zenon DEF ExecutionsJoined, Inv, StageInv, AfterTasks, AfterServices
  <2> QED BY <1>6, <2>1, ReturnsInv, Zenon DEF ExecutionsJoined
<1>7. ASSUME NEW c \in NfsConns, JoinConnection(c) PROVE Inv'
  BY <1>7, JoinConnectionInv, Zenon DEF AllConns
<1>8. CASE \/ NoticeShutdown \/ JoinService \/ TasksJoined \/ ServicesJoined
           \/ AbortServices \/ LockExecutions \/ ServiceNoticesShutdown \/ ServiceStops
  BY <1>8, StageStepInv, Zenon
<1>9. CASE DeadlinePasses \/ AbortExecutions \/ ServiceFails
  BY <1>9, AbortStepInv, Zenon
<1>10. CASE UNCHANGED vars
  BY <1>10 DEF vars, tasks, owner, Inv, PermitInv, TypeOK, Holders, StageInv, Joined, RequesterInv,
               TrackerAlive, WaitInv
<1> QED BY <1>1, <1>2, <1>3, <1>4, <1>5, <1>6, <1>7, <1>8, <1>9, <1>10, Zenon
        DEF Next, RunStep, ServiceStep

\* The invariant holds of every run of the server.
THEOREM Invariance == Spec => []Inv
BY InitInv, NextInv, PTL DEF Spec

\* The permits of max_connections are those of the connections that live and of
\* the NFS connections that are to be joined, and there are no more: no accept
\* error, abort, deadline or failing portmapper loses or doubles a permit.
THEOREM PermitsAreExact == Spec => []PermitsFollowConnections
<1>1. Inv => PermitsFollowConnections
  BY Zenon DEF Inv, PermitInv, Holders, AllConns, PermitsFollowConnections
<1> QED BY <1>1, Invariance, PTL

\* run returns Ok only when all it owned has been joined, whichever way it went
\* there; executions end with the last holder of the tracker; and wait does not
\* return early.
THEOREM StopsAreComplete == Spec => []StopIsComplete
<1>1. ASSUME Inv PROVE StopIsComplete
  <2> USE <1>1 DEF Inv, PermitInv
  <2>1. ASSUME result = "ok" PROVE Joined(NfsConns) /\ service \in {"absent", "joined"}
    BY <2>1, Zenon DEF StageInv
  <2>2. ASSUME result = "ok", NEW r \in Reqs, exec[r] = "running" PROVE holds # {}
    BY <2>2, Zenon DEF StageInv, RequesterInv, TrackerAlive
  <2>3. ASSUME result = "ok", NEW r \in holds PROVE requester[r] = "aborted"
    <3>1. conn[ConnOf[r]] \notin Alive
      BY <2>1, <2>3, ServerConstants DEF Joined, Alive, TypeOK
    <3> QED BY <2>3, <3>1, Zenon DEF RequesterInv, TypeOK, Alive
  <2> QED BY <2>1, <2>2, <2>3, Zenon DEF StopIsComplete, RequesterInv, WaitInv
<1> QED BY <1>1, Invariance, PTL
=============================================================================
