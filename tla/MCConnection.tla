----------------------------- MODULE MCConnection -----------------------------
(* Small instances of Connection for TLC. *)
EXTENDS Connection, TLC

CONSTANTS c1, c2, r0, r1, r2, r3, x1, x2, a1

\* A connection with three requests.  The first two are equal; the third repeats
\* one that was sent on an earlier connection.
MCPipeConnOf == [r \in Reqs |-> IF r = r0 THEN c2 ELSE c1]
MCPipeXidOf == [r \in Reqs |-> IF r \in {r0, r3} THEN x2 ELSE x1]
MCPipeArgsOf == [r \in Reqs |-> a1]

\* Where a connection may start: the earlier one has failed while r0 was executed,
\* its request task has been dropped, and the execution goes on with its permit, its
\* charges and its lease.
MCOutlivedInit ==
    /\ shutdown = FALSE /\ tracker = TRUE
    /\ link = [c \in Conns |-> IF c = c2 THEN "failed" ELSE "open"]
    /\ reader = [c \in Conns |-> IF c = c2 THEN "done" ELSE "reading"]
    /\ processor = [c \in Conns |-> IF c = c2 THEN "done" ELSE "running"]
    /\ writer = [c \in Conns |-> IF c = c2 THEN "done" ELSE "running"]
    /\ request_queue = [c \in Conns |-> << >>]
    /\ reply_queue = [c \in Conns |-> << >>]
    /\ task = [r \in Reqs |-> IF r = r0 THEN "aborted" ELSE "unsent"]
    /\ exec = [r \in Reqs |-> IF r = r0 THEN "running" ELSE "none"]
    /\ reply = [r \in Reqs |-> "none"]
    /\ request_buffers = {r0} /\ reply_buffers = {r0} /\ requests = {r0}
    /\ slot = [x \in Xids |-> IF x = x2 THEN [fingerprint |-> a1, leader |-> r0, answered |-> FALSE]
                              ELSE Empty]
    /\ stage = [r \in Reqs |-> IF r = r0 THEN "executing" ELSE "idle"]
    /\ source = [r \in Reqs |-> IF r = r0 THEN r0 ELSE NoCall]

\* Its call to the VFS never returns: only its deadline ends it (no fairness makes it
\* return).  Of the two equal requests, which are interchangeable, r1
\* is the one that is sent first.
MCScenario ==
    /\ stage'[r0] # "answered"
    /\ task'[r1] = "unsent" => task'[r2] = "unsent"

MCPipeSpec == MCOutlivedInit /\ [][Next]_vars /\ Fairness

\* A request, and its retransmission on a second connection
MCRepeatConnOf == r1 :> c1 @@ r2 :> c2
MCRepeatXidOf == [r \in Reqs |-> x1]
MCRepeatArgsOf == [r \in Reqs |-> a1]
=============================================================================
