------------------------------ MODULE MCServer ------------------------------
(* Small instances of Server for TLC. *)
EXTENDS Server

CONSTANTS n1, n2, p1, r1, r2, w1, w2

\* All requests on the first connection
MCConnOf == [r \in Reqs |-> n1]
=============================================================================
