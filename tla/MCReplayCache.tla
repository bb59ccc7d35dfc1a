---------------------------- MODULE MCReplayCache ----------------------------
(* Small instances of ReplayCache for TLC. *)
EXTENDS ReplayCache, TLC

\* A small reply that is stored as it is, a larger one whose backing storage
\* must be copied, and one whose allocation exceeds the whole budget although
\* its wire length does not.
MCReplyShapes ==
    {[len |-> 1, retained_bytes |-> 1, requires_copy |-> FALSE],
     [len |-> 1, retained_bytes |-> 2, requires_copy |-> TRUE],
     [len |-> 1, retained_bytes |-> 4, requires_copy |-> FALSE]}

MCSmallReply == {[len |-> 1, retained_bytes |-> 1, requires_copy |-> FALSE]}

MCSymmetry == Permutations(Calls) \cup Permutations(Requests) \cup Permutations(Fingerprints)
=============================================================================
