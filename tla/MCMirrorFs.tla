----------------------------- MODULE MCMirrorFs -----------------------------
(***************************************************************************)
(* Two calls at a time, two names, paths of two components: a directory    *)
(* with a file in it is renamed, replaced and removed beside other calls.  *)
(***************************************************************************)
EXTENDS MirrorFs, TLC

CONSTANTS c1, c2, x, y

Symmetry == Permutations(Calls) \cup Permutations(Names)

\* Bound: one kind of mishap.  Beside a link, and after a mishap, one object and one
\* identifier beside the root's; after another mishap than company, one call at a time.
Exploration ==
    /\ Cardinality(disturbed) <= 1
    /\ (\E p \in DOMAIN host : IsLink(p)) => inodes <= 1
    /\ disturbed # {} \/ dropped => inodes <= 1 /\ next_file_id <= 3
    /\ disturbed \in {{"link"}, {"dropped"}} => \E c \in Calls : ~Active(c)
=============================================================================
