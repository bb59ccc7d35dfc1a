--------------------------- MODULE MCRecordMarking ---------------------------
(* Small instances of RecordMarking for TLC. *)
EXTENDS RecordMarking

MCLimitChoices ==
    {[max_record_size |-> s, max_fragment_size |-> f, max_fragments |-> n] :
        s \in {0, 3, 4}, f \in 0..2, n \in 1..3}

\* Records of up to five bytes with empty segments at either end or between
MCSegmentations ==
    {<<0, 0, 0>>, <<1, 0, 0>>, <<0, 0, 2>>, <<2, 0, 1>>, <<1, 1, 1>>, <<1, 2, 1>>, <<0, 4, 0>>,
     <<1, 3, 1>>}
=============================================================================
