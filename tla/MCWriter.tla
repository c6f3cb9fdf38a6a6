------------------------------ MODULE MCWriter ------------------------------
(***************************************************************************)
(* Writer with jobs that are adjacent, overlapping and out of order.       *)
(***************************************************************************)
EXTENDS Writer

MCByte == {0, 1, 2}

\* Three jobs: two adjacent ones, as two pieces are, and one that overlaps
\* both, so that the order of writes shows in the file.
MCJobs == { [b |-> <<1, 2>>, offset |-> 0],
            [b |-> <<2, 1>>, offset |-> 2],
            [b |-> <<1>>, offset |-> 1] }

=============================================================================
