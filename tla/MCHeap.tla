------------------------------ MODULE MCHeap --------------------------------
(* An instance of Heap for TLC: six jobs are the fewest for which Remove    *)
(* must move the last job towards the root.                                 *)
EXTENDS ListJobs

MCItems == 1 .. 6
MCKeys == {0, 1}
=============================================================================
