----------------------------- MODULE MCWaiting -----------------------------
(* Instances of Waiting for TLC. *)
EXTENDS Waiting, TLC

CONSTANTS c1, c2, a, b, j1, j2, noConn, noJob

TwoConns == {c1, c2}
OneTube  == {a}
TwoTubes == {a, b}
OnlyB    == {b}
TwoJobs  == {j1, j2}

\* Both workers watch tube a, one watches b too.
Overlap == [c \in TwoConns |-> IF c = c1 THEN {a, b} ELSE {a}]
Same    == [c \in TwoConns |-> {a}]

\* The second job may be taken later than the first and be due earlier.
ShortTTRs == [j \in TwoJobs |-> IF j = j1 THEN 2 ELSE 1]

=============================================================================
