------------------------------ MODULE MCBench -------------------------------
(* Instances of Bench for TLC. *)
EXTENDS Bench

CONSTANTS c1, c2, i1
TwoConsumers == {c1, c2}
OneIdler == {i1}
=============================================================================
