----------------------------- MODULE MCDurable ------------------------------
(* An instance of Durable for TLC. *)
EXTENDS Durable

CONSTANTS c1, default, a, noConn

OneConn  == {c1}
TwoTubes == {default, a}
NoPolicies == {}
=============================================================================
