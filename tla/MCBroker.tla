------------------------------ MODULE MCBroker ------------------------------
(* Instances of Broker for TLC. *)
EXTENDS Views

CONSTANTS c1, c2, default, a, noConn

OneConn  == {c1}
TwoConns == {c1, c2}
TwoTubes == {default, a}
Symmetry == Permutations(Conns)

NoPolicies  == {}
\* Routing to another tube and back, and switched off again.
DlqPolicies == {<<a, 1, default>>, <<a, 0, a>>, <<default, 1, a>>}

=============================================================================
