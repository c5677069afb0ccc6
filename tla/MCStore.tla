------------------------------ MODULE MCStore -------------------------------
(* Instances of Store for TLC: few ids and rows, a batch of two.            *)
EXTENDS Store

\* How many operations may be queued or held at a time follows from MaxCalls:
\* with a batch of two, a third call arrives while a batch is in flight.
=============================================================================
