----------------------------- MODULE DurableLog -----------------------------
(***************************************************************************)
(* What the persistence port promises the server (persistence.go), with    *)
(* the buffering of NewSQLitePersistence taken into account: the calls     *)
(* StoreJob and DeleteJob form a log; a prefix of it is durable; the       *)
(* durable prefix only grows; the end of the process cuts the log back to  *)
(* that prefix and to nothing shorter; a write that fails takes a block of *)
(* calls just after the prefix with it, and no other.                      *)
(***************************************************************************)
EXTENDS Naturals, Sequences

CONSTANTS Ops,      \* what a call may ask for
          MayLose   \* may a write fail?

VARIABLES log,      \* the calls that count, oldest first
          mark      \* how many of them are durable

vars == <<log, mark>>

Init == log = <<>> /\ mark = 0

\* A call of the server: acknowledged at once, durable later.
Tell == \E op \in Ops : log' = Append(log, op) /\ mark' = mark

\* Some batch of the oldest calls that are not yet durable becomes so.
Persist == \E n \in 1 .. Len(log) : n > mark /\ mark' = n /\ log' = log

\* Such a batch fails.
Lose ==
    /\ MayLose
    /\ \E n \in 1 .. Len(log) :
          /\ n > mark
          /\ log' = SubSeq(log, 1, mark) \o SubSeq(log, n + 1, Len(log))
    /\ mark' = mark

\* The process ends; the next one starts from what is durable.
Crash == log' = SubSeq(log, 1, mark) /\ mark' = mark

Next == Tell \/ Persist \/ Lose \/ Crash

\* The safety half of the promise.
SafeSpec == Init /\ [][Next]_vars

\* With its other half: what stays in the log becomes durable, or fails.
Spec == SafeSpec /\ WF_vars(Persist \/ Lose)
=============================================================================
