------------------------------ MODULE Durable -------------------------------
(***************************************************************************)
(* The broker on top of the SQLite adapter, with a process that may be     *)
(* killed.  Store.tla has the adapter's goroutines; here it is what they   *)
(* amount to when no statement fails: at any moment a flush takes what the *)
(* adapter was told so far as a batch, and later that batch is committed.  *)
(* The queue has a lock of its own, so the batch can be taken in the       *)
(* middle of a handler that tells the adapter several things.              *)
(***************************************************************************)
EXTENDS Broker

VARIABLES
    disk,      \* the table as committed
    taken,     \* the table with the batch in flight; disk when there is none
    kept,      \* history: jobs committed and not discarded by the server since
    gone       \* history: jobs whose deletion was committed, their ids not given out again

store == <<disk, taken>>
durVars == <<vars, store, kept, gone>>

\* Slip: the rows of the batch that were told to go stay.
CommittedRowsStay(img) ==
    [j \in JobIds |-> IF disk[j].stored /\ ~img[j].stored THEN disk[j] ELSE img[j]]

\* Slip: the table is written anew from the batch.
CommittedBatchOnly(img) ==
    [j \in JobIds |-> IF img[j] # disk[j] THEN img[j] ELSE NoImage]

\* The table after the transaction.
Committed(img) == img

\* The history of a batch that leaves the table img.
Settle(img) ==
    /\ disk' = Committed(img) /\ taken' = img
    /\ kept' = kept \cup (LoadAllJobs(img) \cap Live)
    /\ gone' = gone \cup (LoadAllJobs(disk) \ LoadAllJobs(img))

\* A handler or a tick, and perhaps a batch taken while it runs: some of what
\* it tells the adapter is in the batch.
Handle ==
    /\ Serve
    /\ \/ UNCHANGED taken
       \/ /\ taken = disk
          /\ \E S \in SUBSET {j \in JobIds : saved'[j] # saved[j]} :
                taken' = [j \in JobIds |-> IF j \in S THEN saved'[j] ELSE saved[j]]
    /\ UNCHANGED disk
    /\ kept' = kept \ {j \in Live : job'[j].state = "invalid"}
    /\ gone' = IF nextId' = nextId THEN gone ELSE gone \ {nextId'}

\* The batch is taken between two handlers.
TakeBatch ==
    /\ taken = disk /\ saved # disk
    /\ taken' = saved
    /\ UNCHANGED <<vars, disk, kept, gone>>

Commit ==
    /\ taken # disk
    /\ Settle(taken)
    /\ UNCHANGED vars

\* The process is killed; the next one recovers from what was committed.
Crash ==
    /\ Recover(disk)
    /\ taken' = disk
    /\ UNCHANGED <<disk, kept, gone>>

\* SIGTERM with no client left: Close flushes what is pending.
Shutdown ==
    /\ Restart
    /\ Settle(saved)

DurInit ==
    /\ Init
    /\ disk = saved /\ taken = saved
    /\ kept = {} /\ gone = {}

DurNext == Handle \/ TakeBatch \/ Commit \/ Crash \/ Shutdown

DurSpec == DurInit /\ [][DurNext]_durVars
-----------------------------------------------------------------------------
(* Properties. *)

\* A job whose row was committed is in the index until the server itself
\* discards it, however often the process is killed and at whatever point of
\* a handler or a flush.
CommittedKept == kept \subseteq Live

\* A job whose deletion was committed is never delivered again.
GoneStaysGone == gone \cap Live = {}
=============================================================================
