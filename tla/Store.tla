------------------------------- MODULE Store --------------------------------
(***************************************************************************)
(* The SQLite adapter (persistence_sqlite.go) between the server that      *)
(* calls it and the table on disk: the queue of pending operations, the    *)
(* background write loop, flushes that take the queue as a batch and apply *)
(* it in one transaction over the only connection, Close during the        *)
(* shutdown sequence of Server.Run, process crashes and restarts.          *)
(*                                                                         *)
(* A row is a value of Rows (what ToPersistedJob copies); NoRow means the  *)
(* table has no row of that id.  The two goroutines that can be inside     *)
(* flush, the loop and Close, are flushers with program counters of their  *)
(* own.  Sync, a third caller of flush, is called by nobody and left out.  *)
(***************************************************************************)
EXTENDS Integers, Sequences

CONSTANTS Ids,        \* job ids
          Rows,       \* what StoreJob may store
          NoRow,      \* no row of this id
          BatchSize,  \* batchSize: as many pending operations ask for a flush
          MayFail,    \* may Begin, Exec or Commit return an error?
          MaxCalls,   \* bound: calls remembered at a time
          MaxStarts   \* bound: starts of the process

ASSUME RowAssumption == NoRow \notin Rows
ASSUME BatchAssumption == BatchSize \in Nat \ {0}
ASSUME FlagAssumption == MayFail \in BOOLEAN

VARIABLES calls,    \* history: operations accepted, without those of failed batches
          done,     \* history: operations committed, in that order
          pending,  \* pending
          full,     \* the caller saw a full queue and has yet to ask
          flushCh,  \* is there a token in flushCh?
          at,       \* where each flusher is
          batch,    \* flush's local batch
          conn,     \* who holds the only connection, "" when it is free
          exec,     \* how many operations of the batch are executed
          work,     \* the table as the open transaction sees it
          table,    \* the table on disk
          life,     \* where the process is in its life
          last,     \* history: calls made before Close took its batch
          starts    \* bound: starts so far

hist == <<calls, done, last, starts>>
queue == <<pending, full, flushCh>>
flushing == <<at, batch, conn, exec, work>>
vars == <<hist, queue, flushing, table, life>>

Flushers == {"loop", "close"}
Op == [id : Ids, row : Rows \cup {NoRow}]
Table == [Ids -> Rows \cup {NoRow}]

\* Run's goroutine and Close: still serving, signal received, stopCh closed
\* and waiting for the loop, flushing, database closed; then the process is
\* gone, in order or killed.
Lives == {"up", "signalled", "waiting", "flushing", "sealed", "gone", "killed"}
Places == {"idle", "take", "begin", "exec", "stopped"}

Up == life \notin {"gone", "killed"}
Stopping == life \notin {"up", "signalled"}
-----------------------------------------------------------------------------
(* The calls of the server. They are made under Server.mu, one at a time,   *)
(* until the process is gone, and return before anything is on disk.        *)

\* StoreJob and DeleteJob: queue the operation under p.mu, ...
Tell(op) ==
    /\ Up /\ ~full
    /\ Len(calls) < MaxCalls
    /\ calls' = Append(calls, op)
    /\ pending' = Append(pending, op)
    /\ full' = (Len(pending') >= BatchSize)
    /\ UNCHANGED <<done, last, starts, flushCh, flushing, table, life>>

StoreJob == \E i \in Ids, r \in Rows : Tell([id |-> i, row |-> r])

DeleteJob == \E i \in Ids : Tell([id |-> i, row |-> NoRow])

\* ... and, outside the lock, leave a token unless there is one.
requestFlush ==
    /\ Up /\ full
    /\ flushCh' = TRUE
    /\ full' = FALSE
    /\ UNCHANGED <<hist, pending, flushing, table, life>>
-----------------------------------------------------------------------------
(* flush, by any of the flushers.                                           *)

Return(f) == at' = [at EXCEPT ![f] = "idle"]

\* The batch leaves the queue under p.mu; an empty one returns at once.
takeBatch(f) ==
    /\ at[f] = "take"
    /\ batch' = [batch EXCEPT ![f] = pending]
    /\ pending' = <<>>
    /\ at' = [at EXCEPT ![f] = IF pending = <<>> THEN "idle" ELSE "begin"]
    /\ last' = IF f = "close" THEN Len(calls) ELSE last
    /\ UNCHANGED <<calls, done, starts, full, flushCh, conn, exec, work, table, life>>

\* Begin waits for the connection of the pool.
beginTx(f) ==
    /\ at[f] = "begin"
    /\ conn = ""
    /\ conn' = f
    /\ exec' = 0
    /\ work' = table
    /\ at' = [at EXCEPT ![f] = "exec"]
    /\ UNCHANGED <<hist, queue, batch, table, life>>

\* Slip: the statements of the pool instead of those of the transaction.
execOpOutsideTx(f) ==
    /\ at[f] = "exec" /\ exec < Len(batch[f])
    /\ LET op == batch[f][exec + 1]
       IN  work' = [work EXCEPT ![op.id] = op.row]
    /\ table' = work'
    /\ exec' = exec + 1
    /\ UNCHANGED <<hist, queue, at, batch, conn, life>>

\* One statement of the batch, an upsert or a delete by primary key.
execOp(f) ==
    /\ at[f] = "exec" /\ exec < Len(batch[f])
    /\ LET op == batch[f][exec + 1]
       IN  work' = [work EXCEPT ![op.id] = op.row]
    /\ exec' = exec + 1
    /\ UNCHANGED <<hist, queue, at, batch, conn, table, life>>

\* Slip: the queue is emptied when its batch is committed.
commitClearsQueue(f) ==
    /\ at[f] = "exec" /\ exec = Len(batch[f])
    /\ table' = work
    /\ done' = done \o batch[f]
    /\ conn' = ""
    /\ batch' = [batch EXCEPT ![f] = <<>>]
    /\ pending' = <<>>
    /\ Return(f)
    /\ UNCHANGED <<calls, last, starts, full, flushCh, exec, work, life>>

commit(f) ==
    /\ at[f] = "exec" /\ exec = Len(batch[f])
    /\ table' = work
    /\ done' = done \o batch[f]
    /\ conn' = ""
    /\ batch' = [batch EXCEPT ![f] = <<>>]
    /\ Return(f)
    /\ UNCHANGED <<calls, last, starts, queue, exec, work, life>>

\* The failed batch of f, the oldest operations that are not committed, counts
\* no more.
DropBatch(f) ==
    /\ calls' = SubSeq(calls, 1, Len(done))
                  \o SubSeq(calls, Len(done) + Len(batch[f]) + 1, Len(calls))
    /\ last' = IF f = "close" THEN last - Len(batch[f]) ELSE last

\* Slip: no Rollback, the connection is never given back.
failTxNoRollback(f) ==
    /\ MayFail
    /\ at[f] = "exec" \/ (at[f] = "begin" /\ conn = "")
    /\ batch' = [batch EXCEPT ![f] = <<>>]
    /\ DropBatch(f)
    /\ Return(f)
    /\ UNCHANGED <<done, starts, queue, conn, exec, work, table, life>>

\* Begin, a statement or Commit fails: the transaction is rolled back and flush
\* returns the error, which writeLoop drops. The batch is nowhere any more.
failTx(f) ==
    /\ MayFail
    /\ at[f] = "exec" \/ (at[f] = "begin" /\ conn = "")
    /\ conn' = ""
    /\ batch' = [batch EXCEPT ![f] = <<>>]
    /\ DropBatch(f)
    /\ Return(f)
    /\ UNCHANGED <<done, starts, queue, exec, work, table, life>>
-----------------------------------------------------------------------------
(* writeLoop's select: three ready channels are served in any order.        *)

Wake(f) == at[f] = "idle" /\ at' = [at EXCEPT ![f] = "take"]

loopAsked ==
    /\ Up /\ flushCh
    /\ Wake("loop")
    /\ flushCh' = FALSE
    /\ UNCHANGED <<hist, pending, full, batch, conn, exec, work, table, life>>

\* Slip: the ticker flushes only a full batch.
loopTickerFull ==
    /\ Up /\ Len(pending) >= BatchSize
    /\ Wake("loop")
    /\ UNCHANGED <<hist, queue, batch, conn, exec, work, table, life>>

loopTicker ==
    /\ Up
    /\ Wake("loop")
    /\ UNCHANGED <<hist, queue, batch, conn, exec, work, table, life>>

loopStop ==
    /\ Up /\ Stopping
    /\ at["loop"] = "idle"
    /\ at' = [at EXCEPT !["loop"] = "stopped"]
    /\ UNCHANGED <<hist, queue, batch, conn, exec, work, table, life>>

-----------------------------------------------------------------------------
(* Shutdown and restart.                                                    *)

Pass(from, to) ==
    /\ life = from /\ life' = to
    /\ UNCHANGED <<hist, queue, table>>

\* SIGTERM: closeCh, the listener and the admin server are closed. The
\* connections that are open go on being served until the process ends.
signal == Pass("up", "signalled") /\ UNCHANGED flushing

\* Close: mark the adapter closed, close stopCh, ...
closeStop == Pass("signalled", "waiting") /\ UNCHANGED flushing

\* Slip: no wg.Wait before the last flush.
closeFlushNoWait ==
    /\ Pass("waiting", "flushing")
    /\ Wake("close")
    /\ UNCHANGED <<batch, conn, exec, work>>

\* ... wait for the loop to return, flush the rest, ...
closeFlush ==
    /\ Pass("waiting", "flushing")
    /\ at["loop"] = "stopped"
    /\ Wake("close")
    /\ UNCHANGED <<batch, conn, exec, work>>

\* Slip: closes once the queue is empty.
closeSealWhenEmpty ==
    /\ Pass("flushing", "sealed")
    /\ at["close"] = "idle" /\ conn = "" /\ pending = <<>>
    /\ UNCHANGED flushing

\* ... fold the log of the database back into it and close it, over the only
\* connection, whether or not the flush failed.
closeSeal ==
    /\ Pass("flushing", "sealed")
    /\ at["close"] = "idle" /\ conn = ""
    /\ UNCHANGED flushing

Forget ==
    /\ pending' = <<>> /\ full' = FALSE /\ flushCh' = FALSE
    /\ at' = [f \in Flushers |-> "idle"]
    /\ batch' = [f \in Flushers |-> <<>>]
    /\ conn' = "" /\ exec' = 0

\* Run returns and with it main: everything in memory is gone.
exit ==
    /\ life = "sealed" /\ life' = "gone"
    /\ Forget
    /\ UNCHANGED <<hist, work, table>>

\* The process is killed; an open transaction is rolled back. The calls that
\* count from now on are the committed ones.
kill ==
    /\ Up /\ life' = "killed"
    /\ starts < MaxStarts
    /\ Forget
    /\ calls' = done
    /\ last' = 0
    /\ UNCHANGED <<done, starts, work, table>>

\* Init and LoadAllJobs: the server that starts knows what the table holds,
\* as if it had been told the committed operations and nothing else.
start ==
    /\ ~Up /\ life' = "up"
    /\ starts < MaxStarts
    /\ starts' = starts + 1
    /\ calls' = done
    /\ last' = 0
    /\ UNCHANGED <<done, queue, flushing, table>>
-----------------------------------------------------------------------------
Init ==
    /\ calls = <<>> /\ done = <<>> /\ last = 0 /\ starts = 1
    /\ pending = <<>> /\ full = FALSE /\ flushCh = FALSE
    /\ at = [f \in Flushers |-> "idle"]
    /\ batch = [f \in Flushers |-> <<>>]
    /\ conn = "" /\ exec = 0
    /\ table = [i \in Ids |-> NoRow]
    /\ work = table
    /\ life = "up"

flush(f) == takeBatch(f) \/ beginTx(f) \/ execOp(f) \/ commit(f) \/ failTx(f)

writeLoop == loopAsked \/ loopTicker \/ loopStop

Close == closeStop \/ closeFlush \/ closeSeal \/ exit

Next ==
    \/ StoreJob \/ DeleteJob \/ requestFlush
    \/ \E f \in Flushers : flush(f)
    \/ writeLoop
    \/ signal \/ Close \/ kill \/ start

\* Goroutines that can run do run, the ticker ticks, and a select with a
\* channel that is ready again and again takes it some time: a channel is
\* picked at random among the ready ones. Nobody has to send a signal, to
\* call, or to start the process.
Fairness ==
    /\ WF_vars(requestFlush)
    /\ \A f \in Flushers : WF_vars(flush(f))
    /\ WF_vars(loopTicker)
    /\ SF_vars(loopStop)
    /\ WF_vars(Close)

Spec == Init /\ [][Next]_vars
FairSpec == Spec /\ Fairness
-----------------------------------------------------------------------------
(* Properties.                                                              *)

\* The values of the variables: at most one flusher has the connection, and
\* what it has executed is within its batch.
TypeOK ==
    /\ calls \in Seq(Op) /\ done \in Seq(Op) /\ pending \in Seq(Op)
    /\ full \in BOOLEAN /\ flushCh \in BOOLEAN
    /\ at \in [Flushers -> Places]
    /\ batch \in [Flushers -> Seq(Op)]
    /\ conn \in Flushers \cup {""}
    /\ \A f \in Flushers : conn = f <=> at[f] = "exec"
    /\ exec \in Nat
    /\ conn \in Flushers => exec <= Len(batch[conn])
    /\ work \in Table /\ table \in Table
    /\ life \in Lives
    /\ last \in Int /\ starts \in Nat

\* t is the table that the operations of s leave when they are applied in
\* order to an empty one: every id has the row of the last operation on it.
Leaves(s, t) ==
    \A i \in Ids :
        \/ t[i] = NoRow /\ \A n \in 1 .. Len(s) : s[n].id # i
        \/ \E n \in 1 .. Len(s) :
              /\ s[n].id = i /\ s[n].row = t[i]
              /\ \A m \in n + 1 .. Len(s) : s[m].id # i

\* The table is what the committed batches leave, and an open transaction sees
\* them and the part of its own batch it has executed: whatever kills the
\* process, the table holds whole batches only (flush's transaction).
WholeBatches ==
    /\ Leaves(done, table)
    /\ conn # "" => Leaves(done \o SubSeq(batch[conn], 1, exec), work)

\* Between the calls and the table nothing is skipped, doubled or overtaken:
\* what was called, failed batches aside, is what was committed, what a flush
\* holds and what is queued, in that order (pending and batch of flush).
NothingSkipped ==
    Up => calls = done \o batch["loop"] \o batch["close"] \o pending

\* Close flushes: after an orderly shutdown the table holds the outcome of every
\* operation that was acknowledged before Close took its last batch and whose
\* transaction did not fail.
CleanShutdown == life = "gone" => Leaves(SubSeq(calls, 1, last), table)

\* "Unflushed writes are lost on a hard crash, not on a clean shutdown - Close
\* always flushes": after an orderly shutdown the table holds the outcome of
\* every operation that was acknowledged, late ones included.
NothingLostOnShutdown == life = "gone" => Leaves(calls, table)

\* Once a signal has arrived the process ends: Close waits for the loop, the
\* loop for the transaction in progress, and nobody for Close.
ShutdownEnds == life = "signalled" ~> ~Up

\* The promise of the port, with the calls of the running process as its log
\* and the committed ones as its durable prefix.
Log == INSTANCE DurableLog WITH
           Ops <- Op, MayLose <- MayFail,
           log <- IF Up THEN calls ELSE done, mark <- Len(done)

\* The adapter keeps that promise: no call is lost but in a failed transaction
\* or at the end of the process, none that is committed is ever lost, and what
\* a running process was told becomes durable or fails.
KeepsPromise == Log!Spec
=============================================================================
