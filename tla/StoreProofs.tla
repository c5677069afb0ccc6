---------------------------- MODULE StoreProofs -----------------------------
(***************************************************************************)
(* Proofs about the SQLite adapter, for any number of ids, rows, calls and *)
(* crashes and any batch size.                                             *)
(***************************************************************************)
EXTENDS Store, SequenceTheorems, TLAPS

(* Facts about sequences and about what a sequence of operations leaves.    *)

\* Executing one more operation of a batch extends the executed part by it.
LEMMA OneMore ==
  ASSUME NEW S, NEW d \in Seq(S), NEW b \in Seq(S), NEW e \in Nat, e < Len(b)
  PROVE  /\ d \o SubSeq(b, 1, e) \in Seq(S)
         /\ d \o SubSeq(b, 1, e + 1) = Append(d \o SubSeq(b, 1, e), b[e + 1])
<1>1. /\ SubSeq(b, 1, e) \in Seq(S)
      /\ b[e + 1] \in S
      /\ SubSeq(b, 1, e + 1) = SubSeq(b, 1, e) \o <<b[e + 1]>>
  <2>1. \A i \in 1 .. e : b[i] \in S
    BY ElementOfSeq
  <2>2. SubSeq(b, 1, e) \in Seq(S)
    BY <2>1, SubSeqProperties
  <2>3. e + 1 \in 1 .. Len(b) /\ (e + 1) - 1 = e
    BY LenProperties
  <2>4. b[e + 1] \in S
    BY <2>3, ElementOfSeq
  <2>5. SubSeq(b, 1, e + 1) = SubSeq(b, 1, (e + 1) - 1) \o <<b[e + 1]>>
    <3>1. 1 \in 1 .. Len(b) /\ e + 1 \in 1 .. Len(b)
      BY LenProperties
    <3>2. QED
      BY <3>1, SubSeqRecursiveSecond
  <2>6. QED
    BY <2>2, <2>3, <2>4, <2>5
<1>2. d \o SubSeq(b, 1, e) \in Seq(S)
  BY <1>1, ConcatProperties
<1>3. <<b[e + 1]>> \in Seq(S)
  BY <1>1
<1>4. d \o (SubSeq(b, 1, e) \o <<b[e + 1]>>) = (d \o SubSeq(b, 1, e)) \o <<b[e + 1]>>
  BY <1>1, <1>3, ConcatAssociative
<1>5. QED
  BY <1>1, <1>2, <1>4, AppendIsConcat

\* An upsert or a delete by id, after s, leaves the table of s with that one
\* row changed.
LEMMA LeavesAppend ==
  ASSUME NEW s \in Seq(Op), NEW t \in Table, NEW op \in Op, Leaves(s, t)
  PROVE  Leaves(Append(s, op), [t EXCEPT ![op.id] = op.row])
<1> DEFINE r == Append(s, op)
           u == [t EXCEPT ![op.id] = op.row]
<1>1. /\ Len(s) \in Nat
      /\ Len(r) = Len(s) + 1
      /\ \A n \in 1 .. Len(s) : r[n] = s[n]
      /\ r[Len(s) + 1] = op
  BY AppendProperties, LenProperties
<1>2. op.id \in Ids
  BY DEF Op
<1>3. u[op.id] = op.row /\ \A i \in Ids : i # op.id => u[i] = t[i]
  BY <1>2 DEF Table
<1> HIDE DEF r, u
<1>4. SUFFICES ASSUME NEW i \in Ids
      PROVE  \/ u[i] = NoRow /\ \A n \in 1 .. Len(r) : r[n].id # i
             \/ \E n \in 1 .. Len(r) :
                   /\ r[n].id = i /\ r[n].row = u[i]
                   /\ \A m \in n + 1 .. Len(r) : r[m].id # i
  BY DEF Leaves, r, u
<1>5. CASE i = op.id
  <2>1. Len(s) + 1 \in 1 .. Len(r)
    BY <1>1
  <2>2. \A m \in (Len(s) + 1) + 1 .. Len(r) : r[m].id # i
    BY <1>1
  <2>3. r[Len(s) + 1].id = i /\ r[Len(s) + 1].row = u[i]
    BY <1>1, <1>3, <1>5
  <2>4. QED
    BY <2>1, <2>2, <2>3
<1>6. CASE i # op.id
  <2>1. u[i] = t[i]
    BY <1>3, <1>6
  <2>2. CASE t[i] = NoRow /\ \A n \in 1 .. Len(s) : s[n].id # i
    <3>1. ASSUME NEW n \in 1 .. Len(r)
          PROVE  r[n].id # i
      <4>1. CASE n \in 1 .. Len(s)
        BY <4>1, <2>2, <1>1
      <4>2. CASE n = Len(s) + 1
        BY <4>2, <1>1, <1>6
      <4>3. QED
        BY <4>1, <4>2, <1>1
    <3>2. QED
      BY <3>1, <2>1, <2>2
  <2>3. CASE \E n \in 1 .. Len(s) :
                /\ s[n].id = i /\ s[n].row = t[i]
                /\ \A m \in n + 1 .. Len(s) : s[m].id # i
    <3>1. PICK n \in 1 .. Len(s) :
                /\ s[n].id = i /\ s[n].row = t[i]
                /\ \A m \in n + 1 .. Len(s) : s[m].id # i
      BY <2>3
    <3>2. n \in 1 .. Len(r) /\ r[n].id = i /\ r[n].row = u[i]
      BY <3>1, <2>1, <1>1
    <3>3. ASSUME NEW m \in n + 1 .. Len(r)
          PROVE  r[m].id # i
      <4>1. CASE m \in 1 .. Len(s)
        BY <4>1, <3>1, <1>1
      <4>2. CASE m = Len(s) + 1
        BY <4>2, <1>1, <1>6
      <4>3. QED
        BY <4>1, <4>2, <1>1
    <3>4. QED
      BY <3>2, <3>3
  <2>4. QED
    BY <2>2, <2>3 DEF Leaves
<1>7. QED
  BY <1>5, <1>6
-----------------------------------------------------------------------------
(* The types and the transactions, whatever fails.                          *)

Sound == TypeOK /\ WholeBatches

\* Nothing that leaves the committed operations, the table and the open
\* transaction alone can spoil what they hold.
LEMMA WholeBatchesFrame ==
  ASSUME TypeOK, WholeBatches,
         UNCHANGED <<done, table, work, conn, exec>>,
         conn # "" => batch'[conn] = batch[conn]
  PROVE  WholeBatches'
BY DEF WholeBatches

LEMMA SoundInit == Init => Sound
<1> SUFFICES ASSUME Init PROVE Sound
  OBVIOUS
<1>1. TypeOK
  <2>1. <<>> \in Seq(Op)
    OBVIOUS
  <2>2. at \in [Flushers -> Places] /\ batch \in [Flushers -> Seq(Op)]
    BY <2>1 DEF Init, Places
  <2>3. \A f \in Flushers : conn # f /\ at[f] # "exec"
    BY DEF Init, Flushers
  <2>4. table \in Table /\ work \in Table
    BY DEF Init, Table
  <2>5. full \in BOOLEAN /\ flushCh \in BOOLEAN
    BY DEF Init
  <2>6. conn \in Flushers \cup {""} /\ exec \in Nat /\ starts \in Nat
        /\ life \in Lives
    BY DEF Init, Lives
  <2>9. last \in Int
    <3>1. last = 0
      BY DEF Init
    <3> QED
      BY <3>1
  <2>7. calls \in Seq(Op) /\ done \in Seq(Op) /\ pending \in Seq(Op)
    BY <2>1 DEF Init
  <2>8. QED
    BY <2>2, <2>3, <2>4, <2>5, <2>6, <2>7, <2>9 DEF TypeOK
<1>2. Leaves(done, table)
  <2>1. \A i \in Ids : table[i] = NoRow /\ \A n \in 1 .. Len(done) : done[n].id # i
    <3>1. Len(done) = 0
      BY EmptySeq DEF Init
    <3>2. \A i \in Ids : table[i] = NoRow
      BY DEF Init
    <3>3. 1 .. Len(done) = {}
      BY <3>1
    <3>4. QED
      BY <3>2, <3>3, Zenon
  <2>2. QED
    BY <2>1 DEF Leaves
<1>3. QED
  BY <1>1, <1>2 DEF Sound, WholeBatches, Init

LEMMA SoundTell ==
  ASSUME Sound, NEW op \in Op, Tell(op)
  PROVE  Sound'
<1>1. TypeOK'
  <2>1. full' \in BOOLEAN
    BY DEF Tell
  <2>2. calls' \in Seq(Op) /\ pending' \in Seq(Op)
    BY AppendProperties DEF Sound, TypeOK, Tell
  <2>3. QED
    BY <2>1, <2>2 DEF Sound, TypeOK, Tell, flushing
<1>2. WholeBatches'
  BY WholeBatchesFrame DEF Sound, Tell, flushing
<1>3. QED
  BY <1>1, <1>2 DEF Sound

LEMMA SoundRequest ==
  ASSUME Sound, requestFlush
  PROVE  Sound'
<1>1. TypeOK'
  BY DEF Sound, TypeOK, requestFlush, hist, flushing
<1>2. WholeBatches'
  BY WholeBatchesFrame DEF Sound, requestFlush, hist, flushing
<1>3. QED
  BY <1>1, <1>2 DEF Sound

LEMMA SoundTake ==
  ASSUME Sound, NEW f \in Flushers, takeBatch(f)
  PROVE  Sound'
<1>1. TypeOK'
  <2>1. <<>> \in Seq(Op)
    OBVIOUS
  <2>2. at' \in [Flushers -> Places] /\ batch' \in [Flushers -> Seq(Op)]
    BY DEF Sound, TypeOK, takeBatch, Places
  <2>3. \A g \in Flushers : at'[g] = "exec" <=> at[g] = "exec"
    BY DEF Sound, TypeOK, takeBatch
  <2>4. conn # f
    BY DEF Sound, TypeOK, takeBatch
  <2>5. conn \in Flushers => exec' <= Len(batch'[conn])
    BY <2>4 DEF Sound, TypeOK, takeBatch
  <2>6. pending' \in Seq(Op)
    BY <2>1 DEF takeBatch
  <2>7. last' \in Int
    <3>1. Len(calls) \in Nat /\ last \in Int
      BY LenProperties DEF Sound, TypeOK
    <3>2. last' = IF f = "close" THEN Len(calls) ELSE last
      BY DEF takeBatch
    <3>3. QED
      BY <3>1, <3>2
  <2>8. QED
    BY <2>2, <2>3, <2>5, <2>6, <2>7 DEF Sound, TypeOK, takeBatch
<1>2. conn # f
  BY DEF Sound, TypeOK, takeBatch
<1>3. conn # "" => batch'[conn] = batch[conn]
  BY <1>2 DEF Sound, TypeOK, takeBatch
<1>4. WholeBatches'
  BY <1>3, WholeBatchesFrame DEF Sound, takeBatch
<1>5. QED
  BY <1>1, <1>4 DEF Sound

LEMMA SoundBegin ==
  ASSUME Sound, NEW f \in Flushers, beginTx(f)
  PROVE  Sound'
<1> USE DEF Sound
<1>0. f # ""
  BY DEF Flushers
<1>1. TypeOK'
  <2>1. \A g \in Flushers : conn' = g <=> at'[g] = "exec"
    <3>1. \A g \in Flushers : at[g] # "exec"
      BY DEF TypeOK, beginTx, Flushers
    <3>2. QED
      BY <3>1 DEF TypeOK, beginTx
  <2>2. conn' \in Flushers => exec' <= Len(batch'[conn'])
    <3>1. batch[f] \in Seq(Op)
      BY DEF TypeOK
    <3>2. Len(batch[f]) \in Nat
      BY <3>1, LenProperties
    <3>3. batch'[conn'] = batch[f] /\ exec' = 0
      BY DEF beginTx
    <3>4. QED
      BY <3>2, <3>3
  <2>3. QED
    BY <2>1, <2>2 DEF TypeOK, beginTx, hist, queue, Places
<1>2. SubSeq(batch'[f], 1, 0) = <<>>
  BY SubSeqEmpty
<1>3. done \in Seq(Op) /\ done \o <<>> = done
  BY ConcatEmptySeq DEF TypeOK
<1>4. Leaves(done, table)
  BY DEF WholeBatches
<1>5. Leaves(done', table') /\ Leaves(done', work')
  BY <1>4 DEF beginTx, hist
<1>6. done' \o SubSeq(batch'[conn'], 1, exec') = done'
  BY <1>2, <1>3 DEF beginTx, hist
<1>7. QED
  BY <1>1, <1>5, <1>6 DEF WholeBatches

LEMMA SoundExec ==
  ASSUME Sound, NEW f \in Flushers, execOp(f)
  PROVE  Sound'
<1> USE DEF Sound
<1> DEFINE op == batch[f][exec + 1]
<1>1. conn = f /\ f # ""
  BY DEF TypeOK, execOp, Flushers
<1>2. batch[f] \in Seq(Op) /\ exec \in Nat /\ exec < Len(batch[f]) /\ done \in Seq(Op)
  BY DEF TypeOK, execOp
<1>3. op \in Op
  BY <1>2, ElementOfSeq, LenProperties
<1>4. work' = [work EXCEPT ![op.id] = op.row] /\ exec' = exec + 1
  BY DEF execOp
<1>5. UNCHANGED <<calls, done, last, starts, pending, full, flushCh, at, batch, conn, table, life>>
  BY DEF execOp, hist, queue
<1>6. Leaves(done \o SubSeq(batch[f], 1, exec), work)
  BY <1>1 DEF WholeBatches
<1>7. /\ done \o SubSeq(batch[f], 1, exec) \in Seq(Op)
      /\ done \o SubSeq(batch[f], 1, exec + 1) = Append(done \o SubSeq(batch[f], 1, exec), op)
  BY <1>2, OneMore
<1> HIDE DEF op
<1>8. Leaves(done \o SubSeq(batch[f], 1, exec + 1), work')
  <2>1. work \in Table
    BY DEF TypeOK
  <2>2. QED
    BY <1>3, <1>4, <1>6, <1>7, <2>1, LeavesAppend
<1>9. TypeOK'
  <2>1. work' \in Table
    BY <1>3, <1>4 DEF TypeOK, Table, Op
  <2>2. exec' \in Nat /\ exec' <= Len(batch'[conn'])
    <3>1. Len(batch[f]) \in Nat
      BY <1>2, LenProperties
    <3>2. batch'[conn'] = batch[f]
      BY <1>1, <1>5
    <3>3. QED
      BY <3>1, <3>2, <1>2, <1>4
  <2>3. QED
    BY <2>1, <2>2, <1>5 DEF TypeOK
<1>10. Leaves(done', table')
  BY <1>5 DEF WholeBatches
<1>11. QED
  BY <1>9, <1>10, <1>8, <1>5, <1>4, <1>1 DEF WholeBatches

LEMMA SoundCommit ==
  ASSUME Sound, NEW f \in Flushers, commit(f)
  PROVE  Sound'
<1> USE DEF Sound
<1>1. conn = f /\ f # ""
  BY DEF TypeOK, commit, Flushers
<1>2. batch[f] \in Seq(Op) /\ exec = Len(batch[f]) /\ done \in Seq(Op)
  BY DEF TypeOK, commit
<1>3. done \o SubSeq(batch[f], 1, exec) = done'
  BY <1>2, SubSeqFull DEF commit
<1>4. done' \in Seq(Op)
  BY <1>2, ConcatProperties DEF commit
<1>5. Leaves(done', table')
  BY <1>1, <1>3 DEF WholeBatches, commit
<1>6. TypeOK'
  <2>1. \A g \in Flushers : at'[g] = "exec" <=> g # f /\ at[g] = "exec"
    BY DEF TypeOK, commit, Return
  <2>2. \A g \in Flushers : conn' = g <=> at'[g] = "exec"
    BY <2>1, <1>1 DEF TypeOK, commit, Flushers
  <2>3. conn' \notin Flushers
    BY DEF commit, Flushers
  <2>4. table' \in Table /\ work' \in Table
    BY DEF TypeOK, commit
  <2>5. at' \in [Flushers -> Places]
    BY DEF TypeOK, commit, Return, Places
  <2>6. batch' \in [Flushers -> Seq(Op)]
    <3>1. <<>> \in Seq(Op)
      OBVIOUS
    <3>2. QED
      BY <3>1 DEF TypeOK, commit
  <2>7. QED
    BY <1>4, <2>2, <2>3, <2>4, <2>5, <2>6 DEF TypeOK, commit, queue
<1>7. conn' = ""
  BY DEF commit
<1>8. QED
  BY <1>5, <1>6, <1>7 DEF WholeBatches

\* The calls that are left are operations as long as the failed batch was among
\* them, which the order of the operations shows below.
LEMMA SoundFail ==
  ASSUME Sound, NEW f \in Flushers, failTx(f), calls' \in Seq(Op)
  PROVE  Sound'
<1> USE DEF Sound
<1>1. conn = "" \/ conn = f
  BY DEF TypeOK, failTx
<1>2. TypeOK'
  <2>1. \A g \in Flushers : at'[g] = "exec" <=> g # f /\ at[g] = "exec"
    BY DEF TypeOK, failTx, Return
  <2>2. \A g \in Flushers : conn' = g <=> at'[g] = "exec"
    BY <2>1, <1>1 DEF TypeOK, failTx, Flushers
  <2>3. conn' \notin Flushers
    BY DEF failTx, Flushers
  <2>5. at' \in [Flushers -> Places]
    BY DEF TypeOK, failTx, Return, Places
  <2>6. batch' \in [Flushers -> Seq(Op)]
    <3>1. <<>> \in Seq(Op)
      OBVIOUS
    <3>2. QED
      BY <3>1 DEF TypeOK, failTx
  <2>7. last' \in Int
    <3>1. batch[f] \in Seq(Op) /\ last \in Int
      BY DEF TypeOK
    <3>2. Len(batch[f]) \in Nat
      BY <3>1, LenProperties
    <3>3. last' = IF f = "close" THEN last - Len(batch[f]) ELSE last
      BY DEF failTx, DropBatch
    <3>4. QED
      BY <3>1, <3>2, <3>3
  <2>8. QED
    BY <2>2, <2>3, <2>5, <2>6, <2>7 DEF TypeOK, failTx, queue
<1>3. Leaves(done', table') /\ conn' = ""
  BY DEF WholeBatches, failTx
<1>4. QED
  BY <1>2, <1>3 DEF WholeBatches

\* Waking a flusher, stopping the loop and the steps of Close leave the
\* transactions alone.
LEMMA SoundMove ==
  ASSUME Sound, NEW f \in Flushers, NEW p \in Places \ {"exec"},
         at[f] = "idle", at' = [at EXCEPT ![f] = p],
         UNCHANGED <<calls, done, starts, pending, full, batch, conn, exec, work, table>>,
         flushCh' \in BOOLEAN, life' \in Lives, last' \in Int
  PROVE  Sound'
<1>1. \A g \in Flushers : at'[g] = "exec" <=> at[g] = "exec"
  BY DEF Sound, TypeOK
<1>2. at' \in [Flushers -> Places]
  BY DEF Sound, TypeOK
<1>3. TypeOK'
  BY <1>1, <1>2 DEF Sound, TypeOK
<1>4. WholeBatches'
  BY WholeBatchesFrame DEF Sound
<1>5. QED
  BY <1>3, <1>4 DEF Sound

LEMMA SoundLoop ==
  ASSUME Sound, writeLoop
  PROVE  Sound'
<1> USE DEF Sound
<1>1. "loop" \in Flushers
  BY DEF Flushers
<1>2. flushCh \in BOOLEAN /\ life \in Lives /\ last \in Int
  BY DEF TypeOK
<1>3. CASE loopAsked
  <2>1. flushCh' \in BOOLEAN
    BY <1>3 DEF loopAsked
  <2>2. QED
    BY <1>1, <1>2, <1>3, <2>1, SoundMove DEF loopAsked, Wake, hist, Places
<1>4. CASE loopTicker
  <2>1. flushCh' \in BOOLEAN
    BY <1>2, <1>4 DEF loopTicker, queue
  <2>2. QED
    BY <1>1, <1>2, <1>4, <2>1, SoundMove DEF loopTicker, Wake, hist, queue, Places
<1>5. CASE loopStop
  <2>1. flushCh' \in BOOLEAN
    BY <1>2, <1>5 DEF loopStop, queue
  <2>2. QED
    BY <1>1, <1>2, <1>5, <2>1, SoundMove DEF loopStop, hist, queue, Places
<1>6. QED
  BY <1>3, <1>4, <1>5 DEF writeLoop

\* A process that ends or starts has no transaction open and has changed
\* nothing that is committed.
LEMMA SoundForget ==
  ASSUME Sound, Forget, UNCHANGED <<done, starts, work, table>>,
         calls' \in Seq(Op), last' \in Int, life' \in Lives
  PROVE  Sound'
<1> USE DEF Sound
<1>1. \A f \in Flushers : conn' # f /\ at'[f] # "exec"
  BY DEF Forget, Flushers
<1>2. <<>> \in Seq(Op)
  OBVIOUS
<1>3. at' \in [Flushers -> Places] /\ batch' \in [Flushers -> Seq(Op)]
  BY <1>2 DEF Forget, Places
<1>4. full' \in BOOLEAN /\ flushCh' \in BOOLEAN
  BY DEF Forget
<1>5. TypeOK'
  BY <1>1, <1>2, <1>3, <1>4 DEF TypeOK, Forget
<1>6. Leaves(done', table')
  BY DEF WholeBatches
<1>7. QED
  BY <1>5, <1>6 DEF WholeBatches, Forget

LEMMA SoundLife ==
  ASSUME Sound, signal \/ Close \/ kill \/ start
  PROVE  Sound'
<1> USE DEF Sound
<1>1. CASE signal \/ closeStop \/ closeSeal
  <2>1. UNCHANGED <<hist, queue, flushing, table>> /\ life' \in Lives
    BY <1>1 DEF signal, closeStop, closeSeal, Pass, Lives
  <2>2. WholeBatches'
    BY <2>1, WholeBatchesFrame DEF hist, flushing
  <2>3. QED
    BY <2>1, <2>2 DEF TypeOK, hist, queue, flushing
<1>2. CASE closeFlush
  <2>1. "close" \in Flushers /\ life' \in Lives
    BY <1>2 DEF Flushers, closeFlush, Pass, Lives
  <2>2. flushCh' \in BOOLEAN
    BY <1>2 DEF TypeOK, closeFlush, Pass, queue
  <2>3. last' \in Int
    BY <1>2 DEF TypeOK, closeFlush, Pass, hist
  <2>4. QED
    BY <1>2, <2>1, <2>2, <2>3, SoundMove DEF closeFlush, Pass, Wake, hist, queue, Places
<1>3. CASE exit
  <2>1. calls' \in Seq(Op) /\ last' \in Int /\ life' \in Lives
    BY <1>3 DEF TypeOK, exit, hist, Lives
  <2>2. QED
    BY <1>3, <2>1, SoundForget DEF exit, hist
<1>4. CASE kill
  <2>1. calls' \in Seq(Op) /\ life' \in Lives
    BY <1>4 DEF TypeOK, kill, Lives
  <2>3. last' = 0
    BY <1>4 DEF kill
  <2>2. QED
    BY <1>4, <2>1, <2>3, SoundForget DEF kill
<1>5. CASE start
  <2>1. calls' \in Seq(Op) /\ last' \in Int /\ life' \in Lives /\ starts' \in Nat
    <3>1. done \in Seq(Op) /\ starts \in Nat
      BY DEF TypeOK
    <3>2. calls' = done /\ last' = 0 /\ starts' = starts + 1 /\ life' = "up"
      BY <1>5 DEF start
    <3>3. QED
      BY <3>1, <3>2 DEF Lives
  <2>2. WholeBatches'
    BY <1>5, WholeBatchesFrame DEF start, flushing
  <2>3. QED
    BY <1>5, <2>1, <2>2 DEF TypeOK, start, queue, flushing
<1>6. QED
  BY <1>1, <1>2, <1>3, <1>4, <1>5 DEF Close

\* One case per action of the specification.
LEMMA SoundStep ==
  ASSUME Sound, [Next]_vars, \A f \in Flushers : failTx(f) => calls' \in Seq(Op)
  PROVE  Sound'
<1>1. CASE StoreJob
  <2>1. PICK i \in Ids, r \in Rows : Tell([id |-> i, row |-> r])
    BY <1>1 DEF StoreJob
  <2>2. QED
    BY <2>1, SoundTell DEF Op
<1>2. CASE DeleteJob
  <2>1. PICK i \in Ids : Tell([id |-> i, row |-> NoRow])
    BY <1>2 DEF DeleteJob
  <2>2. QED
    BY <2>1, SoundTell DEF Op
<1>3. CASE requestFlush
  BY <1>3, SoundRequest
<1>4. CASE \E f \in Flushers : flush(f)
  <2>1. PICK f \in Flushers : flush(f)
    BY <1>4
  <2>2. QED
    BY <2>1, SoundTake, SoundBegin, SoundExec, SoundCommit, SoundFail DEF flush
<1>5. CASE writeLoop
  BY <1>5, SoundLoop
<1>7. CASE signal \/ Close \/ kill \/ start
  BY <1>7, SoundLife
<1>8. CASE UNCHANGED vars
  <2>1. WholeBatches'
    BY <1>8, WholeBatchesFrame DEF Sound, vars, hist, queue, flushing
  <2>2. QED
    BY <1>8, <2>1 DEF Sound, TypeOK, vars, hist, queue, flushing
<1>9. QED
  BY <1>1, <1>2, <1>3, <1>4, <1>5, <1>7, <1>8 DEF Next

-----------------------------------------------------------------------------
(* The order of the operations.                                             *)

\* Where the two flushers of the server are: a batch exists only inside a
\* flush, Close flushes after the loop has stopped, and the database is closed
\* after that.
Stages ==
    /\ \A f \in {"loop", "close"} : at[f] \notin {"begin", "exec"} => batch[f] = <<>>
    /\ at["close"] # "idle" => life = "flushing"
    /\ life \in {"flushing", "sealed"} => at["loop"] = "stopped"
    /\ ~Up => at["loop"] = "idle" /\ pending = <<>>

\* The committed operations are the oldest calls.
Prefix == Len(done) <= Len(calls) /\ SubSeq(calls, 1, Len(done)) = done

\* What was called before Close's flush took its batch is committed or in it.
Taken ==
    /\ life = "sealed" \/ (life = "flushing" /\ at["close"] # "take")
          => last = Len(done) + Len(batch["close"])
    /\ life = "gone" => last = Len(done)

Ordered == Sound /\ Stages /\ NothingSkipped /\ Prefix /\ Taken

LEMMA PrefixOfConcat ==
  ASSUME NEW S, NEW d \in Seq(S), NEW x \in Seq(S)
  PROVE  Len(d) <= Len(d \o x) /\ SubSeq(d \o x, 1, Len(d)) = d
<1>1. Len(d) \in Nat /\ Len(x) \in Nat /\ Len(d \o x) = Len(d) + Len(x)
  BY LenProperties, ConcatProperties
<1>2. CASE d = <<>>
  <2>1. Len(d) = 0
    BY <1>2, EmptySeq
  <2>2. SubSeq(d \o x, 1, 0) = <<>>
    BY SubSeqEmpty
  <2>3. QED
    BY <1>1, <1>2, <2>1, <2>2
<1>3. CASE d # <<>>
  <2>1. Len(d) \in 1 .. Len(d) /\ 1 \in 1 .. Len(d)
    BY <1>3, EmptySeq
  <2>2. SubSeq(d \o x, 1, Len(d)) = SubSeq(d, 1, Len(d))
    BY <2>1, SubSeqOfConcat1
  <2>3. QED
    BY <1>1, <2>2, SubSeqFull
<1>4. QED
  BY <1>2, <1>3

\* The order of the operations gives the prefix.
LEMMA PrefixFromOrder ==
  ASSUME NEW S, NEW d \in Seq(S), NEW a \in Seq(S), NEW b \in Seq(S), NEW p \in Seq(S)
  PROVE  Len(d) <= Len(d \o a \o b \o p) /\ SubSeq(d \o a \o b \o p, 1, Len(d)) = d
<1>1. a \o b \in Seq(S) /\ (a \o b) \o p \in Seq(S) /\ d \o a \in Seq(S)
  BY ConcatProperties
<1>2. ((d \o a) \o b) \o p = (d \o (a \o b)) \o p
  BY ConcatAssociative
<1>3. (d \o (a \o b)) \o p = d \o ((a \o b) \o p)
  BY <1>1, ConcatAssociative
<1>4. QED
  BY <1>1, <1>2, <1>3, PrefixOfConcat

LEMMA OrderedInit == Init => Ordered
<1> SUFFICES ASSUME Init PROVE Ordered
  OBVIOUS
<1>1. Sound
  BY SoundInit
<1>2. Stages
  BY DEF Init, Stages, Flushers, Up
<1>3. Taken
  BY DEF Init, Taken
<1>4. NothingSkipped
  <2>1. <<>> \in Seq(Op)
    OBVIOUS
  <2>2. <<>> \o <<>> = <<>>
    BY <2>1, ConcatEmptySeq
  <2>3. batch["loop"] = <<>> /\ batch["close"] = <<>> /\ calls = <<>> /\ done = <<>> /\ pending = <<>>
    BY DEF Init, Flushers
  <2>4. QED
    BY <2>2, <2>3 DEF NothingSkipped
<1>5. Prefix
  <2>1. calls = <<>> /\ done = <<>>
    BY DEF Init
  <2>2. Len(<<>>) = 0 /\ SubSeq(<<>>, 1, 0) = <<>>
    BY EmptySeq, SubSeqEmpty
  <2>3. QED
    BY <2>1, <2>2 DEF Prefix
<1>6. QED
  BY <1>1, <1>2, <1>3, <1>4, <1>5 DEF Ordered

\* A call goes to the end of the queue and to the end of the log.
LEMMA OrderedTell ==
  ASSUME Ordered, NEW op \in Op, Tell(op)
  PROVE  NothingSkipped' /\ Stages' /\ Taken'
<1> DEFINE q == done \o batch["loop"] \o batch["close"]
<1>1. q \in Seq(Op) /\ pending \in Seq(Op)
  <2>1. done \in Seq(Op) /\ batch["loop"] \in Seq(Op) /\ batch["close"] \in Seq(Op) /\ pending \in Seq(Op)
    BY DEF Ordered, Sound, TypeOK, Flushers
  <2>2. done \o batch["loop"] \in Seq(Op)
    BY <2>1, ConcatProperties
  <2>3. QED
    BY <2>1, <2>2, ConcatProperties
<1>2. calls = q \o pending
  BY DEF Ordered, NothingSkipped, Tell
<1>3. UNCHANGED <<done, at, batch, last, life>> /\ calls' = Append(calls, op) /\ pending' = Append(pending, op)
  BY DEF Tell, flushing
<1>4. q' = q
  BY <1>3
<1> HIDE DEF q
<1>5. Append(q \o pending, op) = q \o Append(pending, op)
  <2>1. <<op>> \in Seq(Op) /\ q \o pending \in Seq(Op)
    BY <1>1, ConcatProperties
  <2>2. Append(q \o pending, op) = (q \o pending) \o <<op>>
    BY <2>1, AppendIsConcat
  <2>3. Append(pending, op) = pending \o <<op>>
    BY <1>1, AppendIsConcat
  <2>4. QED
    BY <2>1, <2>2, <2>3, <1>1, ConcatAssociative
<1>6. calls' = q' \o pending'
  BY <1>2, <1>3, <1>4, <1>5
<1>7. NothingSkipped'
  BY <1>6 DEF NothingSkipped, q
<1>8. Stages'
  BY <1>3 DEF Ordered, Stages, Up, Tell
<1>9. Taken'
  BY <1>3 DEF Ordered, Taken
<1>10. QED
  BY <1>7, <1>8, <1>9

LEMMA OneBatch ==
  ASSUME NEW S, NEW d \in Seq(S), NEW x \in Seq(S), NEW p
  PROVE  /\ ((d \o x) \o <<>>) \o p = (d \o x) \o p
         /\ ((d \o <<>>) \o x) \o p = (d \o x) \o p
<1>1. d \o x \in Seq(S)
  BY ConcatProperties
<1>2. (d \o x) \o <<>> = d \o x /\ d \o <<>> = d
  BY <1>1, ConcatEmptySeq
<1>3. QED
  BY <1>2

\* Inside its flush a flusher is the only one with a batch.
LEMMA Alone ==
  ASSUME Ordered, NEW f \in {"loop", "close"}, at[f] \in {"take", "begin", "exec"}
  PROVE  /\ \A g \in {"loop", "close"} : g # f => batch[g] = <<>> /\ at[g] \in {"idle", "stopped"}
         /\ f = "close" => life = "flushing"
         /\ f = "loop" => life \notin {"flushing", "sealed"}
<1>1. CASE f = "loop"
  BY <1>1 DEF Ordered, Stages
<1>2. CASE f = "close"
  BY <1>2 DEF Ordered, Stages
<1>3. QED
  BY <1>1, <1>2

\* What the server's flushers do to the batches, seen as one queue.
LEMMA AloneOrder ==
  ASSUME TypeOK, NEW f \in {"loop", "close"},
         \A g \in {"loop", "close"} : g # f => batch[g] = <<>>
  PROVE  done \o batch["loop"] \o batch["close"] \o pending = (done \o batch[f]) \o pending
<1>1. done \in Seq(Op) /\ batch[f] \in Seq(Op) /\ "loop" # "close"
  BY DEF TypeOK, Flushers
<1>2. CASE f = "loop"
  <2>1. batch["close"] = <<>>
    BY <1>1, <1>2
  <2>2. QED
    BY <1>1, <1>2, <2>1, OneBatch
<1>3. CASE f = "close"
  <2>1. batch["loop"] = <<>>
    BY <1>1, <1>3
  <2>2. QED
    BY <1>1, <1>3, <2>1, OneBatch
<1>4. QED
  BY <1>2, <1>3

LEMMA OrderedTake ==
  ASSUME Ordered, NEW f \in {"loop", "close"}, takeBatch(f), TypeOK'
  PROVE  NothingSkipped' /\ Stages' /\ Taken'
<1>1. /\ \A g \in {"loop", "close"} : g # f => batch[g] = <<>> /\ at[g] \in {"idle", "stopped"}
      /\ f = "close" => life = "flushing"
      /\ f = "loop" => life \notin {"flushing", "sealed"}
  BY Alone DEF takeBatch
<1>2. TypeOK /\ f \in Flushers
  BY DEF Ordered, Sound, Flushers
<1>3. batch[f] = <<>>
  BY DEF Ordered, Stages, takeBatch
<1>4. /\ batch'[f] = pending /\ pending' = <<>> /\ done' = done /\ calls' = calls /\ life' = life
      /\ \A g \in {"loop", "close"} : g # f => batch'[g] = <<>> /\ at'[g] = at[g]
      /\ at'[f] = IF pending = <<>> THEN "idle" ELSE "begin"
  BY <1>1, <1>2 DEF takeBatch, hist, TypeOK, Flushers
<1>5. NothingSkipped'
  <2>1. SUFFICES ASSUME Up
        PROVE  calls' = done' \o batch'["loop"] \o batch'["close"] \o pending'
    BY <1>4 DEF NothingSkipped, Up
  <2>2. calls = (done \o <<>>) \o pending
    BY <2>1, <1>1, <1>2, <1>3, AloneOrder DEF Ordered, NothingSkipped
  <2>3. done' \o batch'["loop"] \o batch'["close"] \o pending' = (done' \o batch'[f]) \o pending'
    <3>1. done' \in Seq(Op) /\ batch'[f] \in Seq(Op)
      BY <1>2 DEF TypeOK
    <3>2. CASE f = "loop"
      <4>1. batch'["close"] = <<>>
        BY <1>4, <3>2
      <4>2. QED
        BY <3>1, <3>2, <4>1, OneBatch
    <3>3. CASE f = "close"
      <4>1. batch'["loop"] = <<>>
        BY <1>4, <3>3
      <4>2. QED
        BY <3>1, <3>3, <4>1, OneBatch
    <3>4. QED
      BY <3>2, <3>3
  <2>4. done \in Seq(Op) /\ pending \in Seq(Op) /\ done \o pending \in Seq(Op)
    BY <1>2, ConcatProperties DEF TypeOK
  <2>5. done \o <<>> = done /\ (done \o pending) \o <<>> = done \o pending
    BY <2>4, ConcatEmptySeq
  <2>6. QED
    BY <1>4, <2>2, <2>3, <2>5
<1>6. Stages'
  <2>1. \A g \in {"loop", "close"} : at'[g] \notin {"begin", "exec"} => batch'[g] = <<>>
    BY <1>4
  <2>2. at'["close"] # "idle" => life' = "flushing"
    BY <1>1, <1>4 DEF Ordered, Stages
  <2>3. life' \in {"flushing", "sealed"} => at'["loop"] = "stopped"
    BY <1>1, <1>4 DEF Ordered, Stages
  <2>4. ~Up' => at'["loop"] = "idle" /\ pending' = <<>>
    BY <1>1, <1>4 DEF Ordered, Stages, Up, takeBatch
  <2>5. QED
    BY <2>1, <2>2, <2>3, <2>4 DEF Stages
<1>7. Taken'
  <2>1. CASE f = "loop"
    <3>1. life \notin {"flushing", "sealed", "gone"}
      BY <1>1, <2>1 DEF Ordered, Stages, Up, takeBatch
    <3>2. QED
      BY <1>4, <3>1 DEF Taken
  <2>2. CASE f = "close"
    <3>1. life = "flushing" /\ Up
      BY <1>1, <2>2 DEF Up
    <3>2. calls = (done \o <<>>) \o pending
      BY <3>1, <1>1, <1>2, <1>3, AloneOrder DEF Ordered, NothingSkipped
    <3>3. done \in Seq(Op) /\ pending \in Seq(Op) /\ done \o <<>> = done
      BY <1>2, ConcatEmptySeq DEF TypeOK
    <3>4. Len(calls) = Len(done) + Len(pending)
      BY <3>2, <3>3, ConcatProperties
    <3>5. last' = Len(calls)
      BY <2>2 DEF takeBatch
    <3>6. last' = Len(done') + Len(batch'["close"])
      BY <1>4, <2>2, <3>4, <3>5
    <3>7. QED
      BY <1>4, <3>1, <3>6 DEF Taken
  <2>3. QED
    BY <2>1, <2>2
<1>8. QED
  BY <1>5, <1>6, <1>7

LEMMA OrderedTx ==
  ASSUME Ordered, NEW f \in {"loop", "close"}, beginTx(f) \/ execOp(f)
  PROVE  NothingSkipped' /\ Stages' /\ Taken'
<1>1. f \in Flushers /\ TypeOK
  BY DEF Ordered, Sound, Flushers
<1>2. UNCHANGED <<calls, done, pending, batch, last, life>>
  BY DEF beginTx, execOp, hist, queue
<1>3. \A g \in {"loop", "close"} :
        \/ at'[g] = at[g]
        \/ g = f /\ at[g] = "begin" /\ at'[g] = "exec"
  <2>1. CASE beginTx(f)
    BY <1>1, <2>1 DEF beginTx, TypeOK, Flushers
  <2>2. CASE execOp(f)
    <3>1. at' = at
      BY <2>2 DEF execOp
    <3>2. QED
      BY <3>1
  <2>3. QED
    BY <2>1, <2>2
<1>4. NothingSkipped'
  BY <1>2 DEF Ordered, NothingSkipped, Up
<1>5. Stages'
  BY <1>2, <1>3 DEF Ordered, Stages, Up
<1>6. Taken'
  BY <1>2, <1>3 DEF Ordered, Taken
<1>7. QED
  BY <1>4, <1>5, <1>6

LEMMA OrderedCommit ==
  ASSUME Ordered, NEW f \in {"loop", "close"}, commit(f)
  PROVE  NothingSkipped' /\ Stages' /\ Taken'
<1>1. /\ \A g \in {"loop", "close"} : g # f => batch[g] = <<>> /\ at[g] \in {"idle", "stopped"}
      /\ f = "close" => life = "flushing"
      /\ f = "loop" => life \notin {"flushing", "sealed"}
  BY Alone DEF commit
<1>2. TypeOK /\ f \in Flushers
  BY DEF Ordered, Sound, Flushers
<1>3. /\ calls' = calls /\ pending' = pending /\ life' = life /\ done' = done \o batch[f]
      /\ \A g \in {"loop", "close"} : batch'[g] = <<>>
      /\ \A g \in {"loop", "close"} : g # f => at'[g] = at[g]
      /\ at'[f] = "idle"
  BY <1>1, <1>2 DEF commit, Return, queue, TypeOK, Flushers
<1>4. NothingSkipped'
  <2>1. SUFFICES ASSUME Up
        PROVE  calls' = done' \o batch'["loop"] \o batch'["close"] \o pending'
    BY <1>3 DEF NothingSkipped, Up
  <2>2. calls = (done \o batch[f]) \o pending
    BY <2>1, <1>1, <1>2, AloneOrder DEF Ordered, NothingSkipped
  <2>3. done' \in Seq(Op)
    BY <1>2, <1>3, ConcatProperties DEF TypeOK
  <2>4. (done' \o <<>>) \o <<>> = done'
    BY <2>3, ConcatEmptySeq
  <2>5. QED
    BY <1>3, <2>2, <2>4
<1>5. Stages'
  <2>1. at'["close"] # "idle" => life' = "flushing"
    BY <1>1, <1>3 DEF Ordered, Stages
  <2>2. life' \in {"flushing", "sealed"} => at'["loop"] = "stopped"
    BY <1>1, <1>3 DEF Ordered, Stages
  <2>3. ~Up' => at'["loop"] = "idle" /\ pending' = <<>>
    BY <1>1, <1>3 DEF Ordered, Stages, Up
  <2>4. QED
    BY <1>3, <2>1, <2>2, <2>3 DEF Stages
<1>6. Taken'
  <2>1. at[f] = "exec" /\ last' = last
    BY DEF commit
  <2>2. CASE f = "loop"
    <3>1. life \notin {"flushing", "sealed", "gone"}
      BY <1>1, <2>1, <2>2 DEF Ordered, Stages, Up
    <3>2. QED
      BY <1>3, <3>1 DEF Taken
  <2>3. CASE f = "close"
    <3>1. life = "flushing" /\ last = Len(done) + Len(batch["close"])
      BY <1>1, <2>1, <2>3 DEF Ordered, Taken
    <3>2. Len(done') = Len(done) + Len(batch["close"]) /\ Len(done') \in Nat
      <4>1. done \in Seq(Op) /\ batch["close"] \in Seq(Op) /\ done' = done \o batch["close"]
        BY <1>2, <1>3, <2>3 DEF TypeOK
      <4>2. QED
        BY <4>1, ConcatProperties, LenProperties
    <3>3. batch'["close"] = <<>> /\ Len(<<>>) = 0
      BY <1>3, EmptySeq
    <3>4. last' = Len(done') + Len(batch'["close"])
      BY <2>1, <3>1, <3>2, <3>3
    <3>5. QED
      BY <1>3, <3>1, <3>4 DEF Taken
  <2>4. QED
    BY <2>2, <2>3
<1>7. QED
  BY <1>4, <1>5, <1>6

\* What follows a sequence is what was appended to it.
LEMMA SuffixOfConcat ==
  ASSUME NEW S, NEW x \in Seq(S), NEW y \in Seq(S)
  PROVE  SubSeq(x \o y, Len(x) + 1, Len(x \o y)) = y
<1> DEFINE z == x \o y
           u == SubSeq(z, Len(x) + 1, Len(z))
<1>1. z \in Seq(S) /\ Len(x) \in Nat /\ Len(y) \in Nat /\ Len(z) = Len(x) + Len(y)
  BY ConcatProperties, LenProperties
<1>2. \A i \in 1 .. Len(y) : z[Len(x) + i] = y[i]
  BY <1>1, ConcatProperties
<1> HIDE DEF z
<1>3. u \in Seq(S) /\ Len(u) = Len(y)
  BY <1>1
<1>4. \A i \in 1 .. Len(u) : u[i] = z[Len(x) + i]
  BY <1>1
<1> HIDE DEF u
<1>5. u = y
  <2>1. \A i \in 1 .. Len(u) : u[i] = y[i]
    BY <1>2, <1>3, <1>4
  <2>2. QED
    BY <1>3, <2>1, SeqEqual
<1>6. QED
  BY <1>5 DEF u, z

\* A batch that fails leaves the committed operations and the queue.
LEMMA DropProps ==
  ASSUME Ordered, Up, NEW f \in {"loop", "close"}, DropBatch(f),
         \A g \in {"loop", "close"} : g # f => batch[g] = <<>>
  PROVE  calls' = done \o pending /\ Len(done) + Len(batch[f]) <= Len(calls)
<1> DEFINE b == batch[f]
           x == done \o b
<1>1. TypeOK /\ done \in Seq(Op) /\ b \in Seq(Op) /\ pending \in Seq(Op)
  BY DEF Ordered, Sound, TypeOK, Flushers
<1>2. calls = x \o pending
  BY <1>1, AloneOrder DEF Ordered, NothingSkipped
<1>3. x \in Seq(Op) /\ Len(x) = Len(done) + Len(b) /\ Len(done) \in Nat /\ Len(b) \in Nat
  BY <1>1, ConcatProperties, LenProperties
<1>4. SubSeq(calls, 1, Len(done)) = done
  BY DEF Ordered, Prefix
<1>5. calls' = SubSeq(calls, 1, Len(done)) \o SubSeq(calls, Len(x) + 1, Len(calls))
  BY <1>3 DEF DropBatch
<1>6. Len(calls) = Len(x) + Len(pending) /\ Len(pending) \in Nat
  <2> HIDE DEF x
  <2> QED BY <1>1, <1>2, <1>3, ConcatProperties, LenProperties
<1>7. SubSeq(calls, Len(x) + 1, Len(calls)) = pending
  <2> HIDE DEF x
  <2> QED BY <1>1, <1>2, <1>3, SuffixOfConcat
<1>8. calls' = done \o pending
  BY <1>4, <1>5, <1>7
<1>9. Len(x) <= Len(calls)
  <2> HIDE DEF x
  <2> QED BY <1>3, <1>6
<1>10. QED
  BY <1>3, <1>8, <1>9

\* What is left of the calls when a batch fails.
LEMMA FailedCalls ==
  ASSUME Ordered, NEW f \in Flushers, failTx(f)
  PROVE  calls' \in Seq(Op)
<1>1. f \in {"loop", "close"} /\ at[f] \in {"begin", "exec"} /\ DropBatch(f)
  BY DEF Flushers, failTx
<1>2. /\ \A g \in {"loop", "close"} : g # f => batch[g] = <<>>
      /\ f = "close" => life = "flushing"
  BY <1>1, Alone
<1>3. Up
  <2>1. CASE f = "loop"
    BY <1>1, <2>1 DEF Ordered, Stages
  <2>2. CASE f = "close"
    BY <1>2, <2>2 DEF Up
  <2>3. QED
    BY <1>1, <2>1, <2>2
<1>4. calls' = done \o pending
  BY <1>1, <1>2, <1>3, DropProps
<1>5. done \in Seq(Op) /\ pending \in Seq(Op)
  BY DEF Ordered, Sound, TypeOK
<1>6. QED
  BY <1>4, <1>5, ConcatProperties

LEMMA OrderedFail ==
  ASSUME Ordered, NEW f \in {"loop", "close"}, failTx(f)
  PROVE  NothingSkipped' /\ Stages' /\ Taken'
<1>1. /\ \A g \in {"loop", "close"} : g # f => batch[g] = <<>> /\ at[g] \in {"idle", "stopped"}
      /\ f = "close" => life = "flushing"
      /\ f = "loop" => life \notin {"flushing", "sealed"}
  BY Alone DEF failTx
<1>2. TypeOK /\ f \in Flushers /\ at[f] \in {"begin", "exec"} /\ DropBatch(f)
  BY DEF Ordered, Sound, Flushers, failTx
<1>3. /\ pending' = pending /\ life' = life /\ done' = done
      /\ \A g \in {"loop", "close"} : batch'[g] = <<>>
      /\ \A g \in {"loop", "close"} : g # f => at'[g] = at[g]
      /\ at'[f] = "idle"
  BY <1>1, <1>2 DEF failTx, Return, queue, TypeOK, Flushers
<1>4. Up
  <2>1. CASE f = "loop"
    BY <1>2, <2>1 DEF Ordered, Stages
  <2>2. CASE f = "close"
    BY <1>1, <2>2 DEF Up
  <2>3. QED
    BY <2>1, <2>2
<1>5. NothingSkipped'
  <2>1. calls' = done \o pending
    BY <1>1, <1>2, <1>4, DropProps
  <2>2. done \in Seq(Op) /\ (done \o <<>>) \o <<>> = done
    BY <1>2, ConcatEmptySeq DEF TypeOK
  <2>3. QED
    BY <1>3, <2>1, <2>2 DEF NothingSkipped
<1>6. Stages'
  <2>1. at'["close"] # "idle" => life' = "flushing"
    BY <1>1, <1>3 DEF Ordered, Stages
  <2>2. life' \in {"flushing", "sealed"} => at'["loop"] = "stopped"
    BY <1>1, <1>3 DEF Ordered, Stages
  <2>3. Up'
    BY <1>3, <1>4 DEF Up
  <2>4. QED
    BY <1>3, <2>1, <2>2, <2>3 DEF Stages
<1>7. Taken'
  <2>1. CASE f = "loop"
    <3>1. life \notin {"flushing", "sealed", "gone"}
      BY <1>1, <1>4, <2>1 DEF Up
    <3>2. QED
      BY <1>3, <3>1 DEF Taken
  <2>2. CASE f = "close"
    <3>1. life = "flushing" /\ last = Len(done) + Len(batch["close"])
      BY <1>1, <1>2, <2>2 DEF Ordered, Taken
    <3>2. last' = last - Len(batch["close"])
      BY <1>2, <2>2 DEF DropBatch
    <3>3. Len(done) \in Nat /\ Len(batch["close"]) \in Nat
      BY <1>2, <2>2, LenProperties DEF TypeOK
    <3>4. batch'["close"] = <<>> /\ Len(<<>>) = 0
      BY <1>3, EmptySeq
    <3>5. last' = Len(done') + Len(batch'["close"])
      BY <1>3, <3>1, <3>2, <3>3, <3>4
    <3>6. QED
      BY <1>3, <3>1, <3>5 DEF Taken
  <2>3. QED
    BY <2>1, <2>2
<1>8. QED
  BY <1>5, <1>6, <1>7

LEMMA OrderedLoop ==
  ASSUME Ordered, requestFlush \/ writeLoop
  PROVE  NothingSkipped' /\ Stages' /\ Taken'
<1>1. TypeOK /\ Up
  BY DEF Ordered, Sound, requestFlush, writeLoop, loopAsked, loopTicker, loopStop
<1>2. UNCHANGED <<calls, done, pending, batch, last, life>>
  BY DEF requestFlush, writeLoop, loopAsked, loopTicker, loopStop, hist, queue, flushing
<1>3. at'["close"] = at["close"]
  BY <1>1 DEF requestFlush, writeLoop, loopAsked, loopTicker, loopStop, Wake, flushing, TypeOK, Flushers
<1>4. \/ at'["loop"] = at["loop"]
      \/ at["loop"] = "idle" /\ at'["loop"] \in {"take", "stopped"}
  BY <1>1 DEF requestFlush, writeLoop, loopAsked, loopTicker, loopStop, Wake, flushing, TypeOK, Flushers
<1>5. NothingSkipped'
  BY <1>1, <1>2 DEF Ordered, NothingSkipped
<1>6. Stages'
  BY <1>1, <1>2, <1>3, <1>4 DEF Ordered, Stages, Up
<1>7. Taken'
  BY <1>2, <1>3 DEF Ordered, Taken
<1>8. QED
  BY <1>5, <1>6, <1>7

LEMMA OrderedClose ==
  ASSUME Ordered, signal \/ closeStop \/ closeFlush \/ closeSeal
  PROVE  NothingSkipped' /\ Stages' /\ Taken'
<1>1. TypeOK
  BY DEF Ordered, Sound
<1>2. UNCHANGED <<calls, done, pending, batch, last>>
  BY DEF signal, closeStop, closeFlush, closeSeal, Pass, hist, queue, flushing
<1>3. at'["loop"] = at["loop"]
  BY <1>1 DEF signal, closeStop, closeFlush, closeSeal, Wake, flushing, TypeOK, Flushers
<1>4. Up /\ Up'
  BY DEF signal, closeStop, closeFlush, closeSeal, Pass, Up
<1>5. NothingSkipped'
  BY <1>2, <1>4 DEF Ordered, NothingSkipped
<1>6. CASE signal \/ closeStop
  <2>1. at' = at /\ life \in {"up", "signalled"} /\ life' \in {"signalled", "waiting"}
    BY <1>6 DEF signal, closeStop, Pass, flushing
  <2>2. Stages'
    BY <2>1, <1>2, <1>4 DEF Ordered, Stages
  <2>3. Taken'
    BY <2>1 DEF Taken
  <2>4. QED
    BY <1>5, <2>2, <2>3
<1>7. CASE closeFlush
  <2>1. at["loop"] = "stopped" /\ at["close"] = "idle" /\ at'["close"] = "take" /\ life' = "flushing"
    BY <1>1, <1>7 DEF closeFlush, Pass, Wake, TypeOK, Flushers
  <2>2. Stages'
    BY <2>1, <1>2, <1>3, <1>4 DEF Ordered, Stages
  <2>3. Taken'
    BY <2>1 DEF Taken
  <2>4. QED
    BY <1>5, <2>2, <2>3
<1>8. CASE closeSeal
  <2>1. at' = at /\ at["close"] = "idle" /\ life = "flushing" /\ life' = "sealed"
    BY <1>8 DEF closeSeal, Pass, flushing
  <2>2. Stages'
    BY <2>1, <1>2, <1>4 DEF Ordered, Stages
  <2>3. Taken'
    BY <2>1, <1>2 DEF Ordered, Taken
  <2>4. QED
    BY <1>5, <2>2, <2>3
<1>9. QED
  BY <1>6, <1>7, <1>8

\* A process that ends: its calls are the committed ones if it was killed, and
\* those before Close's last batch are if it was closed.
LEMMA OrderedEnd ==
  ASSUME Ordered, exit \/ kill
  PROVE  NothingSkipped' /\ Stages' /\ Taken' /\ Prefix'
<1>1. TypeOK
  BY DEF Ordered, Sound
<1>2. ~Up' /\ Up
  BY DEF exit, kill, Up
<1>3. at'["loop"] = "idle" /\ at'["close"] = "idle" /\ batch'["loop"] = <<>>
      /\ batch'["close"] = <<>> /\ pending' = <<>>
  BY DEF exit, kill, Forget, Flushers
<1>4. NothingSkipped'
  BY <1>2 DEF NothingSkipped
<1>5. Stages'
  BY <1>2, <1>3 DEF Stages, Up
<1>6. done' = done
  BY DEF exit, kill, hist
<1>7. CASE exit
  <2>1. life = "sealed" /\ calls' = calls
    BY <1>7 DEF exit, hist
  <2>2. Prefix'
    BY <2>1, <1>6 DEF Ordered, Prefix
  <2>3. last' = Len(done')
    <3>1. batch["close"] = <<>>
      BY <2>1 DEF Ordered, Stages
    <3>2. last = Len(done) + Len(batch["close"]) /\ last' = last
      BY <1>7, <2>1 DEF Ordered, Taken, exit, hist
    <3>3. Len(done) \in Nat /\ Len(<<>>) = 0
      BY <1>1, LenProperties, EmptySeq DEF TypeOK
    <3>4. QED
      BY <1>6, <3>1, <3>2, <3>3
  <2>4. Taken'
    BY <2>3, <1>7 DEF Taken, exit
  <2>5. QED
    BY <1>4, <1>5, <2>2, <2>4
<1>8. CASE kill
  <2>1. life' = "killed" /\ calls' = done
    BY <1>8 DEF kill
  <2>2. done \in Seq(Op)
    BY <1>1 DEF TypeOK
  <2>3. Len(done) \in Nat /\ SubSeq(done, 1, Len(done)) = done
    BY <2>2, LenProperties, SubSeqFull
  <2>4. Prefix'
    BY <2>1, <2>3, <1>6 DEF Prefix
  <2>5. QED
    BY <1>4, <1>5, <2>1, <2>4 DEF Taken
<1>9. QED
  BY <1>7, <1>8

LEMMA OrderedStart ==
  ASSUME Ordered, start
  PROVE  NothingSkipped' /\ Stages' /\ Taken'
<1>1. TypeOK /\ ~Up
  BY DEF Ordered, Sound, start
<1>2. UNCHANGED <<done, pending, at, batch>> /\ calls' = done /\ life' = "up"
  BY DEF start, queue, flushing
<1>3. at["loop"] = "idle" /\ at["close"] = "idle" /\ pending = <<>>
  BY <1>1 DEF Ordered, Stages, Up
<1>4. batch["loop"] = <<>> /\ batch["close"] = <<>>
  BY <1>3 DEF Ordered, Stages
<1>5. NothingSkipped'
  <2>1. done \in Seq(Op)
    BY <1>1 DEF TypeOK
  <2>2. done \o <<>> \o <<>> \o <<>> = done
    BY <2>1, ConcatEmptySeq
  <2>3. QED
    BY <2>2, <1>2, <1>3, <1>4 DEF NothingSkipped
<1>6. Stages'
  BY <1>2, <1>3, <1>4 DEF Stages, Up
<1>7. Taken'
  BY <1>2 DEF Taken
<1>8. QED
  BY <1>5, <1>6, <1>7

LEMMA OrderedStep == Ordered /\ [Next]_vars => Ordered'
<1> SUFFICES ASSUME Ordered, [Next]_vars PROVE Ordered'
  OBVIOUS
<1>0. ASSUME NEW f \in Flushers, failTx(f) PROVE calls' \in Seq(Op)
  BY <1>0, FailedCalls
<1>1. Sound' /\ TypeOK'
  BY <1>0, SoundStep DEF Ordered, Sound
<1>2. Flushers = {"loop", "close"}
  BY DEF Flushers
<1> DEFINE Goal == NothingSkipped' /\ Stages' /\ Taken'
<1>3. SUFFICES Goal /\ (~Up' => Prefix')
  <2>1. ASSUME Up', NothingSkipped' PROVE Prefix'
    <3> DEFINE d == done'
               a == batch'["loop"]
               b == batch'["close"]
               p == pending'
    <3>1. d \in Seq(Op) /\ p \in Seq(Op) /\ a \in Seq(Op) /\ b \in Seq(Op)
      BY <1>1 DEF TypeOK, Flushers
    <3>2. calls' = d \o a \o b \o p
      BY <2>1 DEF NothingSkipped
    <3> HIDE DEF d, a, b, p
    <3>3. Len(d) <= Len(d \o a \o b \o p) /\ SubSeq(d \o a \o b \o p, 1, Len(d)) = d
      <4>1. Len(d) <= Len(d \o a \o b \o p)
        BY <3>1, PrefixFromOrder
      <4>2. SubSeq(d \o a \o b \o p, 1, Len(d)) = d
        BY <3>1, PrefixFromOrder, SMT
      <4>3. QED
        BY <4>1, <4>2
    <3>4. Len(d) <= Len(calls') /\ SubSeq(calls', 1, Len(d)) = d
      BY <3>2, <3>3
    <3>5. QED
      BY <3>4 DEF Prefix, d
  <2>2. QED
    BY <1>1, <2>1 DEF Ordered
<1>4. ASSUME life' = life, calls' = calls, done' = done, ~Up' PROVE Prefix'
  BY <1>4 DEF Ordered, Prefix
<1>5. CASE StoreJob \/ DeleteJob
  <2>1. PICK op \in Op : Tell(op)
    BY <1>5 DEF StoreJob, DeleteJob, Op
  <2>2. Goal
    BY <2>1, OrderedTell
  <2>3. Up'
    BY <2>1 DEF Tell, Up
  <2>4. QED
    BY <2>2, <2>3
<1>6. CASE \E f \in Flushers : flush(f)
  <2>1. PICK f \in {"loop", "close"} : flush(f)
    BY <1>2, <1>6
  <2>3. Goal
    BY <1>1, <2>1, OrderedTake, OrderedTx, OrderedCommit, OrderedFail DEF flush
  <2>4. Up'
    <3>1. at[f] \in {"take", "begin", "exec"} /\ life' = life
      BY <2>1 DEF flush, takeBatch, beginTx, execOp, commit, failTx
    <3>2. Up
      BY <3>1 DEF Ordered, Stages, Up
    <3>3. QED
      BY <3>1, <3>2 DEF Up
  <2>5. QED
    BY <2>3, <2>4
<1>7. CASE requestFlush \/ writeLoop
  <2>1. Goal
    BY <1>7, OrderedLoop
  <2>2. Up /\ life' = life
    BY <1>7 DEF requestFlush, writeLoop, loopAsked, loopTicker, loopStop
  <2>3. QED
    BY <2>1, <2>2 DEF Up
<1>8. CASE signal \/ closeStop \/ closeFlush \/ closeSeal
  <2>1. Goal
    BY <1>8, OrderedClose
  <2>2. Up'
    BY <1>8 DEF signal, closeStop, closeFlush, closeSeal, Pass, Up
  <2>3. QED
    BY <2>1, <2>2
<1>9. CASE exit \/ kill
  BY <1>9, OrderedEnd
<1>10. CASE start
  <2>1. Goal
    BY <1>10, OrderedStart
  <2>2. Up'
    BY <1>10 DEF start, Up
  <2>3. QED
    BY <2>1, <2>2
<1>11. CASE UNCHANGED vars
  <2>1. UNCHANGED <<calls, done, pending, at, batch, last, life>>
    BY <1>11 DEF vars, hist, queue, flushing
  <2>2. NothingSkipped' /\ Stages' /\ Taken' /\ Prefix'
    BY <2>1 DEF Ordered, NothingSkipped, Stages, Taken, Prefix, Up
  <2>3. QED
    BY <2>2
<1>12. QED
  BY <1>5, <1>6, <1>7, <1>8, <1>9, <1>10, <1>11 DEF Next, Close

\* The variables keep their types: one flusher at most holds the connection,
\* and it is inside its batch.
THEOREM StoreTypes == Spec => []TypeOK
<1>1. Ordered => TypeOK
  BY DEF Ordered, Sound
<1>2. QED
  BY <1>1, OrderedInit, OrderedStep, PTL DEF Spec

\* Whatever fails and whenever the process is killed, the table is what whole
\* committed batches leave, in the order of their commits.
THEOREM CommittedBatches == Spec => []WholeBatches
<1>1. Ordered => WholeBatches
  BY DEF Ordered, Sound
<1>2. QED
  BY <1>1, OrderedInit, OrderedStep, PTL DEF Spec

\* No call is skipped, doubled or overtaken on its way to the table, but for
\* the batches whose transaction failed.
THEOREM QueueOrder == Spec => []NothingSkipped
<1>1. Ordered => NothingSkipped
  BY DEF Ordered
<1>2. QED
  BY <1>1, OrderedInit, OrderedStep, PTL DEF Spec

\* An orderly shutdown loses nothing that was acknowledged before Close took its
\* last batch, failed transactions aside.
THEOREM ShutdownIsClean == Spec => []CleanShutdown
<1>1. Ordered => CleanShutdown
  <2>1. SUFFICES ASSUME Ordered, life = "gone" PROVE Leaves(SubSeq(calls, 1, last), table)
    BY DEF CleanShutdown
  <2>2. last = Len(done) /\ SubSeq(calls, 1, Len(done)) = done /\ Leaves(done, table)
    BY <2>1 DEF Ordered, Taken, Prefix, Sound, WholeBatches
  <2>3. QED
    BY <2>2
<1>2. QED
  BY <1>1, OrderedInit, OrderedStep, PTL DEF Spec

\* Every step of the adapter is a step of the log it promises to be, or none:
\* a call extends it, a commit makes a longer prefix durable, a failed batch
\* takes its calls out, the end of the process cuts the log back to the prefix.
LEMMA LogStep ==
  ASSUME Ordered, Ordered', [Next]_vars
  PROVE  [Log!Next]_(Log!vars)
<1> USE DEF Log!vars
<1>1. /\ calls \in Seq(Op) /\ done \in Seq(Op)
      /\ Len(done) \in Nat /\ Len(calls) \in Nat /\ Len(done) <= Len(calls)
      /\ SubSeq(calls, 1, Len(done)) = done /\ SubSeq(done, 1, Len(done)) = done
  BY LenProperties, SubSeqFull DEF Ordered, Sound, TypeOK, Prefix
<1>2. /\ calls' \in Seq(Op) /\ done' \in Seq(Op)
      /\ Len(done') \in Nat /\ Len(calls') \in Nat /\ Len(done') <= Len(calls')
  BY LenProperties DEF Ordered, Sound, TypeOK, Prefix
<1>3. CASE StoreJob \/ DeleteJob
  <2>1. PICK op \in Op : Tell(op)
    BY <1>3 DEF StoreJob, DeleteJob, Op
  <2>2. calls' = Append(calls, op) /\ done' = done /\ Up /\ Up'
    BY <2>1 DEF Tell, Up
  <2>3. QED
    BY <2>2 DEF Log!Next, Log!Tell
<1>4. CASE \E f \in Flushers : flush(f)
  <2>1. PICK f \in {"loop", "close"} : flush(f)
    BY <1>4 DEF Flushers
  <2>2. at[f] \in {"take", "begin", "exec"} /\ life' = life
    BY <2>1 DEF flush, takeBatch, beginTx, execOp, commit, failTx
  <2>3. Up /\ Up'
    BY <2>2 DEF Ordered, Stages, Up
  <2>4. batch[f] \in Seq(Op) /\ Len(batch[f]) \in Nat
    BY LenProperties DEF Ordered, Sound, TypeOK, Flushers
  <2>5. CASE takeBatch(f) \/ beginTx(f) \/ execOp(f)
    <3>1. calls' = calls /\ done' = done
      BY <2>5 DEF takeBatch, beginTx, execOp, hist
    <3>2. QED
      BY <3>1, <2>3
  <2>6. CASE commit(f)
    <3>1. done' = done \o batch[f] /\ calls' = calls
      BY <2>6 DEF commit
    <3>2. Len(done') = Len(done) + Len(batch[f])
      BY <3>1, <2>4, <1>1, ConcatProperties
    <3>3. CASE Len(batch[f]) = 0
      <4>1. Len(done') = Len(done)
        BY <3>2, <3>3, <1>1
      <4>2. QED
        BY <4>1, <3>1, <2>3
    <3>4. CASE Len(batch[f]) > 0
      <4>1. Len(done') \in 1 .. Len(calls) /\ Len(done') > Len(done)
        BY <3>1, <3>2, <3>4, <2>4, <1>1, <1>2
      <4>2. Log!Persist
        BY <4>1, <3>1, <2>3 DEF Log!Persist
      <4>3. QED
        BY <4>2 DEF Log!Next
    <3>5. QED
      BY <2>4, <3>3, <3>4
  <2>7. CASE failTx(f)
    <3>1. MayFail /\ done' = done /\ DropBatch(f)
      BY <2>7 DEF failTx
    <3>2. \A g \in {"loop", "close"} : g # f => batch[g] = <<>>
      BY <2>2, Alone
    <3>3. calls' = done \o pending /\ Len(done) + Len(batch[f]) <= Len(calls)
      BY <3>1, <3>2, <2>3, DropProps
    <3> DEFINE n == Len(done) + Len(batch[f])
    <3>4. calls' = SubSeq(calls, 1, Len(done)) \o SubSeq(calls, n + 1, Len(calls))
      BY <3>1 DEF DropBatch
    <3>5. CASE Len(batch[f]) = 0
      <4>1. batch[f] = <<>>
        BY <3>5, <2>4, EmptySeq
      <4>2. calls = (done \o <<>>) \o pending /\ done \o <<>> = done
        BY <4>1, <3>2, <2>3, <1>1, AloneOrder, ConcatEmptySeq
        DEF Ordered, Sound, NothingSkipped
      <4>3. QED
        BY <4>2, <3>1, <3>3, <2>3
    <3>6. CASE Len(batch[f]) > 0
      <4>1. n \in 1 .. Len(calls) /\ n > Len(done)
        BY <3>3, <3>6, <2>4, <1>1
      <4> HIDE DEF n
      <4>2. Log!Lose
        BY <4>1, <3>1, <3>4, <2>3 DEF Log!Lose
      <4>3. QED
        BY <4>2 DEF Log!Next
    <3>7. QED
      BY <2>4, <3>5, <3>6
  <2>8. QED
    BY <2>1, <2>5, <2>6, <2>7 DEF flush
<1>5. CASE kill \/ exit
  <2>1. done' = done /\ Up /\ ~Up'
    BY <1>5 DEF kill, exit, hist, Up
  <2>2. QED
    BY <2>1, <1>1 DEF Log!Next, Log!Crash
<1>6. CASE start
  <2>1. calls' = done /\ done' = done /\ ~Up /\ Up'
    BY <1>6 DEF start, Up
  <2>2. QED
    BY <2>1
<1>7. CASE requestFlush \/ writeLoop \/ signal \/ closeStop \/ closeFlush \/ closeSeal
  <2>1. calls' = calls /\ done' = done /\ Up /\ Up'
    BY <1>7 DEF requestFlush, writeLoop, loopAsked, loopTicker, loopStop, signal,
                closeStop, closeFlush, closeSeal, Pass, hist, Up
  <2>2. QED
    BY <2>1
<1>8. CASE UNCHANGED vars
  <2>1. calls' = calls /\ done' = done /\ (Up' <=> Up)
    BY <1>8 DEF vars, hist, Up
  <2>2. QED
    BY <2>1
<1>9. QED
  BY <1>3, <1>4, <1>5, <1>6, <1>7, <1>8 DEF Next, Close

\* The adapter implements the log of the persistence port, with failing writes,
\* late calls, shutdowns and crashes: nothing that is committed is ever lost,
\* and what is not committed only with its batch or with the process.
THEOREM ImplementsLog == Spec => Log!SafeSpec
<1>1. Init => Log!Init
  <2>1. SUFFICES ASSUME Init PROVE calls = <<>> /\ done = <<>> /\ Len(done) = 0
    BY DEF Log!Init
  <2>2. calls = <<>> /\ done = <<>>
    BY <2>1 DEF Init
  <2>3. Len(<<>>) = 0
    BY EmptySeq
  <2>4. QED
    BY <2>2, <2>3
<1>2. Ordered /\ Ordered' /\ [Next]_vars => [Log!Next]_(Log!vars)
  BY LogStep
<1>3. QED
  BY <1>1, <1>2, OrderedInit, OrderedStep, PTL DEF Spec, Log!SafeSpec
=============================================================================
