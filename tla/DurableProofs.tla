--------------------------- MODULE DurableProofs ----------------------------
(***************************************************************************)
(* The broker survives being killed: for any number of connections, tubes  *)
(* and jobs, whatever part of what the adapter was told had been committed.*)
(***************************************************************************)
EXTENDS Durable, BrokerProofs

LiveIn(jobs, j) == jobs[j].state # "invalid"
NoPutOf(conns, j) == \A c \in Conns : conns[c].inJob # j

\* What the table, the batch in flight and the index know of job j.  A row the
\* index no longer knows is a deletion on its way to the disk, never a job that
\* could still be filed under the same id.
Traced(j) ==
    /\ j \in kept => disk[j].stored /\ taken[j].stored /\ LiveIn(job, j)
    /\ j \in gone => /\ ~disk[j].stored /\ ~taken[j].stored /\ ~LiveIn(job, j)
                     /\ NoPutOf(conn, j)
    /\ disk[j].stored \/ taken[j].stored => j <= nextId /\ NoPutOf(conn, j)
    /\ disk[j].stored /\ ~taken[j].stored => ~LiveIn(job, j)

DurInv ==
    /\ Parts
    /\ disk \in [JobIds -> Saved] /\ taken \in [JobIds -> Saved]
    /\ kept \subseteq JobIds /\ gone \subseteq JobIds
    /\ \A j \in JobIds : Traced(j)

\* The parts of the broker's invariant that the steps below read.
LEMMA PartsFacts ==
    Parts => /\ saved \in [JobIds -> Saved] /\ nextId \in Nat
             /\ \A j \in JobIds : /\ saved[j].stored <=> LiveIn(job, j)
                                  /\ LiveIn(job, j) => j <= nextId /\ NoPutOf(conn, j)
<1> SUFFICES ASSUME Parts
             PROVE  /\ saved \in [JobIds -> Saved] /\ nextId \in Nat
                    /\ \A j \in JobIds : /\ saved[j].stored <=> LiveIn(job, j)
                                         /\ LiveIn(job, j) => j <= nextId /\ NoPutOf(conn, j)
  OBVIOUS
<1>1. saved \in [JobIds -> Saved] /\ nextId \in Nat /\ 0 \notin JobIds
  BY InputAssumption DEF Parts, TypeOK, JobIds
<1>2. \A j \in JobIds : saved[j].stored <=> LiveIn(job, j)
  BY DEF Parts, Good, StoreHolds, LiveIn
<1>3. \A j \in JobIds : LiveIn(job, j) => j <= nextId
  BY DEF Parts, Good, PutsHold, LiveIn
<1>4. \A j \in JobIds : LiveIn(job, j) => NoPutOf(conn, j)
  BY <1>1 DEF Parts, Good, PutsHold, PutHolds, LiveIn, NoPutOf
<1> QED BY <1>1, <1>2, <1>3, <1>4

LEMMA DurInitInv == DurInit => DurInv
<1> SUFFICES ASSUME DurInit PROVE DurInv
  OBVIOUS
<1>1. Parts
  BY InitParts DEF DurInit
<1>2. \A j \in JobIds : ~saved[j].stored
  BY DEF DurInit, Init, NoImage
<1>3. saved \in [JobIds -> Saved]
  BY <1>1, PartsFacts
<1> QED BY <1>1, <1>2, <1>3 DEF DurInit, DurInv, Traced

\* A step of the server, with or without a batch taken inside it.
LEMMA HandleStep ==
    ASSUME DurInv, Parts', Handle
    PROVE  DurInv'
<1>1. /\ Parts /\ disk \in [JobIds -> Saved] /\ taken \in [JobIds -> Saved]
      /\ kept \subseteq JobIds /\ gone \subseteq JobIds
      /\ Serve /\ disk' = disk
  BY DEF DurInv, Handle
<1>2. Admits
  BY <1>1, ServeAdmits
<1>3. /\ saved \in [JobIds -> Saved] /\ nextId \in Nat
      /\ \A j \in JobIds : /\ saved[j].stored <=> LiveIn(job, j)
                           /\ LiveIn(job, j) => j <= nextId /\ NoPutOf(conn, j)
  BY <1>1, PartsFacts
<1>4. /\ saved' \in [JobIds -> Saved] /\ nextId' \in Nat
      /\ \A j \in JobIds : /\ saved'[j].stored <=> LiveIn(job', j)
                           /\ LiveIn(job', j) => j <= nextId' /\ NoPutOf(conn', j)
  <2>1. (/\ saved \in [JobIds -> Saved] /\ nextId \in Nat
         /\ \A j \in JobIds : /\ saved[j].stored <=> LiveIn(job, j)
                              /\ LiveIn(job, j) => j <= nextId /\ NoPutOf(conn, j))'
    BY PartsFacts, PTL
  <2> QED BY <2>1
<1>5. \/ taken' = taken
      \/ /\ taken' \in [JobIds -> Saved]
         /\ \A j \in JobIds : taken'[j] = saved[j] \/ taken'[j] = saved'[j]
  BY <1>3, <1>4 DEF Handle
<1>6. taken' \in [JobIds -> Saved] /\ kept' \subseteq JobIds /\ gone' \subseteq JobIds
  BY <1>1, <1>5 DEF Handle
<1>7. ASSUME NEW j \in JobIds PROVE Traced(j)'
  <2>0. Traced(j)
    BY DEF DurInv
  <2>1. \/ taken'[j] = taken[j] \/ taken'[j] = saved[j] \/ taken'[j] = saved'[j]
    BY <1>5
  <2>2. ~LiveIn(job, j) /\ NoPutOf(conn, j) => ~LiveIn(job', j)
    BY <1>2 DEF Admits, LiveIn, NoPutOf
  <2>3. j <= nextId /\ NoPutOf(conn, j) => j <= nextId' /\ NoPutOf(conn', j)
    <3>1. j \in Nat /\ j # 0
      BY InputAssumption DEF JobIds
    <3> QED BY <3>1, <1>2, <1>3 DEF Admits, NoPutOf
  <2>4. j \in kept' => j \in kept /\ (LiveIn(job, j) => LiveIn(job', j))
    BY DEF Handle, Live, LiveIn
  <2>5. j \in gone' => j \in gone /\ (nextId' = nextId \/ j # nextId')
    BY DEF Handle
  <2>6. j \in gone' => NoPutOf(conn', j)
    <3>1. j # 0
      BY InputAssumption DEF JobIds
    <3> QED BY <3>1, <2>0, <2>5, <1>2 DEF Admits, NoPutOf, Traced
  <2>7. j \in kept' => disk'[j].stored /\ taken'[j].stored /\ LiveIn(job', j)
    BY <2>0, <2>1, <2>4, <1>1, <1>3, <1>4 DEF Traced
  <2>8. j \in gone' => ~disk'[j].stored /\ ~taken'[j].stored /\ ~LiveIn(job', j)
    BY <2>0, <2>1, <2>2, <2>5, <1>1, <1>3, <1>4 DEF Traced
  <2>9. disk'[j].stored \/ taken'[j].stored => j <= nextId' /\ NoPutOf(conn', j)
    BY <2>0, <2>1, <2>3, <1>1, <1>3, <1>4 DEF Traced
  <2>10. disk'[j].stored /\ ~taken'[j].stored => ~LiveIn(job', j)
    BY <2>0, <2>1, <2>2, <1>1, <1>3, <1>4 DEF Traced
  <2> QED BY <2>6, <2>7, <2>8, <2>9, <2>10 DEF Traced
<1>8. disk' \in [JobIds -> Saved]
  BY <1>1
<1> QED BY <1>6, <1>7, <1>8 DEF DurInv

\* Batches taken and committed while no handler runs.
LEMMA FlushStep ==
    ASSUME DurInv, Parts', TakeBatch \/ Commit
    PROVE  DurInv'
<1>1. /\ Parts /\ disk \in [JobIds -> Saved] /\ taken \in [JobIds -> Saved]
      /\ kept \subseteq JobIds /\ gone \subseteq JobIds
      /\ job' = job /\ conn' = conn /\ nextId' = nextId
  BY DEF DurInv, TakeBatch, Commit, vars
<1>2. /\ saved \in [JobIds -> Saved]
      /\ \A j \in JobIds : /\ saved[j].stored <=> LiveIn(job, j)
                           /\ LiveIn(job, j) => j <= nextId /\ NoPutOf(conn, j)
  BY <1>1, PartsFacts
<1>3. \A j \in JobIds : Traced(j)
  BY DEF DurInv
<1>4. CASE TakeBatch
  <2>1. taken' = saved /\ disk' = disk /\ kept' = kept /\ gone' = gone
    BY <1>4 DEF TakeBatch
  <2>2. \A j \in JobIds : Traced(j)'
    BY <2>1, <1>1, <1>2, <1>3 DEF Traced
  <2> QED BY <2>1, <2>2, <1>1, <1>2 DEF DurInv
<1>5. CASE Commit
  <2>1. /\ disk' = taken /\ taken' = taken
        /\ kept' = kept \cup (LoadAllJobs(taken) \cap Live)
        /\ gone' = gone \cup (LoadAllJobs(disk) \ LoadAllJobs(taken))
    BY <1>5 DEF Commit, Settle, Committed
  <2>2. ASSUME NEW j \in JobIds PROVE Traced(j)'
    <3>1. j \in kept' => j \in kept \/ (taken[j].stored /\ LiveIn(job, j))
      BY <2>1 DEF LoadAllJobs, Live, LiveIn
    <3>2. j \in gone' => j \in gone \/ (disk[j].stored /\ ~taken[j].stored)
      BY <2>1 DEF LoadAllJobs
    <3> QED BY <3>1, <3>2, <2>1, <1>1, <1>3 DEF Traced
  <2>3. kept' \subseteq JobIds /\ gone' \subseteq JobIds
    BY <2>1, <1>1 DEF LoadAllJobs
  <2> QED BY <2>1, <2>2, <2>3, <1>1 DEF DurInv
<1> QED BY <1>4, <1>5

\* A process that is killed or stopped, and the next one.
LEMMA RestartDurable ==
    ASSUME DurInv, Crash \/ Shutdown
    PROVE  DurInv'
<1>1. /\ Parts /\ disk \in [JobIds -> Saved] /\ taken \in [JobIds -> Saved]
      /\ kept \subseteq JobIds /\ gone \subseteq JobIds
      /\ \A j \in JobIds : Traced(j)
  BY DEF DurInv
<1>2. /\ saved \in [JobIds -> Saved]
      /\ \A j \in JobIds : saved[j].stored <=> LiveIn(job, j)
  BY <1>1, PartsFacts
<1>3. PICK img \in [JobIds -> Saved] :
         /\ Recover(img)
         /\ disk' = img /\ taken' = img
         /\ \A j \in JobIds : j \in kept' => img[j].stored
         /\ \A j \in JobIds : j \in gone' => ~img[j].stored
         /\ kept' \subseteq JobIds /\ gone' \subseteq JobIds
  <2>1. CASE Crash
    <3>1. Recover(disk) /\ taken' = disk /\ disk' = disk /\ kept' = kept /\ gone' = gone
      BY <2>1 DEF Crash
    <3>2. PICK img \in [JobIds -> Saved] : img = disk
      BY <1>1
    <3>3. Recover(img)
      BY <3>1, <3>2
    <3>4. /\ \A j \in JobIds : j \in kept => img[j].stored
          /\ \A j \in JobIds : j \in gone => ~img[j].stored
      BY <3>2, <1>1 DEF Traced
    <3> QED BY <3>1, <3>2, <3>3, <3>4, <1>1
  <2>2. CASE Shutdown
    <3>1. /\ Recover(saved) /\ taken' = saved /\ disk' = saved
          /\ kept' = kept \cup (LoadAllJobs(saved) \cap Live)
          /\ gone' = gone \cup (LoadAllJobs(disk) \ LoadAllJobs(saved))
      BY <2>2 DEF Shutdown, Restart, Settle, Committed
    <3>2. PICK img \in [JobIds -> Saved] : img = saved
      BY <1>2
    <3>3. Recover(img)
      BY <3>1, <3>2
    <3>4. \A j \in JobIds : j \in kept' => img[j].stored
      BY <3>1, <3>2, <1>1, <1>2 DEF Traced, LoadAllJobs
    <3>5. \A j \in JobIds : j \in gone' => ~img[j].stored
      BY <3>1, <3>2, <1>1, <1>2 DEF Traced, LoadAllJobs
    <3>6. kept' \subseteq JobIds /\ gone' \subseteq JobIds
      BY <3>1, <1>1 DEF LoadAllJobs
    <3> QED BY <3>1, <3>2, <3>3, <3>4, <3>5, <3>6
  <2> QED BY <2>1, <2>2
<1>4. Parts'
  BY <1>3, RecoverStep
<1>5. \A j \in JobIds : /\ saved'[j].stored <=> LiveIn(job', j)
                        /\ LiveIn(job', j) => j <= nextId' /\ NoPutOf(conn', j)
  <2>1. (/\ saved \in [JobIds -> Saved] /\ nextId \in Nat
         /\ \A j \in JobIds : /\ saved[j].stored <=> LiveIn(job, j)
                              /\ LiveIn(job, j) => j <= nextId /\ NoPutOf(conn, j))'
    BY <1>4, PartsFacts, PTL
  <2> QED BY <2>1
<1>6. saved' = img /\ \A j \in JobIds : NoPutOf(conn', j)
  <2>1. saved' = img /\ conn' = [c \in Conns |-> NoClient]
    BY <1>3 DEF Recover
  <2>2. 0 \notin JobIds
    BY InputAssumption DEF JobIds
  <2> QED BY <2>1, <2>2 DEF NoPutOf, NoClient
<1>7. \A j \in JobIds : Traced(j)'
  BY <1>3, <1>5, <1>6 DEF Traced
<1> QED BY <1>3, <1>4, <1>7 DEF DurInv

LEMMA DurStep == DurInv /\ [DurNext]_durVars => DurInv'
<1> SUFFICES ASSUME DurInv, [DurNext]_durVars PROVE DurInv'
  OBVIOUS
<1>0. Parts
  BY DEF DurInv
<1>1. CASE Handle
  <2>1. Parts'
    BY <1>0, <1>1, NextParts DEF Handle, Next
  <2> QED BY <2>1, <1>1, HandleStep
<1>2. CASE TakeBatch \/ Commit
  <2>1. Parts'
    BY <1>0, <1>2, NextParts DEF TakeBatch, Commit
  <2> QED BY <2>1, <1>2, FlushStep
<1>3. CASE Crash \/ Shutdown
  BY <1>3, RestartDurable
<1>4. CASE UNCHANGED durVars
  <2>1. UNCHANGED vars /\ UNCHANGED <<disk, taken, kept, gone>>
    BY <1>4 DEF durVars, store
  <2>2. Parts'
    BY <1>0, <2>1, NextParts
  <2>3. \A j \in JobIds : Traced(j)'
    BY <2>1 DEF DurInv, Traced, vars, LiveIn, NoPutOf
  <2> QED BY <2>1, <2>2, <2>3 DEF DurInv
<1> QED BY <1>1, <1>2, <1>3, <1>4 DEF DurNext

LEMMA DurAlways == DurSpec => []DurInv
BY DurInitInv, DurStep, PTL DEF DurSpec

\* A broker that starts from any committed table, after a kill at any point of
\* a handler or a flush, is as consistent as one that was never stopped.
THEOREM CrashConsistent == DurSpec => []IInv
<1>1. DurInv => IInv
  BY IInvParts DEF DurInv, Parts
<1> QED BY <1>1, DurAlways, PTL

\* No committed job is lost to a crash.
THEOREM CommittedSurvives == DurSpec => []CommittedKept
<1>1. DurInv => CommittedKept
  BY DEF DurInv, Traced, CommittedKept, Live, LiveIn
<1> QED BY <1>1, DurAlways, PTL

\* No committed deletion is undone by a crash.
THEOREM DeletedStaysDeleted == DurSpec => []GoneStaysGone
<1>1. DurInv => GoneStaysGone
  BY DEF DurInv, Traced, GoneStaysGone, Live, LiveIn
<1> QED BY <1>1, DurAlways, PTL
=============================================================================
