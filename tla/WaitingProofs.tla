--------------------------- MODULE WaitingProofs ---------------------------
(***************************************************************************)
(* The invariants of Waiting, for any number of connections, jobs, tubes   *)
(* and instants, and what can lose a wake-up.                              *)
(***************************************************************************)
EXTENDS Waiting, SumLemmas

\* The inductive invariant: the waiting lists hold who is blocked, and what a
\* connection remembers of its jobs, the cached soonest job and the timer, is
\* not overtaken by what tick and the others do to them.
WInv == TypeOK /\ WaitersHold /\ SoonestFresh /\ TimerCovers

Fresh(c) ==
    conn[c].soonest # NoJob =>
        /\ conn[c].soonest \in Holding(c)
        /\ \A j \in Holding(c) : job[conn[c].soonest].deadline <= job[j].deadline

Covered(c) ==
    conn[c].phase = "parked" =>
        /\ conn[c].timer <= conn[c].timeoutAt
        /\ \A j \in Holding(c) : conn[c].timer <= job[j].deadline - Margin

\* A step gives d no job and moves no deadline of the jobs d keeps.
Shrinks(d) ==
    \A j \in Jobs : j \in Holding(d)' =>
        j \in Holding(d) /\ job'[j].deadline = job[j].deadline

Kept(d) == Shrinks(d) /\ Holding(d) \subseteq Holding(d)'

\* What a step that leaves the waiting lists alone does to connection d.
Follows(d) ==
    /\ Blocked(d)' <=> Blocked(d)
    /\ \/ conn'[d].soonest = NoJob
       \/ conn'[d].soonest \in {conn[d].soonest, getSoonestJob(d)} /\ Kept(d)
    /\ conn'[d].phase = "parked" =>
          /\ conn[d].phase = "parked" /\ conn'[d].timer = conn[d].timer
          /\ conn'[d].timeoutAt = conn[d].timeoutAt /\ Shrinks(d)

-----------------------------------------------------------------------------
(* Operators. *)

\* getSoonestJob answers a held job with the least deadline, or that there is
\* none.
LEMMA SoonestProps ==
    ASSUME WInv, NEW c \in Conns
    PROVE  /\ getSoonestJob(c) \in Jobs \cup {NoJob}
           /\ getSoonestJob(c) # NoJob =>
                 /\ getSoonestJob(c) \in Holding(c)
                 /\ \A j \in Holding(c) : job[getSoonestJob(c)].deadline <= job[j].deadline
           /\ getSoonestJob(c) = NoJob => Holding(c) = {}
<1>1. conn[c].soonest \in Jobs \cup {NoJob}
  BY DEF WInv, TypeOK, Conn
<1>2. CASE conn[c].soonest # NoJob \/ Holding(c) = {}
  BY <1>1, <1>2 DEF getSoonestJob, WInv, SoonestFresh
<1>3. CASE conn[c].soonest = NoJob /\ Holding(c) # {}
  <2> DEFINE T == {job[j].deadline : j \in Holding(c)}
  <2>1. T \subseteq Nat /\ T # {}
    <3>1. \A j \in Holding(c) : job[j].deadline \in Nat
      BY DEF WInv, TypeOK, Job, Holding
    <3> QED BY <1>3, <3>1
  <2>2. PICK x \in T : \A y \in T : x <= y
    <3> HIDE DEF T
    <3> QED BY <2>1, LeastNumber
  <2>3. \E j \in Holding(c) : \A k \in Holding(c) : job[j].deadline <= job[k].deadline
    BY <2>2
  <2>4. /\ getSoonestJob(c) \in Holding(c)
        /\ \A k \in Holding(c) : job[getSoonestJob(c)].deadline <= job[k].deadline
    BY <1>3, <2>3 DEF getSoonestJob
  <2>5. Holding(c) \subseteq Jobs /\ NoJob \notin Jobs
    BY WaitingAssumption DEF Holding
  <2> QED BY <2>4, <2>5
<1> QED BY <1>2, <1>3

\* wakeWaitersForTube fills the wake channel of every waiter of t and does
\* nothing else.
LEMMA WakeProps ==
    ASSUME NEW conns \in [Conns -> Conn], NEW t
    PROVE  /\ wakeWaitersForTube(conns, t) \in [Conns -> Conn]
           /\ \A d \in Conns :
                 LET e == wakeWaitersForTube(conns, t)[d] IN
                 /\ e.phase = conns[d].phase /\ e.timer = conns[d].timer
                 /\ e.timeoutAt = conns[d].timeoutAt /\ e.soonest = conns[d].soonest
                 /\ e.token = (d \in waiters[t] \/ conns[d].token)
BY DEF wakeWaitersForTube, Conn

\* What forgetting the cached deadline leaves alone.
LEMMA UncachedProps ==
    ASSUME TypeOK, NEW c
    PROVE  /\ Uncached(c) \in [Conns -> Conn]
           /\ \A d \in Conns :
                 /\ d # c => Uncached(c)[d] = conn[d]
                 /\ d = c => Uncached(c)[d] = [conn[d] EXCEPT !.soonest = NoJob]
BY DEF Uncached, TypeOK, Conn

\* What reopening a tube leaves alone.
LEMMA ReopenProps ==
    ASSUME TypeOK, NEW ts
    PROVE  /\ Reopen(ts) \in [Tubes -> Nat]
           /\ \A t \in Tubes : Reopen(ts)[t] = pause[t] \/ (Reopen(ts)[t] = 0 /\ Open(t))
BY DEF Reopen, TypeOK

-----------------------------------------------------------------------------
(* From the parts to the invariant. *)

\* The parts give the invariant.
LEMMA WInvParts ==
    ASSUME TypeOK, WaitersHold, \A c \in Conns : Fresh(c) /\ Covered(c)
    PROVE  WInv
BY DEF WInv, Fresh, Covered, SoonestFresh, TimerCovers

\* The lists stay right when nobody blocks or unblocks.
LEMMA ListsStay ==
    ASSUME WaitersHold, \A d \in Conns : Blocked(d)' <=> Blocked(d),
           UNCHANGED <<waiters, waitingCt>>
    PROVE  WaitersHold'
BY DEF WaitersHold

\* The cache stays right.
LEMMA FreshStays ==
    ASSUME WInv, TypeOK', NEW d \in Conns,
           \/ conn'[d].soonest = NoJob
           \/ conn'[d].soonest \in {conn[d].soonest, getSoonestJob(d)} /\ Kept(d)
    PROVE  Fresh(d)'
<1>1. SUFFICES ASSUME conn'[d].soonest # NoJob
      PROVE  /\ conn'[d].soonest \in Holding(d)'
             /\ \A j \in Holding(d)' : job'[conn'[d].soonest].deadline <= job'[j].deadline
  BY DEF Fresh
<1>2. /\ conn'[d].soonest \in Holding(d)
      /\ \A j \in Holding(d) : job[conn'[d].soonest].deadline <= job[j].deadline
  BY <1>1, SoonestProps DEF WInv, SoonestFresh
<1>3. Kept(d)
  BY <1>1
<1>4. Holding(d)' \subseteq Jobs
  BY DEF Holding
<1> QED BY <1>2, <1>3, <1>4 DEF Kept, Shrinks

\* The timer still covers the jobs.
LEMMA CoveredStays ==
    ASSUME WInv, NEW d \in Conns,
           conn'[d].phase = "parked" =>
             /\ conn[d].phase = "parked" /\ conn'[d].timer = conn[d].timer
             /\ conn'[d].timeoutAt = conn[d].timeoutAt /\ Shrinks(d)
    PROVE  Covered(d)'
<1>1. Holding(d)' \subseteq Jobs
  BY DEF Holding
<1> QED BY <1>1 DEF WInv, TimerCovers, Covered, Shrinks

\* The invariant after a step, from what the step did.
LEMMA WInvFollows ==
    ASSUME WInv, TypeOK', UNCHANGED <<waiters, waitingCt>>, \A d \in Conns : Follows(d)
    PROVE  WInv'
<1>1. WaitersHold'
  BY ListsStay DEF Follows, WInv
<1>2. \A d \in Conns : Fresh(d)' /\ Covered(d)'
  BY FreshStays, CoveredStays DEF Follows
<1> QED BY <1>1, <1>2, WInvParts DEF WInv, Fresh, Covered, SoonestFresh, TimerCovers

-----------------------------------------------------------------------------
(* The steps that leave the waiting lists alone. *)

\* A step of tick or of another client on a job that is not reserved touches
\* nothing a connection holds.
LEMMA UnheldKept ==
    ASSUME TypeOK, NEW j \in Jobs, NEW r \in Job, job' = [job EXCEPT ![j] = r],
           r.state # "reserved", NEW d \in Conns
    PROVE  /\ Shrinks(d)
           /\ j \notin Holding(d) => Kept(d)
<1>1. \A k \in Jobs : job'[k] = IF k = j THEN r ELSE job[k]
  BY DEF TypeOK
<1>2. Holding(d)' = Holding(d) \ {j}
  BY <1>1 DEF Holding
<1> QED BY <1>1, <1>2 DEF Shrinks, Kept, Holding

\* TurnsReady, from connections conns that differ from conn in what is cached.
LEMMA TurnsReadyFollows ==
    ASSUME WInv, NEW j \in Jobs, NEW t \in Tubes, NEW conns \in [Conns -> Conn],
           TurnsReady(j, t, conns), UNCHANGED <<now, pause, waiters, waitingCt>>,
           \A d \in Conns :
              /\ conns[d] = conn[d] \/ conns[d] = [conn[d] EXCEPT !.soonest = NoJob]
              /\ j \in Holding(d) => conns[d].soonest = NoJob
    PROVE  WInv'
<1> DEFINE r == [state |-> "ready", tube |-> t, reserver |-> NoConn, deadline |-> 0]
<1>1. r \in Job /\ r.state # "reserved" /\ job' = [job EXCEPT ![j] = r]
  BY DEF Job, JobStates, TurnsReady, Filed
<1> HIDE DEF r
<1>2. conn' \in [Conns -> Conn]
  BY WakeProps DEF TurnsReady
<1>3. TypeOK'
  BY <1>1, <1>2 DEF TypeOK, WInv
<1>4. ASSUME NEW d \in Conns PROVE Follows(d)
  <2>1. /\ conn'[d].phase = conns[d].phase /\ conn'[d].timer = conns[d].timer
        /\ conn'[d].timeoutAt = conns[d].timeoutAt /\ conn'[d].soonest = conns[d].soonest
    BY WakeProps DEF TurnsReady
  <2>2. conn[d] \in Conn
    BY DEF WInv, TypeOK
  <2>3. /\ conns[d].phase = conn[d].phase /\ conns[d].timer = conn[d].timer
        /\ conns[d].timeoutAt = conn[d].timeoutAt
        /\ conns[d].soonest \in {NoJob, conn[d].soonest}
    BY <2>2 DEF Conn
  <2>4. Shrinks(d) /\ (j \notin Holding(d) => Kept(d))
    BY <1>1, UnheldKept DEF WInv
  <2> QED BY <2>1, <2>3, <2>4 DEF Follows, Blocked
<1> QED BY <1>3, <1>4, WInvFollows

\* A job that does not turn ready and is not reserved.
LEMMA PutAwayFollows ==
    ASSUME WInv, NEW j \in Jobs, NEW r \in Job, job' = [job EXCEPT ![j] = r],
           r.state # "reserved", conn' \in [Conns -> Conn],
           UNCHANGED <<now, pause, waiters, waitingCt>>,
           \A d \in Conns :
              /\ conn'[d] = conn[d] \/ conn'[d] = [conn[d] EXCEPT !.soonest = NoJob]
              /\ j \in Holding(d) => conn'[d].soonest = NoJob
    PROVE  WInv'
<1>1. TypeOK'
  BY DEF TypeOK, WInv
<1>2. ASSUME NEW d \in Conns PROVE Follows(d)
  <2>1. conn[d] \in Conn
    BY DEF WInv, TypeOK
  <2>2. /\ conn'[d].phase = conn[d].phase /\ conn'[d].timer = conn[d].timer
        /\ conn'[d].timeoutAt = conn[d].timeoutAt
        /\ conn'[d].soonest \in {NoJob, conn[d].soonest}
    BY <2>1 DEF Conn
  <2>3. Shrinks(d) /\ (j \notin Holding(d) => Kept(d))
    BY UnheldKept DEF WInv
  <2> QED BY <2>2, <2>3 DEF Follows, Blocked
<1> QED BY <1>1, <1>2, WInvFollows

\* c gains job j, or has its deadline moved, and drops its cache.
LEMMA GainFollows ==
    ASSUME WInv, NEW c \in Conns, NEW j \in Jobs,
           job[j].state # "reserved" \/ job[j].reserver = c,
           job' = [job EXCEPT ![j].state = "reserved", ![j].reserver = c,
                              ![j].deadline = now + TTR[j]]
    PROVE  /\ job' \in [Jobs -> Job]
           /\ \A d \in Conns : d # c => Kept(d)
<1>1. now + TTR[j] \in Nat /\ "reserved" \in JobStates
  <2>1. now \in Nat
    BY WaitingAssumption DEF WInv, TypeOK
  <2>2. TTR[j] \in Nat
    BY WaitingAssumption
  <2> QED BY <2>1, <2>2 DEF JobStates
<1>2. job[j] \in Job /\ job \in [Jobs -> Job]
  BY DEF WInv, TypeOK
<1>3. job' \in [Jobs -> Job]
  BY <1>1, <1>2 DEF Job
<1>4. \A k \in Jobs : k # j => job'[k] = job[k]
  BY <1>2
<1>5. job'[j].state = "reserved" /\ job'[j].reserver = c
  BY <1>2 DEF Job
<1>6. ASSUME NEW d \in Conns, d # c PROVE Kept(d)
  BY <1>4, <1>5, <1>6 DEF Kept, Shrinks, Holding
<1> QED BY <1>3, <1>6

\* What forgetting the cached deadline of c means for everybody.
LEMMA UncachedAll ==
    ASSUME WInv, NEW c
    PROVE  /\ Uncached(c) \in [Conns -> Conn]
           /\ \A e \in Conns :
                 /\ Uncached(c)[e] = conn[e] \/ Uncached(c)[e] = [conn[e] EXCEPT !.soonest = NoJob]
                 /\ e = c => Uncached(c)[e].soonest = NoJob
<1>1. \A e \in Conns : conn[e] \in Conn
  BY DEF WInv, TypeOK
<1> QED BY <1>1, UncachedProps DEF WInv, Conn

\* A job that is filed anywhere but in somebody's hands.
LEMMA FiledFollows ==
    ASSUME WInv, NEW j \in Jobs, NEW s \in JobStates, s # "reserved", NEW t \in Tubes,
           NEW n \in Nat, job' = Filed(j, s, t, n), conn' \in [Conns -> Conn],
           UNCHANGED <<now, pause, waiters, waitingCt>>,
           \A d \in Conns :
              /\ conn'[d] = conn[d] \/ conn'[d] = [conn[d] EXCEPT !.soonest = NoJob]
              /\ j \in Holding(d) => conn'[d].soonest = NoJob
    PROVE  WInv'
<1> DEFINE r == [state |-> s, tube |-> t, reserver |-> NoConn, deadline |-> n]
<1>1. r \in Job /\ r.state # "reserved" /\ job' = [job EXCEPT ![j] = r]
  BY DEF Job, Filed
<1> HIDE DEF r
<1> QED BY <1>1, PutAwayFollows

\* A job that leaves the index.
LEMMA GoneProps == Gone \in Job /\ Gone.state = "none"
<1>1. (CHOOSE t \in Tubes : TRUE) \in Tubes
  BY WaitingAssumption
<1> QED BY <1>1 DEF Gone, Job, JobStates

\* A failed delivery that is dropped or buried elsewhere.
LEMMA DivertedFollows ==
    ASSUME WInv, NEW j \in Jobs, NEW conns \in [Conns -> Conn], Diverted(j, conns),
           UNCHANGED <<now, pause, waiters, waitingCt>>,
           \A d \in Conns :
              /\ conns[d] = conn[d] \/ conns[d] = [conn[d] EXCEPT !.soonest = NoJob]
              /\ j \in Holding(d) => conns[d].soonest = NoJob
    PROVE  WInv'
<1>1. conn' = conns
  BY DEF Diverted
<1>2. CASE job' = [job EXCEPT ![j] = Gone]
  BY <1>1, <1>2, GoneProps, PutAwayFollows
<1>3. ASSUME NEW t \in Tubes, job' = Filed(j, "buried", t, 0) PROVE WInv'
  <2>1. "buried" \in JobStates
    BY DEF JobStates
  <2> QED BY <1>1, <1>3, <2>1, FiledFollows
<1> QED BY <1>2, <1>3 DEF Diverted

\* enqueueJob, from a job in nobody's hands or in those of who forgets its cache.
LEMMA EnqueuedFollows ==
    ASSUME WInv, NEW j \in Jobs, NEW t \in Tubes, NEW d \in Delays,
           NEW conns \in [Conns -> Conn], Enqueued(j, t, d, conns),
           UNCHANGED <<now, pause, waiters, waitingCt>>,
           \A e \in Conns :
              /\ conns[e] = conn[e] \/ conns[e] = [conn[e] EXCEPT !.soonest = NoJob]
              /\ j \in Holding(e) => conns[e].soonest = NoJob
    PROVE  WInv'
<1>1. CASE TurnsReady(j, t, conns)
  BY <1>1, TurnsReadyFollows
<1>2. CASE job' = Filed(j, "delayed", t, now + d) /\ conn' = conns
  <2>1. "delayed" \in JobStates /\ now + d \in Nat
    BY WaitingAssumption DEF JobStates, WInv, TypeOK
  <2> QED BY <1>2, <2>1, FiledFollows
<1> QED BY <1>1, <1>2 DEF Enqueued

\* A put.
LEMMA FinishPutHolds ==
    ASSUME WInv, NEW j \in Jobs, NEW t \in Tubes, NEW d \in Delays, finishPut(j, t, d)
    PROVE  WInv'
<1>1. conn \in [Conns -> Conn] /\ \A e \in Conns : j \notin Holding(e)
  BY DEF WInv, TypeOK, finishPut, Holding
<1> QED BY <1>1, EnqueuedFollows DEF finishPut

\* A release.
LEMMA ReleaseHolds ==
    ASSUME WInv, NEW c \in Conns, NEW j \in Jobs, NEW d \in Delays, handleRelease(c, j, d)
    PROVE  WInv'
<1> DEFINE t == job[j].tube
<1>1. t \in Tubes /\ job[j].state = "reserved" /\ job[j].reserver = c
  BY DEF WInv, TypeOK, Job, handleRelease, Holding
<1>2. \A e \in Conns : j \in Holding(e) => e = c
  BY <1>1 DEF Holding
<1>3. /\ Uncached(c) \in [Conns -> Conn]
      /\ \A e \in Conns :
            /\ Uncached(c)[e] = conn[e] \/ Uncached(c)[e] = [conn[e] EXCEPT !.soonest = NoJob]
            /\ j \in Holding(e) => Uncached(c)[e].soonest = NoJob
  BY <1>2, UncachedAll
<1>4. CASE Enqueued(j, t, d, Uncached(c))
  <2> HIDE DEF t
  <2> QED BY <1>1, <1>3, <1>4, EnqueuedFollows DEF handleRelease
<1>5. CASE Diverted(j, Uncached(c))
  BY <1>3, <1>5, DivertedFollows DEF handleRelease
<1> QED BY <1>4, <1>5 DEF handleRelease

\* A delete or a bury.
LEMMA FinishHolds ==
    ASSUME WInv, NEW c \in Conns, NEW j \in Jobs, handleDelete(c, j) \/ handleBury(c, j)
    PROVE  WInv'
<1>1. job[j] \in Job /\ job[j].tube \in Tubes /\ conn \in [Conns -> Conn]
  BY DEF WInv, TypeOK, Job
<1>2. \A e \in Conns : j \in Holding(e) => e = c /\ j \in Holding(c)
  BY DEF handleDelete, handleBury, Holding
<1>3. /\ conn' \in [Conns -> Conn]
      /\ \A e \in Conns :
            /\ conn'[e] = conn[e] \/ conn'[e] = [conn[e] EXCEPT !.soonest = NoJob]
            /\ j \in Holding(e) => conn'[e].soonest = NoJob
  <2>1. CASE conn' = Uncached(c)
    BY <1>2, <2>1, UncachedAll
  <2>2. CASE conn' = conn /\ j \notin Holding(c)
    BY <1>1, <1>2, <2>2
  <2> QED BY <2>1, <2>2 DEF handleDelete, handleBury
<1>4. UNCHANGED <<now, pause, waiters, waitingCt>>
  BY DEF handleDelete, handleBury
<1>5. CASE job' = [job EXCEPT ![j] = Gone]
  BY <1>3, <1>4, <1>5, GoneProps, PutAwayFollows
<1>6. CASE job' = Filed(j, "buried", job[j].tube, 0)
  <2>1. "buried" \in JobStates
    BY DEF JobStates
  <2> QED BY <1>1, <1>3, <1>4, <1>6, <2>1, FiledFollows
<1> QED BY <1>5, <1>6 DEF handleDelete, handleBury

\* A job becomes ready.
LEMMA TurnsReadyHolds ==
    ASSUME WInv, NEW j \in Jobs, kick(j) \/ tickPromote(j)
    PROVE  WInv'
<1>1. job[j].tube \in Tubes /\ conn \in [Conns -> Conn] /\ \A e \in Conns : j \notin Holding(e)
  BY DEF WInv, TypeOK, Job, kick, tickPromote, Holding
<1> QED BY <1>1, TurnsReadyFollows DEF kick, tickPromote

\* A TTR runs out.
LEMMA ExpireHolds ==
    ASSUME WInv, NEW j \in Jobs, tickExpire(j)
    PROVE  WInv'
<1> DEFINE c == job[j].reserver
<1>1. job[j].tube \in Tubes /\ job[j].state = "reserved"
  BY DEF WInv, TypeOK, Job, tickExpire
<1>2. \A e \in Conns : j \in Holding(e) => e = c
  BY DEF Holding
<1> HIDE DEF c
<1>3. /\ Uncached(c) \in [Conns -> Conn]
      /\ \A e \in Conns :
            /\ Uncached(c)[e] = conn[e] \/ Uncached(c)[e] = [conn[e] EXCEPT !.soonest = NoJob]
            /\ j \in Holding(e) => Uncached(c)[e].soonest = NoJob
  BY <1>2, UncachedAll
<1>4. CASE TurnsReady(j, job[j].tube, Uncached(c))
  BY <1>1, <1>3, <1>4, TurnsReadyFollows DEF tickExpire
<1>5. CASE Diverted(j, Uncached(c))
  BY <1>3, <1>5, DivertedFollows DEF tickExpire
<1> QED BY <1>4, <1>5 DEF tickExpire, c

\* handleReserveJob and handleTouch.
LEMMA HoldMoreHolds ==
    ASSUME WInv, NEW c \in Conns, NEW j \in Jobs, handleReserveJob(c, j) \/ handleTouch(c, j)
    PROVE  WInv'
<1>1. job[j] \in Job
  BY DEF WInv, TypeOK
<1>2. job' = [job EXCEPT ![j].state = "reserved", ![j].reserver = c, ![j].deadline = now + TTR[j]]
  <2>1. CASE handleReserveJob(c, j)
    BY <2>1 DEF handleReserveJob
  <2>2. CASE handleTouch(c, j)
    <3>1. job[j].state = "reserved" /\ job[j].reserver = c /\ job \in [Jobs -> Job]
      BY <2>2 DEF handleTouch, Holding, WInv, TypeOK
    <3> QED BY <1>1, <2>2, <3>1 DEF handleTouch, Job
  <2> QED BY <2>1, <2>2
<1>3. job[j].state # "reserved" \/ job[j].reserver = c
  BY DEF handleReserveJob, handleTouch, Holding
<1>4. job' \in [Jobs -> Job] /\ \A d \in Conns : d # c => Kept(d)
  BY <1>2, <1>3, GainFollows
<1>5. conn' = Uncached(c) /\ UNCHANGED <<now, pause, waiters, waitingCt>> /\ Commanding(c)
  BY DEF handleReserveJob, handleTouch
<1>6. TypeOK'
  BY <1>4, <1>5, UncachedProps DEF WInv, TypeOK
<1>7. ASSUME NEW d \in Conns PROVE Follows(d)
  <2>1. CASE d = c
    <3>1. conn[d] \in Conn
      BY DEF WInv, TypeOK
    <3>2. conn'[d] = [conn[d] EXCEPT !.soonest = NoJob]
      BY <1>5, <2>1, UncachedProps DEF WInv
    <3>3. conn'[d].soonest = NoJob /\ conn'[d].phase = conn[d].phase
      BY <3>1, <3>2 DEF Conn
    <3> QED BY <1>5, <2>1, <3>3 DEF Follows, Blocked, Commanding
  <2>2. CASE d # c
    <3>1. conn'[d] = conn[d]
      BY <1>5, <2>2, UncachedProps DEF WInv
    <3> QED BY <1>4, <2>2, <3>1 DEF Follows, Blocked, Kept
  <2> QED BY <2>1, <2>2
<1> QED BY <1>5, <1>6, <1>7, WInvFollows

\* A step that moves no job and, of the connections, only wake channels.
LEMMA SignalHolds ==
    ASSUME WInv, UNCHANGED <<job, waiters, waitingCt>>,
           now' \in 0 .. MaxTime, pause' \in [Tubes -> Nat], conn' \in [Conns -> Conn],
           \A d \in Conns :
              /\ conn'[d].phase = conn[d].phase /\ conn'[d].timer = conn[d].timer
              /\ conn'[d].timeoutAt = conn[d].timeoutAt /\ conn'[d].soonest = conn[d].soonest
    PROVE  WInv'
<1>1. TypeOK'
  BY DEF WInv, TypeOK
<1>2. ASSUME NEW d \in Conns PROVE Follows(d)
  <2>1. Kept(d)
    BY DEF Kept, Shrinks, Holding
  <2> QED BY <2>1 DEF Follows, Blocked, Kept
<1> QED BY <1>1, <1>2, WInvFollows

\* Time passes.
LEMMA ClockHolds ==
    ASSUME WInv, \/ Advance \/ formatListTubesPaused
                 \/ \E t \in Tubes : tickUnpause(t)
                 \/ \E t \in Pausable, d \in Pauses : handlePauseTube(t, d)
    PROVE  WInv'
<1> TypeOK
  BY DEF WInv
<1>1. CASE Advance
  <2>1. now' \in 0 .. MaxTime
    BY <1>1, WaitingAssumption DEF Advance, TypeOK
  <2> QED BY <1>1, <2>1, SignalHolds DEF Advance, TypeOK
<1>2. CASE formatListTubesPaused
  <2>1. pause' \in [Tubes -> Nat]
    BY <1>2, ReopenProps DEF formatListTubesPaused
  <2> QED BY <1>2, <2>1, SignalHolds DEF formatListTubesPaused, TypeOK
<1>3. ASSUME NEW t \in Tubes, tickUnpause(t) PROVE WInv'
  <2>1. pause' \in [Tubes -> Nat] /\ conn \in [Conns -> Conn]
    BY <1>3 DEF tickUnpause, TypeOK
  <2>2. /\ conn' \in [Conns -> Conn]
        /\ \A d \in Conns :
              /\ conn'[d].phase = conn[d].phase /\ conn'[d].timer = conn[d].timer
              /\ conn'[d].timeoutAt = conn[d].timeoutAt /\ conn'[d].soonest = conn[d].soonest
    BY <1>3, <2>1, WakeProps DEF tickUnpause
  <2> QED BY <1>3, <2>1, <2>2, SignalHolds DEF tickUnpause, TypeOK
<1>4. ASSUME NEW t \in Pausable, NEW d \in Pauses, handlePauseTube(t, d) PROVE WInv'
  <2>1. pause' \in [Tubes -> Nat]
    BY <1>4, WaitingAssumption DEF handlePauseTube, TypeOK
  <2> QED BY <1>4, <2>1, SignalHolds DEF handlePauseTube, TypeOK
<1> QED BY <1>1, <1>2, <1>3, <1>4

\* A connection closes.
LEMMA CloseHolds ==
    ASSUME WInv, NEW c \in Conns, Close(c)
    PROVE  WInv'
<1>0. PICK ts \in SUBSET Tubes :
        LET back == {j \in Holding(c) : job[j].tube \notin ts} IN
        /\ job' = [j \in Jobs |->
                     IF j \in back THEN [job[j] EXCEPT !.state = "ready", !.reserver = NoConn,
                                                       !.deadline = 0]
                     ELSE IF j \in Holding(c) THEN Gone ELSE job[j]]
        /\ conn' = [d \in Conns |->
                      IF d = c THEN Idle
                      ELSE IF \E j \in back : d \in waiters[job[j].tube]
                      THEN [conn[d] EXCEPT !.token = TRUE]
                      ELSE conn[d]]
  BY DEF Close
<1>1. job' \in [Jobs -> Job]
  BY <1>0, GoneProps DEF WInv, TypeOK, Job, JobStates
<1>2. Idle \in Conn /\ Idle.phase = "command" /\ Idle.soonest = NoJob
  BY WaitingAssumption DEF Idle, Conn, Phases, Never
<1>3. conn' \in [Conns -> Conn]
  BY <1>0, <1>2 DEF WInv, TypeOK, Conn
<1>4. TypeOK'
  BY <1>1, <1>3 DEF WInv, TypeOK, Close
<1>5. ASSUME NEW d \in Conns PROVE Follows(d)
  <2>1. CASE d = c
    BY <1>0, <1>2, <2>1 DEF Close, Follows, Blocked, Commanding
  <2>2. CASE d # c
    <3>1. conn[d] \in Conn
      BY DEF WInv, TypeOK
    <3>2. /\ conn'[d].phase = conn[d].phase /\ conn'[d].timer = conn[d].timer
          /\ conn'[d].timeoutAt = conn[d].timeoutAt /\ conn'[d].soonest = conn[d].soonest
      BY <1>0, <2>2, <3>1 DEF Conn
    <3>3. \A j \in Jobs : IF j \in Holding(c) THEN job'[j].reserver = NoConn ELSE job'[j] = job[j]
      BY <1>0 DEF WInv, TypeOK, Job, Gone
    <3>4. Kept(d)
      BY <2>2, <3>3, WaitingAssumption DEF Kept, Shrinks, Holding
    <3> QED BY <3>2, <3>4 DEF Follows, Blocked, Kept
  <2> QED BY <2>1, <2>2
<1> QED BY <1>4, <1>5, WInvFollows DEF Close

\* A waiter is woken.
LEMMA WakeUpHolds ==
    ASSUME WInv, NEW c \in Conns, wakeUp(c)
    PROVE  WInv'
<1>1. conn' \in [Conns -> Conn]
  BY WaitingAssumption DEF WInv, TypeOK, wakeUp, Conn, Phases, Never
<1>2. TypeOK'
  BY <1>1 DEF WInv, TypeOK, wakeUp
<1>3. ASSUME NEW d \in Conns PROVE Follows(d)
  <2>1. conn[d] \in Conn /\ conn \in [Conns -> Conn]
    BY DEF WInv, TypeOK
  <2>2. Kept(d)
    BY DEF wakeUp, Kept, Shrinks, Holding
  <2>3. CASE d = c
    <3>1. conn'[d].soonest = conn[d].soonest /\ conn'[d].phase = "checking"
      BY <2>1, <2>3 DEF wakeUp, Conn
    <3> QED BY <2>2, <2>3, <3>1 DEF Follows, Blocked, wakeUp
  <2>4. CASE d # c
    <3>1. conn'[d] = conn[d]
      BY <2>1, <2>4 DEF wakeUp
    <3> QED BY <2>2, <3>1 DEF Follows, Blocked, Kept
  <2> QED BY <2>3, <2>4
<1> QED BY <1>2, <1>3, WInvFollows DEF wakeUp

-----------------------------------------------------------------------------
(* reserve. *)

\* c blocks and is put on the waiting lists.
LEMMA ListsJoin ==
    ASSUME WInv, NEW c \in Conns, ~Blocked(c), Blocked(c)',
           \A d \in Conns : d # c => (Blocked(d)' <=> Blocked(d)),
           waiters' = [t \in Tubes |-> IF t \in Watch[c] THEN waiters[t] \cup {c}
                                                         ELSE waiters[t]],
           waitingCt' = [t \in Tubes |-> waitingCt[t] + (IF t \in Watch[c] THEN 1 ELSE 0)]
    PROVE  /\ WaitersHold'
           /\ waiters' \in [Tubes -> SUBSET Conns] /\ waitingCt' \in [Tubes -> Nat]
<1>1. waiters' \in [Tubes -> SUBSET Conns] /\ waitingCt' \in [Tubes -> Nat]
  BY DEF WInv, TypeOK
<1>2. ASSUME NEW t \in Tubes
      PROVE  /\ waiters'[t] = {d \in Conns : Blocked(d)' /\ t \in Watch[d]}
             /\ waitingCt'[t] = Cardinality(waiters'[t])
  <2>1. /\ waiters[t] = {d \in Conns : Blocked(d) /\ t \in Watch[d]}
        /\ waitingCt[t] = Cardinality(waiters[t]) /\ waitingCt[t] \in Nat
    BY DEF WInv, TypeOK, WaitersHold
  <2>2. IsFiniteSet(waiters[t]) /\ c \notin waiters[t]
    BY <2>1, WaitingAssumption, FS_Subset
  <2>3. CASE t \in Watch[c]
    <3>1. waiters'[t] = waiters[t] \cup {c} /\ waitingCt'[t] = waitingCt[t] + 1
      BY <2>3
    <3>2. Cardinality(waiters[t] \cup {c}) = Cardinality(waiters[t]) + 1
      BY <2>2, FS_AddElement
    <3> QED BY <2>1, <2>3, <3>1, <3>2
  <2>4. CASE t \notin Watch[c]
    <3>1. waiters'[t] = waiters[t] /\ waitingCt'[t] = waitingCt[t]
      BY <2>1, <2>4
    <3>2. \A d \in Conns : Blocked(d)' /\ t \in Watch[d] <=> Blocked(d) /\ t \in Watch[d]
      BY <2>4
    <3> QED BY <2>1, <3>1, <3>2
  <2> QED BY <2>3, <2>4
<1> QED BY <1>1, <1>2 DEF WaitersHold

\* c unblocks and is taken off the waiting lists.
LEMMA ListsLeave ==
    ASSUME WInv, NEW c \in Conns, Blocked(c), ~Blocked(c)',
           \A d \in Conns : d # c => (Blocked(d)' <=> Blocked(d)),
           clearWaitingLocked(c)
    PROVE  /\ WaitersHold'
           /\ waiters' \in [Tubes -> SUBSET Conns] /\ waitingCt' \in [Tubes -> Nat]
<1>1. waiters' \in [Tubes -> SUBSET Conns]
  BY DEF WInv, TypeOK, clearWaitingLocked
<1>2. ASSUME NEW t \in Tubes
      PROVE  /\ waiters'[t] = {d \in Conns : Blocked(d)' /\ t \in Watch[d]}
             /\ waitingCt'[t] = Cardinality(waiters'[t]) /\ waitingCt'[t] \in Nat
  <2>1. /\ waiters[t] = {d \in Conns : Blocked(d) /\ t \in Watch[d]}
        /\ waitingCt[t] = Cardinality(waiters[t]) /\ waitingCt[t] \in Nat
    BY DEF WInv, TypeOK, WaitersHold
  <2>2. IsFiniteSet(waiters[t])
    BY <2>1, WaitingAssumption, FS_Subset
  <2>3. CASE t \in Watch[c]
    <3>1. waiters'[t] = waiters[t] \ {c} /\ waitingCt'[t] = waitingCt[t] - 1
      BY <2>3 DEF clearWaitingLocked
    <3>2. c \in waiters[t]
      BY <2>1, <2>3
    <3>3. Cardinality(waiters[t] \ {c}) = Cardinality(waiters[t]) - 1
      BY <2>2, <3>2, FS_RemoveElement
    <3>4. Cardinality(waiters[t] \ {c}) \in Nat
      BY <2>2, FS_Subset, FS_CardinalityType
    <3> QED BY <2>1, <2>3, <3>1, <3>3, <3>4
  <2>4. CASE t \notin Watch[c]
    <3>1. waiters'[t] = waiters[t] /\ waitingCt'[t] = waitingCt[t]
      BY <2>1, <2>4 DEF clearWaitingLocked
    <3>2. \A d \in Conns : Blocked(d)' /\ t \in Watch[d] <=> Blocked(d) /\ t \in Watch[d]
      BY <2>4
    <3> QED BY <2>1, <3>1, <3>2
  <2> QED BY <2>3, <2>4
<1>3. waitingCt' \in [Tubes -> Nat]
  BY <1>2 DEF clearWaitingLocked
<1> QED BY <1>1, <1>2, <1>3 DEF WaitersHold

\* Take gives c a job nobody held and drops its cache.
LEMMA TakeProps ==
    ASSUME WInv, NEW c \in Conns, NEW cl \in Conn, Take(c, cl)
    PROVE  /\ job' \in [Jobs -> Job] /\ pause' \in [Tubes -> Nat]
           /\ conn' \in [Conns -> Conn]
           /\ conn'[c].soonest = NoJob /\ conn'[c].phase = cl.phase
           /\ \A d \in Conns : d # c => conn'[d] = conn[d] /\ Kept(d)
<1>1. PICK t \in Offers(c) : \E j \in Ready(t) :
          job' = [job EXCEPT ![j].state = "reserved", ![j].reserver = c,
                             ![j].deadline = now + TTR[j]]
  BY DEF Take
<1>2. PICK j \in Ready(t) :
          job' = [job EXCEPT ![j].state = "reserved", ![j].reserver = c,
                             ![j].deadline = now + TTR[j]]
  BY <1>1
<1>3. j \in Jobs /\ job[j].state # "reserved"
  BY DEF Ready
<1>4. job' \in [Jobs -> Job] /\ \A d \in Conns : d # c => Kept(d)
  BY <1>2, <1>3, GainFollows
<1>5. pause' \in [Tubes -> Nat]
  BY ReopenProps DEF Take, WInv
<1>6. /\ conn \in [Conns -> Conn]
      /\ conn' = [conn EXCEPT ![c] = [cl EXCEPT !.soonest = NoJob]]
  BY DEF Take, WInv, TypeOK
<1>7. /\ [cl EXCEPT !.soonest = NoJob] \in Conn
      /\ [cl EXCEPT !.soonest = NoJob].soonest = NoJob
      /\ [cl EXCEPT !.soonest = NoJob].phase = cl.phase
  BY DEF Conn
<1>8. /\ conn' \in [Conns -> Conn]
      /\ conn'[c].soonest = NoJob /\ conn'[c].phase = cl.phase
      /\ \A d \in Conns : d # c => conn'[d] = conn[d]
  BY <1>6, <1>7
<1> QED BY <1>4, <1>5, <1>8

\* The record of a connection that was answered, or that looked and blocks.
LEMMA AnsweredProps ==
    ASSUME WInv, NEW c \in Conns
    PROVE  /\ Answered(c) \in Conn
           /\ Answered(c).soonest = getSoonestJob(c) /\ Answered(c).phase = conn[c].phase
           /\ Answered(c).timeoutAt = conn[c].timeoutAt
           /\ Answered(c).token = conn[c].token
           /\ Unblocked(c) \in Conn
           /\ Unblocked(c).soonest = getSoonestJob(c) /\ Unblocked(c).phase = "command"
<1>1. conn[c] \in Conn /\ getSoonestJob(c) \in Jobs \cup {NoJob}
  BY SoonestProps DEF WInv, TypeOK
<1>2. Never \in Nat /\ Never \in Int
  BY WaitingAssumption DEF Never
<1>3. /\ Answered(c) \in Conn
      /\ Answered(c).soonest = getSoonestJob(c) /\ Answered(c).phase = conn[c].phase
      /\ Answered(c).timeoutAt = conn[c].timeoutAt
      /\ Answered(c).token = conn[c].token
  <2> HIDE DEF getSoonestJob
  <2> QED BY <1>1 DEF Answered, Conn
<1>4. /\ Unblocked(c) \in Conn
      /\ Unblocked(c).soonest = Answered(c).soonest /\ Unblocked(c).phase = "command"
  <2> DEFINE a == Answered(c)
  <2>1. a \in Conn
    BY <1>3
  <2>2. Unblocked(c) = [a EXCEPT !.phase = "command", !.timeoutAt = Never, !.timer = Never]
    BY DEF Unblocked
  <2> HIDE DEF a
  <2>3. Unblocked(c) \in Conn /\ Unblocked(c).soonest = a.soonest /\ Unblocked(c).phase = "command"
    BY <1>2, <2>1, <2>2 DEF Conn, Phases
  <2> QED BY <2>3 DEF a
<1> QED BY <1>3, <1>4

\* No job moves: everything is kept.
LEMMA JobsKept ==
    ASSUME UNCHANGED job, NEW d \in Conns
    PROVE  Kept(d)
BY DEF Kept, Shrinks, Holding

\* One connection changes, the others keep record and jobs.
LEMMA OneConn ==
    ASSUME WInv, TypeOK', WaitersHold', NEW c \in Conns,
           \A d \in Conns : d # c => conn'[d] = conn[d] /\ Kept(d),
           Fresh(c)', Covered(c)'
    PROVE  WInv'
<1>1. ASSUME NEW d \in Conns, d # c PROVE Fresh(d)' /\ Covered(d)'
  <2>1. conn'[d] = conn[d] /\ Kept(d) /\ Shrinks(d)
    BY <1>1 DEF Kept
  <2> QED BY <2>1, FreshStays, CoveredStays
<1> QED BY <1>1, WInvParts DEF WInv, Fresh, Covered, SoonestFresh, TimerCovers

\* reserve-with-timeout 0.
LEMMA ReserveImmediateHolds ==
    ASSUME WInv, NEW c \in Conns, doReserveImmediate(c)
    PROVE  WInv'
<1>1. conn[c] \in Conn /\ conn[c].phase = "command"
  BY DEF WInv, TypeOK, doReserveImmediate, Commanding
<1>2. CASE Take(c, conn[c])
  <2>1. TypeOK'
    BY <1>1, <1>2, TakeProps DEF WInv, TypeOK, doReserveImmediate
  <2>2. ASSUME NEW d \in Conns PROVE Blocked(d)' <=> Blocked(d)
    BY <1>1, <1>2, TakeProps DEF Blocked
  <2>3. WaitersHold'
    BY <2>2, ListsStay DEF WInv, doReserveImmediate
  <2>4. Fresh(c)' /\ Covered(c)'
    BY <1>1, <1>2, TakeProps DEF Fresh, Covered
  <2> QED BY <1>1, <1>2, <2>1, <2>3, <2>4, TakeProps, OneConn
<1>3. CASE pause' = Reopen(Watch[c]) /\ UNCHANGED <<job, conn>>
  <2>1. pause' \in [Tubes -> Nat]
    BY <1>3, ReopenProps DEF WInv
  <2> QED BY <1>3, <2>1, SignalHolds DEF doReserveImmediate, WInv, TypeOK
<1> QED BY <1>2, <1>3 DEF doReserveImmediate

\* reserve.
LEMMA ReserveHolds ==
    ASSUME WInv, NEW c \in Conns, NEW timeout \in Nat, doReserve(c, timeout)
    PROVE  WInv'
<1>1. /\ conn[c] \in Conn /\ conn[c].phase = "command" /\ ~Blocked(c)
      /\ conn \in [Conns -> Conn]
  BY DEF WInv, TypeOK, doReserve, Commanding, Blocked
<1>2. CASE /\ conn' = [conn EXCEPT ![c] = Answered(c)]
           /\ UNCHANGED <<now, job, pause, waiters, waitingCt>>
  <2>1. conn' \in [Conns -> Conn]
    BY <1>1, <1>2, AnsweredProps
  <2>2. TypeOK'
    BY <1>2, <2>1 DEF WInv, TypeOK
  <2>3. ASSUME NEW d \in Conns PROVE Follows(d)
    <3>1. Kept(d)
      BY <1>2, JobsKept
    <3>2. d # c => conn'[d] = conn[d]
      BY <1>1, <1>2
    <3>3. d = c => conn'[d].phase = "command" /\ conn'[d].soonest = getSoonestJob(d)
      BY <1>1, <1>2, AnsweredProps
    <3> QED BY <1>1, <3>1, <3>2, <3>3 DEF Follows, Blocked, Kept
  <2> QED BY <1>2, <2>2, <2>3, WInvFollows
<1>3. CASE Take(c, conn[c]) /\ UNCHANGED <<now, waiters, waitingCt>>
  <2>1. TypeOK'
    BY <1>1, <1>3, TakeProps DEF WInv, TypeOK
  <2>2. ASSUME NEW d \in Conns PROVE Blocked(d)' <=> Blocked(d)
    BY <1>1, <1>3, TakeProps DEF Blocked
  <2>3. WaitersHold'
    BY <1>3, <2>2, ListsStay DEF WInv
  <2>4. Fresh(c)' /\ Covered(c)'
    BY <1>1, <1>3, TakeProps DEF Fresh, Covered
  <2> QED BY <1>1, <1>3, <2>1, <2>3, <2>4, TakeProps, OneConn
<1>4. CASE /\ conn' = [conn EXCEPT ![c] = [Answered(c) EXCEPT !.phase = "checking",
                                                              !.timeoutAt = timeout]]
           /\ pause' = Reopen(Watch[c])
           /\ waiters' = [t \in Tubes |-> IF t \in Watch[c] THEN waiters[t] \cup {c}
                                                            ELSE waiters[t]]
           /\ waitingCt' = [t \in Tubes |-> waitingCt[t] + (IF t \in Watch[c] THEN 1 ELSE 0)]
           /\ UNCHANGED <<now, job>>
  <2> DEFINE a == Answered(c)
             r == [a EXCEPT !.phase = "checking", !.timeoutAt = timeout]
  <2>1. a \in Conn /\ a.soonest = getSoonestJob(c)
    BY AnsweredProps
  <2>2. conn' = [conn EXCEPT ![c] = r]
    BY <1>4
  <2>3. r \in Conn /\ r.soonest = getSoonestJob(c) /\ r.phase = "checking"
    <3> HIDE DEF a
    <3> QED BY <2>1 DEF Conn, Phases
  <2> HIDE DEF r
  <2>4. /\ conn' \in [Conns -> Conn] /\ conn'[c] = r
        /\ \A d \in Conns : d # c => conn'[d] = conn[d]
    BY <1>1, <2>2, <2>3
  <2>5. Blocked(c)' /\ \A d \in Conns : d # c => (Blocked(d)' <=> Blocked(d))
    BY <2>3, <2>4 DEF Blocked
  <2>6. /\ WaitersHold'
        /\ waiters' \in [Tubes -> SUBSET Conns] /\ waitingCt' \in [Tubes -> Nat]
    BY <1>1, <1>4, <2>5, ListsJoin
  <2>7. pause' \in [Tubes -> Nat]
    BY <1>4, ReopenProps DEF WInv
  <2>8. TypeOK'
    BY <1>4, <2>4, <2>6, <2>7 DEF WInv, TypeOK
  <2>9. \A d \in Conns : Kept(d)
    BY <1>4, JobsKept
  <2>10. Fresh(c)' /\ Covered(c)'
    <3>1. Fresh(c)'
      BY <2>3, <2>4, <2>8, <2>9, FreshStays
    <3> QED BY <2>3, <2>4, <3>1 DEF Covered
  <2> QED BY <2>4, <2>6, <2>8, <2>9, <2>10, OneConn
<1> QED BY <1>2, <1>3, <1>4 DEF doReserve

\* The end of a blocked reserve: an answer or a job.
LEMMA LeaveHolds ==
    ASSUME WInv, NEW c \in Conns, Blocked(c), clearWaitingLocked(c), now' = now,
           job' \in [Jobs -> Job], pause' \in [Tubes -> Nat], conn' \in [Conns -> Conn],
           \A d \in Conns : d # c => conn'[d] = conn[d] /\ Kept(d),
           conn'[c].phase = "command",
           conn'[c].soonest = NoJob \/ (conn'[c].soonest = getSoonestJob(c) /\ Kept(c))
    PROVE  WInv'
<1>1. ~Blocked(c)' /\ \A d \in Conns : d # c => (Blocked(d)' <=> Blocked(d))
  BY DEF Blocked
<1>2. /\ WaitersHold'
      /\ waiters' \in [Tubes -> SUBSET Conns] /\ waitingCt' \in [Tubes -> Nat]
  BY <1>1, ListsLeave
<1>3. TypeOK'
  BY <1>2 DEF WInv, TypeOK
<1>4. Fresh(c)' /\ Covered(c)'
  <2>1. Fresh(c)'
    BY <1>3, FreshStays
  <2> QED BY <2>1 DEF Covered
<1> QED BY <1>2, <1>3, <1>4, OneConn

\* The timer of a connection that parks covers the timeout and its jobs.
LEMMA TimerProps ==
    ASSUME WInv, NEW c \in Conns
    PROVE  /\ NextTimer(c) \in Int
           /\ NextTimer(c) <= conn[c].timeoutAt
           /\ \A j \in Holding(c) : NextTimer(c) <= job[j].deadline - Margin
<1> DEFINE s == getSoonestJob(c)
           d == IF s = NoJob THEN Never ELSE job[s].deadline - Margin
<1>1. /\ s \in Jobs \cup {NoJob}
      /\ s # NoJob => \A j \in Holding(c) : job[s].deadline <= job[j].deadline
      /\ s = NoJob => Holding(c) = {}
  BY SoonestProps
<1>2. NextTimer(c) = IF conn[c].timeoutAt < d THEN conn[c].timeoutAt ELSE d
  BY DEF NextTimer
<1>3. conn[c].timeoutAt \in Nat /\ Never \in Nat /\ Margin \in Nat
  BY WaitingAssumption DEF WInv, TypeOK, Conn, Never
<1>4. \A j \in Jobs : job[j].deadline \in Nat
  BY DEF WInv, TypeOK, Job
<1>5. Holding(c) \subseteq Jobs
  BY DEF Holding
<1> HIDE DEF s
<1> QED BY <1>1, <1>2, <1>3, <1>4, <1>5

\* A woken waiter looks again.
LEMMA CheckWaitHolds ==
    ASSUME WInv, NEW c \in Conns, checkWait(c)
    PROVE  WInv'
<1>1. /\ conn[c] \in Conn /\ conn[c].phase = "checking" /\ Blocked(c)
      /\ conn \in [Conns -> Conn] /\ now' = now
  BY DEF WInv, TypeOK, checkWait, Blocked
<1>2. /\ Unblocked(c) \in Conn /\ Unblocked(c).soonest = getSoonestJob(c)
      /\ Unblocked(c).phase = "command"
  BY AnsweredProps
<1>3. CASE /\ clearWaitingLocked(c) /\ conn' = [conn EXCEPT ![c] = Unblocked(c)]
           /\ UNCHANGED job
           /\ UNCHANGED pause \/ \E t \in Offers(c) : pause' = Reopen({t})
  <2>1. /\ conn' \in [Conns -> Conn] /\ conn'[c] = Unblocked(c)
        /\ \A d \in Conns : d # c => conn'[d] = conn[d]
    BY <1>1, <1>2, <1>3
  <2>2. pause' \in [Tubes -> Nat] /\ job' \in [Jobs -> Job]
    BY <1>3, ReopenProps DEF WInv, TypeOK
  <2>3. \A d \in Conns : Kept(d)
    BY <1>3, JobsKept
  <2> QED BY <1>1, <1>2, <1>3, <2>1, <2>2, <2>3, LeaveHolds
<1>4. CASE Take(c, Unblocked(c)) /\ clearWaitingLocked(c)
  BY <1>1, <1>2, <1>4, TakeProps, LeaveHolds
<1>5. CASE /\ conn' = [conn EXCEPT ![c] = [Answered(c) EXCEPT !.phase = "parked",
                                                              !.timer = NextTimer(c)]]
           /\ pause' = Reopen(Watch[c])
           /\ UNCHANGED <<job, waiters, waitingCt>>
  <2> DEFINE a == Answered(c)
             n == NextTimer(c)
             r == [a EXCEPT !.phase = "parked", !.timer = n]
  <2>1. a \in Conn /\ a.soonest = getSoonestJob(c) /\ a.timeoutAt = conn[c].timeoutAt
    BY AnsweredProps
  <2>2. conn' = [conn EXCEPT ![c] = r]
    BY <1>5
  <2>3. /\ n \in Int /\ n <= conn[c].timeoutAt
        /\ \A j \in Holding(c) : n <= job[j].deadline - Margin
    BY TimerProps
  <2>4. /\ r \in Conn /\ r.soonest = getSoonestJob(c) /\ r.phase = "parked"
        /\ r.timer = n /\ r.timeoutAt = conn[c].timeoutAt
    <3> HIDE DEF a, n
    <3> QED BY <2>1, <2>3 DEF Conn, Phases
  <2> HIDE DEF r
  <2>5. /\ conn' \in [Conns -> Conn] /\ conn'[c] = r
        /\ \A d \in Conns : d # c => conn'[d] = conn[d]
    BY <1>1, <2>2, <2>4
  <2>6. WaitersHold'
    <3>1. \A d \in Conns : Blocked(d)' <=> Blocked(d)
      BY <1>1, <2>4, <2>5 DEF Blocked
    <3> QED BY <1>5, <3>1, ListsStay DEF WInv
  <2>7. pause' \in [Tubes -> Nat]
    BY <1>5, ReopenProps DEF WInv
  <2>8. TypeOK'
    BY <1>1, <1>5, <2>5, <2>7 DEF WInv, TypeOK
  <2>9. \A d \in Conns : Kept(d)
    BY <1>5, JobsKept
  <2>10. Fresh(c)'
    BY <2>4, <2>5, <2>8, <2>9, FreshStays
  <2>11. Covered(c)'
    <3> HIDE DEF n
    <3>1. Holding(c)' = Holding(c) /\ job' = job
      BY <1>5 DEF Holding
    <3> QED BY <2>3, <2>4, <2>5, <3>1 DEF Covered
  <2> QED BY <2>5, <2>6, <2>8, <2>9, <2>10, <2>11, OneConn
<1> QED BY <1>3, <1>4, <1>5 DEF checkWait

-----------------------------------------------------------------------------
(* The invariant. *)

\* The start.
LEMMA InitWInv == Init => WInv
<1>1. SUFFICES ASSUME Init PROVE WInv
  OBVIOUS
<1>2. Idle \in Conn /\ Idle.phase = "command" /\ Idle.soonest = NoJob
  BY WaitingAssumption DEF Idle, Conn, Phases, Never
<1>4. TypeOK
  BY <1>1, <1>2, GoneProps, WaitingAssumption DEF Init, TypeOK
<1>5. WaitersHold
  <2>1. \A c \in Conns : ~Blocked(c)
    BY <1>1, <1>2 DEF Init, Blocked
  <2>2. Cardinality({}) = 0
    BY FS_EmptySet
  <2> QED BY <1>1, <2>1, <2>2 DEF Init, WaitersHold
<1>6. \A c \in Conns : Fresh(c) /\ Covered(c)
  BY <1>1, <1>2 DEF Init, Fresh, Covered
<1> QED BY <1>4, <1>5, <1>6, WInvParts

\* Nothing happens.
LEMMA StutterHolds ==
    ASSUME WInv, UNCHANGED vars
    PROVE  WInv'
BY DEF vars, WInv, TypeOK, WaitersHold, SoonestFresh, TimerCovers, Holding, Blocked

\* The steps of a connection.
LEMMA ConnHolds ==
    ASSUME WInv, NEW c \in Conns, ConnNext(c)
    PROVE  WInv'
<1>1. CASE doReserve(c, Never)
  <2>1. Never \in Nat
    BY WaitingAssumption DEF Never
  <2> QED BY <1>1, <2>1, ReserveHolds
<1>2. ASSUME NEW d \in Timeouts, doReserve(c, now + d) PROVE WInv'
  <2>1. now + d \in Nat
    BY WaitingAssumption DEF WInv, TypeOK
  <2> QED BY <1>2, <2>1, ReserveHolds
<1>3. CASE doReserveImmediate(c) \/ checkWait(c) \/ wakeUp(c) \/ Close(c)
  BY <1>3, ReserveImmediateHolds, CheckWaitHolds, WakeUpHolds, CloseHolds
<1>4. ASSUME NEW j \in Jobs,
             \/ handleReserveJob(c, j) \/ handleDelete(c, j)
             \/ handleBury(c, j) \/ handleTouch(c, j)
             \/ \E d \in Delays : handleRelease(c, j, d)
      PROVE  WInv'
  <2>1. CASE handleDelete(c, j) \/ handleBury(c, j)
    BY <2>1, FinishHolds
  <2> QED BY <1>4, <2>1, HoldMoreHolds, ReleaseHolds
<1> QED BY <1>1, <1>2, <1>3, <1>4 DEF ConnNext

\* Every step keeps the invariant.
LEMMA NextWInv == WInv /\ [Next]_vars => WInv'
<1>1. SUFFICES ASSUME WInv, [Next]_vars PROVE WInv'
  OBVIOUS
<1>2. CASE \E c \in Conns : ConnNext(c)
  BY <1>1, <1>2, ConnHolds
<1>3. CASE tick
  BY <1>1, <1>3, TurnsReadyHolds, ExpireHolds, ClockHolds DEF tick
<1>4. CASE OtherNext
  BY <1>1, <1>4, FinishPutHolds, TurnsReadyHolds, ClockHolds DEF OtherNext
<1>5. CASE Advance
  BY <1>1, <1>5, ClockHolds
<1>6. CASE UNCHANGED vars
  BY <1>1, <1>6, StutterHolds
<1> QED BY <1>1, <1>2, <1>3, <1>4, <1>5, <1>6 DEF Next

\* In every reachable state, whatever the clients do and however reserve, tick
\* and the clock interleave, the inductive invariant holds.
THEOREM WaitingInvariant == Spec => []WInv
BY InitWInv, NextWInv, PTL DEF Spec

\* Waiting.TypeOK: WaitingCt never goes negative.
THEOREM WaitingTypes == Spec => []TypeOK
BY WaitingInvariant, PTL DEF WInv

\* Waiting.WaitersHold: doReserve and clearWaitingLocked keep the waiting lists
\* and WaitingCt of every tube equal to who is blocked on it.
THEOREM WaitersCorrect == Spec => []WaitersHold
BY WaitingInvariant, PTL DEF WInv

\* Waiting.SoonestFresh: the cached soonest job of a connection is never stale.
THEOREM SoonestCorrect == Spec => []SoonestFresh
BY WaitingInvariant, PTL DEF WInv

\* Waiting.TimerCovers: a parked reserve wakes no later than its timeout and
\* than the safety margin of any job the connection holds.
THEOREM TimersCorrect == Spec => []TimerCovers
BY WaitingInvariant, PTL DEF WInv

-----------------------------------------------------------------------------
(* Wake-ups. *)

\* A step that turns no job of t ready and puts nobody to sleep.
LEMMA NothingReady ==
    ASSUME NEW d \in Conns, NEW t, Ready(t)' \subseteq Ready(t), pause[t] = 0,
           conn'[d].phase = "parked" =>
              conn[d].phase = "parked" /\ (conn'[d].token \/ conn'[d].token = conn[d].token),
           Missed(d, t)'
    PROVE  Missed(d, t)
BY DEF Missed

\* A sleeping waiter is on the list of each tube it watches.
LEMMA SleepersAreListed ==
    ASSUME WInv, NEW d \in Conns, conn[d].phase = "parked", NEW t \in Watch[d]
    PROVE  t \in Tubes /\ d \in waiters[t]
BY WaitingAssumption DEF WInv, WaitersHold, Blocked

\* TurnsReady signals whoever sleeps on the tube.
LEMMA TurnsReadyWakes ==
    ASSUME WInv, NEW j \in Jobs, NEW u \in Tubes, NEW conns \in [Conns -> Conn],
           TurnsReady(j, u, conns), NEW d \in Conns, NEW t \in Watch[d], pause[t] = 0,
           conns[d].phase = conn[d].phase, conns[d].token = conn[d].token, Missed(d, t)'
    PROVE  Missed(d, t)
<1>1. /\ conn'[d].phase = conns[d].phase
      /\ conn'[d].token = (d \in waiters[u] \/ conns[d].token)
  BY WakeProps DEF TurnsReady
<1>2. conn[d].phase = "parked" /\ d \notin waiters[u] /\ ~conns[d].token
  BY <1>1 DEF Missed
<1>3. t # u
  BY <1>2, SleepersAreListed
<1>4. \A k \in Jobs : IF k = j THEN job'[k].tube = u ELSE job'[k] = job[k]
  BY DEF TurnsReady, Filed, WInv, TypeOK
<1>5. Ready(t)' \subseteq Ready(t)
  BY <1>3, <1>4 DEF Ready
<1> QED BY <1>2, <1>5 DEF Missed

\* A job that does not end ready adds to no tube's ready jobs.
LEMMA NoneReady ==
    ASSUME WInv, NEW j \in Jobs, \A k \in Jobs : k # j => job'[k] = job[k],
           job'[j].state # "ready", NEW t
    PROVE  Ready(t)' \subseteq Ready(t)
BY DEF Ready

\* A reservation.
LEMMA TakeWakes ==
    ASSUME WInv, NEW c \in Conns, NEW cl \in Conn, Take(c, cl), cl.phase = "command",
           NEW d \in Conns, NEW t, pause[t] = 0, Missed(d, t)'
    PROVE  Missed(d, t)
<1>1. PICK u \in Offers(c) : \E k \in Ready(u) :
          job' = [job EXCEPT ![k].state = "reserved", ![k].reserver = c,
                             ![k].deadline = now + TTR[k]]
  BY DEF Take
<1>2. PICK j \in Ready(u) :
          job' = [job EXCEPT ![j].state = "reserved", ![j].reserver = c,
                             ![j].deadline = now + TTR[j]]
  BY <1>1
<1>3. j \in Jobs /\ job \in [Jobs -> Job] /\ job[j] \in Job
  BY DEF Ready, WInv, TypeOK
<1>4. job'[j].state = "reserved" /\ \A k \in Jobs : k # j => job'[k] = job[k]
  BY <1>2, <1>3 DEF Job
<1>5. Ready(t)' \subseteq Ready(t)
  BY <1>3, <1>4, NoneReady
<1>6. conn'[c].phase = "command" /\ \A e \in Conns : e # c => conn'[e] = conn[e]
  BY TakeProps
<1> QED BY <1>5, <1>6, NothingReady

\* A step of c that sends its job j somewhere else than the ready jobs.
LEMMA AwayWakes ==
    ASSUME WInv, NEW j \in Jobs, \A k \in Jobs : k # j => job'[k] = job[k],
           job'[j].state # "ready", NEW d \in Conns, NEW t, pause[t] = 0,
           conn'[d].phase = conn[d].phase, conn'[d].token = conn[d].token, Missed(d, t)'
    PROVE  Missed(d, t)
BY NoneReady, NothingReady

\* A failed delivery that is dropped or buried elsewhere wakes nobody and need not.
LEMMA DivertedWakes ==
    ASSUME WInv, NEW j \in Jobs, NEW conns, Diverted(j, conns), NEW d \in Conns, NEW t,
           pause[t] = 0, conns[d].phase = conn[d].phase, conns[d].token = conn[d].token,
           Missed(d, t)'
    PROVE  Missed(d, t)
<1>1. job \in [Jobs -> Job] /\ conn' = conns
  BY DEF Diverted, WInv, TypeOK
<1>2. CASE job' = [job EXCEPT ![j] = Gone]
  BY <1>1, <1>2, GoneProps, AwayWakes
<1>3. ASSUME NEW u \in Tubes, job' = Filed(j, "buried", u, 0) PROVE Missed(d, t)
  <2>1. job'[j].state # "ready" /\ \A k \in Jobs : k # j => job'[k] = job[k]
    BY <1>1, <1>3 DEF Filed
  <2> QED BY <1>1, <2>1, AwayWakes
<1> QED BY <1>2, <1>3 DEF Diverted

\* enqueueJob signals, or leaves the job in the delay heap.
LEMMA EnqueuedWakes ==
    ASSUME WInv, NEW j \in Jobs, NEW u \in Tubes, NEW e \in Delays,
           NEW conns \in [Conns -> Conn], Enqueued(j, u, e, conns),
           NEW d \in Conns, NEW t \in Watch[d], pause[t] = 0,
           conns[d].phase = conn[d].phase, conns[d].token = conn[d].token, Missed(d, t)'
    PROVE  Missed(d, t)
<1>1. CASE TurnsReady(j, u, conns)
  BY <1>1, TurnsReadyWakes
<1>2. CASE job' = Filed(j, "delayed", u, now + e) /\ conn' = conns
  <2>1. job'[j].state # "ready" /\ \A k \in Jobs : k # j => job'[k] = job[k]
    BY <1>2 DEF Filed, WInv, TypeOK
  <2> QED BY <1>2, <2>1, AwayWakes
<1> QED BY <1>1, <1>2 DEF Enqueued

\* Forgetting the cached deadline wakes nobody.
LEMMA UncachedSleeps ==
    ASSUME WInv, NEW c, NEW d \in Conns
    PROVE  /\ Uncached(c) \in [Conns -> Conn]
           /\ Uncached(c)[d].phase = conn[d].phase /\ Uncached(c)[d].token = conn[d].token
<1>1. conn[d] \in Conn /\ TypeOK
  BY DEF WInv, TypeOK
<1>2. [conn[d] EXCEPT !.soonest = NoJob].phase = conn[d].phase
      /\ [conn[d] EXCEPT !.soonest = NoJob].token = conn[d].token
  BY <1>1 DEF Conn
<1> QED BY <1>1, <1>2, UncachedProps

\* reserve.
LEMMA ReserveWakes ==
    ASSUME WInv, NEW c \in Conns, NEW timeout \in Nat,
           doReserve(c, timeout) \/ doReserveImmediate(c),
           NEW d \in Conns, NEW t \in Watch[d], pause[t] = 0, Missed(d, t)'
    PROVE  Missed(d, t)
<1>1. conn[c] \in Conn /\ conn[c].phase = "command" /\ conn \in [Conns -> Conn]
  BY DEF WInv, TypeOK, doReserve, doReserveImmediate, Commanding
<1>2. CASE Take(c, conn[c])
  BY <1>1, <1>2, TakeWakes
<1>3. CASE job' = job /\ conn'[c].phase # "parked"
           /\ \A e \in Conns : e # c => conn'[e] = conn[e]
  <2>1. Ready(t)' \subseteq Ready(t)
    BY <1>3 DEF Ready
  <2> QED BY <1>3, <2>1, NothingReady
<1>4. CASE conn' = conn /\ job' = job
  BY <1>1, <1>3, <1>4
<1>5. CASE conn' = [conn EXCEPT ![c] = Answered(c)] /\ job' = job
  BY <1>1, <1>3, <1>5, AnsweredProps
<1>6. CASE /\ conn' = [conn EXCEPT ![c] = [Answered(c) EXCEPT !.phase = "checking",
                                                              !.timeoutAt = timeout]]
           /\ job' = job
  <2> DEFINE a == Answered(c)
             r == [a EXCEPT !.phase = "checking", !.timeoutAt = timeout]
  <2>1. a \in Conn /\ conn' = [conn EXCEPT ![c] = r]
    BY <1>6, AnsweredProps
  <2>2. r.phase = "checking"
    <3> HIDE DEF a
    <3> QED BY <2>1 DEF Conn
  <2> HIDE DEF r
  <2> QED BY <1>1, <1>3, <1>6, <2>1, <2>2
<1> QED BY <1>2, <1>4, <1>5, <1>6 DEF doReserve, doReserveImmediate

\* A connection parks only when it has looked at every open tube it watches.
LEMMA CheckWaitWakes ==
    ASSUME WInv, NEW c \in Conns, checkWait(c),
           NEW d \in Conns, NEW t \in Watch[d], pause[t] = 0, Missed(d, t)'
    PROVE  Missed(d, t)
<1>1. /\ conn \in [Conns -> Conn] /\ Unblocked(c) \in Conn /\ Unblocked(c).phase = "command"
  BY AnsweredProps DEF WInv, TypeOK
<1>2. CASE Take(c, Unblocked(c))
  BY <1>1, <1>2, TakeWakes
<1>3. CASE conn' = [conn EXCEPT ![c] = Unblocked(c)] /\ UNCHANGED job
  <2>1. Ready(t)' \subseteq Ready(t)
    BY <1>3 DEF Ready
  <2> QED BY <1>1, <1>3, <2>1, NothingReady
<1>4. CASE /\ Offers(c) = {} /\ UNCHANGED job
           /\ conn' = [conn EXCEPT ![c] = [Answered(c) EXCEPT !.phase = "parked",
                                                              !.timer = NextTimer(c)]]
  <2>1. Ready(t)' = Ready(t)
    BY <1>4 DEF Ready
  <2>2. d # c
    <3>1. Open(t)
      BY DEF Open, WInv, TypeOK
    <3> QED BY <1>4, <2>1, <3>1 DEF Offers, Missed
  <2>3. conn'[d] = conn[d]
    BY <1>1, <1>4, <2>2
  <2> QED BY <2>1, <2>3, NothingReady
<1> QED BY <1>2, <1>3, <1>4 DEF checkWait

\* A closing connection.
LEMMA CloseWakes ==
    ASSUME WInv, NEW c \in Conns, Close(c),
           NEW d \in Conns, NEW t \in Watch[d], pause[t] = 0, Missed(d, t)'
    PROVE  Missed(d, t)
<1>0. PICK ts \in SUBSET Tubes :
        LET back == {j \in Holding(c) : job[j].tube \notin ts} IN
        /\ job' = [j \in Jobs |->
                     IF j \in back THEN [job[j] EXCEPT !.state = "ready", !.reserver = NoConn,
                                                       !.deadline = 0]
                     ELSE IF j \in Holding(c) THEN Gone ELSE job[j]]
        /\ conn' = [e \in Conns |->
                      IF e = c THEN Idle
                      ELSE IF \E j \in back : e \in waiters[job[j].tube]
                      THEN [conn[e] EXCEPT !.token = TRUE]
                      ELSE conn[e]]
  BY DEF Close
<1> DEFINE back == {j \in Holding(c) : job[j].tube \notin ts}
<1>1. d # c
  <2>1. conn'[c] = Idle /\ Idle.phase = "command"
    BY <1>0 DEF Idle
  <2> QED BY <2>1 DEF Missed
<1>2. conn[d] \in Conn
  BY DEF WInv, TypeOK
<1>3. /\ conn'[d].phase = conn[d].phase
      /\ conn'[d].token = (conn[d].token \/ \E j \in back : d \in waiters[job[j].tube])
  BY <1>0, <1>1, <1>2 DEF Conn
<1>4. conn[d].phase = "parked" /\ ~conn[d].token /\ d \in waiters[t]
  BY <1>3, SleepersAreListed DEF Missed
<1>5. \A j \in back : job[j].tube # t
  BY <1>3, <1>4 DEF Missed
<1>6. \A j \in Jobs : \/ j \in back /\ job'[j].tube = job[j].tube
                     \/ job'[j] = Gone
                     \/ job'[j] = job[j]
  BY <1>0 DEF WInv, TypeOK, Job
<1>7. Ready(t)' \subseteq Ready(t)
  <2> HIDE DEF back
  <2> QED BY <1>5, <1>6, GoneProps DEF Ready
<1> QED BY <1>4, <1>7 DEF Missed

\* The steps of a connection, with the tube open before.
LEMMA ConnWakes ==
    ASSUME WInv, NEW c \in Conns, ConnNext(c),
           NEW d \in Conns, NEW t \in Watch[d], pause[t] = 0, Missed(d, t)'
    PROVE  Missed(d, t)
<1>1. CASE \/ doReserve(c, Never) \/ \E e \in Timeouts : doReserve(c, now + e)
           \/ doReserveImmediate(c)
  <2>1. Never \in Nat /\ \A e \in Timeouts : now + e \in Nat
    BY WaitingAssumption DEF Never, WInv, TypeOK
  <2> QED BY <1>1, <2>1, ReserveWakes
<1>2. CASE checkWait(c) \/ Close(c)
  BY <1>2, CheckWaitWakes, CloseWakes
<1>3. CASE wakeUp(c)
  <2>1. Ready(t)' \subseteq Ready(t)
    BY <1>3 DEF wakeUp, Ready
  <2>2. conn \in [Conns -> Conn] /\ conn[c] \in Conn
    BY DEF WInv, TypeOK
  <2>3. conn'[c].phase = "checking" /\ \A e \in Conns : e # c => conn'[e] = conn[e]
    BY <1>3, <2>2 DEF wakeUp, Conn
  <2> QED BY <2>1, <2>3, NothingReady
<1>4. ASSUME NEW j \in Jobs,
             \/ handleReserveJob(c, j) \/ handleDelete(c, j)
             \/ handleBury(c, j) \/ handleTouch(c, j)
      PROVE  Missed(d, t)
  <2>1. (conn' = Uncached(c) \/ conn' = conn) /\ job \in [Jobs -> Job] /\ job[j] \in Job
    BY <1>4 DEF handleReserveJob, handleDelete, handleBury, handleTouch, WInv, TypeOK
  <2>2. job'[j].state # "ready" /\ \A k \in Jobs : k # j => job'[k] = job[k]
    <3>1. CASE handleReserveJob(c, j)
      BY <2>1, <3>1 DEF handleReserveJob, Job
    <3>2. CASE handleDelete(c, j)
      BY <2>1, <3>2, GoneProps DEF handleDelete
    <3>3. CASE handleBury(c, j)
      BY <2>1, <3>3, GoneProps DEF handleBury, Filed
    <3>4. CASE handleTouch(c, j)
      BY <2>1, <3>4 DEF handleTouch, Holding, Job
    <3> QED BY <1>4, <3>1, <3>2, <3>3, <3>4
  <2>3. conn'[d].phase = conn[d].phase /\ conn'[d].token = conn[d].token
    BY <2>1, UncachedSleeps
  <2> QED BY <2>2, <2>3, AwayWakes
<1>5. ASSUME NEW j \in Jobs, NEW e \in Delays, handleRelease(c, j, e)
      PROVE  Missed(d, t)
  <2>1. job \in [Jobs -> Job] /\ job[j].tube \in Tubes
    BY DEF WInv, TypeOK, Job
  <2>2. CASE Enqueued(j, job[j].tube, e, Uncached(c))
    BY <2>1, <2>2, UncachedSleeps, EnqueuedWakes
  <2>3. CASE Diverted(j, Uncached(c))
    BY <2>3, UncachedSleeps, DivertedWakes
  <2> QED BY <1>5, <2>2, <2>3 DEF handleRelease
<1> QED BY <1>1, <1>2, <1>3, <1>4, <1>5 DEF ConnNext

\* The other steps.
LEMMA OtherWakes ==
    ASSUME WInv, tick \/ OtherNext \/ Advance,
           NEW d \in Conns, NEW t \in Watch[d], pause[t] = 0, Missed(d, t)'
    PROVE  Missed(d, t)
<1>1. conn \in [Conns -> Conn] /\ job \in [Jobs -> Job] /\ \A j \in Jobs : job[j].tube \in Tubes
  BY DEF WInv, TypeOK, Job
<1>2. ASSUME NEW j \in Jobs, kick(j) \/ tickPromote(j) PROVE Missed(d, t)
  BY <1>1, <1>2, TurnsReadyWakes DEF kick, tickPromote
<1>3. ASSUME NEW j \in Jobs, tickExpire(j) PROVE Missed(d, t)
  <2> DEFINE c == job[j].reserver
  <2>1. CASE TurnsReady(j, job[j].tube, Uncached(c))
    BY <1>1, <2>1, UncachedSleeps, TurnsReadyWakes
  <2>2. CASE Diverted(j, Uncached(c))
    BY <2>2, UncachedSleeps, DivertedWakes
  <2> QED BY <1>3, <2>1, <2>2 DEF tickExpire
<1>4. ASSUME NEW j \in Jobs, NEW u \in Tubes, NEW e \in Delays, finishPut(j, u, e)
      PROVE  Missed(d, t)
  BY <1>1, <1>4, EnqueuedWakes DEF finishPut
<1>5. ASSUME NEW u \in Tubes, tickUnpause(u) PROVE Missed(d, t)
  <2>1. Ready(t)' \subseteq Ready(t)
    BY <1>5 DEF tickUnpause, Ready
  <2>2. /\ conn'[d].phase = conn[d].phase
        /\ conn'[d].token = (d \in waiters[u] \/ conn[d].token)
    BY <1>1, <1>5, WakeProps DEF tickUnpause
  <2> QED BY <2>1, <2>2 DEF Missed
<1>6. CASE Advance \/ formatListTubesPaused \/ \E u \in Pausable, e \in Pauses : handlePauseTube(u, e)
  <2>1. job' = job /\ conn' = conn
    BY <1>6 DEF Advance, formatListTubesPaused, handlePauseTube
  <2> QED BY <2>1 DEF Missed, Ready
<1> QED BY <1>2, <1>3, <1>4, <1>5, <1>6 DEF tick, OtherNext

\* Who clears a pause: one that is over.
LEMMA ReopenedWhenOver ==
    ASSUME WInv, Next, NEW t \in Tubes, pause[t] # 0, pause'[t] = 0
    PROVE  Open(t)
<1>1. \A ts : pause' = Reopen(ts) => Open(t)
  BY DEF Reopen
<1>2. CASE UNCHANGED pause
  BY <1>2
<1>3. ASSUME NEW u \in Tubes, tickUnpause(u) PROVE Open(t)
  BY <1>3 DEF tickUnpause, WInv, TypeOK
<1>4. ASSUME NEW u \in Pausable, NEW d \in Pauses, handlePauseTube(u, d) PROVE Open(t)
  BY <1>4, WaitingAssumption DEF handlePauseTube, WInv, TypeOK
<1>5. ASSUME NEW c \in Conns, ConnNext(c) PROVE Open(t)
  BY <1>1, <1>2, <1>5
  DEF ConnNext, doReserve, doReserveImmediate, checkWait, wakeUp, Close, Take, handleReserveJob,
      handleDelete, handleBury, handleTouch, handleRelease
<1>6. CASE tick
  BY <1>2, <1>3, <1>6 DEF tick, tickPromote, tickExpire
<1>7. CASE OtherNext \/ Advance
  BY <1>1, <1>2, <1>4, <1>7 DEF OtherNext, Advance, finishPut, kick, formatListTubesPaused
<1> QED BY <1>5, <1>6, <1>7 DEF Next

\* tick signals the connections that sleep on the tube it reopens.
LEMMA UnpauseWakes ==
    ASSUME WInv, NEW d \in Conns, NEW t \in Watch[d], tickUnpause(t)
    PROVE  ~Missed(d, t)'
<1>1. conn \in [Conns -> Conn]
  BY DEF WInv, TypeOK
<1>2. /\ conn'[d].phase = conn[d].phase
      /\ conn'[d].token = (d \in waiters[t] \/ conn[d].token)
  BY <1>1, WakeProps DEF tickUnpause
<1> QED BY <1>2, SleepersAreListed DEF Missed

\* Waiting.LostOnlyByReopening, for any clients and any pauses: between
\* checkWait's unlock and the select no put, release, kick, promotion, TTR
\* expiry or disconnect is lost.
THEOREM WakeupsReach == Spec => LostOnlyByReopening
<1>1. ASSUME WInv, [Next]_vars, NEW c \in Conns, NEW t \in Watch[c], Missed(c, t)'
      PROVE  Missed(c, t) \/ (pause[t] # 0 /\ Open(t) /\ ~tickUnpause(t))
  <2>1. CASE UNCHANGED vars
    BY <1>1, <2>1 DEF vars, Missed, Ready
  <2>2. CASE Next /\ pause[t] = 0
    BY <1>1, <2>2, ConnWakes, OtherWakes DEF Next
  <2>3. CASE Next /\ pause[t] # 0
    <3>1. pause'[t] = 0 /\ t \in Tubes
      BY <1>1, WaitingAssumption DEF Missed
    <3> QED BY <1>1, <2>3, <3>1, ReopenedWhenOver, UnpauseWakes
  <2> QED BY <1>1, <2>1, <2>2, <2>3
<1>2. WInv /\ [Next]_vars =>
        [\A c \in Conns : \A t \in Watch[c] :
            Missed(c, t)' => \/ Missed(c, t)
                             \/ pause[t] # 0 /\ Open(t) /\ ~tickUnpause(t)]_vars
  BY <1>1
<1> QED BY <1>2, WaitingInvariant, PTL DEF Spec, LostOnlyByReopening

\* Waiting.NoLostWakeup: whatever clients do to the other tubes, no wake-up is
\* lost on a tube that nobody pauses.
THEOREM NoWakeupLost == Spec => []NoLostWakeup
<1> DEFINE Unpaused == \A t \in Tubes \ Pausable : pause[t] = 0
<1>1. Init => Unpaused /\ NoLostWakeup
  <2>1. Idle.phase = "command"
    BY DEF Idle
  <2> QED BY <2>1 DEF Init, NoLostWakeup, Missed
<1>2. ASSUME WInv, [Next]_vars, Unpaused PROVE Unpaused'
  <2>1. \A ts : pause' = Reopen(ts) => Unpaused'
    BY <1>2 DEF Reopen
  <2>2. CASE UNCHANGED pause
    BY <1>2, <2>2
  <2>3. ASSUME NEW u \in Tubes, tickUnpause(u) PROVE Unpaused'
    BY <1>2, <2>3 DEF tickUnpause, WInv, TypeOK
  <2>4. ASSUME NEW u \in Pausable, NEW d \in Pauses, handlePauseTube(u, d) PROVE Unpaused'
    BY <1>2, <2>4 DEF handlePauseTube, WInv, TypeOK
  <2>5. ASSUME NEW c \in Conns, ConnNext(c) PROVE Unpaused'
    BY <2>1, <2>2, <2>5
    DEF ConnNext, doReserve, doReserveImmediate, checkWait, wakeUp, Close, Take, handleReserveJob,
        handleDelete, handleBury, handleTouch, handleRelease
  <2>6. CASE tick
    BY <2>2, <2>3, <2>6 DEF tick, tickPromote, tickExpire
  <2>7. CASE OtherNext \/ Advance
    BY <2>1, <2>2, <2>4, <2>7 DEF OtherNext, Advance, finishPut, kick, formatListTubesPaused
  <2>8. CASE UNCHANGED vars
    BY <2>2, <2>8 DEF vars
  <2> QED BY <1>2, <2>5, <2>6, <2>7, <2>8 DEF Next
<1>3. ASSUME WInv, [Next]_vars, Unpaused, NoLostWakeup PROVE NoLostWakeup'
  <2>1. ASSUME NEW c \in Conns, NEW t \in Watch[c] \ Pausable, Missed(c, t)' PROVE FALSE
    <3>1. ~Missed(c, t) /\ pause[t] = 0 /\ t \in Watch[c]
      BY <1>3, WaitingAssumption DEF NoLostWakeup
    <3>2. CASE UNCHANGED vars
      BY <2>1, <3>1, <3>2 DEF vars, Missed, Ready
    <3>3. CASE Next
      BY <1>3, <2>1, <3>1, <3>3, ConnWakes, OtherWakes DEF Next
    <3> QED BY <1>3, <3>2, <3>3
  <2> QED BY <2>1 DEF NoLostWakeup
<1> QED BY <1>1, <1>2, <1>3, WaitingInvariant, PTL DEF Spec
=============================================================================
