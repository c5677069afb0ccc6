------------------------------- MODULE Broker -------------------------------
(***************************************************************************)
(* The job broker of beanstalkd-pi: what every command handler, the tick   *)
(* goroutine, a closing connection and a restart do to the job index, the  *)
(* tubes, the connections, the statistics and the persistence adapter.     *)
(*                                                                         *)
(* Every handler runs under Server.mu from its first read to its last      *)
(* write, so a handler is one action.  put is two: startPut allocates the  *)
(* id, the body is read without the lock, finishPut files the job.  One    *)
(* iteration of a loop of tick (one job promoted, one tube reopened, one   *)
(* TTR expired) is an action: a tick in which one timer is due is a tick   *)
(* the server makes, and a longer one is a sequence of such ticks.         *)
(*                                                                         *)
(* Time is abstract: a delay, a TTR or a pause may be over at any moment.  *)
(* A heap is the set it holds; its top is the least element of that set.   *)
(* Names, bodies, replies and the counters nothing reads are left out.     *)
(***************************************************************************)
EXTENDS Integers, FiniteSets, SequencesExt

CONSTANTS
    Conns,        \* client connections
    NoConn,       \* nil in Job.Reserver
    Tubes,        \* tube names
    Default,      \* the name "default"
    MaxId,        \* bound on job ids
    MaxReserved,  \* bound on Server.reservedCt, which Close leaves too high
    Pris,         \* priorities a client may ask for
    Delays,       \* delays a client may ask for, among DelayKinds
    KickBounds,   \* bounds a client may pass to kick and kick-tube
    Policies,     \* <<tube, max-attempts, dead-tube>> clients may pass to set-dlq
    Pausable,     \* tubes clients may pause
    DrainModes    \* values drain mode may be set to

\* put-at ("at") is resolved to one of the other two by enqueueJob.
DelayKinds == {"none", "some", "at"}

ASSUME ConnsAssumption ==
    /\ IsFiniteSet(Conns)
    /\ NoConn \notin Conns

ASSUME TubesAssumption ==
    /\ IsFiniteSet(Tubes)
    /\ Default \in Tubes

ASSUME InputAssumption ==
    /\ MaxId \in Nat /\ MaxId >= 2
    /\ MaxReserved \in Nat
    /\ Pris \subseteq Nat
    /\ Delays \subseteq DelayKinds
    /\ KickBounds \subseteq Nat
    /\ Policies \subseteq Tubes \X Nat \X Tubes
    /\ Pausable \subseteq Tubes
    /\ DrainModes \subseteq BOOLEAN

\* nextID starts at 1 and is incremented before it is used.
JobIds == 2 .. MaxId

\* ReleaseCt + TimeoutCt is only compared with MaxAttempts: counting stops at
\* the largest threshold any policy sets.
AttemptCap == Max({p[2] : p \in Policies} \cup {0})

VARIABLES
    job,       \* [JobIds -> Job]; a job is in jobIdx iff its state is not "invalid"
    nextId,    \* Server.nextID
    tube,      \* [Tubes -> Tube]; in Server.tubes iff its field "live" is TRUE
    conn,      \* [Conns -> Conn]
    count,     \* Server.readyCt, delayedCt, reservedCt, buriedCt, globalUrgentCt
    saved,     \* what the persistence adapter was last told of each job
    drain,     \* Server.drainMode
    doomed     \* history: jobs still reserved since a delete-tube of their tube

vars == <<job, nextId, tube, conn, count, saved, drain, doomed>>

-----------------------------------------------------------------------------
(* State. *)

JobStates == {"invalid", "ready", "reserved", "buried", "delayed"}
Counters  == {"ready", "reserved", "buried", "delayed", "urgent"}
Phases    == {"closed", "command", "data", "bucket", "waiting"}

Job == [state: JobStates, tube: Tubes, pri: Nat, delay: DelayKinds,
        attempts: Nat, reserver: Conns \cup {NoConn}]

NoJob == [state |-> "invalid", tube |-> Default, pri |-> 0, delay |-> "none",
          attempts |-> 0, reserver |-> NoConn]

Tube == [live: BOOLEAN, ready: SUBSET JobIds, delay: SUBSET JobIds,
         buried: Seq(JobIds), ct: [Counters -> Int], using: Int, watching: Int,
         paused: BOOLEAN, tombstoned: BOOLEAN, max: Nat, dead: Tubes]

NewTube == [live |-> TRUE, ready |-> {}, delay |-> {}, buried |-> <<>>,
            ct |-> [s \in Counters |-> 0], using |-> 0, watching |-> 0,
            paused |-> FALSE, tombstoned |-> FALSE, max |-> 0, dead |-> Default]

NoTube == [NewTube EXCEPT !.live = FALSE]

\* inJob = 0: no put in progress.
Conn == [phase: Phases, use: Tubes, watch: SUBSET Tubes,
         reserved: SUBSET JobIds, inJob: JobIds \cup {0}]

NoClient == [phase |-> "closed", use |-> Default, watch |-> {},
             reserved |-> {}, inJob |-> 0]

\* The columns recovery reads back into a queue: enqueueJob overwrites State
\* and DeadlineAt, so they are left out.
Image(j) == [tube |-> j.tube, pri |-> j.pri, delay |-> j.delay,
             attempts |-> j.attempts, stored |-> TRUE]

NoImage == [tube |-> Default, pri |-> 0, delay |-> "none", attempts |-> 0,
            stored |-> FALSE]

Saved == [tube: Tubes, pri: Nat, delay: DelayKinds, attempts: Nat,
          stored: BOOLEAN]

-----------------------------------------------------------------------------
(* The bookkeeping the handlers share. *)

\* Pri < 1024 is urgent.
UrgentOf(J, jobs) == {j \in J : jobs[j].pri < 1024}

\* The counters after the jobs of J enter, or leave, state s; jobs holds their
\* priorities.  The tube's and the server's counters always move together.
Enter(ct, s, J, jobs) ==
    [ct EXCEPT ![s] = @ + Cardinality(J),
               !["urgent"] = IF s = "ready" THEN @ + Cardinality(UrgentOf(J, jobs))
                                            ELSE @]

\* Slip: a job leaves the ready heap and stays counted as urgent.
LeaveStaysUrgent(ct, s, J, jobs) == [ct EXCEPT ![s] = @ - Cardinality(J)]

Leave(ct, s, J, jobs) ==
    [ct EXCEPT ![s] = @ - Cardinality(J),
               !["urgent"] = IF s = "ready" THEN @ - Cardinality(UrgentOf(J, jobs))
                                            ELSE @]

\* Files j in the container of state s, or takes it out; a reserved job is in
\* no container of its tube.
Link(tb, s, j, jobs) ==
    [tb EXCEPT !.ready  = IF s = "ready" THEN @ \cup {j} ELSE @,
               !.delay  = IF s = "delayed" THEN @ \cup {j} ELSE @,
               !.buried = IF s = "buried" THEN Append(@, j) ELSE @,
               !.ct     = Enter(@, s, {j}, jobs)]

\* Slip: buryRemove is forgotten.
UnlinkKeepsBuried(tb, s, j) ==
    [tb EXCEPT !.ready = IF s = "ready" THEN @ \ {j} ELSE @,
               !.delay = IF s = "delayed" THEN @ \ {j} ELSE @,
               !.ct    = Leave(@, s, {j}, job)]

Unlink(tb, s, j) ==
    [tb EXCEPT !.ready  = IF s = "ready" THEN @ \ {j} ELSE @,
               !.delay  = IF s = "delayed" THEN @ \ {j} ELSE @,
               !.buried = IF s = "buried" THEN RemoveFirst(@, j) ELSE @,
               !.ct     = Leave(@, s, {j}, job)]

makeTube(T, t) == IF T[t].live THEN T ELSE [T EXCEPT ![t] = NewTube]

\* Slip: watchers do not keep a tube.
CollectableWatched(tb) ==
    /\ tb.ready = {} /\ tb.delay = {}
    /\ tb.ct["reserved"] = 0 /\ tb.ct["buried"] = 0
    /\ tb.using = 0

\* Slip: buried jobs do not keep a tube.
CollectableBuried(tb) ==
    /\ tb.ready = {} /\ tb.delay = {}
    /\ tb.ct["reserved"] = 0
    /\ tb.using = 0 /\ tb.watching = 0

Collectable(tb) ==
    /\ tb.ready = {} /\ tb.delay = {}
    /\ tb.ct["reserved"] = 0 /\ tb.ct["buried"] = 0
    /\ tb.using = 0 /\ tb.watching = 0

\* The tube map after gcTube was called for each tube of ts.
gcTube(T, ts) ==
    [t \in Tubes |-> IF t \in ts \ {Default} /\ Collectable(T[t]) THEN NoTube
                                                                  ELSE T[t]]

\* The queue enqueueJob files a job with this (resolved) delay in.
Queue(delay) == IF delay = "none" THEN "ready" ELSE "delayed"

\* Slip: a fresh put leaves the tombstone standing.
enqueueJobKeepsTombstone(T, j, jobs) ==
    [T EXCEPT ![jobs[j].tube] = Link(@, Queue(jobs[j].delay), j, jobs)]

\* enqueueJob: a tombstone is lifted, whoever the caller is.
enqueueJob(T, j, jobs) ==
    [T EXCEPT ![jobs[j].tube] =
        Link([@ EXCEPT !.tombstoned = FALSE], Queue(jobs[j].delay), j, jobs)]

jobPriLess(a, b) ==
    \/ job[a].pri < job[b].pri
    \/ job[a].pri = job[b].pri /\ a < b

\* Peek on the ready heaps of ts, and the better of the tops.
Best(ts) ==
    LET heads == UNION {tube[t].ready : t \in ts}
    IN  CHOOSE j \in heads : \A k \in heads \ {j} : jobPriLess(j, k)

Live == {j \in JobIds : job[j].state # "invalid"}

Held(t) == {j \in JobIds : job[j].state = "reserved" /\ job[j].tube = t}

-----------------------------------------------------------------------------
(* Connections. *)

Commanding(c) == conn[c].phase = "command"

Connect(c) ==
    /\ conn[c].phase = "closed"
    /\ conn' = [conn EXCEPT ![c] = [NoClient EXCEPT !.phase = "command",
                                                    !.watch = {Default}]]
    /\ tube' = [tube EXCEPT ![Default].using = @ + 1, ![Default].watching = @ + 1]
    /\ UNCHANGED <<job, nextId, count, saved, drain, doomed>>

\* The jobs reenqueueReservedJobs deletes, because their tube was deleted
\* while c held them; the others go back to ready.
Dropped(c) == {j \in conn[c].reserved : tube[job[j].tube].tombstoned}

\* The read loop ends (quit, EOF, read error) and the deferred cleanup runs.
\* A connection blocked in reserve does not read, so it does not notice.
\* Jobs put back keep counting as reserved: only a dropped one is uncounted.
Close(c) ==
    LET t0      == conn[c].use
        watch   == conn[c].watch
        dropped == Dropped(c)
        back    == conn[c].reserved \ dropped
        Of(J, t) == {j \in J : job[j].tube = t}
        closing == [t \in Tubes |->
            [tube[t] EXCEPT
                !.ready    = @ \cup Of(back, t),
                !.ct       = Enter(Leave(@, "reserved", Of(dropped, t), job),
                                   "ready", Of(back, t), job),
                !.using    = @ - (IF t = t0 THEN 1 ELSE 0),
                !.watching = @ - (IF t \in watch THEN 1 ELSE 0)]]
    IN  /\ conn[c].phase \in {"command", "data", "bucket"}
        /\ tube' = gcTube(closing, watch \cup {t0} \cup {job[j].tube : j \in dropped})
        /\ count' = Enter(Leave(count, "reserved", dropped, job), "ready", back, job)
        /\ job' = [j \in JobIds |->
                      IF j \in dropped \cup {conn[c].inJob} THEN NoJob
                      ELSE IF j \in back THEN [job[j] EXCEPT !.state = "ready",
                                                             !.reserver = NoConn]
                      ELSE job[j]]
        /\ saved' = [j \in JobIds |-> IF j \in dropped THEN NoImage ELSE saved[j]]
        /\ conn' = [conn EXCEPT ![c] = NoClient]
        /\ doomed' = doomed \ conn[c].reserved
        /\ UNCHANGED <<nextId, drain>>

\* Slip: the tube used before stays referenced.
handleUseKeepsOld(c, t) ==
    /\ Commanding(c)
    /\ tube' = [makeTube(tube, t) EXCEPT ![t].using = @ + 1]
    /\ conn' = [conn EXCEPT ![c].use = t]
    /\ UNCHANGED <<job, nextId, count, saved, drain, doomed>>

handleUse(c, t) ==
    /\ Commanding(c)
    /\ LET old  == conn[c].use
           left == gcTube([tube EXCEPT ![old].using = @ - 1], {old})
       IN  tube' = [makeTube(left, t) EXCEPT ![t].using = @ + 1]
    /\ conn' = [conn EXCEPT ![c].use = t]
    /\ UNCHANGED <<job, nextId, count, saved, drain, doomed>>

handleWatch(c, t) ==
    /\ Commanding(c)
    /\ t \notin conn[c].watch
    /\ tube' = [makeTube(tube, t) EXCEPT ![t].watching = @ + 1]
    /\ conn' = [conn EXCEPT ![c].watch = @ \cup {t}]
    /\ UNCHANGED <<job, nextId, count, saved, drain, doomed>>

handleIgnore(c, t) ==
    /\ Commanding(c)
    /\ Cardinality(conn[c].watch) > 1
    /\ tube[t].live /\ t \in conn[c].watch
    /\ tube' = gcTube([tube EXCEPT ![t].watching = @ - 1], {t})
    /\ conn' = [conn EXCEPT ![c].watch = @ \ {t}]
    /\ UNCHANGED <<job, nextId, count, saved, drain, doomed>>

-----------------------------------------------------------------------------
(* put and put-at. *)

\* Slip: drain mode is not looked at.
AcceptingAlways == TRUE

Accepting == ~drain

startPut(c, p, d) ==
    /\ Commanding(c)
    /\ Accepting
    /\ nextId < MaxId
    /\ nextId' = nextId + 1
    /\ job' = [job EXCEPT ![nextId'] = [NoJob EXCEPT !.tube = conn[c].use,
                                                     !.pri = p, !.delay = d]]
    /\ conn' = [conn EXCEPT ![c].phase = "data", ![c].inJob = nextId']
    /\ UNCHANGED <<tube, count, saved, drain, doomed>>

\* JOB_TOO_BIG (at any time) or DRAINING: the body is read and discarded.
refusePut(c) ==
    /\ Commanding(c)
    /\ conn' = [conn EXCEPT ![c].phase = "bucket"]
    /\ UNCHANGED <<job, nextId, tube, count, saved, drain, doomed>>

bitBucketDone(c) ==
    /\ conn[c].phase = "bucket"
    /\ conn' = [conn EXCEPT ![c].phase = "command"]
    /\ UNCHANGED <<job, nextId, tube, count, saved, drain, doomed>>

\* EXPECTED_CRLF: the id is spent and the job never enters the index.
badBody(c) ==
    /\ conn[c].phase = "data"
    /\ job' = [job EXCEPT ![conn[c].inJob] = NoJob]
    /\ conn' = [conn EXCEPT ![c].phase = "command", ![c].inJob = 0]
    /\ UNCHANGED <<nextId, tube, count, saved, drain, doomed>>

finishPut(c) ==
    /\ conn[c].phase = "data"
    /\ \E d \in IF job[conn[c].inJob].delay = "at" THEN {"none", "some"}
                                                   ELSE {job[conn[c].inJob].delay} :
         LET j    == conn[c].inJob
             jobs == [job EXCEPT ![j].state = Queue(d), ![j].delay = d]
         IN  /\ job'   = jobs
             /\ tube'  = enqueueJob(tube, j, jobs)
             /\ count' = Enter(count, Queue(d), {j}, jobs)
             /\ saved' = [saved EXCEPT ![j] = Image(jobs[j])]
    /\ conn' = [conn EXCEPT ![c].phase = "command", ![c].inJob = 0]
    /\ UNCHANGED <<nextId, drain, doomed>>

-----------------------------------------------------------------------------
(* reserve, reserve-with-timeout and reserve-job. *)

\* E: the paused tubes c watches whose pause turns out to be over; isPaused
\* clears Tube.Pause as it answers.
Elapsed(c) == SUBSET {t \in conn[c].watch : tube[t].paused}

Reopened(E) ==
    [t \in Tubes |-> IF t \in E THEN [tube[t] EXCEPT !.paused = FALSE] ELSE tube[t]]

OpenTubes(c, E) ==
    {t \in conn[c].watch : tube[t].ready # {} /\ (tube[t].paused => t \in E)}

Take(c, j, T) ==
    /\ count["reserved"] < MaxReserved
    /\ job' = [job EXCEPT ![j].state = "reserved", ![j].reserver = c]
    /\ conn' = [conn EXCEPT ![c].reserved = @ \cup {j}, ![c].phase = "command"]
    /\ tube' = [T EXCEPT ![job[j].tube] =
                   Link(Unlink(@, job[j].state, j), "reserved", j, job)]
    /\ count' = Enter(Leave(count, job[j].state, {j}, job), "reserved", {j}, job)
    /\ UNCHANGED <<nextId, saved, drain, doomed>>

findJobForConn(c, E) ==
    /\ OpenTubes(c, E) # {}
    /\ Take(c, Best(OpenTubes(c, E)), Reopened(E))

\* findJobForConn returns nil; next is where the handler leaves the connection.
NothingReady(c, E, next) ==
    /\ OpenTubes(c, E) = {}
    /\ tube' = Reopened(E)
    /\ conn' = [conn EXCEPT ![c].phase = next]
    /\ UNCHANGED <<job, nextId, count, saved, drain, doomed>>

\* An immediate DEADLINE_SOON changes nothing and is not a step.
doReserve(c) ==
    /\ Commanding(c)
    /\ \E E \in Elapsed(c) : findJobForConn(c, E) \/ NothingReady(c, E, "waiting")

doReserveImmediate(c) ==
    /\ Commanding(c)
    /\ \E E \in Elapsed(c) : findJobForConn(c, E) \/ NothingReady(c, E, "command")

\* A blocked reserve wakes (signal or timer) and looks again, or gives up with
\* DEADLINE_SOON or TIMED_OUT, which come before a ready job.
checkWait(c) ==
    /\ conn[c].phase = "waiting"
    /\ \E E \in Elapsed(c) :
          \/ findJobForConn(c, E)
          \/ NothingReady(c, E, "waiting")
          \/ /\ tube' = Reopened(E)
             /\ conn' = [conn EXCEPT ![c].phase = "command"]
             /\ UNCHANGED <<job, nextId, count, saved, drain, doomed>>

handleReserveJob(c, j) ==
    /\ Commanding(c)
    /\ job[j].state \in {"ready", "buried", "delayed"}
    /\ Take(c, j, tube)

-----------------------------------------------------------------------------
(* The end of a reservation: delete, release, bury, TTR expiry. *)

Holds(c, j) == job[j].state = "reserved" /\ job[j].reserver = c

\* unreserveJob and the ReservedCt decrement; what the job turns into is up to
\* the caller.
Unreserve(c, j) ==
    /\ conn' = [conn EXCEPT ![c].reserved = @ \ {j}]
    /\ doomed' = doomed \ {j}
    /\ UNCHANGED <<nextId, drain>>

Unreserved(j) == [tube EXCEPT ![job[j].tube] = Unlink(@, "reserved", j)]

\* The job enters state s as the record r, in the tube map T.
Becomes(j, r, s, T) ==
    LET jobs == [job EXCEPT ![j] = [r EXCEPT !.state = s, !.reserver = NoConn]]
    IN  /\ job' = jobs
        /\ tube' = [T EXCEPT ![r.tube] = Link(@, s, j, jobs)]
        /\ count' = Enter(Leave(count, "reserved", {j}, job), s, {j}, jobs)

\* Slip: the persistence hook is missing.
StoreSkipped(j) == UNCHANGED saved

Store(j) == saved' = [saved EXCEPT ![j] = Image(job'[j])]

\* Slip: the tube is not offered to gcTube.
ForgetWithoutGc(j, s) ==
    /\ job' = [job EXCEPT ![j] = NoJob]
    /\ tube' = [tube EXCEPT ![job[j].tube] = Unlink(@, s, j)]
    /\ count' = Leave(count, s, {j}, job)
    /\ saved' = [saved EXCEPT ![j] = NoImage]

\* finishDeleteJob and gcTube: the job leaves the index, storage and tube t.
Forget(j, s) ==
    LET t == job[j].tube
    IN  /\ job' = [job EXCEPT ![j] = NoJob]
        /\ tube' = gcTube([tube EXCEPT ![t] = Unlink(@, s, j)], {t})
        /\ count' = Leave(count, s, {j}, job)
        /\ saved' = [saved EXCEPT ![j] = NoImage]

\* Slip: the tombstone is not looked at.
TombstonedIgnored(j) == FALSE

Tombstoned(j) == tube[job[j].tube].tombstoned

\* Slip: one failed delivery too many.
ExhaustedLate(r) == tube[r.tube].max > 0 /\ r.attempts > tube[r.tube].max

Exhausted(r) == tube[r.tube].max > 0 /\ r.attempts >= tube[r.tube].max

\* Slip: the dead-letter tube is not put into the tube map.
checkDeadLetterUnmapped(j, r) ==
    LET dead == tube[r.tube].dead
    IN  /\ Exhausted(r)
        /\ Becomes(j, [r EXCEPT !.tube = dead], "buried", Unreserved(j))
        /\ Store(j)

\* The job is buried in the dead-letter tube of its tube, which is not offered
\* to gcTube although it has just lost a job.
checkDeadLetter(j, r) ==
    LET dead == tube[r.tube].dead
    IN  /\ Exhausted(r)
        /\ Becomes(j, [r EXCEPT !.tube = dead], "buried",
                   makeTube(Unreserved(j), dead))
        /\ Store(j)

Failed(j) == [job[j] EXCEPT !.attempts = IF @ < AttemptCap THEN @ + 1 ELSE @]

handleDelete(c, j) ==
    /\ Commanding(c)
    /\ job[j].state # "invalid"
    /\ job[j].state = "reserved" => job[j].reserver = c
    /\ Unreserve(c, j)
    /\ Forget(j, job[j].state)

handleRelease(c, j, p, d) ==
    /\ Commanding(c) /\ Holds(c, j)
    /\ Unreserve(c, j)
    /\ \/ Tombstoned(j) /\ Forget(j, "reserved")
       \/ /\ ~Tombstoned(j)
          /\ LET r == [Failed(j) EXCEPT !.pri = p, !.delay = d]
             IN  \/ checkDeadLetter(j, r)
                 \/ /\ ~Exhausted(r)       \* enqueueJob: there is no tombstone to lift
                    /\ Becomes(j, r, Queue(d), Unreserved(j))
                    /\ Store(j)

handleBury(c, j, p) ==
    /\ Commanding(c) /\ Holds(c, j)
    /\ Unreserve(c, j)
    /\ \/ Tombstoned(j) /\ Forget(j, "reserved")
       \/ /\ ~Tombstoned(j)
          /\ Becomes(j, [job[j] EXCEPT !.pri = p], "buried", Unreserved(j))
          /\ Store(j)

\* One reserved job whose deadline tick finds to be over (dropOrReenqueue).
\* The job that goes back to ready is not stored again.
tickExpire(j) ==
    /\ job[j].state = "reserved"
    /\ Unreserve(job[j].reserver, j)
    /\ \/ Tombstoned(j) /\ Forget(j, "reserved")
       \/ /\ ~Tombstoned(j)
          /\ \/ checkDeadLetter(j, Failed(j))
             \/ /\ ~Exhausted(Failed(j))
                /\ Becomes(j, Failed(j), "ready", Unreserved(j))
                /\ UNCHANGED saved

-----------------------------------------------------------------------------
(* Delayed and buried jobs: tick, kick, kick-tube, kick-job. *)

\* The jobs of K move from state s of tube t to its ready heap; tb is the tube
\* with K already out of the container of s.
MakeReady(t, tb, s, K) ==
    /\ job' = [j \in JobIds |-> IF j \in K THEN [job[j] EXCEPT !.state = "ready"]
                                           ELSE job[j]]
    /\ tube' = [tube EXCEPT ![t] =
                   [tb EXCEPT !.ready = @ \cup K,
                              !.ct = Enter(Leave(@, s, K, job), "ready", K, job)]]
    /\ count' = Enter(Leave(count, s, K, job), "ready", K, job)
    /\ saved' = [j \in JobIds |-> IF j \in K THEN Image(job[j]) ELSE saved[j]]
    /\ UNCHANGED <<nextId, conn, drain, doomed>>

\* One delayed job of a live tube whose delay tick finds to be over.
tickPromote(t, j) ==
    /\ j \in tube[t].delay
    /\ MakeReady(t, [tube[t] EXCEPT !.delay = @ \ {j}], "delayed", {j})

\* Up to b buried jobs in burial order, or, when none was kicked, up to b
\* delayed ones (the next due: any, since time is abstract).
kickTube(t, b) ==
    LET tb == tube[t]
        n  == Min({b, Len(tb.buried)})
    IN  \/ /\ n > 0
           /\ MakeReady(t, [tb EXCEPT !.buried = SubSeq(@, n + 1, Len(@))], "buried",
                        ToSet(SubSeq(tb.buried, 1, n)))
        \/ /\ n = 0
           /\ \E K \in SUBSET tb.delay :
                 /\ Cardinality(K) = Min({b, Cardinality(tb.delay)})
                 /\ MakeReady(t, [tb EXCEPT !.delay = @ \ K], "delayed", K)

handleKick(c, b) ==
    /\ Commanding(c)
    /\ kickTube(conn[c].use, b)

handleKickTube(c, t, b) ==
    /\ Commanding(c)
    /\ tube[t].live
    /\ kickTube(t, b)

handleKickJob(c, j) ==
    LET t == job[j].tube
    IN  /\ Commanding(c)
        /\ \/ /\ job[j].state = "buried"
              /\ MakeReady(t, [tube[t] EXCEPT !.buried = RemoveFirst(@, j)], "buried", {j})
           \/ /\ job[j].state = "delayed"
              /\ MakeReady(t, [tube[t] EXCEPT !.delay = @ \ {j}], "delayed", {j})

-----------------------------------------------------------------------------
(* Tubes and the server. *)

\* Slip: the server's counters are not told.
purgeTubeUncounted(t) ==
    LET tb   == tube[t]
        gone == tb.ready \cup tb.delay \cup ToSet(tb.buried)
        Purged(ct) == Leave(Leave(Leave(ct, "ready", tb.ready, job),
                                  "delayed", tb.delay, job),
                            "buried", ToSet(tb.buried), job)
    IN  /\ job' = [j \in JobIds |-> IF j \in gone THEN NoJob ELSE job[j]]
        /\ saved' = [j \in JobIds |-> IF j \in gone THEN NoImage ELSE saved[j]]
        /\ tube' = gcTube([tube EXCEPT ![t] =
                      [tb EXCEPT !.ready = {}, !.delay = {}, !.buried = <<>>,
                                 !.ct = Purged(tb.ct), !.tombstoned = TRUE]], {t})
        /\ UNCHANGED count

\* The ready, delayed and buried jobs of t are deleted; the reserved ones are
\* left to their connections.
purgeTube(t) ==
    LET tb   == tube[t]
        gone == tb.ready \cup tb.delay \cup ToSet(tb.buried)
        Purged(ct) == Leave(Leave(Leave(ct, "ready", tb.ready, job),
                                  "delayed", tb.delay, job),
                            "buried", ToSet(tb.buried), job)
    IN  /\ job' = [j \in JobIds |-> IF j \in gone THEN NoJob ELSE job[j]]
        /\ saved' = [j \in JobIds |-> IF j \in gone THEN NoImage ELSE saved[j]]
        /\ tube' = gcTube([tube EXCEPT ![t] =
                      [tb EXCEPT !.ready = {}, !.delay = {}, !.buried = <<>>,
                                 !.ct = Purged(tb.ct), !.tombstoned = TRUE]], {t})
        /\ count' = Purged(count)

handleDeleteTube(c, t) ==
    /\ Commanding(c)
    /\ tube[t].live
    /\ purgeTube(t)
    /\ doomed' = doomed \cup Held(t)
    /\ UNCHANGED <<nextId, conn, drain>>

handlePauseTube(c, t) ==
    /\ Commanding(c)
    /\ tube[t].live
    /\ tube' = [tube EXCEPT ![t].paused = TRUE]
    /\ UNCHANGED <<job, nextId, conn, count, saved, drain, doomed>>

\* Tube.Pause is cleared when its time is over: by tick, or by isPaused for a
\* listing (list-tubes-paused, the metrics page).
tickUnpause(t) ==
    /\ tube[t].paused
    /\ tube' = [tube EXCEPT ![t].paused = FALSE]
    /\ UNCHANGED <<job, nextId, conn, count, saved, drain, doomed>>

handleSetDlq(c, t, max, dead) ==
    /\ Commanding(c)
    /\ tube' = [makeTube(tube, t) EXCEPT
                   ![t].max  = max,
                   ![t].dead = IF max = 0 THEN Default ELSE dead]
    /\ UNCHANGED <<job, nextId, conn, count, saved, drain, doomed>>

\* SIGUSR1 and the drain command: one atomic store, without the lock.
setDrain(on) ==
    /\ drain' = on
    /\ UNCHANGED <<job, nextId, tube, conn, count, saved, doomed>>

\* Slip: recovery does not advance the id counter.
RecoveredIdStale(found) == 1

\* The id counter after NewServer loaded the jobs of found.
RecoveredId(found) == Max({j + 1 : j \in found} \cup {1})

\* The rows of the table img.
LoadAllJobs(img) == {j \in JobIds : img[j].stored}

\* NewServer recovers from the table img: every stored job goes through
\* enqueueJob, whatever state it was in.
Recover(img) ==
    LET found == LoadAllJobs(img)
        jobs  == [j \in JobIds |->
                    IF j \in found
                    THEN [NoJob EXCEPT !.state = Queue(img[j].delay),
                                       !.tube = img[j].tube, !.pri = img[j].pri,
                                       !.delay = img[j].delay,
                                       !.attempts = img[j].attempts]
                    ELSE NoJob]
        In(q, ts) == {j \in found : jobs[j].state = q /\ jobs[j].tube \in ts}
        Counted(ts) == Enter(Enter(NewTube.ct, "ready", In("ready", ts), jobs),
                             "delayed", In("delayed", ts), jobs)
    IN  /\ job' = jobs
        /\ tube' = [t \in Tubes |->
                      IF t = Default \/ \E j \in found : jobs[j].tube = t
                      THEN [NewTube EXCEPT !.ready = In("ready", {t}),
                                           !.delay = In("delayed", {t}),
                                           !.ct = Counted({t})]
                      ELSE NoTube]
        /\ count' = Counted(Tubes)
        /\ nextId' = RecoveredId(found)
        /\ conn' = [c \in Conns |-> NoClient]
        /\ drain' = FALSE
        /\ doomed' = {}
        /\ saved' = img

\* The process ends with everything stored, and another one starts.
Restart == Recover(saved)

-----------------------------------------------------------------------------
Init ==
    /\ job = [j \in JobIds |-> NoJob]
    /\ nextId = 1
    /\ tube = [t \in Tubes |-> IF t = Default THEN NewTube ELSE NoTube]
    /\ conn = [c \in Conns |-> NoClient]
    /\ count = NewTube.ct
    /\ saved = [j \in JobIds |-> NoImage]
    /\ drain = FALSE
    /\ doomed = {}

ConnNext(c) ==
    \/ Connect(c) \/ Close(c)
    \/ \E t \in Tubes : handleUse(c, t) \/ handleWatch(c, t) \/ handleIgnore(c, t)
    \/ \E p \in Pris, d \in Delays : startPut(c, p, d)
    \/ refusePut(c) \/ bitBucketDone(c) \/ badBody(c) \/ finishPut(c)
    \/ doReserve(c) \/ doReserveImmediate(c) \/ checkWait(c)

JobNext(c, j) ==
    \/ handleReserveJob(c, j) \/ handleDelete(c, j) \/ handleKickJob(c, j)
    \/ \E p \in Pris, d \in Delays \ {"at"} : handleRelease(c, j, p, d)
    \/ \E p \in Pris : handleBury(c, j, p)

TubeNext(c) ==
    \/ \E b \in KickBounds : handleKick(c, b)
    \/ \E t \in Tubes, b \in KickBounds : handleKickTube(c, t, b)
    \/ \E t \in Tubes : handleDeleteTube(c, t)
    \/ \E t \in Pausable : handlePauseTube(c, t)
    \/ \E p \in Policies : handleSetDlq(c, p[1], p[2], p[3])

tick ==
    \/ \E t \in Tubes, j \in JobIds : tickPromote(t, j)
    \/ \E t \in Tubes : tickUnpause(t)
    \/ \E j \in JobIds : tickExpire(j)

\* What a running server does.
Serve ==
    \/ \E c \in Conns : ConnNext(c) \/ TubeNext(c) \/ \E j \in JobIds : JobNext(c, j)
    \/ tick
    \/ \E on \in DrainModes : setDrain(on)

Next == Serve \/ Restart

Spec == Init /\ [][Next]_vars

-----------------------------------------------------------------------------
(* Properties. *)

\* Every variable has the type the code gives it.
TypeOK ==
    /\ job \in [JobIds -> Job]
    /\ nextId \in 1 .. MaxId + 1
    /\ tube \in [Tubes -> Tube]
    /\ conn \in [Conns -> Conn]
    /\ count \in [Counters -> Int]
    /\ saved \in [JobIds -> Saved]
    /\ drain \in BOOLEAN
    /\ doomed \in SUBSET JobIds

\* Each job of the index is in exactly the container its State names, of the
\* tube it points to or of the connection it names as its Reserver, once; no
\* heap, list or reserved list holds anything else.  A handler that forgets an
\* unlink, files a job under another tube or leaves a stale Reserver breaks it.
Placement ==
    /\ \A t \in Tubes :
          /\ \A j \in JobIds :
                /\ j \in tube[t].ready <=> job[j].state = "ready" /\ job[j].tube = t
                /\ j \in tube[t].delay <=> job[j].state = "delayed" /\ job[j].tube = t
                /\ j \in ToSet(tube[t].buried)
                      <=> job[j].state = "buried" /\ job[j].tube = t
          /\ IsInjective(tube[t].buried)
    /\ \A j \in JobIds :
          /\ \A c \in Conns : j \in conn[c].reserved <=> Holds(c, j)
          /\ job[j].state = "reserved" <=> job[j].reserver # NoConn

\* The ready, delayed, buried and urgent counters of a tube are the sizes of
\* what they count, the server's are the sums over the tubes, and ReservedCt
\* is never below the number of reserved jobs of the tube.
CountersHold ==
    /\ \A t \in Tubes :
          LET tb == tube[t] IN
          /\ tb.ct["ready"] = Cardinality(tb.ready)
          /\ tb.ct["urgent"] = Cardinality(UrgentOf(tb.ready, job))
          /\ tb.ct["delayed"] = Cardinality(tb.delay)
          /\ tb.ct["buried"] = Len(tb.buried)
          /\ tb.ct["reserved"] >= Cardinality(Held(t))
    /\ \A s \in Counters : count[s] = SumFunction([t \in Tubes |-> tube[t].ct[s]])

\* gcTube never takes a tube out of the map while something still points to
\* it: a connection using or watching it, a job of the index, a put whose body
\* is being read; and never the default tube.  Otherwise two Tube objects of
\* one name would exist.
NoOrphanTube ==
    /\ tube[Default].live
    /\ \A c \in Conns : conn[c].phase # "closed" =>
          \A t \in conn[c].watch \cup {conn[c].use} : tube[t].live
    /\ \A j \in Live : tube[job[j].tube].live
    /\ \A c \in Conns : conn[c].inJob # 0 => job[conn[c].inJob].tube = conn[c].use

\* UsingCt and WatchingCt are the number of connections using and watching.
RefCountsHold ==
    \A t \in Tubes :
        /\ tube[t].using = Cardinality({c \in Conns :
                              conn[c].phase # "closed" /\ conn[c].use = t})
        /\ tube[t].watching = Cardinality({c \in Conns : t \in conn[c].watch})

\* The persistence adapter has been told of exactly the jobs of the index, with
\* the tube, the priority and the delay they have now: a restart restores each
\* job to its tube, and no deleted job comes back.
StoredIsLive ==
    \A j \in JobIds :
        /\ saved[j].stored <=> j \in Live
        /\ j \in Live => /\ saved[j].tube = job[j].tube
                         /\ saved[j].pri = job[j].pri
                         /\ saved[j].delay = job[j].delay
                         /\ saved[j].attempts <= job[j].attempts

\* An id is given out once while it is in use: no two puts in progress have the
\* same id, and none has the id of a job in the index, across restarts too.
DistinctIds ==
    /\ \A c, d \in Conns : conn[c].inJob = conn[d].inJob /\ conn[c].inJob # 0 => c = d
    /\ \A c \in Conns : conn[c].inJob # 0 => /\ conn[c].inJob \notin Live
                                             /\ conn[c].inJob <= nextId
    /\ \A j \in Live : j <= nextId


\* gcTube is called at every step that can make a tube collectable: a tube
\* that loses its last job, its last user and its last watcher goes with it
\* (documentation.txt, Tube GC).
EmptyTubeCollected ==
    [][\A t \in Tubes \ {Default} :
          tube[t].live /\ ~Collectable(tube[t]) =>
             ~(tube'[t].live /\ Collectable(tube'[t]))]_vars

\* The same promise in terms of the jobs there are, not of what ReservedCt
\* says: a tube without jobs and without connections is not in the map.
EmptyTubeGone ==
    \A t \in Tubes \ {Default} : tube[t].live =>
        \/ \E j \in Live : job[j].tube = t
        \/ \E c \in Conns : conn[c].phase # "closed"
                            /\ t \in conn[c].watch \cup {conn[c].use}

\* A tombstoned tube holds reserved jobs only: delete-tube purged the others
\* and no job of the tube comes back while the tombstone stands.
TombstonedIsEmpty ==
    \A t \in Tubes : tube[t].tombstoned =>
        tube[t].ready = {} /\ tube[t].delay = {} /\ tube[t].buried = <<>>

\* A reserved job is destroyed by its owner's delete, or because its tube was
\* deleted after it was reserved (Tube.Tombstoned); a job that was not there
\* when the tube was deleted survives release, bury, TTR expiry and disconnect.
DroppedOnlyIfDoomed ==
    [][\A j \in JobIds :
          job[j].state = "reserved" /\ job'[j].state = "invalid" =>
             j \in doomed \/ \E c \in Conns : handleDelete(c, j)]_vars

\* A job reserved when its tube is deleted "is deleted later, [...] once that
\* connection releases, buries, times out on, or disconnects while holding it,
\* rather than being allowed to return the job to the tube" (protocol.txt,
\* delete-tube).  A restart forgets which jobs were reserved and is exempt.
DoomedNeverReturns ==
    [][\A j \in doomed : job'[j].state \in {"reserved", "invalid"} \/ Restart]_vars

\* The jobs that are filed or whose put was accepted.
Admitted(jobs, conns) ==
    {j \in JobIds : jobs[j].state # "invalid" \/ \E c \in Conns : conns[c].inJob = j}

\* While drain mode is on, the admitted jobs only become fewer: a put, the end
\* of a put accepted before, a tick or a restart lets nothing new in.
DrainStops ==
    [][drain => Admitted(job', conn') \subseteq Admitted(job, conn)]_vars

\* A job changes tube only by dead-lettering: its failed deliveries reached
\* its tube's threshold and it is buried in that tube's dead-letter tube.  And
\* a failed delivery that reaches the threshold never sends the job round
\* again: only the disconnect of its owner or a restart does.
DeadLetterPolicy ==
    [][\A j \in Live :
          LET from == tube[job[j].tube]
              out  == from.max > 0 /\ job'[j].attempts >= from.max
          IN  /\ job'[j].state # "invalid" /\ job'[j].tube # job[j].tube =>
                    out /\ job'[j].tube = from.dead /\ job'[j].state = "buried"
              /\ job[j].state = "reserved" /\ job'[j].state \in {"ready", "delayed"}
                 /\ conn'[job[j].reserver].phase # "closed" => ~out]_vars

-----------------------------------------------------------------------------
(* The inductive invariant of BrokerProofs. *)

\* The two counters gcTube decides by.
CountedForGc ==
    \A t \in Tubes : /\ tube[t].ct["buried"] = Len(tube[t].buried)
                     /\ tube[t].ct["reserved"] >= Cardinality(Held(t))

\* A connection reads a body iff it has a put in progress, and a closed one
\* holds and watches nothing.
PhasesHold ==
    \A c \in Conns :
        /\ conn[c].phase = "data" <=> conn[c].inJob # 0
        /\ conn[c].phase = "closed" => conn[c].reserved = {} /\ conn[c].watch = {}

\* What every step preserves.  Placement fails without NoOrphanTube (makeTube
\* would hide the jobs of a tube collected too early), which needs the counters
\* and reference counts gcTube reads; PhasesHold makes a new connection start
\* with nothing, and DistinctIds keeps a put from overwriting a job.
IInv ==
    /\ TypeOK
    /\ Placement
    /\ CountedForGc
    /\ RefCountsHold
    /\ NoOrphanTube
    /\ PhasesHold
    /\ DistinctIds
    /\ StoredIsLive

=============================================================================
