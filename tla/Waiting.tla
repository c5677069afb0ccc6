------------------------------ MODULE Waiting ------------------------------
(***************************************************************************)
(* Blocked reserves of beanstalkd-pi, with a clock: how a connection that  *)
(* found no job registers with the tubes it watches, parks on its wake     *)
(* channel and a timer, and is made to look again by whatever turns a job  *)
(* ready, by the clock, or not at all.                                     *)
(*                                                                         *)
(* Every action but wakeUp runs under Server.mu.  Time is a counter: one   *)
(* step is any time long enough to tell two deadlines apart.  Priorities,  *)
(* tube collection and storage are Broker's; here a connection's watch     *)
(* list is fixed, because it cannot change while the connection is blocked.*)
(* Shutdown (closeCh) ends the process and is left out.                    *)
(***************************************************************************)
EXTENDS Integers, FiniteSets

CONSTANTS
    Conns,      \* worker connections
    NoConn,     \* nil in Job.Reserver
    Jobs,       \* jobs that may exist at a time
    NoJob,      \* nil in Conn.soonestJob
    Tubes,
    Watch,      \* [Conns -> SUBSET Tubes], Conn.WatchMap
    MaxTime,    \* bound on the clock
    TTR,        \* [Jobs -> Nat], Job.TTR: each job has its own time to run
    Margin,     \* safetyMargin
    Timeouts,   \* positive timeouts of reserve-with-timeout
    Delays,     \* delays of put and release, 0 for none
    Pausable,   \* tubes the clients pause
    Pauses      \* lengths of pause-tube

ASSUME WaitingAssumption ==
    /\ IsFiniteSet(Conns) /\ NoConn \notin Conns /\ NoJob \notin Jobs
    /\ Tubes # {} /\ Watch \in [Conns -> SUBSET Tubes]
    /\ MaxTime \in Nat /\ TTR \in [Jobs -> Nat \ {0}] /\ Margin \in Nat
    /\ Pausable \subseteq Tubes
    /\ Timeouts \subseteq Nat \ {0} /\ Delays \subseteq Nat /\ Pauses \subseteq Nat \ {0}

\* An instant the clock does not reach: no timeout, no timer.
Never == MaxTime + 1

VARIABLES
    now,       \* time.Now()
    job,       \* [Jobs -> Job]
    pause,     \* Tube.UnpauseAt while Tube.Pause is set, otherwise 0
    conn,      \* [Conns -> Conn]
    waiters,   \* Tube.WaitingConns
    waitingCt  \* Tube.Stat.WaitingCt

vars == <<now, job, pause, conn, waiters, waitingCt>>

JobStates == {"none", "ready", "delayed", "reserved", "buried"}
Phases    == {"command", "checking", "parked"}

\* deadline: DeadlineAt of a reserved or delayed job.
Job == [state: JobStates, tube: Tubes, reserver: Conns \cup {NoConn}, deadline: Nat]

\* token: wakeCh, a channel of capacity one, is full.
Conn == [phase: Phases, token: BOOLEAN, timeoutAt: Nat, timer: Int,
         soonest: Jobs \cup {NoJob}]

Idle == [phase |-> "command", token |-> FALSE, timeoutAt |-> Never,
         timer |-> Never, soonest |-> NoJob]

-----------------------------------------------------------------------------
Commanding(c) == conn[c].phase = "command"
Blocked(c)    == conn[c].phase # "command"

Ready(t) == {j \in Jobs : job[j].state = "ready" /\ job[j].tube = t}

Holding(c) == {j \in Jobs : job[j].state = "reserved" /\ job[j].reserver = c}

\* isPaused answers no; it clears Tube.Pause when the time is over.
Open(t) == pause[t] <= now

Reopen(ts) == [t \in Tubes |-> IF t \in ts /\ Open(t) THEN 0 ELSE pause[t]]

\* The tubes a reserve of c may take from (hasReadyJobLocked, findJobForConn).
Offers(c) == {t \in Watch[c] : Ready(t) # {} /\ Open(t)}

\* Slip: the signal is not sent.
wakeNobody(conns, t) == conns

\* wakeWaitersForTube: a full wake channel stays full.
wakeWaitersForTube(conns, t) ==
    [c \in Conns |-> IF c \in waiters[t] THEN [conns[c] EXCEPT !.token = TRUE]
                                         ELSE conns[c]]

\* getSoonestJob: the cached job, or one with the least deadline.
getSoonestJob(c) ==
    IF conn[c].soonest # NoJob \/ Holding(c) = {} THEN conn[c].soonest
    ELSE CHOOSE j \in Holding(c) : \A k \in Holding(c) : job[j].deadline <= job[k].deadline

hasDeadlineSoon(c) ==
    /\ getSoonestJob(c) # NoJob
    /\ job[getSoonestJob(c)].deadline - now <= Margin

\* Slip: the timer follows the reserve timeout and forgets the held jobs.
NextTimerForgetsJobs(c) == conn[c].timeoutAt

\* Slip: a held job's deadline hides the reserve timeout.
NextTimerForgetsTimeout(c) ==
    IF getSoonestJob(c) = NoJob THEN Never ELSE job[getSoonestJob(c)].deadline - Margin

\* The instant checkWait reports: DEADLINE_SOON or the timeout, the earlier.
NextTimer(c) ==
    LET s == getSoonestJob(c)
        d == IF s = NoJob THEN Never ELSE job[s].deadline - Margin
    IN  IF conn[c].timeoutAt < d THEN conn[c].timeoutAt ELSE d

\* The jobs once j is held by nobody, in state s of tube t, due at d.
Filed(j, s, t, d) ==
    [job EXCEPT ![j] = [state |-> s, tube |-> t, reserver |-> NoConn, deadline |-> d]]

\* A job that is not in the index.
Gone == [state |-> "none", tube |-> CHOOSE t \in Tubes : TRUE, reserver |-> NoConn, deadline |-> 0]

\* The job j of tube t turns ready, in the connections conns.
TurnsReady(j, t, conns) ==
    /\ job' = Filed(j, "ready", t, 0)
    /\ conn' = wakeWaitersForTube(conns, t)

\* unreserveJob forgets the cached soonest job.
Uncached(c) == [conn EXCEPT ![c].soonest = NoJob]

-----------------------------------------------------------------------------
(* reserve. *)

\* Slip: reserveJob leaves the cached soonest job as it is.
TakeKeepsCache(c, cl) ==
    /\ \E t \in Offers(c) : \E j \in Ready(t) :
          job' = [job EXCEPT ![j].state = "reserved", ![j].reserver = c,
                             ![j].deadline = now + TTR[j]]
    /\ conn' = [conn EXCEPT ![c] = cl]
    /\ pause' = Reopen(Watch[c])

\* Some ready job on offer goes to c; cl is c's record before.
Take(c, cl) ==
    /\ \E t \in Offers(c) : \E j \in Ready(t) :
          job' = [job EXCEPT ![j].state = "reserved", ![j].reserver = c,
                             ![j].deadline = now + TTR[j]]
    /\ conn' = [conn EXCEPT ![c] = [cl EXCEPT !.soonest = NoJob]]
    /\ pause' = Reopen(Watch[c])

\* The answer DEADLINE_SOON; getSoonestJob has filled the cache.
Answered(c) == [conn[c] EXCEPT !.soonest = getSoonestJob(c)]

doReserve(c, timeout) ==
    /\ Commanding(c)
    /\ \/ /\ hasDeadlineSoon(c) /\ Offers(c) = {}
          /\ conn' = [conn EXCEPT ![c] = Answered(c)]
          /\ UNCHANGED <<now, job, pause, waiters, waitingCt>>
       \/ Take(c, conn[c]) /\ UNCHANGED <<now, waiters, waitingCt>>
       \/ /\ ~hasDeadlineSoon(c) /\ Offers(c) = {}
          /\ conn' = [conn EXCEPT ![c] = [Answered(c) EXCEPT !.phase = "checking",
                                                             !.timeoutAt = timeout]]
          /\ pause' = Reopen(Watch[c])
          /\ waiters' = [t \in Tubes |-> IF t \in Watch[c] THEN waiters[t] \cup {c}
                                                           ELSE waiters[t]]
          /\ waitingCt' = [t \in Tubes |-> waitingCt[t] + (IF t \in Watch[c] THEN 1 ELSE 0)]
          /\ UNCHANGED <<now, job>>

doReserveImmediate(c) ==
    /\ Commanding(c)
    /\ \/ Take(c, conn[c])
       \/ Offers(c) = {} /\ pause' = Reopen(Watch[c]) /\ UNCHANGED <<job, conn>>
    /\ UNCHANGED <<now, waiters, waitingCt>>

handleReserveJob(c, j) ==
    /\ Commanding(c)
    /\ job[j].state \in {"ready", "delayed", "buried"}
    /\ job' = [job EXCEPT ![j].state = "reserved", ![j].reserver = c,
                          ![j].deadline = now + TTR[j]]
    /\ conn' = Uncached(c)
    /\ UNCHANGED <<now, pause, waiters, waitingCt>>

\* Slip: WaitingCt goes down twice.
clearWaitingTwice(c) ==
    /\ waiters' = [t \in Tubes |-> IF t \in Watch[c] THEN waiters[t] \ {c} ELSE waiters[t]]
    /\ waitingCt' = [t \in Tubes |-> waitingCt[t] - (IF t \in Watch[c] THEN 2 ELSE 0)]

\* Slip: the connection stays on the waiting lists.
clearWaitingStaysListed(c) ==
    /\ waitingCt' = [t \in Tubes |-> waitingCt[t] - (IF t \in Watch[c] THEN 1 ELSE 0)]
    /\ UNCHANGED waiters

clearWaitingLocked(c) ==
    /\ waiters' = [t \in Tubes |-> IF t \in Watch[c] THEN waiters[t] \ {c} ELSE waiters[t]]
    /\ waitingCt' = [t \in Tubes |-> waitingCt[t] - (IF t \in Watch[c] THEN 1 ELSE 0)]

Unblocked(c) == [Answered(c) EXCEPT !.phase = "command", !.timeoutAt = Never, !.timer = Never]

\* DEADLINE_SOON, then TIMED_OUT, then a ready job, then back to sleep until
\* the next instant that matters.  Looking for a ready job behind a deadline
\* reopens the tube it is found in.
checkWait(c) ==
    /\ conn[c].phase = "checking"
    /\ \/ /\ hasDeadlineSoon(c) /\ Offers(c) = {}
          /\ clearWaitingLocked(c)
          /\ conn' = [conn EXCEPT ![c] = Unblocked(c)]
          /\ UNCHANGED <<job, pause>>
       \/ /\ ~(hasDeadlineSoon(c) /\ Offers(c) = {})
          /\ now >= conn[c].timeoutAt
          /\ clearWaitingLocked(c)
          /\ conn' = [conn EXCEPT ![c] = Unblocked(c)]
          /\ \/ ~hasDeadlineSoon(c) /\ UNCHANGED pause
             \/ hasDeadlineSoon(c) /\ \E t \in Offers(c) : pause' = Reopen({t})
          /\ UNCHANGED job
       \/ /\ now < conn[c].timeoutAt
          /\ Take(c, Unblocked(c))
          /\ clearWaitingLocked(c)
       \/ /\ ~hasDeadlineSoon(c) /\ Offers(c) = {} /\ now < conn[c].timeoutAt
          /\ conn' = [conn EXCEPT ![c] = [Answered(c) EXCEPT !.phase = "parked",
                                                             !.timer = NextTimer(c)]]
          /\ pause' = Reopen(Watch[c])
          /\ UNCHANGED <<job, waiters, waitingCt>>
    /\ UNCHANGED now

\* Slip: only the timer ends the wait.
wakeUpByTimer(c) ==
    /\ conn[c].phase = "parked"
    /\ now >= conn[c].timer
    /\ conn' = [conn EXCEPT ![c].phase = "checking", ![c].timer = Never]
    /\ UNCHANGED <<now, job, pause, waiters, waitingCt>>

\* The select of waitForReserve: a signal or the timer, which is then stopped.
wakeUp(c) ==
    /\ conn[c].phase = "parked"
    /\ \/ /\ conn[c].token
          /\ conn' = [conn EXCEPT ![c].phase = "checking", ![c].timer = Never, ![c].token = FALSE]
       \/ /\ now >= conn[c].timer
          /\ conn' = [conn EXCEPT ![c].phase = "checking", ![c].timer = Never]
    /\ UNCHANGED <<now, job, pause, waiters, waitingCt>>

-----------------------------------------------------------------------------
(* What turns jobs ready, and what ends reservations. *)

\* enqueueJob: into the ready or the delay heap.
Enqueued(j, t, d, conns) ==
    \/ d = 0 /\ TurnsReady(j, t, conns)
    \/ d > 0 /\ job' = Filed(j, "delayed", t, now + d) /\ conn' = conns

\* A failed delivery that does not go back: dropped with its tombstoned tube,
\* or buried in a dead-letter tube.  Broker says when; here it may be any.
Diverted(j, conns) ==
    /\ \/ job' = [job EXCEPT ![j] = Gone]
       \/ \E t \in Tubes : job' = Filed(j, "buried", t, 0)
    /\ conn' = conns

finishPut(j, t, d) ==
    /\ job[j].state = "none"
    /\ Enqueued(j, t, d, conn)
    /\ UNCHANGED <<now, pause, waiters, waitingCt>>

handleRelease(c, j, d) ==
    /\ Commanding(c) /\ j \in Holding(c)
    /\ Enqueued(j, job[j].tube, d, Uncached(c)) \/ Diverted(j, Uncached(c))
    /\ UNCHANGED <<now, pause, waiters, waitingCt>>

\* Anybody deletes a job that is not reserved, its holder a reserved one.
handleDelete(c, j) ==
    /\ Commanding(c)
    /\ job[j].state \in {"ready", "delayed", "buried"} \/ j \in Holding(c)
    /\ job' = [job EXCEPT ![j] = Gone]
    /\ conn' = IF j \in Holding(c) THEN Uncached(c) ELSE conn
    /\ UNCHANGED <<now, pause, waiters, waitingCt>>

\* A job of a tombstoned tube is dropped here too.
handleBury(c, j) ==
    /\ Commanding(c) /\ j \in Holding(c)
    /\ job' \in {Filed(j, "buried", job[j].tube, 0), [job EXCEPT ![j] = Gone]}
    /\ conn' = Uncached(c)
    /\ UNCHANGED <<now, pause, waiters, waitingCt>>

handleTouch(c, j) ==
    /\ Commanding(c) /\ j \in Holding(c)
    /\ job' = [job EXCEPT ![j].deadline = now + TTR[j]]
    /\ conn' = Uncached(c)
    /\ UNCHANGED <<now, pause, waiters, waitingCt>>

\* kick, kick-tube and kick-job.
kick(j) ==
    /\ job[j].state \in {"buried", "delayed"}
    /\ TurnsReady(j, job[j].tube, conn)
    /\ UNCHANGED <<now, pause, waiters, waitingCt>>

tickPromote(j) ==
    /\ job[j].state = "delayed" /\ job[j].deadline <= now
    /\ TurnsReady(j, job[j].tube, conn)
    /\ UNCHANGED <<now, pause, waiters, waitingCt>>

tickExpire(j) ==
    /\ job[j].state = "reserved" /\ job[j].deadline < now
    /\ \/ TurnsReady(j, job[j].tube, Uncached(job[j].reserver))
       \/ Diverted(j, Uncached(job[j].reserver))
    /\ UNCHANGED <<now, pause, waiters, waitingCt>>

\* Slip: tick reopens the tube and tells nobody.
tickUnpauseSilently(t) ==
    /\ pause[t] # 0 /\ Open(t)
    /\ pause' = [pause EXCEPT ![t] = 0]
    /\ UNCHANGED <<now, job, conn, waiters, waitingCt>>

tickUnpause(t) ==
    /\ pause[t] # 0 /\ Open(t)
    /\ pause' = [pause EXCEPT ![t] = 0]
    /\ conn' = wakeWaitersForTube(conn, t)
    /\ UNCHANGED <<now, job, waiters, waitingCt>>

handlePauseTube(t, d) ==
    /\ pause' = [pause EXCEPT ![t] = now + d]
    /\ UNCHANGED <<now, job, conn, waiters, waitingCt>>

\* list-tubes-paused and the metrics page ask isPaused of every tube.
formatListTubesPaused ==
    /\ pause' = Reopen(Tubes)
    /\ UNCHANGED <<now, job, conn, waiters, waitingCt>>

\* The client of c goes, its jobs go back, or go with their tubes ts that are
\* tombstoned, and a new client takes its place.
Close(c) ==
    /\ Commanding(c)
    /\ \E ts \in SUBSET Tubes :
          LET back == {j \in Holding(c) : job[j].tube \notin ts} IN
          /\ job' = [j \in Jobs |->
                       IF j \in back THEN [job[j] EXCEPT !.state = "ready", !.reserver = NoConn,
                                                         !.deadline = 0]
                       ELSE IF j \in Holding(c) THEN Gone ELSE job[j]]
          /\ conn' = [d \in Conns |->
                        IF d = c THEN Idle
                        ELSE IF \E j \in back : d \in waiters[job[j].tube]
                        THEN [conn[d] EXCEPT !.token = TRUE]
                        ELSE conn[d]]
    /\ UNCHANGED <<now, pause, waiters, waitingCt>>

Advance ==
    /\ now < MaxTime
    /\ now' = now + 1
    /\ UNCHANGED <<job, pause, conn, waiters, waitingCt>>

-----------------------------------------------------------------------------
Init ==
    /\ now = 0
    /\ job = [j \in Jobs |-> Gone]
    /\ pause = [t \in Tubes |-> 0]
    /\ conn = [c \in Conns |-> Idle]
    /\ waiters = [t \in Tubes |-> {}]
    /\ waitingCt = [t \in Tubes |-> 0]

ConnNext(c) ==
    \/ doReserve(c, Never)
    \/ \E d \in Timeouts : now + d <= MaxTime /\ doReserve(c, now + d)
    \/ doReserveImmediate(c) \/ checkWait(c) \/ wakeUp(c) \/ Close(c)
    \/ \E j \in Jobs : \/ handleReserveJob(c, j) \/ handleDelete(c, j)
                       \/ handleBury(c, j) \/ handleTouch(c, j)
                       \/ \E d \in Delays : handleRelease(c, j, d)

tick ==
    \/ \E j \in Jobs : tickPromote(j) \/ tickExpire(j)
    \/ \E t \in Tubes : tickUnpause(t)

\* Clients that do not reserve.
OtherNext ==
    \/ \E j \in Jobs, t \in Tubes, d \in Delays : finishPut(j, t, d)
    \/ \E j \in Jobs : kick(j)
    \/ \E t \in Pausable, d \in Pauses : now + d <= MaxTime /\ handlePauseTube(t, d)
    \/ formatListTubesPaused

Next == (\E c \in Conns : ConnNext(c)) \/ tick \/ OtherNext \/ Advance

\* Goroutines are scheduled, tick runs every 100ms, time passes.  Nothing is
\* assumed of the clients.
Fairness ==
    /\ \A c \in Conns : WF_vars(checkWait(c)) /\ WF_vars(wakeUp(c))
    /\ \A j \in Jobs : WF_vars(tickPromote(j)) /\ WF_vars(tickExpire(j))
    /\ \A t \in Tubes : WF_vars(tickUnpause(t))
    /\ WF_vars(Advance)

Spec == Init /\ [][Next]_vars /\ Fairness

-----------------------------------------------------------------------------
(* Properties. *)

\* Every variable has the type the code gives it, and WaitingCt, which doReserve
\* and clearWaitingLocked move up and down, is never negative.
TypeOK ==
    /\ now \in 0 .. MaxTime
    /\ job \in [Jobs -> Job]
    /\ pause \in [Tubes -> Nat]
    /\ conn \in [Conns -> Conn]
    /\ waiters \in [Tubes -> SUBSET Conns]
    /\ waitingCt \in [Tubes -> Nat]

\* A connection is on the waiting list of a tube exactly while it is blocked
\* and watches the tube, and WaitingCt is the length of the list.
WaitersHold ==
    \A t \in Tubes :
        /\ waiters[t] = {c \in Conns : Blocked(c) /\ t \in Watch[c]}
        /\ waitingCt[t] = Cardinality(waiters[t])

\* Connection c sleeps beside a ready job of the open tube t.
Missed(c, t) ==
    /\ conn[c].phase = "parked" /\ ~conn[c].token
    /\ pause[t] = 0 /\ Ready(t) # {}

\* No wake-up is lost on a tube that nobody pauses: a parked connection without
\* a signal has no ready job in such a tube it watches.  Between checkWait's
\* unlock and the select a put, a release, a kick, a promotion, a TTR expiry or
\* a disconnect may make one ready; the buffered channel must remember it.
NoLostWakeup ==
    \A c \in Conns : \A t \in Watch[c] \ Pausable : ~Missed(c, t)

\* On any tube, paused or not, a wake-up is lost in one way only: the pause of a
\* tube with ready jobs is over and somebody other than tick clears it.  What
\* turns a job ready, and tick's own unpausing, reaches whoever sleeps.
LostOnlyByReopening ==
    [][\A c \in Conns : \A t \in Watch[c] :
          Missed(c, t)' => \/ Missed(c, t)
                           \/ pause[t] # 0 /\ Open(t) /\ ~tickUnpause(t)]_vars

\* The soonest job a connection has cached is one it holds, with the least
\* deadline: every way to gain, lose or touch a job must drop the cache.  A
\* job gained later may be due earlier, because each has its own TTR.
SoonestFresh ==
    \A c \in Conns : conn[c].soonest # NoJob =>
        /\ conn[c].soonest \in Holding(c)
        /\ \A j \in Holding(c) : job[conn[c].soonest].deadline <= job[j].deadline

\* The timer of a parked connection is set no later than the reserve timeout
\* and than the safety margin of every job it holds, whatever tick and other
\* clients did to those jobs since.
TimerCovers ==
    \A c \in Conns : conn[c].phase = "parked" =>
        /\ conn[c].timer <= conn[c].timeoutAt
        /\ \A j \in Holding(c) : conn[c].timer <= job[j].deadline - Margin

\* A reserve blocked beside a ready job of the open tube t is answered, unless
\* somebody else takes the job or the tube is paused (again).
ServedFrom(c, t) ==
    (Blocked(c) /\ Ready(t) # {} /\ pause[t] = 0)
        ~> (~Blocked(c) \/ Ready(t) = {} \/ pause[t] # 0)

\* wakeWaitersForTube and the loop of waitForReserve leave no reserve blocked
\* beside a ready job of a tube that nobody pauses.
UnpausedIsServed == \A c \in Conns : \A t \in Watch[c] \ Pausable : ServedFrom(c, t)

\* The same of every tube, the paused ones included once their pause is over.
BlockedIsServed == \A c \in Conns : \A t \in Watch[c] : ServedFrom(c, t)

\* reserve-with-timeout is answered, even if nothing ever turns ready.
TimeoutAnswered ==
    \A c \in Conns : (Blocked(c) /\ conn[c].timeoutAt # Never) ~> ~Blocked(c)

=============================================================================
