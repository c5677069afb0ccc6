------------------------------- MODULE Bench --------------------------------
(***************************************************************************)
(* The benchmark client (cmd/beanstalkd-bench): run with its producer,     *)
(* consumer and idle goroutines, the context they all watch, the signal,   *)
(* duration and drain timers that end it, and the counters of the report.  *)
(* The server is external: a put is accepted or fails, a reserve returns   *)
(* the oldest ready job, times out or fails, a reservation may run out.    *)
(* Latencies and the layout of the report are left out.                    *)
(***************************************************************************)
EXTENDS Integers, FiniteSets, FiniteSetsExt

CONSTANTS
    Modes,       \* values of -mode, among "both", "put", "reserve", "idle"
    Timings,     \* is -duration set?
    NumJobs,     \* -n
    P,           \* -producers
    Consumers,   \* the consumers, -consumers of them
    Idlers,      \* the idle connections, -idle-conns of them
    Old,         \* jobs in the tubes before the run
    MayFail,     \* may a dial or a command fail?
    MaxRefused,  \* bound: after as many refused deletes no reservation runs out
    MaxJobs      \* bound: jobs the server has ever seen

Producers == 0 .. P - 1
Jobs == 1 .. MaxJobs

ASSUME BenchAssumption ==
    /\ Modes \subseteq {"both", "put", "reserve", "idle"} /\ Timings \subseteq BOOLEAN
    /\ NumJobs \in Nat \ {0} /\ P \in Nat \ {0}
    /\ (Consumers \cup Idlers) \cap {"none", "ready", "gone"} = {}
    /\ Producers \cap (Consumers \cup Idlers) = {} /\ Consumers \cap Idlers = {}
    /\ MaxJobs \in Nat /\ Old \in 0 .. MaxJobs
    /\ MayFail \in BOOLEAN /\ MaxRefused \in Nat

VARIABLES mode, timed,
          ctx,       \* is the context done?
          main,      \* where run is
          at,        \* where each goroutine is
          i,         \* the loop variable of each producer
          held,      \* the id each consumer is about to delete
          job,       \* the server: "none", "ready", "gone" or who reserved it
          putCount, putErr, deleteCount, deleteErr,
          cut        \* history: interrupted, or out of time while draining

counts == <<putCount, putErr, deleteCount, deleteErr>>
vars == <<mode, timed, ctx, main, at, i, held, job, counts, cut>>

runProducers == mode \in {"both", "put"}
runConsumers == mode \in {"both", "reserve"}

Running == (IF runProducers THEN Producers ELSE {})
           \cup (IF runConsumers THEN Consumers ELSE {}) \cup Idlers

Ended(G) == \A g \in G \cap Running : at[g] = "ended"

Moves(g, place) == at' = [at EXCEPT ![g] = place]
-----------------------------------------------------------------------------
(* Producers. *)

\* Slip: the remainder of the division is dropped.
ShareRoundedDown(g) == IF timed THEN 0 ELSE NumJobs \div P

\* How many jobs producer g puts; 0 when a duration is given.
Share(g) ==
    IF timed THEN 0
    ELSE NumJobs \div P + (IF g < NumJobs % P THEN 1 ELSE 0)

dialProducer(g) ==
    /\ at[g] = "dial"
    /\ \/ Moves(g, "check") /\ UNCHANGED counts
       \/ /\ MayFail /\ Moves(g, "ended")
          /\ putErr' = putErr + Share(g)
          /\ UNCHANGED <<putCount, deleteCount, deleteErr>>
    /\ UNCHANGED <<mode, timed, ctx, main, i, held, job, cut>>

\* Bound: the puts made and those on their way.
Room == Old + putCount + putErr + Cardinality({g \in Producers : at[g] = "put"}) < MaxJobs

\* Slip: one job too many.
checkProducerLate(g) ==
    /\ at[g] = "check"
    /\ IF (Share(g) = 0 \/ i[g] <= Share(g)) /\ ~ctx
       THEN Room /\ Moves(g, "put")
       ELSE Moves(g, "ended")
    /\ UNCHANGED <<mode, timed, ctx, main, i, held, job, counts, cut>>

\* The head of the loop: a producer with no share goes on until the context
\* is done.
checkProducer(g) ==
    /\ at[g] = "check"
    /\ IF (Share(g) = 0 \/ i[g] < Share(g)) /\ ~ctx
       THEN Room /\ Moves(g, "put")
       ELSE Moves(g, "ended")
    /\ UNCHANGED <<mode, timed, ctx, main, i, held, job, counts, cut>>

Unused == {j \in Jobs : job[j] = "none"}

putProducer(g) ==
    /\ at[g] = "put"
    /\ \/ /\ job' = [job EXCEPT ![Min(Unused)] = "ready"]
          /\ putCount' = putCount + 1 /\ UNCHANGED putErr
       \/ /\ MayFail
          /\ putErr' = putErr + 1 /\ UNCHANGED <<job, putCount>>
    /\ i' = [i EXCEPT ![g] = IF Share(g) = 0 THEN @ ELSE @ + 1]
    /\ Moves(g, "check")
    /\ UNCHANGED <<mode, timed, ctx, main, held, deleteCount, deleteErr, cut>>

runProducer(g) == dialProducer(g) \/ checkProducer(g) \/ putProducer(g)
-----------------------------------------------------------------------------
(* Consumers. *)

dialConsumer(g) ==
    /\ at[g] = "dial"
    /\ Moves(g, "check") \/ (MayFail /\ Moves(g, "ended"))
    /\ UNCHANGED <<mode, timed, ctx, main, i, held, job, counts, cut>>

\* Slip: a consumer does not look at the context.
checkConsumerBlind(g) ==
    /\ at[g] = "check"
    /\ Moves(g, "reserve")
    /\ UNCHANGED <<mode, timed, ctx, main, i, held, job, counts, cut>>

checkConsumer(g) ==
    /\ at[g] = "check"
    /\ Moves(g, IF ctx THEN "ended" ELSE "reserve")
    /\ UNCHANGED <<mode, timed, ctx, main, i, held, job, counts, cut>>

Ready == {j \in Jobs : job[j] = "ready"}

\* A job, or a timeout or an error, after which the loop starts again.
reserveConsumer(g) ==
    /\ at[g] = "reserve"
    /\ \/ /\ Ready # {}
          /\ job' = [job EXCEPT ![Min(Ready)] = g]
          /\ held' = [held EXCEPT ![g] = Min(Ready)]
          /\ Moves(g, "delete")
       \/ Moves(g, "check") /\ UNCHANGED <<job, held>>
    /\ UNCHANGED <<mode, timed, ctx, main, i, counts, cut>>

\* The server deletes a job its client holds or nobody does.
deleteConsumer(g) ==
    /\ at[g] = "delete"
    /\ \/ /\ job[held[g]] \in {g, "ready"}
          /\ job' = [job EXCEPT ![held[g]] = "gone"]
          /\ deleteCount' = deleteCount + 1 /\ UNCHANGED deleteErr
       \/ /\ MayFail \/ job[held[g]] \notin {g, "ready"}
          /\ deleteErr' = deleteErr + 1 /\ UNCHANGED <<job, deleteCount>>
    /\ held' = [held EXCEPT ![g] = 0]
    /\ Moves(g, "check")
    /\ UNCHANGED <<mode, timed, ctx, main, i, putCount, putErr, cut>>

runConsumer(g) ==
    dialConsumer(g) \/ checkConsumer(g) \/ reserveConsumer(g) \/ deleteConsumer(g)

\* The server: a reservation runs out.
expire(j) ==
    /\ deleteErr < MaxRefused /\ job[j] \in Consumers
    /\ job' = [job EXCEPT ![j] = "ready"]
    /\ UNCHANGED <<mode, timed, ctx, main, at, i, held, counts, cut>>
-----------------------------------------------------------------------------
(* Idle connections. *)

runIdleConns(g) ==
    /\ \/ at[g] = "dial" /\ (Moves(g, "hold") \/ (MayFail /\ Moves(g, "ended")))
       \/ at[g] = "hold" /\ ctx /\ Moves(g, "ended")
    /\ UNCHANGED <<mode, timed, ctx, main, i, held, job, counts, cut>>
-----------------------------------------------------------------------------
(* run. *)

\* Ctrl-C and the -duration timer.
interrupt ==
    /\ ~ctx /\ main # "reported"
    /\ ctx' = TRUE /\ cut' = TRUE
    /\ UNCHANGED <<mode, timed, main, at, i, held, job, counts>>

timeUp ==
    /\ timed /\ ~ctx
    /\ ctx' = TRUE
    /\ UNCHANGED <<mode, timed, main, at, i, held, job, counts, cut>>

\* Slip: both mode stops with its producers.
producersDoneStops ==
    /\ main = "producers" /\ Ended(Producers)
    /\ main' = IF mode \in {"put", "both"} THEN "wait" ELSE IF mode = "idle" THEN "idle" ELSE "drain"
    /\ ctx' = (ctx \/ mode \in {"put", "both"})
    /\ UNCHANGED <<mode, timed, at, i, held, job, counts, cut>>

\* producersDone is closed; what comes next depends on the mode.
producersDone ==
    /\ main = "producers" /\ Ended(Producers)
    /\ main' = IF mode = "put" THEN "wait" ELSE IF mode = "idle" THEN "idle" ELSE "drain"
    /\ ctx' = (ctx \/ mode = "put")
    /\ UNCHANGED <<mode, timed, at, i, held, job, counts, cut>>

idleOver ==
    /\ main = "idle" /\ ctx
    /\ main' = "wait"
    /\ UNCHANGED <<mode, timed, ctx, at, i, held, job, counts, cut>>

Reached == deleteCount + deleteErr >= NumJobs

\* The drain loop looks every 50 ms, and ends at its deadline or with the
\* context.
drained ==
    /\ main = "drain" /\ Reached
    /\ main' = "wait" /\ ctx' = TRUE
    /\ UNCHANGED <<mode, timed, at, i, held, job, counts, cut>>

drainTimeout ==
    /\ main = "drain"
    /\ main' = "wait" /\ ctx' = TRUE /\ cut' = TRUE
    /\ UNCHANGED <<mode, timed, at, i, held, job, counts>>

\* wg.Wait and the report.
report ==
    /\ main = "wait" /\ Ended(Running)
    /\ main' = "reported"
    /\ UNCHANGED <<mode, timed, ctx, at, i, held, job, counts, cut>>

mainStep == producersDone \/ idleOver \/ drained \/ drainTimeout \/ report
-----------------------------------------------------------------------------
Init ==
    /\ mode \in Modes /\ timed \in Timings
    /\ ctx = FALSE /\ cut = FALSE
    /\ main = IF timed THEN "wait" ELSE "producers"
    /\ at = [g \in Producers \cup Consumers \cup Idlers |-> "dial"]
    /\ i = [g \in Producers |-> 0]
    /\ held = [g \in Consumers |-> 0]
    /\ job = [j \in Jobs |-> IF j <= Old THEN "ready" ELSE "none"]
    /\ putCount = 0 /\ putErr = 0 /\ deleteCount = 0 /\ deleteErr = 0

Over == main = "reported" /\ UNCHANGED vars

Next ==
    \/ \E g \in Producers : runProducers /\ runProducer(g)
    \/ \E g \in Consumers : runConsumers /\ runConsumer(g)
    \/ \E g \in Idlers : runIdleConns(g)
    \/ \E j \in Jobs : expire(j)
    \/ interrupt \/ timeUp \/ mainStep \/ Over

\* Goroutines are scheduled and timers fire; every command is answered in the
\* end, by a reply, a timeout or an error.  Nothing makes a user press Ctrl-C.
Fairness ==
    /\ WF_vars(mainStep) /\ WF_vars(timeUp)
    /\ \A g \in Producers : WF_vars(runProducers /\ runProducer(g))
    /\ \A g \in Consumers : WF_vars(runConsumers /\ runConsumer(g))
    /\ \A g \in Idlers : WF_vars(runIdleConns(g))

Spec == Init /\ [][Next]_vars /\ Fairness
-----------------------------------------------------------------------------
(* Properties. *)

TypeOK ==
    /\ mode \in Modes /\ timed \in BOOLEAN /\ ctx \in BOOLEAN /\ cut \in BOOLEAN
    /\ main \in {"producers", "idle", "drain", "wait", "reported"}
    /\ at \in [Producers \cup Consumers \cup Idlers ->
                  {"dial", "check", "put", "reserve", "delete", "hold", "ended"}]
    /\ i \in [Producers -> 0 .. NumJobs \div P + 1]
    /\ held \in [Consumers -> Jobs \cup {0}]
    /\ job \in [Jobs -> {"none", "ready", "gone"} \cup Consumers]
    /\ counts \in Nat \X Nat \X Nat \X Nat

\* -n is the total of jobs to put: the shares of the producers add up to it,
\* and a run that nobody cuts short accounts for every one of them.
PutsExactly ==
    runProducers /\ ~timed =>
        /\ putCount + putErr <= NumJobs
        /\ main = "reported" /\ ~cut => putCount + putErr = NumJobs

\* In both mode the run stops once the consumers have caught up or the drain
\* timeout is over: in a run that was not cut short the jobs left behind are
\* at most the deletes that failed or came after the reservation, which the
\* drain loop counts as done.
CaughtUp ==
    mode = "both" /\ ~timed /\ Old = 0 /\ main = "reported" /\ ~cut =>
        Cardinality({j \in Jobs : job[j] \notin {"none", "gone"}}) <= deleteErr

\* A run with a duration or a number of jobs ends and prints its report,
\* whatever fails on the way.
Reports == (mode # "idle" \/ timed) => <>(main = "reported")
=============================================================================
