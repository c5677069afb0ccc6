# A TLA+ development for beanstalkd-pi

beanstalkd-pi is a work queue server in Go: producers `put` jobs into named
tubes, workers `reserve` them, and a job that is not deleted in its time to run
(TTR) goes back to its tube. This directory models the server's core, checks it
with TLC on small instances and proves its main invariants with TLAPS for every
instance. File names such as `server.go:262` are relative to `src/`.

## The system

| Component | State | Operations |
|---|---|---|
| Tubes and job index (`server.go`, `tube.go`, `job.go`, `index.go`) | `Server.tubes`, `jobIdx`; per tube a ready heap, a delay heap, a buried list, counters, `UsingCt`, `WatchingCt`, a pause, a tombstone, a dead-letter policy | `makeTube`, `gcTube`, `enqueueJob`, `findJobForConn`, `deleteJob`, `purgeTube`, `checkDeadLetter`, `dropOrReenqueue` |
| Connections (`conn.go`, `protocol.go`) | phase, used tube, watch list, reserved list, job being put, wake channel, cached soonest job, timeout | one handler per command, `reenqueueReservedJobs` on disconnect |
| Blocked reserves (`protocol.go`, `conn.go`) | `Tube.WaitingConns`, `WaitingCt`, the wake channel | `doReserve`, `checkWait`, `waitForReserve`, `wakeWaitersForTube` |
| Tick (`server.go:397`) | the clock | promotes delayed jobs, reopens paused tubes, expires TTRs, every 100 ms |
| Drain mode | `Server.drainMode` | SIGUSR1, `drain` |
| Persistence (`persistence*.go`) | an in-memory batch and a SQLite file | `StoreJob`, `DeleteJob`, `LoadAllJobs`, `flush`, `Sync`, `Close` |
| Recovery (`NewServer`) | | files the stored jobs again, sets `nextID` |
| Heap (`heap.go`) | an array and the index stored in each job | `Push`, `Pop`, `Remove`, `Fix` |
| Views (`protocol.go`, `conn_stats.go`, `list_jobs.go`, `tube_all.go`, `metrics.go`) | none | peek, statistics, listings, the metrics snapshot |
| Benchmark client (`cmd/beanstalkd-bench`) | goroutines, a context, counters | `run`, `runProducer`, `runConsumer`, `runIdleConns` |

Each connection has a goroutine; tick has one; the SQLite adapter has one. A
handler holds `Server.mu` from its first read to its last write, with three
exceptions that matter: a `put` gives the lock up while the body arrives; a
blocked reserve gives it up between a look and the sleep after it; the adapter
writes its batches later, under a lock of its own.

What is hard here:

* **Tube collection.** `gcTube` decides from four counters and two heap sizes
  that nothing points to a tube. If it is wrong once, a second tube of the same
  name appears and jobs vanish from view.
* **Redundant bookkeeping.** A job is in one of five places, each linked and
  unlinked by hand, and counted in its tube and in the server.
* **Tombstones and dead letters.** `delete-tube`, later puts, the end of
  reservations and dead-letter routing meet in any order.
* **Signals.** Nothing polls for a blocked reserve: some ten sites must signal.
* **Restart.** The queues are rebuilt from a few columns, and a killed process
  leaves whatever batches were committed by then.
* **The adapter.** Calls are acknowledged before they are on disk; a loop, a
  ticker, a full queue and `Close` all flush, over one connection, while the
  clients go on calling until the process is gone.
* **The heap.** A job is taken out by the index it keeps; `Remove` fills the gap
  with a job that may have to go either way.

`PROJECT.json` lists the hazards at their lines, each with the properties that
would catch it.

## Modules

`Broker` is the core: the job index, tubes, connections, counters, storage as
the adapter was told of it, drain mode and recovery. Each handler is an action
under the handler's name, with the trailing calls (`gcTube`, `persistJob`,
counters, dead-letter check) inside it. `put` is `startPut` and `finishPut`
(or `badBody`, `bitBucketDone`, `refusePut`). Time is abstract: a delay, a TTR
or a pause may be over at any moment, so a blocked reserve may look again at any
moment. A heap is the set it holds. One iteration of one of tick's loops is an
action. `doomed` is a history variable: the jobs that were reserved when their
tube was deleted.

| State in `Broker` | In the code |
|---|---|
| `job[j].state`, `tube`, `pri`, `delay`, `attempts`, `reserver` | `Job.State`, `Tube`, `Pri`, `Delay`/`ReadyAt`, `ReleaseCt + TimeoutCt`, `Reserver`; state `"invalid"` is a job that is not in `jobIdx` |
| `tube[t].live` | `t` is in `Server.tubes` |
| `tube[t].ct`, `using`, `watching`, `paused`, `tombstoned`, `max`, `dead` | `Tube.Stat`, `Pause # 0`, `Tombstoned`, `MaxAttempts`, `DeadLetterTube` |
| `conn[c]` | `Conn`: phase, `UseTube`, `WatchMap`, reserved list, `inJob` |
| `count` | the server-wide counters |
| `saved` | what the last `StoreJob` or `DeleteJob` said of each job |

`Waiting` is the blocked reserve with a clock: waiting lists, the wake channel
of capacity one (`token`), the timer, the cached soonest job, `DEADLINE_SOON`,
`TIMED_OUT`, `touch`, pauses. Each job has its own TTR, so that a job reserved
later may be due earlier. The tombstone and the dead-letter policy of a tube are
Broker's: here a release, a bury, an expiry or a disconnect may always drop the
job, a release or an expiry bury it in some tube. The look (`checkWait`, under the lock) and the
sleep (`wakeUp`, without it) are separate actions, and everybody else may act
between them. Any ready job on offer may be taken: priorities are Broker's. The
watch list is fixed since it cannot change while its owner is blocked. A client
that goes away while blocked is noticed only after the reserve is answered
(nobody reads the socket before), so `Close` needs a connection that awaits a
command.

`Store` is the SQLite adapter: the queue of pending operations, the token channel
of capacity one, the two goroutines that can be inside `flush` (`writeLoop` and
`Close`) with a program counter each (the batch is taken under `p.mu`, then waits
for the only connection, then is executed statement by statement and committed or
lost), `Close` within the shutdown sequence of `Run`, kills and starts. The server
goes on calling while it shuts down, as its open connections do. Nothing in the
repository but a test calls `Sync`; it is left out. History variables remember the
calls (without those of failed batches), the committed operations, and how many
calls there were when `Close` took its batch (`last`). `DurableLog` is what the
persistence port promises: a log of which a prefix is durable, the end of the
process keeps that prefix, and a write that fails takes the block after it.
`Store` implements it with `log <- IF Up THEN calls ELSE done, mark <- Len(done)`.

`Durable` composes the broker with the adapter. It extends `Broker`; a handler
tells the adapter, a batch may be taken at any moment, also in the middle of a
handler (any subset of the handler's writes is then in the batch, more than the
code's order allows), and is committed later; the process may be killed at any
moment and the next one recovers from the committed table with the `Recover` of
`Broker`. `kept` and `gone` are history variables.

`Heap` is `heap.go`: the array, the index each job keeps, and `siftUp` and
`siftDown` one swap at a time (the names in the code: `siftDown` moves a job
towards the root). `PriorityQueue` is what `Broker` takes a heap for, a set with
a least member; `Heap` implements it, so the composition of the two is the code.
`ListJobs` is the listing of a heap: copied, sorted, cut at the limit.

`Views` extends `Broker` with what operators see: `peek`, `peek-tube`,
`list-jobs`, `stats-job`, `stats-tube`, `stats-tube-all`, `stats-conn`,
`list-connections`, `list-tubes` and the metrics snapshot, each a function of the
broker's state.

`Bench` is the benchmark client: main, producers, consumers and idle connections
as processes, the context, Ctrl-C, the duration and drain timers, failing dials
and commands, reservations that run out. The server behind it is external.

The `MC` modules give the constants their values for TLC. The modules ending in
`Proofs` hold the proofs, and `SumLemmas` what they need to know of sums. A
definition whose comment begins with "Slip" is a plausible mistake in the
definition after it; it is used only to show that a property notices that mistake.

## Runs

| Run | Instance | Shows |
|---|---|---|
| `core` | 2 clients, 2 tubes, 2 jobs, kicks of 1 and 2 | `Placement`, `NoOrphanTube`, `RefCountsHold`, `DistinctIds`, `TombstonedIsEmpty`; the views `EveryJobListed`, `PagesAgree`; the action properties `EmptyTubeCollected`, `DroppedOnlyIfDoomed` |
| `policy` | 1 client, 2 tubes, 1 job, all features: 2 priorities, delays, put-at, a pausable tube, drain, policies in a cycle | `IInv` (with `TypeOK`), `CountersHold`, `StoredIsLive`; the action properties `DrainStops`, `DeadLetterPolicy` |
| `wait` | 2 workers with overlapping watch lists, 2 jobs with TTRs 1 and 2, 2 tubes of which one is paused, 3 instants | `TypeOK`, `WaitersHold`, `NoLostWakeup`, `SoonestFresh`, `TimerCovers`; the action property `LostOnlyByReopening`; the liveness properties `UnpausedIsServed`, `TimeoutAnswered` |
| `store` | 2 ids, batches of 2, 3 calls, 3 starts; failing statements, calls while `Close` runs | `TypeOK`, `WholeBatches`, `NothingSkipped`, `CleanShutdown`; that `Store` implements `DurableLog` with its liveness (`KeepsPromise`); liveness `ShutdownEnds` |
| `durable` | 1 client, 2 tubes, 2 jobs, kills at any point | `IInv`, `CommittedKept`, `GoneStaysGone` |
| `heap` | 6 jobs, 2 keys, limits 0, 1, 2, 5 and none | `TypeOK`, `PositionsHold`, `SiftOrder`, `IsPriorityQueue` (refinement), `ServedAsListed` |
| `bench` | 2 producers, 2 consumers, 1 idle connection, `-n 3`, all modes | `TypeOK`, `PutsExactly`, `CaughtUp`; liveness `Reports` |
| `leak`, `dlqtomb`, `doomed`, `lostwake`, `late` | | one finding each, below |

Bounds. `MaxId` bounds the ids given out in a behaviour (they are reused after a
restart that finds them free, as in the code). The code never gives out id 1, so
`MaxId = 3` is two jobs and `MaxId = 2` is one: two are enough for an order
between jobs, for one job to keep a tube alive while another leaves it, and for
a put beside a filed job. `MaxReserved` stops reserves when the server's reserved counter, which a
disconnect leaves too high, reaches it. A policy's threshold is the only number
failed deliveries are compared with: they are counted up to the highest one set.
`MaxTime` ends the clock: in `wait`, three instants with TTRs of 2 and 1 and a
timeout of 2 let a job taken second be due first, a job expire before or after its
owner's timer is served, and a timeout fall beside a deadline. The margin is 0
there: a margin shifts the timer, and with it a job could not expire beside a
sleeping owner within these instants. Jobs due later than `MaxTime` stay as they
are, which the liveness properties allow for.
In `Store`, `MaxCalls` counts the calls remembered at a time: with batches of two
a third call arrives while a batch is in flight, and `MaxStarts` lets a process
be killed, be shut down and start again. Six jobs are the fewest for which
`Remove` must move the last job towards the root. In `Bench`, shares of 2 and 1
show the remainder, and one refused delete (`MaxRefused`) shows a reservation
that runs out under a consumer; `MaxJobs` equals `-n`. Connections are symmetric
in `Broker`. They are not in `Waiting`, and no symmetry is used with liveness.
Deadlock is checked everywhere but in `Store`, where a process that is gone may
stay so.

Fairness:

* `Waiting`: `checkWait` and `wakeUp` (the goroutine of a blocked connection is
  runnable and the scheduler runs it), the three parts of `tick` (a 100 ms ticker
  drives it for as long as the server runs) and the clock. Clients owe nothing:
  they may hold jobs for ever, never send a command and never leave.
* `Store`: every flusher goes on, the ticker ticks, `Close` goes on. `loopStop`
  is strongly fair: the select of `writeLoop` picks at random among the channels
  that are ready, so `stopCh`, once closed, is picked some time even if the
  ticker fires again and again. Nobody owes a call, a signal or a start.
* `Bench`: weak fairness of main, of the goroutines and of the timers; the server
  answers every command, if only with an error. Nobody owes a Ctrl-C.
* `Broker`, `Durable`, `Heap`: safety only.

## What is proved

`BrokerProofs` proves, for any finite sets of connections and tubes, any
priorities, delays, policies and bounds (`ConnsAssumption`, `TubesAssumption`,
`InputAssumption`: finite sets, `Default` is a tube, inputs have their types):

* `BrokerInvariant`: `Spec => []IInv`;
* from it `TypeCorrect`, `JobsPlaced` (`Placement`), `NoTubeOrphaned`
  (`NoOrphanTube`), `RefsCorrect` (`RefCountsHold`), `StoreFollowsIndex`
  (`StoredIsLive`), `IdsDistinct` (`DistinctIds`);
* `DrainHolds` (`DrainStops`, an action property): in drain mode nothing is
  admitted. Its core is `Admits`: a job enters the index only as the end of a put
  in progress, and a put in progress begins only while drain mode is off;
* in `ViewsProofs`, `OperatorsFindJobs` (`EveryJobListed`).

None of these is inductive by itself. `Placement` needs `NoOrphanTube`: if a tube
with jobs could be collected, `makeTube` would replace it by an empty one.
`NoOrphanTube` needs the numbers `gcTube` reads: the reference counts exact, the
buried counter equal to the list's length and `ReservedCt` at least the number of
reserved jobs (`CountedForGc`; equality is false, see `leak`, and the proof shows
that the surplus only ever delays a collection). The reference counts need to
know that a closed connection watches nothing (`PhasesHold`), and a `finishPut`
overwrites no job because ids are distinct.

The proof splits `IInv` into what the tube map owes (`MapHolds`), the owners of
reserved jobs, the puts in progress and the stored images (together `Parts`). The
first sections of `BrokerProofs` show once what each helper (`Link`, `Unlink`,
`Enter`, `Leave`, `makeTube`, `gcTube`, handing jobs back) does to a tube and to
the map; then there is one lemma per action.

What becomes of a job (second half of `BrokerProofs`). `Fate` classifies what any
step may do to a job: it stays, arrives, moves within its tube, returns from its
owner, is dead-lettered, or leaves the index. With the strengthening `Doom`
(doomed jobs are reserved; a live job of a tombstoned tube is doomed, unless the
tube is some policy's dead-letter tube) this gives

* `DoomedStayGone` (what holds of `DoomedNeverReturns`: a doomed job returns only
  if a put lifted the tombstone meanwhile, or by a restart) and `DeadLettersHold`
  (`DeadLetterPolicy`), for any policies;
* `DeletedStaysEmpty` and `NoJobLost`, for any policies but only of tubes that no
  policy names as a dead-letter tube; and, for `Policies = {}`, `TombstonesHold`
  (`TombstonedIsEmpty`) and `DropsHold` (`DroppedOnlyIfDoomed`) of all tubes. The
  restriction is what the code gives: `dlqtomb` is the counterexample without it;
* `GcIsTimely`: a step that empties a tube without a dead-letter threshold
  collects it; for `Policies = {}` this is `GcHoldsWithoutPolicies`
  (`EmptyTubeCollected`). With a threshold it is false, see the known deviations.

`ViewsProofs` proves `CountersCorrect` (`CountersHold`) and `PagesConsistent`
(`PagesAgree`). The invariant `Books` adds to `Parts` that a tube's counters are
the sizes of its heaps (`Tally`), that a tube out of the map counts nothing, and
that the server's counters are the sums over all tubes. A step changes one tube,
or (a disconnect, a recovery) several, each by the number of jobs it loses or
gets, which are sums over a partition of the jobs moved. `SumLemmas` proves what
is used of `SumFunctionOnSet`: the induction over the set is done by hand, as a least
counterexample among the subsets, since the library's induction theorems cannot
be used.

`WaitingProofs`, for any finite set of connections, any tubes, watch lists, TTRs
(one per job), timeouts and margins (`WaitingAssumption`; there is at least one
tube): `WaitingTypes`, `WaitersCorrect` (`WaitersHold`), `SoonestCorrect`
(`SoonestFresh`), `TimersCorrect` (`TimerCovers`). Their conjunction `WInv` is
inductive: a timer that covers a job's margin stays right because a parked
connection's jobs can only be taken away (`Shrinks`). From it two theorems about
signals. `WakeupsReach` (`LostOnlyByReopening`), of any tube: a connection comes
to sleep beside a ready job, unsignalled, in one way only, when somebody other
than `tick` clears a pause that is over (`lostwake` shows that this way is real).
`NoWakeupLost` (`NoLostWakeup`): never, on a tube that nobody pauses.

`StoreProofs`, for any ids, rows, batch size and bounds, with any failures, any
kills and calls until the process is gone:

* `StoreTypes` (`TypeOK`) and `CommittedBatches` (`WholeBatches`). The invariant
  `Sound` adds to them what an open transaction sees at each statement;
* `QueueOrder` (`NothingSkipped`), `ShutdownIsClean` (`CleanShutdown`) and
  `ImplementsLog` (the safety half of `DurableLog`). The invariant `Ordered` says
  which of the loop and `Close` may hold a batch at each point of the process's
  life, and where `last` is among the calls.

`HeapProofs`, for any set of job ids and any keys: `HeapTypes`, `HeapPositions`,
`HeapIsOrdered` and `HeapIsQueue` (`Heap` implements `PriorityQueue`). The
invariant `HInv` has the order each loop keeps around the place it works at; the
heap's root is the least job because no job is smaller than the one above it.

`DurableProofs`, for the same constants as `BrokerProofs`: `CrashConsistent`
(`IInv`), `CommittedSurvives` (`CommittedKept`), `DeletedStaysDeleted`
(`GoneStaysGone`), assuming that no statement fails and that one flusher works at
a time. The invariant `DurInv` traces every committed or taken image to what the
broker was: a row belongs to a job of the index or to one that was discarded
since and whose deletion is under way.

`BenchProofs`, for any numbers of producers, consumers, idle connections and
jobs, any mode and any failures: `BenchTypes`, `BenchCatchesUp` (`CaughtUp`) and,
for `P <= NumJobs`, `PutsAreExact` (`PutsExactly`). The invariant
`BInv` says what each producer has accounted for, its loop variable or, if its
dial failed, its share (`Accounted`), that these add up to the report's counters,
that the server's jobs are those counted (`JobsCounted`), and what can have ended
the run (`StopsHold`). The shares add up to `-n` by division with remainder. With
more producers than jobs `PutsExactly` is false, see the known deviations; the
accounts then add up as long as no producer without a share got to work
(`Limited`), which is so in every run that ends without being cut short.

Only model-checked: all liveness (`UnpausedIsServed`, `TimeoutAnswered`,
`ShutdownEnds`, `Reports`, the liveness half of `KeepsPromise`), since the
installed provers know neither fairness nor ENABLED, and `ServedAsListed`, what
a recursive sort returns for every input.

## Findings

* `leak` (`conn.go:187`): a disconnect hands reserved jobs back without lowering
  `ReservedCt`. The tube is never collected afterwards and the statistics are wrong.
* `dlqtomb` (`server.go:627`): the tombstone of a dead-letter tube is not lifted
  when a job is routed there, and the job is dropped at its next release.
* `doomed` (`server.go:673`): `protocol.txt` promises that a job reserved when its
  tube is deleted does not return; a put into the tube lifts the tombstone for it
  too.
* `lostwake` (`tube.go:145`): the first caller of `isPaused` after a pause ends
  clears it without a signal, tick then sees no pause, and a blocked reserve
  sleeps beside a ready job.
* `late` (`server.go:295`): `README.md` and the adapter's comment promise that a
  clean shutdown loses nothing; a call acknowledged after `Close` took its last
  batch is lost.

### Known deviations without a run of their own

Each can be seen by changing the constants of a run.

| Where | What the code does | How to see it |
|---|---|---|
| `protocol.go:750`, `server.go:654` | a job that is dead-lettered leaves its tube without a `gcTube`: an empty unreferenced tube stays | `EmptyTubeCollected` with `Policies <- DlqPolicies` |
| `server.go:192` | recovery ignores the stored state: a buried job is ready after a restart | `Recover` of `Broker` |
| `server.go:658` | an expiry does not store `TimeoutCt`: a restart forgets failed deliveries | `StoredIsLive` with `=` for `<=` |
| `persistence_sqlite.go:260` | a batch whose transaction fails is dropped and later ones are applied | `NothingLostOnShutdown` without `DropBatch` in `failTx` |
| `cmd/beanstalkd-bench/main.go:199` | with more producers than jobs a share is 0, which means no limit | `PutsExactly` with `P` above `NumJobs` |
| `cmd/beanstalkd-bench/main.go:259` | a job whose reservation ran out is counted twice by the drain loop, so the run may end with jobs left | `CaughtUp` with 0 for `deleteErr` |
| `README.md:76` | says batches are flushed every 5 seconds; the adapter's ticker has 1 second | the model has no such number |

## Not modelled

Parsing, replies and the layout of the pages; call counters, ages and times in
statistics; histograms, the text format of the metrics and the admin page
(read-only); flags and logging; `closeCh` and the shutdown case of the blocked
reserve (the process ends); SQLite's schema, migrations and PRAGMAs. A crash is a
crash of the process: with `synchronous=NORMAL` a power loss may undo commits,
which is SQLite's own matter. The null adapter stores nothing, so a start of it is
the initial state. `stats` and `list-tubes` read shared maps after they released
`Server.mu` (`protocol.go:1314`, where `documentation.txt` says that the lock is
held for the duration of each command): a data race that ends in a crash or a
garbled page; `Views` takes their pages as if read at once. `drain` sets its flag
and reads it again under the lock; another client's `drain` in between changes
the reply and nothing else.

## Plan

Done: `Broker`, `Waiting`, `Store` with its abstract log, `Heap` with its abstract
queue, `Durable`, `Views`, `ListJobs`, `Bench`, and the proofs above.

1. `ServedAsListed` from what the library says of sorting, if it can be stated
   without an induction over the list.
2. `Durable` with a failing statement: what survives a dropped batch.
3. That `Broker` and `Waiting` agree on who is signalled: the handlers of `Broker`
   that file a ready job are the ones that call `wakeWaitersForTube` in `Waiting`.
