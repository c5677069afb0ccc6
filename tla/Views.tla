------------------------------- MODULE Views --------------------------------
(***************************************************************************)
(* What operators see of the broker: peek, peek-tube, list-jobs, the       *)
(* statistics of jobs, tubes and connections, and the metrics page.  Each  *)
(* runs under Server.mu, changes nothing but its own call counter and is   *)
(* a function of the broker's state; the order within a listing and its    *)
(* limit are in ListJobs.  The metrics page may also reopen a tube whose   *)
(* pause has run out, which tickUnpause stands for.  stats and list-tubes  *)
(* format after they gave the lock back: a page is taken to show one state.*)
(***************************************************************************)
EXTENDS Broker

Listable == {"ready", "delayed", "buried"}

\* The tubes a command finds by name, all of list-tubes.
formatListTubes == {t \in Tubes : tube[t].live}

\* The jobs list-jobs shows of tube t, before the limit.
handleListJobs(t, state) ==
    IF state = "ready" THEN tube[t].ready
    ELSE IF state = "delayed" THEN tube[t].delay
    ELSE ToSet(tube[t].buried)

\* What peek-tube may answer for a tube it finds; nothing is NOT_FOUND.
\* peek-ready, peek-delayed and peek-buried are the same for the tube in use.
handlePeekTube(t, state) ==
    IF handleListJobs(t, state) = {} THEN {}
    ELSE IF state = "ready" THEN {Best({t})}
    ELSE IF state = "delayed" THEN tube[t].delay
    ELSE {Head(tube[t].buried)}

\* Does peek (or stats-job) find the job?
handlePeek(j) == job[j].state # "invalid"

\* The state stats-job reports of a job it finds, and its tube.
formatJobStats(j) == [state |-> job[j].state, tube |-> job[j].tube]

\* current-jobs-* of stats-tube.
formatTubeStats(t) == tube[t].ct

\* stats-tube-all: every tube of list-tubes.
formatAllTubeStats == [t \in formatListTubes |-> formatTubeStats(t)]

\* The connections list-connections shows.
formatListConnections == {c \in Conns : conn[c].phase # "closed"}

\* The reserved list of a connection.
reservedJobIDs(c) == conn[c].reserved

\* stats-conn of one of them.
formatConnStats(c) ==
    [tube |-> conn[c].use, watching |-> conn[c].watch,
     reservedJobs |-> reservedJobIDs(c), waiting |-> conn[c].phase = "waiting"]

\* The gauges of the metrics page, copied while the lock is held.
snapshotStats ==
    [global |-> count, draining |-> drain,
     tubes |-> [t \in formatListTubes |-> formatTubeStats(t)]]

-----------------------------------------------------------------------------
(* Properties. *)

\* The places an operator can look for a job without knowing its id.
Listings == (formatListTubes \X Listable)
            \cup {<<c, "reserved">> : c \in formatListConnections}

Shown(l) == IF l[2] = "reserved" THEN formatConnStats(l[1]).reservedJobs
                                 ELSE handleListJobs(l[1], l[2])

\* A job that peek finds by its id is in exactly one listing, the one its
\* stats-job state names, and the listings show no other job: a tube dropped
\* from the map, or a connection dropped from the list, would hide its jobs.
EveryJobListed ==
    /\ \A j \in JobIds : handlePeek(j) => \E l \in Listings : j \in Shown(l)
    /\ \A l \in Listings : \A j \in Shown(l) :
          /\ handlePeek(j)
          /\ l[2] = formatJobStats(j).state
          /\ l[2] # "reserved" => l[1] = formatJobStats(j).tube
          /\ l[2] = "reserved" => \A c \in formatListConnections :
                j \in formatConnStats(c).reservedJobs => c = l[1]

\* The pages agree: stats-tube-all counts what list-jobs shows, peek-tube answers
\* one of these jobs whenever there is one, and the totals of the metrics page
\* are the sums over the tubes on it.
PagesAgree ==
    /\ \A t \in formatListTubes, s \in Listable :
          /\ formatAllTubeStats[t][s] = Cardinality(handleListJobs(t, s))
          /\ handlePeekTube(t, s) \subseteq handleListJobs(t, s)
          /\ formatAllTubeStats[t][s] > 0 => handlePeekTube(t, s) # {}
    /\ \A s \in Counters :
          snapshotStats.global[s] =
             SumFunction([t \in formatListTubes |-> snapshotStats.tubes[t][s]])
=============================================================================
