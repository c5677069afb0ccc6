------------------------------ MODULE ListJobs ------------------------------
(***************************************************************************)
(* list-jobs over the ready or the delay heap of a tube (list_jobs.go): a  *)
(* copy of the array, sorted with the comparator of the heap and cut at    *)
(* the limit.  The handler runs under Server.mu and changes nothing, so it *)
(* is a function of the heap.                                              *)
(***************************************************************************)
EXTENDS Heap, Sequences, TLC

CONSTANTS defaultListJobsLimit,
          maxListJobsLimit,
          Limits,      \* limits clients ask for
          NoLimit      \* the argument is left out

ASSUME LimitAssumption ==
    /\ defaultListJobsLimit \in Nat /\ maxListJobsLimit \in Nat
    /\ Limits \subseteq Nat

\* Snapshot, the array of the heap as a sequence.
Snapshot == [i \in 1 .. size |-> items[i - 1]]

\* An omitted limit is the default one, a large one is capped.
Limit(asked) ==
    LET limit == IF asked = NoLimit THEN defaultListJobsLimit ELSE asked
    IN  IF limit > maxListJobsLimit THEN maxListJobsLimit ELSE limit

Cut(s, n) == IF Len(s) > n THEN SubSeq(s, 1, n) ELSE s

\* Slip: the limit is applied to the copy, before it is sorted.
handleListJobsCutFirst(asked) == SortSeq(Cut(Snapshot, Limit(asked)), jobLess)

handleListJobs(asked) == Cut(SortSeq(Snapshot, jobLess), Limit(asked))
-----------------------------------------------------------------------------
(* Properties.                                                              *)

\* The listing is "sorted the same way the tube would serve them": whenever
\* the tube serves a job, it is the first of every listing that is not cut to
\* nothing, and the others move up by one, whatever place of the array the
\* swaps have put them in.
ServedAsListed ==
    [][Pop => \A asked \in Limits \cup {NoLimit} :
          LET before == handleListJobs(asked)
          IN  before # <<>> =>
                /\ ret' = Head(before)
                /\ Tail(before) = Cut(handleListJobs(asked)', Len(before) - 1)]_vars
=============================================================================
