---------------------------- MODULE ViewsProofs -----------------------------
(***************************************************************************)
(* What operators are told is right, for any finite sets of connections and *)
(* tubes.  The listings partition the job index as stats-job describes it   *)
(* (OperatorsFindJobs): this follows from the inductive invariant of        *)
(* Broker, since no page changes anything.  The counters the pages print    *)
(* need an invariant of their own, Books: each tube's counters are the      *)
(* sizes of its heaps, a tube that is not in the map counts nothing, and    *)
(* the server's counters are the sums over the tubes.  Every action keeps   *)
(* the books (NextBooks), whence CountersCorrect and PagesConsistent.       *)
(***************************************************************************)
EXTENDS Views, BrokerProofs, SumLemmas

\* A listing is one of a tube or the reserved list of a connection.
LEMMA Kinds ==
    ASSUME NEW l \in Listings
    PROVE  \/ /\ l[1] \in Tubes /\ tube[l[1]].live
              /\ l[2] \in {"ready", "delayed", "buried"}
              /\ Shown(l) = handleListJobs(l[1], l[2])
           \/ /\ l[1] \in Conns /\ conn[l[1]].phase # "closed"
              /\ l[2] = "reserved"
              /\ Shown(l) = conn[l[1]].reserved
<1>1. CASE l \in formatListTubes \X Listable
  BY <1>1 DEF formatListTubes, Listable, Shown
<1>2. CASE l \in {<<c, "reserved">> : c \in formatListConnections}
  BY <1>2 DEF formatListConnections, Shown, formatConnStats, reservedJobIDs
<1> QED BY <1>1, <1>2 DEF Listings

\* A listed job is where its state says.
LEMMA ListedIsThere ==
    ASSUME IInv, NEW l \in Listings, NEW j \in Shown(l)
    PROVE  /\ j \in JobIds /\ job[j].state = l[2]
           /\ l[2] # "reserved" => job[j].tube = l[1]
           /\ l[2] = "reserved" => l[1] \in Conns /\ job[j].reserver = l[1]
<1> USE DEF IInv
<1>1. CASE l[1] \in Tubes /\ l[2] \in {"ready", "delayed", "buried"}
            /\ Shown(l) = handleListJobs(l[1], l[2])
  <2>1. /\ tube[l[1]].ready \subseteq JobIds /\ tube[l[1]].delay \subseteq JobIds
        /\ ToSet(tube[l[1]].buried) \subseteq JobIds
    <3>1. tube[l[1]] \in Tube
      BY <1>1 DEF TypeOK
    <3>2. tube[l[1]].buried \in Seq(JobIds)
      BY <3>1 DEF Tube
    <3>3. ToSet(tube[l[1]].buried) \subseteq JobIds
      BY <3>2 DEF ToSet
    <3> QED BY <3>1, <3>3 DEF Tube
  <2> QED BY <1>1, <2>1 DEF Placement, handleListJobs
<1>2. CASE l[1] \in Conns /\ l[2] = "reserved" /\ Shown(l) = conn[l[1]].reserved
  <2>1. conn[l[1]].reserved \subseteq JobIds
    BY <1>2 DEF TypeOK, Conn
  <2> QED BY <1>2, <2>1 DEF Placement, Holds
<1> QED BY <1>1, <1>2, Kinds

\* A job of the index is listed.
LEMMA LiveIsListed ==
    ASSUME IInv, NEW j \in JobIds, handlePeek(j)
    PROVE  \E l \in Listings : j \in Shown(l)
<1> USE DEF IInv
<1>1. job[j] \in Job
  BY DEF TypeOK
<1>2. job[j].tube \in Tubes /\ tube[job[j].tube].live
  BY <1>1 DEF Job, NoOrphanTube, Live, handlePeek
<1>3. ASSUME NEW s \in Listable, job[j].state = s
      PROVE  \E l \in Listings : j \in Shown(l)
  <2> DEFINE l == <<job[j].tube, s>>
  <2>1. l \in Listings
    BY <1>2 DEF Listings, formatListTubes
  <2>2. Shown(l) = handleListJobs(job[j].tube, s)
    BY <1>3 DEF Shown, Listable
  <2>3. j \in handleListJobs(job[j].tube, s)
    BY <1>2, <1>3 DEF Placement, handleListJobs, Listable
  <2> HIDE DEF l
  <2> QED BY <2>1, <2>2, <2>3
<1>4. CASE job[j].state = "reserved"
  <2> DEFINE c == job[j].reserver
             l == <<c, "reserved">>
  <2>1. c \in Conns /\ j \in conn[c].reserved
    BY <1>1, <1>4 DEF Job, Placement, Holds
  <2>2. conn[c].phase # "closed"
    BY <2>1 DEF PhasesHold
  <2>3. l \in Listings
    BY <2>1, <2>2 DEF Listings, formatListConnections
  <2>4. Shown(l) = conn[c].reserved
    BY DEF Shown, formatConnStats, reservedJobIDs
  <2> HIDE DEF l
  <2> QED BY <2>1, <2>3, <2>4
<1>5. job[j].state = "reserved" \/ job[j].state \in Listable
  BY <1>1 DEF Job, JobStates, handlePeek, Listable
<1> QED BY <1>3, <1>4, <1>5

\* Whatever clients, tick and restarts do, a job that peek finds is in exactly
\* one of the listings, the one its state names (list-jobs, stats-conn).
THEOREM OperatorsFindJobs == Spec => []EveryJobListed
<1>1. ASSUME IInv PROVE EveryJobListed
  <2>1. ASSUME NEW l \in Listings, NEW j \in Shown(l)
        PROVE  /\ handlePeek(j)
               /\ l[2] = formatJobStats(j).state
               /\ l[2] # "reserved" => l[1] = formatJobStats(j).tube
               /\ l[2] = "reserved" => \A c \in formatListConnections :
                     j \in formatConnStats(c).reservedJobs => c = l[1]
    <3>1. /\ j \in JobIds /\ job[j].state = l[2]
          /\ l[2] # "reserved" => job[j].tube = l[1]
          /\ l[2] = "reserved" => l[1] \in Conns /\ job[j].reserver = l[1]
      BY <1>1, <2>1, ListedIsThere
    <3>2. l[2] # "invalid"
      BY Kinds
    <3>3. ASSUME NEW c \in Conns, j \in conn[c].reserved PROVE job[j].reserver = c
      BY <1>1, <3>1, <3>3 DEF IInv, Placement, Holds
    <3> QED
      BY <3>1, <3>2, <3>3 DEF handlePeek, formatJobStats, formatListConnections,
         formatConnStats, reservedJobIDs
  <2> QED BY <1>1, <2>1, LiveIsListed DEF EveryJobListed
<1> QED BY <1>1, BrokerInvariant, PTL

-----------------------------------------------------------------------------
(* The books: what the counters of the tubes and of the server add up to.   *)

\* By how much counter q grows when the jobs of J enter state s.
Gain(s, q, J, jobs) ==
    IF q = s THEN Cardinality(J)
    ELSE IF q = "urgent" /\ s = "ready" THEN Cardinality(UrgentOf(J, jobs)) ELSE 0

\* A gain is a natural number.
LEMMA GainInt ==
    ASSUME NEW J, J \subseteq JobIds, NEW jobs, NEW s, NEW q
    PROVE  Gain(s, q, J, jobs) \in Nat
<1>1. UrgentOf(J, jobs) \subseteq JobIds
  BY DEF UrgentOf
<1> QED BY <1>1, JobSetsFinite DEF Gain

Credited(ct2, ct, s, J, jobs) ==
    /\ ct2 \in [Counters -> Int]
    /\ \A q \in Counters : ct2[q] = ct[q] + Gain(s, q, J, jobs)

Debited(ct2, ct, s, J, jobs) ==
    /\ ct2 \in [Counters -> Int]
    /\ \A q \in Counters : ct2[q] = ct[q] - Gain(s, q, J, jobs)

\* What Enter and Leave do, counter by counter.
LEMMA CtMoves ==
    ASSUME NEW ct \in [Counters -> Int], NEW s \in QueueStates,
           NEW J, J \subseteq JobIds, NEW jobs
    PROVE  /\ Credited(Enter(ct, s, J, jobs), ct, s, J, jobs)
           /\ Debited(Leave(ct, s, J, jobs), ct, s, J, jobs)
<1>1. UrgentOf(J, jobs) \subseteq JobIds
  BY DEF UrgentOf
<1>2. Cardinality(J) \in Nat /\ Cardinality(UrgentOf(J, jobs)) \in Nat
  BY <1>1, JobSetsFinite
<1>3. Enter(ct, s, J, jobs) \in [Counters -> Int] /\ Leave(ct, s, J, jobs) \in [Counters -> Int]
  BY <1>2 DEF Enter, Leave, Counters, QueueStates
<1>4. ASSUME NEW q \in Counters
      PROVE  /\ Enter(ct, s, J, jobs)[q] = ct[q] + Gain(s, q, J, jobs)
             /\ Leave(ct, s, J, jobs)[q] = ct[q] - Gain(s, q, J, jobs)
  BY <1>2 DEF Enter, Leave, Counters, QueueStates, Gain
<1> QED BY <1>3, <1>4 DEF Credited, Debited

\* The counters of a tube are the sizes of its heaps; a tube that is not in the
\* map counts nothing.
Tally(tb, jobs) ==
    /\ tb.ct["ready"] = Cardinality(tb.ready)
    /\ tb.ct["urgent"] = Cardinality(UrgentOf(tb.ready, jobs))
    /\ tb.ct["delayed"] = Cardinality(tb.delay)
    /\ ~tb.live => \A q \in Counters : tb.ct[q] = 0

\* Counter q, tube by tube.
Col(T, q) == [t \in Tubes |-> T[t].ct[q]]

Booked(T, jobs, n) ==
    /\ T \in [Tubes -> Tube]
    /\ n \in [Counters -> Int]
    /\ \A t \in Tubes : Tally(T[t], jobs)
    /\ \A q \in Counters : n[q] = SumFunctionOnSet(Col(T, q), Tubes)

\* The jobs of K leave, or enter, the heap of state s of tube tb and its books.
Lost(r, tb, s, K, jobs) ==
    /\ s = "ready" => K \subseteq tb.ready
    /\ s = "delayed" => K \subseteq tb.delay
    /\ tb.live \/ K = {}
    /\ r.ready = IF s = "ready" THEN tb.ready \ K ELSE tb.ready
    /\ r.delay = IF s = "delayed" THEN tb.delay \ K ELSE tb.delay
    /\ r.live = tb.live
    /\ Debited(r.ct, tb.ct, s, K, jobs)

Won(r, tb, s, K, jobs) ==
    /\ s = "ready" => K \cap tb.ready = {}
    /\ s = "delayed" => K \cap tb.delay = {}
    /\ tb.live \/ K = {}
    /\ r.ready = IF s = "ready" THEN tb.ready \cup K ELSE tb.ready
    /\ r.delay = IF s = "delayed" THEN tb.delay \cup K ELSE tb.delay
    /\ r.live = tb.live
    /\ Credited(r.ct, tb.ct, s, K, jobs)

\* Sizes of sets of jobs add and subtract.
LEMMA JobCards ==
    ASSUME NEW A, NEW B, A \subseteq JobIds, B \subseteq JobIds
    PROVE  /\ A \subseteq B => Cardinality(B \ A) = Cardinality(B) - Cardinality(A)
           /\ A \cap B = {} => Cardinality(B \cup A) = Cardinality(B) + Cardinality(A)
<1>1. IsFiniteSet(A) /\ IsFiniteSet(B) /\ Cardinality(A) \in Nat /\ Cardinality(B) \in Nat
  BY JobSetsFinite
<1>2. ASSUME A \subseteq B PROVE Cardinality(B \ A) = Cardinality(B) - Cardinality(A)
  <2>1. Cardinality(B \ A) = Cardinality(B) - Cardinality(B \cap A)
    BY <1>1, FS_Difference
  <2>2. B \cap A = A
    BY <1>2
  <2> QED BY <2>1, <2>2
<1>3. ASSUME A \cap B = {} PROVE Cardinality(B \cup A) = Cardinality(B) + Cardinality(A)
  <2>1. Cardinality(B \cup A) = Cardinality(B) + Cardinality(A) - Cardinality(B \cap A)
    BY <1>1, FS_Union
  <2>2. B \cap A = {} /\ Cardinality({}) = 0
    BY <1>3, FS_EmptySet
  <2>3. Cardinality(B \cap A) = 0
    BY <2>2
  <2> HIDE DEF JobIds
  <2> QED BY <1>1, <2>1, <2>3
<1> QED BY <1>2, <1>3

\* A tube that loses jobs keeps its tally.
LEMMA TallyLost ==
    ASSUME NEW tb \in Tube, NEW r \in Tube, NEW s \in QueueStates, NEW K, K \subseteq JobIds,
           NEW jobs, Tally(tb, jobs), Lost(r, tb, s, K, jobs)
    PROVE  Tally(r, jobs)
<1> DEFINE U(A) == UrgentOf(A, jobs)
<1>1. /\ tb.ready \subseteq JobIds /\ tb.delay \subseteq JobIds /\ tb.ct \in [Counters -> Int]
      /\ "ready" \in Counters /\ "urgent" \in Counters /\ "delayed" \in Counters
  BY DEF Tube, Counters
<1>2. U(K) \subseteq JobIds /\ U(tb.ready) \subseteq JobIds /\ U(tb.ready \ K) = U(tb.ready) \ U(K)
  BY <1>1 DEF UrgentOf
<1>3. K \subseteq tb.ready => U(K) \subseteq U(tb.ready)
  BY DEF UrgentOf
<1> HIDE DEF U
<1>4. CASE s = "ready"
  <2>1. /\ Cardinality(tb.ready \ K) = Cardinality(tb.ready) - Cardinality(K)
        /\ Cardinality(U(tb.ready \ K)) = Cardinality(U(tb.ready)) - Cardinality(U(K))
    BY <1>1, <1>2, <1>3, <1>4, JobCards DEF Lost, Debited
  <2>2. r.ready = tb.ready \ K /\ r.delay = tb.delay /\ r.live = tb.live
    BY <1>4 DEF Lost, Debited
  <2>3. /\ r.ct["ready"] = tb.ct["ready"] - Cardinality(K)
        /\ r.ct["urgent"] = tb.ct["urgent"] - Cardinality(U(K))
        /\ r.ct["delayed"] = tb.ct["delayed"]
    BY <1>1, <1>4 DEF Lost, Debited, Gain, U
  <2>4. ~r.live => \A q \in Counters : r.ct[q] = 0
    <3>1. SUFFICES ASSUME ~r.live, NEW q \in Counters PROVE r.ct[q] = 0
      OBVIOUS
    <3>2. K = {} /\ U(K) = {} /\ Cardinality({}) = 0
      BY <3>1, FS_EmptySet DEF Lost, Debited, U, UrgentOf
    <3>3. Gain(s, q, K, jobs) = 0
      BY <3>2 DEF Gain, U
    <3> QED BY <3>1, <3>3 DEF Lost, Debited, Tally
  <2>5. Tally(tb, jobs)
    OBVIOUS
  <2> QED BY <2>1, <2>2, <2>3, <2>4, <2>5 DEF Tally, U
<1>5. CASE s # "ready"
  <2>1. /\ r.ready = tb.ready /\ r.live = tb.live
        /\ r.ct["ready"] = tb.ct["ready"] /\ r.ct["urgent"] = tb.ct["urgent"]
    <3>1. Gain(s, "ready", K, jobs) = 0 /\ Gain(s, "urgent", K, jobs) = 0
      BY <1>5 DEF Gain, QueueStates
    <3> QED BY <3>1, <1>1, <1>5 DEF Lost, Debited
  <2>2. r.ct["delayed"] = Cardinality(r.delay)
    <3>1. CASE s = "delayed"
      BY <3>1, <1>1, JobCards DEF Lost, Debited, Gain, Tally
    <3>2. CASE s # "delayed"
      BY <3>2, <1>1, <1>5 DEF Lost, Debited, Gain, Tally
    <3> QED BY <3>1, <3>2
  <2>3. ~r.live => \A q \in Counters : r.ct[q] = 0
    <3>1. SUFFICES ASSUME ~r.live, NEW q \in Counters PROVE r.ct[q] = 0
      OBVIOUS
    <3>2. K = {} /\ Cardinality({}) = 0
      BY <3>1, FS_EmptySet DEF Lost, Debited
    <3>3. Gain(s, q, K, jobs) = 0
      BY <3>2, <1>5 DEF Gain
    <3> QED BY <3>1, <3>3 DEF Lost, Debited, Tally
  <2> QED BY <2>1, <2>2, <2>3 DEF Tally
<1> QED BY <1>4, <1>5

\* A tube that gets jobs keeps its tally.
LEMMA TallyWon ==
    ASSUME NEW tb \in Tube, NEW r \in Tube, NEW s \in QueueStates, NEW K, K \subseteq JobIds,
           NEW jobs, Tally(tb, jobs), Won(r, tb, s, K, jobs)
    PROVE  Tally(r, jobs)
<1> DEFINE U(A) == UrgentOf(A, jobs)
<1>1. /\ tb.ready \subseteq JobIds /\ tb.delay \subseteq JobIds /\ tb.ct \in [Counters -> Int]
      /\ "ready" \in Counters /\ "urgent" \in Counters /\ "delayed" \in Counters
  BY DEF Tube, Counters
<1>2. U(K) \subseteq JobIds /\ U(tb.ready) \subseteq JobIds /\ U(tb.ready \cup K) = U(tb.ready) \cup U(K)
  BY <1>1 DEF UrgentOf
<1>3. K \cap tb.ready = {} => U(K) \cap U(tb.ready) = {}
  BY DEF UrgentOf
<1> HIDE DEF U
<1>4. CASE s = "ready"
  <2>1. /\ Cardinality(tb.ready \cup K) = Cardinality(tb.ready) + Cardinality(K)
        /\ Cardinality(U(tb.ready \cup K)) = Cardinality(U(tb.ready)) + Cardinality(U(K))
    BY <1>1, <1>2, <1>3, <1>4, JobCards DEF Won, Credited
  <2>2. r.ready = tb.ready \cup K /\ r.delay = tb.delay /\ r.live = tb.live
    BY <1>4 DEF Won, Credited
  <2>3. /\ r.ct["ready"] = tb.ct["ready"] + Cardinality(K)
        /\ r.ct["urgent"] = tb.ct["urgent"] + Cardinality(U(K))
        /\ r.ct["delayed"] = tb.ct["delayed"]
    BY <1>1, <1>4 DEF Won, Credited, Gain, U
  <2>4. ~r.live => \A q \in Counters : r.ct[q] = 0
    <3>1. SUFFICES ASSUME ~r.live, NEW q \in Counters PROVE r.ct[q] = 0
      OBVIOUS
    <3>2. K = {} /\ U(K) = {} /\ Cardinality({}) = 0
      BY <3>1, FS_EmptySet DEF Won, Credited, U, UrgentOf
    <3>3. Gain(s, q, K, jobs) = 0
      BY <3>2 DEF Gain, U
    <3> QED BY <3>1, <3>3 DEF Won, Credited, Tally
  <2>5. Tally(tb, jobs)
    OBVIOUS
  <2> QED BY <2>1, <2>2, <2>3, <2>4, <2>5 DEF Tally, U
<1>5. CASE s # "ready"
  <2>1. /\ r.ready = tb.ready /\ r.live = tb.live
        /\ r.ct["ready"] = tb.ct["ready"] /\ r.ct["urgent"] = tb.ct["urgent"]
    <3>1. Gain(s, "ready", K, jobs) = 0 /\ Gain(s, "urgent", K, jobs) = 0
      BY <1>5 DEF Gain, QueueStates
    <3> QED BY <3>1, <1>1, <1>5 DEF Won, Credited
  <2>2. r.ct["delayed"] = Cardinality(r.delay)
    <3>1. CASE s = "delayed"
      <4>1. K \cap tb.delay = {} /\ r.delay = tb.delay \cup K
        BY <3>1 DEF Won, Credited
      <4>2. Cardinality(tb.delay \cup K) = Cardinality(tb.delay) + Cardinality(K)
        BY <4>1, <1>1, JobCards
      <4> QED BY <4>1, <4>2, <3>1, <1>1 DEF Won, Credited, Gain, Tally
    <3>2. CASE s # "delayed"
      BY <3>2, <1>1, <1>5 DEF Won, Credited, Gain, Tally
    <3> QED BY <3>1, <3>2
  <2>3. ~r.live => \A q \in Counters : r.ct[q] = 0
    <3>1. SUFFICES ASSUME ~r.live, NEW q \in Counters PROVE r.ct[q] = 0
      OBVIOUS
    <3>2. K = {} /\ Cardinality({}) = 0
      BY <3>1, FS_EmptySet DEF Won, Credited
    <3>3. Gain(s, q, K, jobs) = 0
      BY <3>2, <1>5 DEF Gain
    <3> QED BY <3>1, <3>3 DEF Won, Credited, Tally
  <2> QED BY <2>1, <2>2, <2>3 DEF Tally
<1> QED BY <1>4, <1>5

\* The gains of the tubes add up to the gain of the server.
LEMMA GainParts ==
    ASSUME NEW s, NEW q, NEW J, J \subseteq JobIds, NEW jobs, NEW p, \A j \in J : p[j] \in Tubes
    PROVE  SumFunctionOnSet([t \in Tubes |-> Gain(s, q, Part(J, p, t), jobs)], Tubes)
              = Gain(s, q, J, jobs)
<1>1. IsFiniteSet(J) /\ IsFiniteSet(Tubes)
  BY JobSetsFinite, TubesAssumption
<1>2. CASE q = s
  <2>1. [t \in Tubes |-> Gain(s, q, Part(J, p, t), jobs)] = [t \in Tubes |-> Cardinality(Part(J, p, t))]
    BY <1>2 DEF Gain
  <2>2. SumFunctionOnSet([t \in Tubes |-> Cardinality(Part(J, p, t))], Tubes) = Cardinality(J)
    BY <1>1, SumParts
  <2> QED BY <1>2, <2>1, <2>2 DEF Gain
<1>3. CASE q # s /\ q = "urgent" /\ s = "ready"
  <2> DEFINE U == UrgentOf(J, jobs)
  <2>1. \A t \in Tubes : UrgentOf(Part(J, p, t), jobs) = Part(U, p, t)
    BY DEF UrgentOf, Part
  <2>2. [t \in Tubes |-> Gain(s, q, Part(J, p, t), jobs)] = [t \in Tubes |-> Cardinality(Part(U, p, t))]
    BY <2>1, <1>3 DEF Gain
  <2>3. IsFiniteSet(U) /\ \A j \in U : p[j] \in Tubes
    BY <1>1, FS_Subset DEF UrgentOf
  <2>4. Gain(s, q, J, jobs) = Cardinality(U)
    BY <1>3 DEF Gain
  <2> HIDE DEF U
  <2>5. SumFunctionOnSet([t \in Tubes |-> Cardinality(Part(U, p, t))], Tubes) = Cardinality(U)
    BY <1>1, <2>3, SumParts
  <2> QED BY <2>2, <2>4, <2>5
<1>4. CASE q # s /\ ~(q = "urgent" /\ s = "ready")
  <2> DEFINE f == [t \in Tubes |-> Gain(s, q, Part(J, p, t), jobs)]
  <2>1. \A t \in Tubes : f[t] \in Int /\ (t \notin {} => f[t] = 0)
    BY <1>4 DEF Gain
  <2> HIDE DEF f
  <2>2. SumFunctionOnSet(f, {}) = SumFunctionOnSet(f, Tubes) /\ SumFunctionOnSet(f, {}) = 0
    BY <1>1, <2>1, SumSupport, SumEmpty
  <2> QED BY <2>2, <1>4 DEF Gain, f
<1> QED BY <1>2, <1>3, <1>4

\* The jobs of J leave the heaps of state s, each that of its tube p[j].
LEMMA BookLost ==
    ASSUME NEW T, NEW T2 \in [Tubes -> Tube], NEW jobs, NEW n, NEW n2,
           NEW s \in QueueStates, NEW J, J \subseteq JobIds, NEW p, \A j \in J : p[j] \in Tubes,
           Booked(T, jobs, n),
           \A t \in Tubes : Lost(T2[t], T[t], s, Part(J, p, t), jobs),
           Debited(n2, n, s, J, jobs)
    PROVE  Booked(T2, jobs, n2)
<1>0. /\ T \in [Tubes -> Tube] /\ IsFiniteSet(Tubes)
      /\ \A t \in Tubes : Part(J, p, t) \subseteq JobIds
      /\ \A t \in Tubes, q \in Counters : T[t].ct[q] \in Int /\ T2[t].ct[q] \in Int
  BY TubesAssumption DEF Booked, Tube, Part
<1>1. ASSUME NEW t \in Tubes PROVE Tally(T2[t], jobs)
  <2>1. T[t] \in Tube /\ T2[t] \in Tube /\ Tally(T[t], jobs) /\ Lost(T2[t], T[t], s, Part(J, p, t), jobs)
    BY <1>0 DEF Booked
  <2> QED BY <2>1, <1>0, TallyLost
<1>2. ASSUME NEW q \in Counters PROVE n2[q] = SumFunctionOnSet(Col(T2, q), Tubes)
  <2> DEFINE f == Col(T2, q)
             h == Col(T, q)
             g == [t \in Tubes |-> Gain(s, q, Part(J, p, t), jobs)]
  <2>1. \A t \in Tubes : f[t] \in Int /\ g[t] \in Int /\ h[t] = f[t] + g[t]
    <3>1. SUFFICES ASSUME NEW t \in Tubes PROVE f[t] \in Int /\ g[t] \in Int /\ h[t] = f[t] + g[t]
      OBVIOUS
    <3>2. Gain(s, q, Part(J, p, t), jobs) \in Nat
      BY <1>0, GainInt
    <3>3. T2[t].ct[q] = T[t].ct[q] - Gain(s, q, Part(J, p, t), jobs)
      BY <1>2 DEF Lost, Debited
    <3> QED BY <3>2, <3>3, <1>0 DEF Col
  <2>2. SumFunctionOnSet(g, Tubes) = Gain(s, q, J, jobs) /\ Gain(s, q, J, jobs) \in Nat
    BY GainParts, GainInt
  <2>3. n[q] = SumFunctionOnSet(h, Tubes) /\ n2[q] = n[q] - Gain(s, q, J, jobs)
    BY <1>2 DEF Booked, Debited
  <2> HIDE DEF f, g, h
  <2>4. /\ SumFunctionOnSet(h, Tubes) = SumFunctionOnSet(f, Tubes) + SumFunctionOnSet(g, Tubes)
        /\ SumFunctionOnSet(f, Tubes) \in Int
    BY <1>0, <2>1, SumPlus, SumInt
  <2>5. n2[q] = SumFunctionOnSet(f, Tubes)
    BY <2>2, <2>3, <2>4
  <2> QED BY <2>5 DEF f
<1> QED BY <1>1, <1>2 DEF Booked, Debited

\* The jobs of J enter the heaps of state s.
LEMMA BookWon ==
    ASSUME NEW T, NEW T2 \in [Tubes -> Tube], NEW jobs, NEW n, NEW n2,
           NEW s \in QueueStates, NEW J, J \subseteq JobIds, NEW p, \A j \in J : p[j] \in Tubes,
           Booked(T, jobs, n),
           \A t \in Tubes : Won(T2[t], T[t], s, Part(J, p, t), jobs),
           Credited(n2, n, s, J, jobs)
    PROVE  Booked(T2, jobs, n2)
<1>0. /\ T \in [Tubes -> Tube] /\ IsFiniteSet(Tubes)
      /\ \A t \in Tubes : Part(J, p, t) \subseteq JobIds
      /\ \A t \in Tubes, q \in Counters : T[t].ct[q] \in Int /\ T2[t].ct[q] \in Int
  BY TubesAssumption DEF Booked, Tube, Part
<1>1. ASSUME NEW t \in Tubes PROVE Tally(T2[t], jobs)
  <2>1. T[t] \in Tube /\ T2[t] \in Tube /\ Tally(T[t], jobs) /\ Won(T2[t], T[t], s, Part(J, p, t), jobs)
    BY <1>0 DEF Booked
  <2> QED BY <2>1, <1>0, TallyWon
<1>2. ASSUME NEW q \in Counters PROVE n2[q] = SumFunctionOnSet(Col(T2, q), Tubes)
  <2> DEFINE f == Col(T, q)
             h == Col(T2, q)
             g == [t \in Tubes |-> Gain(s, q, Part(J, p, t), jobs)]
  <2>1. \A t \in Tubes : f[t] \in Int /\ g[t] \in Int /\ h[t] = f[t] + g[t]
    <3>1. SUFFICES ASSUME NEW t \in Tubes PROVE f[t] \in Int /\ g[t] \in Int /\ h[t] = f[t] + g[t]
      OBVIOUS
    <3>2. Gain(s, q, Part(J, p, t), jobs) \in Nat
      BY <1>0, GainInt
    <3>3. T2[t].ct[q] = T[t].ct[q] + Gain(s, q, Part(J, p, t), jobs)
      BY <1>2 DEF Won, Credited
    <3> QED BY <3>2, <3>3, <1>0 DEF Col
  <2>2. SumFunctionOnSet(g, Tubes) = Gain(s, q, J, jobs)
    BY GainParts
  <2>3. n[q] = SumFunctionOnSet(f, Tubes) /\ n2[q] = n[q] + Gain(s, q, J, jobs)
    BY <1>2 DEF Booked, Credited
  <2> HIDE DEF f, g, h
  <2>4. SumFunctionOnSet(h, Tubes) = SumFunctionOnSet(f, Tubes) + SumFunctionOnSet(g, Tubes)
    BY <1>0, <2>1, SumPlus
  <2>5. n2[q] = SumFunctionOnSet(h, Tubes)
    BY <2>2, <2>3, <2>4
  <2> QED BY <2>5 DEF h
<1> QED BY <1>1, <1>2 DEF Booked, Credited

\* Only tube t is concerned.
LEMMA OnlyPart ==
    ASSUME NEW T \in [Tubes -> Tube], NEW t \in Tubes, NEW r \in Tube, NEW s \in QueueStates,
           NEW K, K \subseteq JobIds, NEW jobs
    PROVE  /\ [T EXCEPT ![t] = r] \in [Tubes -> Tube]
           /\ \A u \in Tubes :
                 /\ Lost(r, T[t], s, K, jobs) =>
                       Lost([T EXCEPT ![t] = r][u], T[u], s, Part(K, [j \in JobIds |-> t], u), jobs)
                 /\ Won(r, T[t], s, K, jobs) =>
                       Won([T EXCEPT ![t] = r][u], T[u], s, Part(K, [j \in JobIds |-> t], u), jobs)
<1>1. \A u \in Tubes : Part(K, [j \in JobIds |-> t], u) = IF u = t THEN K ELSE {}
  BY DEF Part
<1>2. Cardinality({}) = 0 /\ UrgentOf({}, jobs) = {}
  BY FS_EmptySet DEF UrgentOf
<1>3. \A q : Gain(s, q, {}, jobs) = 0
  BY <1>2 DEF Gain
<1>4. \A u \in Tubes : T[u].ct \in [Counters -> Int]
  BY DEF Tube
<1>5. \A u \in Tubes : Lost(T[u], T[u], s, {}, jobs) /\ Won(T[u], T[u], s, {}, jobs)
  BY <1>3, <1>4 DEF Lost, Won, Debited, Credited
<1> QED BY <1>1, <1>5

\* All the jobs leave one tube.
LEMMA BookLostOne ==
    ASSUME NEW T, NEW t \in Tubes, NEW r \in Tube, NEW jobs, NEW n,
           NEW s \in QueueStates, NEW K, K \subseteq JobIds,
           Booked(T, jobs, n), Lost(r, T[t], s, K, jobs)
    PROVE  Booked([T EXCEPT ![t] = r], jobs, Leave(n, s, K, jobs))
<1>0. T \in [Tubes -> Tube] /\ n \in [Counters -> Int]
  BY DEF Booked
<1>1. Debited(Leave(n, s, K, jobs), n, s, K, jobs)
  BY <1>0, CtMoves
<1>2. /\ [T EXCEPT ![t] = r] \in [Tubes -> Tube]
      /\ \A u \in Tubes :
            Lost([T EXCEPT ![t] = r][u], T[u], s, Part(K, [j \in JobIds |-> t], u), jobs)
  BY <1>0, OnlyPart
<1> DEFINE p == [j \in JobIds |-> t]
           T2 == [T EXCEPT ![t] = r]
           n2 == Leave(n, s, K, jobs)
<1>3. \A j \in K : p[j] \in Tubes
  OBVIOUS
<1>4. T2 \in [Tubes -> Tube] /\ \A u \in Tubes : Lost(T2[u], T[u], s, Part(K, p, u), jobs)
  BY <1>2
<1>5. Debited(n2, n, s, K, jobs)
  BY <1>1
<1> HIDE DEF p, T2, n2
<1>6. Booked(T2, jobs, n2)
  BY <1>3, <1>4, <1>5, BookLost
<1> QED BY <1>6 DEF T2, n2

\* All the jobs enter one tube.
LEMMA BookWonOne ==
    ASSUME NEW T, NEW t \in Tubes, NEW r \in Tube, NEW jobs, NEW n,
           NEW s \in QueueStates, NEW K, K \subseteq JobIds,
           Booked(T, jobs, n), Won(r, T[t], s, K, jobs)
    PROVE  Booked([T EXCEPT ![t] = r], jobs, Enter(n, s, K, jobs))
<1>0. T \in [Tubes -> Tube] /\ n \in [Counters -> Int]
  BY DEF Booked
<1>1. Credited(Enter(n, s, K, jobs), n, s, K, jobs)
  BY <1>0, CtMoves
<1>2. /\ [T EXCEPT ![t] = r] \in [Tubes -> Tube]
      /\ \A u \in Tubes :
            Won([T EXCEPT ![t] = r][u], T[u], s, Part(K, [j \in JobIds |-> t], u), jobs)
  BY <1>0, OnlyPart
<1> DEFINE p == [j \in JobIds |-> t]
           T2 == [T EXCEPT ![t] = r]
           n2 == Enter(n, s, K, jobs)
<1>3. \A j \in K : p[j] \in Tubes
  OBVIOUS
<1>4. T2 \in [Tubes -> Tube] /\ \A u \in Tubes : Won(T2[u], T[u], s, Part(K, p, u), jobs)
  BY <1>2
<1>5. Credited(n2, n, s, K, jobs)
  BY <1>1
<1> HIDE DEF p, T2, n2
<1>6. Booked(T2, jobs, n2)
  BY <1>3, <1>4, <1>5, BookWon
<1> QED BY <1>6 DEF T2, n2

\* The same heaps and counters, and the same priorities of the ready jobs.
LEMMA BookFrame ==
    ASSUME NEW T, NEW T2 \in [Tubes -> Tube], NEW jobs, NEW jobs2, NEW n, Booked(T, jobs, n),
           \A t \in Tubes :
              /\ \A q \in Counters : T2[t].ct[q] = T[t].ct[q]
              /\ T2[t].ready = T[t].ready /\ T2[t].delay = T[t].delay
              /\ ~T2[t].live => \A q \in Counters : T[t].ct[q] = 0
              /\ \A j \in T[t].ready : jobs2[j].pri = jobs[j].pri
    PROVE  Booked(T2, jobs2, n)
<1>1. ASSUME NEW t \in Tubes PROVE Tally(T2[t], jobs2)
  <2>1. UrgentOf(T2[t].ready, jobs2) = UrgentOf(T[t].ready, jobs)
    BY DEF UrgentOf
  <2> QED BY <2>1 DEF Tally, Booked, Counters
<1>2. \A q \in Counters : Col(T2, q) = Col(T, q)
  BY DEF Col
<1> QED BY <1>1, <1>2 DEF Booked

\* A step that moves no job keeps the books.
LEMMA BookSame ==
    ASSUME NEW T, NEW T2, NEW jobs, NEW n, Booked(T, jobs, n), T2 \in [Tubes -> Tube],
           \A t \in Tubes : SameJobs(T[t], T2[t])
    PROVE  Booked(T2, jobs, n)
<1>1. \A t \in Tubes :
              /\ \A q \in Counters : T2[t].ct[q] = T[t].ct[q]
              /\ T2[t].ready = T[t].ready /\ T2[t].delay = T[t].delay
              /\ ~T2[t].live => \A q \in Counters : T[t].ct[q] = 0
              /\ \A j \in T[t].ready : jobs[j].pri = jobs[j].pri
  BY DEF SameJobs, Booked, Tally
<1> QED BY <1>1, BookFrame

\* Job records may change as long as no ready job changes priority.
LEMMA BookJobs ==
    ASSUME NEW T, NEW jobs, NEW jobs2, NEW n, Booked(T, jobs, n),
           \A t \in Tubes : \A j \in T[t].ready : jobs2[j].pri = jobs[j].pri
    PROVE  Booked(T, jobs2, n)
<1>1. T \in [Tubes -> Tube] /\ \A t \in Tubes :
              /\ \A q \in Counters : T[t].ct[q] = T[t].ct[q]
              /\ T[t].ready = T[t].ready /\ T[t].delay = T[t].delay
              /\ ~T[t].live => \A q \in Counters : T[t].ct[q] = 0
              /\ \A j \in T[t].ready : jobs2[j].pri = jobs[j].pri
  BY DEF Booked, Tally
<1> QED BY <1>1, BookFrame

\* Empty tubes count nothing.
LEMMA EmptyBook ==
    /\ \A q \in Counters : NewTube.ct[q] = 0 /\ NoTube.ct[q] = 0
    /\ NewTube \in Tube /\ NoTube \in Tube
    /\ NewTube.ready = {} /\ NewTube.delay = {} /\ NoTube.ready = {} /\ NoTube.delay = {}
    /\ NewTube.ct \in [Counters -> Int]
<1>1. \A q \in Counters : NewTube.ct[q] = 0
  BY DEF NewTube
<1>2. NoTube.ct = NewTube.ct
  BY DEF NoTube, NewTube
<1> QED BY <1>1, <1>2, NewTubeProps DEF Tube

\* gcTube takes away tubes that count nothing.
LEMMA BookGc ==
    ASSUME NEW T, NEW jobs, NEW n, NEW ts, Booked(T, jobs, n)
    PROVE  Booked(gcTube(T, ts), jobs, n)
<1> DEFINE T2 == gcTube(T, ts)
<1>0. T \in [Tubes -> Tube] /\ Cardinality({}) = 0 /\ UrgentOf({}, jobs) = {}
  BY FS_EmptySet DEF Booked, UrgentOf
<1>1. \A t \in Tubes : T2[t] = T[t] \/ (Collectable(T[t]) /\ T2[t] = NoTube)
  BY DEF gcTube
<1>2. T2 \in [Tubes -> Tube]
  BY <1>0, EmptyBook DEF gcTube
<1>3. ASSUME NEW t \in Tubes, Collectable(T[t]) PROVE \A q \in Counters : T[t].ct[q] = 0
  BY <1>0, <1>3 DEF Collectable, Booked, Tally, Counters
<1> HIDE DEF T2
<1>4. \A t \in Tubes :
              /\ \A q \in Counters : T2[t].ct[q] = T[t].ct[q]
              /\ T2[t].ready = T[t].ready /\ T2[t].delay = T[t].delay
              /\ ~T2[t].live => \A q \in Counters : T[t].ct[q] = 0
              /\ \A j \in T[t].ready : jobs[j].pri = jobs[j].pri
  <2>1. SUFFICES ASSUME NEW t \in Tubes
                 PROVE  /\ \A q \in Counters : T2[t].ct[q] = T[t].ct[q]
                        /\ T2[t].ready = T[t].ready /\ T2[t].delay = T[t].delay
                        /\ ~T2[t].live => \A q \in Counters : T[t].ct[q] = 0
    OBVIOUS
  <2>2. CASE T2[t] = T[t]
    BY <2>2 DEF Booked, Tally
  <2>3. CASE Collectable(T[t]) /\ T2[t] = NoTube
    BY <2>3, <1>3, EmptyBook DEF Collectable
  <2> QED BY <2>2, <2>3, <1>1
<1>5. Booked(T2, jobs, n)
  BY <1>2, <1>4, BookFrame
<1> QED BY <1>5 DEF T2

\* A tube that is not in the map has empty heaps.
LEMMA DeadEmpty ==
    ASSUME NEW tb \in Tube, NEW jobs, Tally(tb, jobs), ~tb.live
    PROVE  tb.ready = {} /\ tb.delay = {}
<1>1. Cardinality(tb.ready) = 0 /\ Cardinality(tb.delay) = 0
  BY DEF Tally, Counters
<1>2. IsFiniteSet(tb.ready) /\ IsFiniteSet(tb.delay)
  BY JobSetsFinite DEF Tube
<1> QED BY <1>1, <1>2, FS_EmptySet

\* makeTube adds a tube that counts nothing.
LEMMA BookMake ==
    ASSUME NEW T, NEW jobs, NEW n, NEW t \in Tubes, Booked(T, jobs, n)
    PROVE  Booked(makeTube(T, t), jobs, n)
<1>1. CASE T[t].live
  BY <1>1 DEF makeTube
<1>2. CASE ~T[t].live
  <2> DEFINE T2 == [T EXCEPT ![t] = NewTube]
  <2>1. makeTube(T, t) = T2
    BY <1>2 DEF makeTube
  <2>2. T \in [Tubes -> Tube] /\ \A q \in Counters : T[t].ct[q] = 0
    BY <1>2 DEF Booked, Tally
  <2>3. /\ T2 \in [Tubes -> Tube] /\ T2[t] = NewTube
        /\ \A u \in Tubes : u # t => T2[u] = T[u]
    BY <2>2, EmptyBook
  <2> HIDE DEF T2
  <2>4. \A u \in Tubes :
              /\ \A q \in Counters : T2[u].ct[q] = T[u].ct[q]
              /\ T2[u].ready = T[u].ready /\ T2[u].delay = T[u].delay
              /\ ~T2[u].live => \A q \in Counters : T[u].ct[q] = 0
              /\ \A j \in T[u].ready : jobs[j].pri = jobs[j].pri
    <3>1. SUFFICES ASSUME NEW u \in Tubes
                   PROVE  /\ \A q \in Counters : T2[u].ct[q] = T[u].ct[q]
                          /\ T2[u].ready = T[u].ready /\ T2[u].delay = T[u].delay
                          /\ ~T2[u].live => \A q \in Counters : T[u].ct[q] = 0
      OBVIOUS
    <3>2. CASE u = t
      BY <3>2, <1>2, <2>2, <2>3, EmptyBook, DeadEmpty DEF Booked
    <3>3. CASE u # t
      BY <3>3, <2>3 DEF Booked, Tally
    <3> QED BY <3>2, <3>3
  <2>5. Booked(T2, jobs, n)
    BY <2>3, <2>4, BookFrame
  <2> QED BY <2>1, <2>5
<1> QED BY <1>1, <1>2

\* One tube is edited, its jobs are not.
LEMMA BookEdit ==
    ASSUME NEW T, NEW jobs, NEW n, NEW t \in Tubes, NEW r, Booked(T, jobs, n), SameJobs(T[t], r)
    PROVE  Booked([T EXCEPT ![t] = r], jobs, n)
<1> DEFINE T2 == [T EXCEPT ![t] = r]
<1>1. T \in [Tubes -> Tube] /\ r \in Tube
  BY DEF Booked, SameJobs
<1>2. T2 \in [Tubes -> Tube] /\ \A u \in Tubes : SameJobs(T[u], T2[u])
  BY <1>1 DEF SameJobs
<1> HIDE DEF T2
<1>3. Booked(T2, jobs, n)
  BY <1>2, BookSame
<1> QED BY <1>3 DEF T2

\* A job is filed.
LEMMA BookLink ==
    ASSUME NEW T, NEW jobs, NEW n, NEW t \in Tubes, NEW s \in QueueStates, NEW j \in JobIds,
           Booked(T, jobs, n), T[t].live, j \notin T[t].ready, j \notin T[t].delay
    PROVE  Booked([T EXCEPT ![t] = Link(@, s, j, jobs)], jobs, Enter(n, s, {j}, jobs))
<1> DEFINE tb == T[t]
           r == Link(tb, s, j, jobs)
           J == {j}
<1>1. T \in [Tubes -> Tube] /\ tb \in Tube /\ tb.ct \in [Counters -> Int]
  BY DEF Booked, Tube
<1>2. J \subseteq JobIds /\ J \cap tb.ready = {} /\ J \cap tb.delay = {}
  OBVIOUS
<1>3. Linked(r, tb, s, j)
  BY <1>1, LinkProps
<1>4. r.ct = Enter(tb.ct, s, J, jobs)
  BY <1>1 DEF Link, Tube
<1>5. [T EXCEPT ![t] = Link(@, s, j, jobs)] = [T EXCEPT ![t] = r]
  BY <1>1
<1>6. /\ r \in Tube /\ r.live = tb.live
      /\ r.ready = IF s = "ready" THEN tb.ready \cup J ELSE tb.ready
      /\ r.delay = IF s = "delayed" THEN tb.delay \cup J ELSE tb.delay
  BY <1>3 DEF Linked
<1> HIDE DEF r, J
<1>7. Credited(r.ct, tb.ct, s, J, jobs)
  BY <1>1, <1>2, <1>4, CtMoves
<1>8. Won(r, tb, s, J, jobs)
  BY <1>2, <1>6, <1>7 DEF Won
<1>9. Booked([T EXCEPT ![t] = r], jobs, Enter(n, s, J, jobs))
  BY <1>2, <1>6, <1>8, BookWonOne
<1> QED BY <1>5, <1>9 DEF J

\* A job is taken out.
LEMMA BookUnlink ==
    ASSUME NEW T, NEW n, NEW t \in Tubes, NEW s \in QueueStates, NEW j \in JobIds,
           Booked(T, job, n), T[t].live,
           s = "ready" => j \in T[t].ready, s = "delayed" => j \in T[t].delay
    PROVE  Booked([T EXCEPT ![t] = Unlink(@, s, j)], job, Leave(n, s, {j}, job))
<1> DEFINE tb == T[t]
           r == Unlink(tb, s, j)
           J == {j}
<1>1. T \in [Tubes -> Tube] /\ tb \in Tube /\ tb.ct \in [Counters -> Int]
  BY DEF Booked, Tube
<1>2. /\ J \subseteq JobIds
      /\ s = "ready" => J \subseteq tb.ready
      /\ s = "delayed" => J \subseteq tb.delay
  OBVIOUS
<1>3. Unlinked(r, tb, s, j)
  BY <1>1, UnlinkProps
<1>4. r.ct = Leave(tb.ct, s, J, job)
  BY <1>1 DEF Unlink, Tube
<1>5. [T EXCEPT ![t] = Unlink(@, s, j)] = [T EXCEPT ![t] = r]
  BY <1>1
<1>6. /\ r \in Tube /\ r.live = tb.live
      /\ r.ready = IF s = "ready" THEN tb.ready \ J ELSE tb.ready
      /\ r.delay = IF s = "delayed" THEN tb.delay \ J ELSE tb.delay
  BY <1>3 DEF Unlinked
<1> HIDE DEF r, J
<1>7. Debited(r.ct, tb.ct, s, J, job)
  BY <1>1, <1>2, <1>4, CtMoves
<1>8. Lost(r, tb, s, J, job)
  BY <1>2, <1>6, <1>7 DEF Lost
<1>9. Booked([T EXCEPT ![t] = r], job, Leave(n, s, J, job))
  BY <1>2, <1>6, <1>8, BookLostOne
<1> QED BY <1>5, <1>9 DEF J

-----------------------------------------------------------------------------
(* The actions keep the books. *)

Books == Booked(tube, job, count)

\* A step that touches neither tubes nor counters nor a job of the index.
LEMMA QuietBooks ==
    ASSUME Parts, Books, UNCHANGED <<tube, count>>,
           \A j \in JobIds : job[j].state # "invalid" => job'[j] = job[j]
    PROVE  Books'
<1>1. \A t \in Tubes : \A j \in tube[t].ready : job'[j].pri = job[j].pri
  <2>1. \A t \in Tubes : tube[t].ready \subseteq JobIds
    BY DEF Parts, TypeOK, Tube
  <2>2. \A t \in Tubes : \A j \in tube[t].ready : job[j].state = "ready"
    BY <2>1, PartsTypes DEF MapHolds, TubeHolds, FiledIn
  <2> QED BY <2>1, <2>2
<1>2. Booked(tube, job', count)
  BY <1>1, BookJobs DEF Books
<1> QED BY <1>2 DEF Books

\* A step that only edits one tube beside its jobs.
LEMMA SameBooks ==
    ASSUME NEW T, Booked(T, job, count), UNCHANGED <<job, count>>,
           NEW t \in Tubes, NEW r, SameJobs(T[t], r), tube' = [T EXCEPT ![t] = r]
    PROVE  Books'
<1>1. Booked([T EXCEPT ![t] = r], job, count)
  BY BookEdit
<1> QED BY <1>1 DEF Books

\* connect, use, watch and ignore.
LEMMA RefsBooks ==
    ASSUME Parts, Books, NEW c \in Conns, NEW t \in Tubes,
           Connect(c) \/ handleUse(c, t) \/ handleWatch(c, t) \/ handleIgnore(c, t)
    PROVE  Books'
<1>0. /\ tube \in [Tubes -> Tube] /\ Default \in Tubes
      /\ \A u \in Tubes : tube[u].using \in Int /\ tube[u].watching \in Int
      /\ Booked(tube, job, count) /\ conn \in [Conns -> Conn]
  BY TubesAssumption DEF Parts, TypeOK, Tube, Books
<1>1. CASE Connect(c)
  <2> DEFINE d == tube[Default]
             a == d.using + 1
             b == d.watching + 1
             r == [d EXCEPT !.using = a, !.watching = b]
  <2>1. tube' = [tube EXCEPT ![Default] = r] /\ UNCHANGED <<job, count>>
    BY <1>0, <1>1 DEF Connect, Tube
  <2>2. a \in Int /\ b \in Int /\ d \in Tube
    BY <1>0
  <2> HIDE DEF a, b
  <2>3. SameJobs(d, r)
    BY <2>2, EditRefs DEF Referred
  <2> HIDE DEF r
  <2> QED BY <2>1, <2>3, <1>0, SameBooks
<1>2. CASE handleUse(c, t)
  <2> DEFINE old == conn[c].use
             a == tube[old].using - 1
             q == [tube[old] EXCEPT !.using = a]
             T1 == [tube EXCEPT ![old] = q]
             T2 == gcTube(T1, {old})
             T3 == makeTube(T2, t)
             b == T3[t].using + 1
             r == [T3[t] EXCEPT !.using = b]
  <2>1. tube' = [T3 EXCEPT ![t] = r] /\ UNCHANGED <<job, count>>
    <3>1. tube' = [T3 EXCEPT ![t] = r]
      BY <1>2 DEF handleUse
    <3> QED BY <3>1, <1>2 DEF handleUse
  <2>2. old \in Tubes /\ a \in Int /\ tube[old] \in Tube
    BY <1>0 DEF Conn
  <2> HIDE DEF a, old
  <2>3. SameJobs(tube[old], q)
    BY <2>2, EditRefs DEF Referred
  <2> HIDE DEF q
  <2>4. Booked(T1, job, count)
    BY <2>2, <2>3, <1>0, BookEdit
  <2> HIDE DEF T1
  <2>5. Booked(T2, job, count)
    BY <2>4, BookGc
  <2> HIDE DEF T2
  <2>6. Booked(T3, job, count)
    BY <2>5, BookMake
  <2> HIDE DEF T3
  <2>7. T3[t] \in Tube /\ b \in Int
    BY <2>6 DEF Booked, Tube
  <2> HIDE DEF b
  <2>8. SameJobs(T3[t], r)
    BY <2>7, EditRefs DEF Referred
  <2> HIDE DEF r
  <2> QED BY <2>1, <2>6, <2>8, SameBooks
<1>3. CASE handleWatch(c, t)
  <2> DEFINE T == makeTube(tube, t)
             b == T[t].watching + 1
             r == [T[t] EXCEPT !.watching = b]
  <2>1. tube' = [T EXCEPT ![t] = r] /\ UNCHANGED <<job, count>>
    BY <1>3 DEF handleWatch
  <2>2. Booked(T, job, count)
    BY <1>0, BookMake
  <2> HIDE DEF T
  <2>3. T[t] \in Tube /\ b \in Int
    BY <2>2 DEF Booked, Tube
  <2> HIDE DEF b
  <2>4. SameJobs(T[t], r)
    BY <2>3, EditRefs DEF Referred
  <2> HIDE DEF r
  <2> QED BY <2>1, <2>2, <2>4, SameBooks
<1>4. CASE handleIgnore(c, t)
  <2> DEFINE a == tube[t].watching - 1
             r == [tube[t] EXCEPT !.watching = a]
             T == [tube EXCEPT ![t] = r]
  <2>1. tube' = gcTube(T, {t}) /\ UNCHANGED <<job, count>>
    BY <1>4 DEF handleIgnore
  <2>2. a \in Int /\ tube[t] \in Tube
    BY <1>0
  <2> HIDE DEF a
  <2>3. SameJobs(tube[t], r)
    BY <2>2, EditRefs DEF Referred
  <2> HIDE DEF r
  <2>4. Booked(T, job, count)
    BY <2>3, <1>0, BookEdit
  <2> HIDE DEF T
  <2>5. Booked(gcTube(T, {t}), job, count)
    BY <2>4, BookGc
  <2> QED BY <2>1, <2>5 DEF Books
<1> QED BY <1>1, <1>2, <1>3, <1>4

\* A tube with the same books has the same jobs.
LEMMA SameBookJobs ==
    ASSUME NEW tb, NEW r, SameBook(tb, r)
    PROVE  SameJobs(tb, r)
BY DEF SameBook, SameJobs

\* pause-tube, the end of a pause and set-dlq.
LEMMA SettingsBooks ==
    ASSUME Parts, Books, NEW t \in Tubes,
           \/ tickUnpause(t)
           \/ \E c \in Conns : handlePauseTube(c, t)
           \/ \E c \in Conns, m \in Nat, d \in Tubes : handleSetDlq(c, t, m, d)
    PROVE  Books'
<1>0. Booked(tube, job, count) /\ tube[t] \in Tube /\ Default \in Tubes
  BY TubesAssumption DEF Books, Booked
<1>1. ASSUME NEW b \in BOOLEAN, tube' = [tube EXCEPT ![t].paused = b], UNCHANGED <<job, count>>
      PROVE  Books'
  <2> DEFINE r == [tube[t] EXCEPT !.paused = b]
  <2>1. tube' = [tube EXCEPT ![t] = r]
    BY <1>1
  <2>2. SameJobs(tube[t], r)
    BY <1>0, EditBook, SameBookJobs
  <2> HIDE DEF r
  <2> QED BY <2>1, <2>2, <1>0, <1>1, SameBooks
<1>2. ASSUME NEW c \in Conns, NEW m \in Nat, NEW d \in Tubes, handleSetDlq(c, t, m, d)
      PROVE  Books'
  <2> DEFINE T == makeTube(tube, t)
             e == IF m = 0 THEN Default ELSE d
             r == [T[t] EXCEPT !.max = m, !.dead = e]
  <2>1. tube' = [T EXCEPT ![t] = r] /\ UNCHANGED <<job, count>>
    BY <1>2 DEF handleSetDlq
  <2>2. Booked(T, job, count) /\ e \in Tubes
    BY <1>0, BookMake
  <2> HIDE DEF T, e
  <2>3. T[t] \in Tube
    BY <2>2 DEF Booked
  <2>4. SameJobs(T[t], r)
    <3>1. SameBook(T[t], r)
      BY <2>2, <2>3, EditBook
    <3> QED BY <3>1, SameBookJobs
  <2> HIDE DEF r
  <2> QED BY <2>1, <2>2, <2>4, SameBooks
<1> QED BY <1>1, <1>2 DEF tickUnpause, handlePauseTube

\* The first half of put, and a body that is refused.
LEMMA PutBooks ==
    ASSUME Parts, Books, NEW c \in Conns,
           \/ \E p \in Pris, d \in Delays : startPut(c, p, d)
           \/ badBody(c)
    PROVE  Books'
<1>0. job \in [JobIds -> Job] /\ nextId \in Nat
  BY InputAssumption DEF Parts, TypeOK
<1>1. ASSUME NEW p \in Pris, NEW d \in Delays, startPut(c, p, d) PROVE Books'
  <2>1. nextId' = nextId + 1 /\ UNCHANGED <<tube, count>>
    BY <1>1 DEF startPut
  <2>2. \A j \in JobIds : j # nextId' => job'[j] = job[j]
    BY <1>0, <1>1 DEF startPut
  <2>3. \A j \in JobIds : job[j].state # "invalid" => j # nextId'
    BY <2>1, <1>0, PartsTypes DEF PutsHold
  <2> QED BY <2>1, <2>2, <2>3, QuietBooks
<1>2. CASE badBody(c)
  <2>1. UNCHANGED <<tube, count>> /\ conn[c].inJob # 0 /\ PutHolds(job, conn[c], nextId)
    BY <1>2, PartsTypes DEF badBody, PutsHold, PutHolds
  <2>2. \A j \in JobIds : j # conn[c].inJob => job'[j] = job[j]
    BY <1>0, <1>2 DEF badBody
  <2>3. job[conn[c].inJob].state = "invalid"
    BY <2>1 DEF PutHolds
  <2> QED BY <2>1, <2>2, <2>3, QuietBooks
<1> QED BY <1>1, <1>2

\* The tube a job of the index is filed in is in the map.
LEMMA FiledJob ==
    ASSUME Parts, NEW j \in JobIds, job[j].state # "invalid"
    PROVE  /\ job[j].tube \in Tubes /\ tube[job[j].tube].live /\ job[j].state \in QueueStates
           /\ job[j].state = "ready" => j \in tube[job[j].tube].ready
           /\ job[j].state = "delayed" => j \in tube[job[j].tube].delay
           /\ job[j].state # "ready" => \A u \in Tubes : j \notin tube[u].ready
           /\ job[j].state # "delayed" => \A u \in Tubes : j \notin tube[u].delay
<1>1. job[j].tube \in Tubes /\ job[j].state \in QueueStates
  BY PartsTypes DEF JobStates, QueueStates
<1>2. ASSUME NEW u \in Tubes PROVE FiledIn(tube[u], u, job, j)
  BY PartsTypes DEF MapHolds, TubeHolds
<1>3. tube[job[j].tube].live
  <2>1. ~Elsewhere(job, j, job[j].tube)
    BY DEF Elsewhere
  <2> QED BY <1>1, <2>1, PartsTypes DEF MapHolds, TubeHolds
<1> QED BY <1>1, <1>2, <1>3 DEF FiledIn

\* The second half of put: the job is filed and counted.
LEMMA FinishBooks ==
    ASSUME Parts, Books, NEW c \in Conns, finishPut(c)
    PROVE  Books'
<1> DEFINE j == conn[c].inJob
           t == conn[c].use
<1>0. PICK d \in IF job[j].delay = "at" THEN {"none", "some"} ELSE {job[j].delay} :
         LET jobs == [job EXCEPT ![j].state = Queue(d), ![j].delay = d]
         IN  /\ job'   = jobs
             /\ tube'  = enqueueJob(tube, j, jobs)
             /\ count' = Enter(count, Queue(d), {j}, jobs)
             /\ saved' = [saved EXCEPT ![j] = Image(jobs[j])]
  BY DEF finishPut
<1> DEFINE s == Queue(d)
           r == [tube[t] EXCEPT !.tombstoned = FALSE]
           T == [tube EXCEPT ![t] = r]
           T2 == [T EXCEPT ![t] = Link(@, s, j, job')]
<1>1. /\ job \in [JobIds -> Job] /\ conn[c] \in Conn /\ tube \in [Tubes -> Tube]
      /\ conn[c].inJob # 0 /\ conn[c].phase = "data" /\ PutHolds(job, conn[c], nextId)
      /\ t \in Tubes
  BY PartsTypes DEF TypeOK, finishPut, PutsHold, PutHolds, Conn
<1>2. j \in JobIds /\ job[j].state = "invalid" /\ job[j].tube = t
  BY <1>1 DEF Conn, PutHolds
<1>3. tube[t].live
  <2>1. c \in Users(conn, t)
    BY <1>1 DEF Users
  <2> QED BY <2>1, <1>1, PartsTypes DEF MapHolds, TubeHolds
<1>4. \A u \in Tubes : j \notin tube[u].ready /\ j \notin tube[u].delay
  BY <1>2, PartsTypes DEF MapHolds, TubeHolds, FiledIn
<1>5. /\ \A k \in JobIds : k # j => job'[k] = job[k]
      /\ job'[j] = [job[j] EXCEPT !.state = s, !.delay = d]
  BY <1>0, <1>1, <1>2
<1>6. job'[j].tube = t /\ job'[j].delay = d
  BY <1>1, <1>2, <1>5 DEF Job
<1>7. tube' = T2 /\ count' = Enter(count, s, {j}, job')
  <2>1. tube' = enqueueJob(tube, j, job') /\ count' = Enter(count, s, {j}, job')
    BY <1>0
  <2> QED BY <2>1, <1>1, <1>6 DEF enqueueJob
<1>8. s \in QueueStates
  BY DEF Queue, QueueStates
<1> HIDE DEF s, j, t
<1>9. SameBook(tube[t], r)
  BY <1>1, TubesAssumption, EditBook
<1>10. SameJobs(tube[t], r)
  BY <1>9, SameBookJobs
<1> HIDE DEF r
<1>11. Booked(T, job, count)
  BY <1>1, <1>10, BookEdit DEF Books
<1>12. /\ T[t].live
       /\ \A u \in Tubes : j \notin T[u].ready /\ j \notin T[u].delay
       /\ \A u \in Tubes : T[u].ready \subseteq JobIds
  <2>1. T[t] = r /\ \A u \in Tubes : u # t => T[u] = tube[u]
    BY <1>1
  <2>2. \A u \in Tubes : T[u].ready \subseteq JobIds
    BY <1>11 DEF Booked, Tube
  <2> HIDE DEF T
  <2> QED BY <2>1, <2>2, <1>1, <1>3, <1>4, <1>10 DEF SameJobs
<1> HIDE DEF T
<1>13. Booked(T, job', count)
  <2>1. \A u \in Tubes : \A k \in T[u].ready : job'[k].pri = job[k].pri
    BY <1>5, <1>12
  <2> QED BY <2>1, <1>11, BookJobs
<1>14. Booked(T2, job', Enter(count, s, {j}, job'))
  BY <1>1, <1>2, <1>8, <1>12, <1>13, BookLink
<1> QED BY <1>7, <1>14 DEF Books

\* A job leaves its queue and is reserved.
LEMMA TakeBooks ==
    ASSUME Parts, Books, NEW c \in Conns, NEW j \in JobIds,
           job[j].state \in {"ready", "buried", "delayed"},
           NEW T \in [Tubes -> Tube], \A u \in Tubes : SameBook(tube[u], T[u]),
           Take(c, j, T)
    PROVE  Books'
<1> DEFINE s == job[j].state
           t == job[j].tube
           e == "reserved"
           T1 == [T EXCEPT ![t] = Unlink(@, s, j)]
           T2 == [T1 EXCEPT ![t] = Link(@, e, j, job)]
           n1 == Leave(count, s, {j}, job)
<1>1. /\ t \in Tubes /\ s \in QueueStates /\ tube[t].live /\ e \in QueueStates
      /\ s = "ready" => j \in tube[t].ready
      /\ s = "delayed" => j \in tube[t].delay
      /\ s # "ready" => \A u \in Tubes : j \notin tube[u].ready
      /\ s # "delayed" => \A u \in Tubes : j \notin tube[u].delay
  BY FiledJob DEF QueueStates
<1>2. /\ tube' = [T EXCEPT ![t] = Link(Unlink(@, s, j), e, j, job)]
      /\ count' = Enter(n1, e, {j}, job)
      /\ job' = [job EXCEPT ![j].state = e, ![j].reserver = c] /\ job \in [JobIds -> Job]
  BY DEF Take, Parts, TypeOK
<1>3. tube' = T2
  BY <1>1, <1>2
<1>4. Booked(T, job, count)
  <2>1. \A u \in Tubes : SameJobs(tube[u], T[u])
    BY SameBookJobs
  <2> QED BY <2>1, BookSame DEF Books
<1>5. \A u \in Tubes : T[u].ready = tube[u].ready /\ T[u].delay = tube[u].delay /\ T[u].live = tube[u].live
  BY DEF SameBook
<1> HIDE DEF s, t, e
<1>6. Booked(T1, job, n1)
  BY <1>1, <1>4, <1>5, BookUnlink
<1>7. T1[t].live /\ j \notin T1[t].ready /\ j \notin T1[t].delay
  <2>1. Unlinked(Unlink(T[t], s, j), T[t], s, j)
    BY <1>1, UnlinkProps
  <2>2. T1[t] = Unlink(T[t], s, j)
    BY <1>1
  <2> HIDE DEF T1
  <2> QED BY <2>1, <2>2, <1>1, <1>5 DEF Unlinked
<1> HIDE DEF T1, n1
<1>8. Booked(T2, job, Enter(n1, e, {j}, job))
  BY <1>1, <1>6, <1>7, BookLink
<1>9. Booked(tube', job, count')
  BY <1>2, <1>3, <1>8
<1>10. \A u \in Tubes : \A k \in tube'[u].ready : job'[k].pri = job[k].pri
  <2>1. \A u \in Tubes : tube'[u].ready \subseteq JobIds
    BY <1>9 DEF Booked, Tube
  <2>2. \A k \in JobIds : job'[k].pri = job[k].pri
    BY <1>2 DEF Job
  <2> QED BY <2>1, <2>2
<1>11. Booked(tube', job', count')
  BY <1>9, <1>10, BookJobs
<1> QED BY <1>11 DEF Books

\* reserve in all its forms.
LEMMA ReserveBooks ==
    ASSUME Parts, Books, NEW c \in Conns,
           doReserve(c) \/ doReserveImmediate(c) \/ checkWait(c)
    PROVE  Books'
<1>1. PICK E \in Elapsed(c) :
         findJobForConn(c, E) \/ (tube' = Reopened(E) /\ UNCHANGED <<job, count>>)
  BY DEF doReserve, doReserveImmediate, checkWait, NothingReady
<1>2. /\ Reopened(E) \in [Tubes -> Tube]
      /\ \A u \in Tubes : SameBook(tube[u], Reopened(E)[u])
  BY ReopenedBook
<1>3. CASE findJobForConn(c, E)
  <2> DEFINE ts == OpenTubes(c, E)
  <2>1. PICK t0 \in ts : tube[t0].ready # {}
    BY <1>3 DEF findJobForConn, OpenTubes
  <2>2. ts \subseteq Tubes
    BY DEF Parts, TypeOK, Conn, OpenTubes
  <2>3. /\ \A t \in ts : tube[t].ready \subseteq JobIds
        /\ \A j \in JobIds : job[j].pri \in Nat
    BY <2>2 DEF Parts, TypeOK, Tube, Job
  <2> HIDE DEF ts
  <2>4. PICK t \in ts : Best(ts) \in tube[t].ready
    BY <2>1, <2>3, BestIsReady
  <2>5. Best(ts) \in JobIds /\ job[Best(ts)].state = "ready"
    BY <2>2, <2>3, <2>4, PartsTypes DEF MapHolds, TubeHolds, FiledIn
  <2>6. Take(c, Best(ts), Reopened(E))
    BY <1>3 DEF findJobForConn, ts
  <2> QED BY <2>5, <2>6, <1>2, TakeBooks
<1>4. CASE tube' = Reopened(E) /\ UNCHANGED <<job, count>>
  <2>1. \A u \in Tubes : SameJobs(tube[u], tube'[u])
    BY <1>2, <1>4, SameBookJobs
  <2>2. Booked(tube', job, count)
    BY <2>1, <1>2, <1>4, BookSame DEF Books
  <2> QED BY <2>2, <1>4 DEF Books
<1> QED BY <1>1, <1>3, <1>4

\* The job leaves the index; Parts' says that no heap holds it any more.
LEMMA ForgetBooks ==
    ASSUME Parts, Parts', Books, NEW j \in JobIds, job[j].state # "invalid",
           NEW s, s = job[j].state, Forget(j, s)
    PROVE  Books'
<1> DEFINE t == job[j].tube
           T == [tube EXCEPT ![t] = Unlink(@, s, j)]
           n1 == Leave(count, s, {j}, job)
<1>1. /\ t \in Tubes /\ s \in QueueStates /\ tube[t].live
      /\ s = "ready" => j \in tube[t].ready
      /\ s = "delayed" => j \in tube[t].delay
  BY FiledJob
<1>2. /\ job' = [job EXCEPT ![j] = NoJob] /\ tube' = gcTube(T, {t}) /\ count' = n1
      /\ job \in [JobIds -> Job]
  BY DEF Forget, Parts, TypeOK
<1> HIDE DEF t
<1>3. Booked(T, job, n1)
  BY <1>1, BookUnlink DEF Books
<1> HIDE DEF T, n1
<1>4. Booked(tube', job, count')
  BY <1>2, <1>3, BookGc
<1>5. \A u \in Tubes : \A k \in tube'[u].ready : job'[k].pri = job[k].pri
  <2>1. \A u \in Tubes : tube'[u].ready \subseteq JobIds
    BY <1>4 DEF Booked, Tube
  <2>2. MapHolds(tube', job', conn')
    BY DEF Parts, Good
  <2>3. \A u \in Tubes : j \notin tube'[u].ready
    <3>1. job'[j].state = "invalid"
      BY <1>2 DEF NoJob
    <3> QED BY <3>1, <2>2 DEF MapHolds, TubeHolds, FiledIn
  <2>4. \A k \in JobIds \ {j} : job'[k] = job[k]
    BY <1>2
  <2> QED BY <2>1, <2>3, <2>4
<1>6. Booked(tube', job', count')
  BY <1>4, <1>5, BookJobs
<1> QED BY <1>6 DEF Books

\* A reserved job is uncounted and filed as r, in the map T.
LEMMA BecomesBooks ==
    ASSUME Parts, NEW j \in JobIds, job[j].state = "reserved", NEW r \in Job,
           NEW s \in {"ready", "delayed", "buried"}, NEW T,
           Booked(T, job, Leave(count, "reserved", {j}, job)), T[r.tube].live,
           \A u \in Tubes : j \notin T[u].ready /\ j \notin T[u].delay,
           Becomes(j, r, s, T)
    PROVE  Books'
<1> DEFINE t == r.tube
           n1 == Leave(count, "reserved", {j}, job)
           T2 == [T EXCEPT ![t] = Link(@, s, j, job')]
<1>1. t \in Tubes /\ s \in QueueStates /\ job \in [JobIds -> Job]
  BY DEF Job, QueueStates, Parts, TypeOK
<1>2. /\ job' = [job EXCEPT ![j] = [r EXCEPT !.state = s, !.reserver = NoConn]]
      /\ tube' = T2 /\ count' = Enter(n1, s, {j}, job')
  BY DEF Becomes
<1>3. Booked(T, job', n1)
  <2>1. \A u \in Tubes : T[u].ready \subseteq JobIds
    BY DEF Booked, Tube
  <2>2. \A k \in JobIds \ {j} : job'[k] = job[k]
    BY <1>1, <1>2
  <2>3. \A u \in Tubes : \A k \in T[u].ready : job'[k].pri = job[k].pri
    BY <2>1, <2>2
  <2> HIDE DEF n1
  <2>4. Booked(T, job, n1)
    BY DEF n1
  <2> QED BY <2>3, <2>4, BookJobs
<1> HIDE DEF n1, t
<1>4. T[t].live /\ j \notin T[t].ready /\ j \notin T[t].delay
  BY <1>1 DEF t
<1>5. Booked(T2, job', Enter(n1, s, {j}, job'))
  BY <1>1, <1>3, <1>4, BookLink
<1> QED BY <1>2, <1>5 DEF Books

\* The reservation is uncounted.
LEMMA UnreservedBooks ==
    ASSUME Parts, Books, NEW j \in JobIds, job[j].state = "reserved"
    PROVE  /\ Booked(Unreserved(j), job, Leave(count, "reserved", {j}, job))
           /\ Unreserved(j)[job[j].tube].live /\ job[j].tube \in Tubes
           /\ \A u \in Tubes : j \notin Unreserved(j)[u].ready /\ j \notin Unreserved(j)[u].delay
<1> DEFINE s == "reserved"
           t == job[j].tube
           T == [tube EXCEPT ![t] = Unlink(@, s, j)]
<1>1. /\ t \in Tubes /\ s \in QueueStates /\ tube[t].live /\ Unreserved(j) = T
      /\ \A u \in Tubes : j \notin tube[u].ready /\ j \notin tube[u].delay
      /\ s # "ready" /\ s # "delayed" /\ tube \in [Tubes -> Tube]
  BY FiledJob DEF QueueStates, Unreserved, Books, Booked
<1> HIDE DEF s, t
<1>2. Booked(T, job, Leave(count, s, {j}, job))
  BY <1>1, BookUnlink DEF Books
<1>3. T[t].live /\ \A u \in Tubes : j \notin T[u].ready /\ j \notin T[u].delay
  <2>1. Unlinked(Unlink(tube[t], s, j), tube[t], s, j)
    BY <1>1, UnlinkProps
  <2>2. T[t] = Unlink(tube[t], s, j) /\ \A u \in Tubes : u # t => T[u] = tube[u]
    BY <1>1
  <2> HIDE DEF T
  <2> QED BY <2>1, <2>2, <1>1 DEF Unlinked
<1> HIDE DEF T
<1> QED BY <1>1, <1>2, <1>3 DEF s, t

\* The job goes back to a queue of its tube.
LEMMA BackBooks ==
    ASSUME Parts, Books, NEW j \in JobIds, job[j].state = "reserved",
           NEW r \in Job, r.tube = job[j].tube, NEW s \in {"ready", "delayed", "buried"},
           Becomes(j, r, s, Unreserved(j))
    PROVE  Books'
<1> DEFINE T == Unreserved(j)
<1>1. /\ Booked(T, job, Leave(count, "reserved", {j}, job)) /\ T[r.tube].live
      /\ \A u \in Tubes : j \notin T[u].ready /\ j \notin T[u].delay
      /\ Becomes(j, r, s, T)
  BY UnreservedBooks
<1> HIDE DEF T
<1> QED BY <1>1, BecomesBooks

\* The job is buried in the dead-letter tube.
LEMMA DeadBooks ==
    ASSUME Parts, Books, NEW j \in JobIds, job[j].state = "reserved",
           NEW r \in Job, checkDeadLetter(j, r)
    PROVE  Books'
<1> DEFINE dead == tube[r.tube].dead
           U == Unreserved(j)
           T == makeTube(U, dead)
           q == [r EXCEPT !.tube = dead]
           n1 == Leave(count, "reserved", {j}, job)
<1>1. dead \in Tubes /\ r.tube \in Tubes
  BY DEF Parts, TypeOK, Tube, Job
<1>2. q \in Job /\ q.tube = dead
  BY <1>1 DEF Job
<1>3. Becomes(j, q, "buried", T)
  BY DEF checkDeadLetter
<1> HIDE DEF dead, q
<1>4. Booked(U, job, n1) /\ \A u \in Tubes : j \notin U[u].ready /\ j \notin U[u].delay
  BY UnreservedBooks
<1> HIDE DEF U, n1
<1>5. Booked(T, job, n1)
  BY <1>1, <1>4, BookMake
<1>6. T[dead].live /\ \A u \in Tubes : j \notin T[u].ready /\ j \notin T[u].delay
  <2>1. U \in [Tubes -> Tube]
    BY <1>4 DEF Booked
  <2>2. CASE U[dead].live
    BY <2>2, <1>4 DEF makeTube
  <2>3. CASE ~U[dead].live
    <3>1. T = [U EXCEPT ![dead] = NewTube]
      BY <2>3 DEF makeTube
    <3> HIDE DEF T
    <3> QED BY <3>1, <2>1, <1>1, <1>4, NewTubeProps, EmptyBook
  <2> QED BY <2>2, <2>3
<1> HIDE DEF T
<1> QED BY <1>2, <1>3, <1>5, <1>6, BecomesBooks DEF n1

\* delete, release, bury and the end of a TTR.
LEMMA EndBooks ==
    ASSUME Parts, Parts', Books, NEW c \in Conns, NEW j \in JobIds,
           \/ handleDelete(c, j)
           \/ \E p \in Pris, d \in Delays \ {"at"} : handleRelease(c, j, p, d)
           \/ \E p \in Pris : handleBury(c, j, p)
           \/ tickExpire(j)
    PROVE  Books'
<1>1. CASE handleDelete(c, j)
  BY <1>1, ForgetBooks DEF handleDelete
<1>2. ASSUME NEW p \in Pris, NEW d \in Delays \ {"at"}, handleRelease(c, j, p, d)
      PROVE  Books'
  <2> DEFINE r == [Failed(j) EXCEPT !.pri = p, !.delay = d]
  <2>1. job[j].state = "reserved" /\ job[j].state # "invalid"
    BY <1>2 DEF handleRelease, Holds
  <2>2. p \in Nat /\ d \in DelayKinds /\ Queue(d) \in {"ready", "delayed", "buried"}
    BY InputAssumption DEF Queue
  <2>3. r \in Job /\ r.tube = job[j].tube
    BY <2>2, FailedType
  <2>4. \/ Forget(j, "reserved")
        \/ checkDeadLetter(j, r)
        \/ Becomes(j, r, Queue(d), Unreserved(j))
    BY <1>2 DEF handleRelease
  <2> HIDE DEF r
  <2> QED BY <2>1, <2>2, <2>3, <2>4, ForgetBooks, DeadBooks, BackBooks
<1>3. ASSUME NEW p \in Pris, handleBury(c, j, p) PROVE Books'
  <2> DEFINE r == [job[j] EXCEPT !.pri = p]
  <2>1. job[j].state = "reserved" /\ job[j].state # "invalid"
    BY <1>3 DEF handleBury, Holds
  <2>2. r \in Job /\ r.tube = job[j].tube
    BY InputAssumption, FailedType DEF DelayKinds
  <2>3. Forget(j, "reserved") \/ Becomes(j, r, "buried", Unreserved(j))
    BY <1>3 DEF handleBury
  <2> HIDE DEF r
  <2> QED BY <2>1, <2>2, <2>3, ForgetBooks, BackBooks
<1>4. CASE tickExpire(j)
  <2> DEFINE r == Failed(j)
  <2>1. job[j].state = "reserved" /\ job[j].state # "invalid"
    BY <1>4 DEF tickExpire
  <2>2. r \in Job /\ r.tube = job[j].tube
    BY FailedType DEF DelayKinds
  <2>3. \/ Forget(j, "reserved")
        \/ checkDeadLetter(j, r)
        \/ Becomes(j, r, "ready", Unreserved(j))
    BY <1>4 DEF tickExpire
  <2> HIDE DEF r
  <2> QED BY <2>1, <2>2, <2>3, ForgetBooks, DeadBooks, BackBooks
<1> QED BY <1>1, <1>2, <1>3, <1>4

\* Jobs that turn ready are counted over.
LEMMA ReadyBooks ==
    ASSUME Parts, Books, NEW t \in Tubes, NEW tb, NEW s \in {"buried", "delayed"}, NEW K,
           K \subseteq JobIds, \A k \in K : job[k].state = s /\ job[k].tube = t,
           Without(tb, tube[t], s, K), MakeReady(t, tb, s, K)
    PROVE  Books'
<1>1. PICK e \in QueueStates : e = "ready"
  BY DEF QueueStates
<1> DEFINE ct1 == Leave(tb.ct, s, K, job)
           ct2 == Enter(ct1, e, K, job)
           n1 == Leave(count, s, K, job)
           r1 == [tb EXCEPT !.ct = ct1]
           r2 == [tb EXCEPT !.ready = @ \cup K, !.ct = ct2]
           T1 == [tube EXCEPT ![t] = r1]
           T2 == [T1 EXCEPT ![t] = r2]
<1>2. /\ job' = [j \in JobIds |-> IF j \in K THEN [job[j] EXCEPT !.state = "ready"] ELSE job[j]]
      /\ tube' = [tube EXCEPT ![t] = r2] /\ count' = Enter(n1, e, K, job)
  BY <1>1 DEF MakeReady
<1>3. /\ tb \in Tube /\ tb.ct \in [Counters -> Int] /\ tb.ready \subseteq JobIds
      /\ s \in QueueStates /\ tube \in [Tubes -> Tube] /\ job \in [JobIds -> Job]
  BY DEF Without, Tube, QueueStates, Parts, TypeOK
<1>4. T2 = tube'
  BY <1>2, <1>3
<1>5. Debited(ct1, tb.ct, s, K, job)
  BY <1>3, CtMoves
<1>6. ct1 \in [Counters -> Int]
  BY <1>5 DEF Debited
<1> HIDE DEF ct1, n1
<1>7. Credited(ct2, ct1, e, K, job)
  BY <1>6, CtMoves
<1>8. ct2 \in [Counters -> Int]
  BY <1>7 DEF Credited
<1> HIDE DEF ct2
<1>9. /\ r1 \in Tube /\ r1.ct = ct1 /\ r1.ready = tb.ready /\ r1.delay = tb.delay
      /\ r1.live = tb.live
  BY <1>3, <1>6 DEF Tube
<1>10. /\ r2 \in Tube /\ r2.ct = ct2 /\ r2.ready = tb.ready \cup K /\ r2.delay = tb.delay
       /\ r2.live = tb.live
  BY <1>3, <1>8 DEF Tube
<1> HIDE DEF r1, r2
<1>11. /\ K # {} => tube[t].live
       /\ K \cap tube[t].ready = {}
       /\ s = "delayed" => K \subseteq tube[t].delay
  BY FiledJob
<1>12. Lost(r1, tube[t], s, K, job)
  BY <1>5, <1>9, <1>11 DEF Without, Lost
<1>13. Booked(T1, job, n1)
  BY <1>3, <1>9, <1>12, BookLostOne DEF Books, n1
<1>14. Won(r2, r1, e, K, job)
  BY <1>1, <1>7, <1>9, <1>10, <1>11 DEF Without, Won
<1>15. T1[t] = r1
  BY <1>3
<1> HIDE DEF T1
<1>16. Booked(T2, job, Enter(n1, e, K, job))
  BY <1>10, <1>13, <1>14, <1>15, BookWonOne
<1>17. Booked(tube', job, count')
  BY <1>2, <1>4, <1>16
<1>18. \A u \in Tubes : \A k \in tube'[u].ready : job'[k].pri = job[k].pri
  <2>1. \A u \in Tubes : tube'[u].ready \subseteq JobIds
    BY <1>17 DEF Booked, Tube
  <2>2. \A k \in JobIds : job'[k].pri = job[k].pri
    BY <1>2, <1>3 DEF Job
  <2> QED BY <2>1, <2>2
<1>19. Booked(tube', job', count')
  BY <1>17, <1>18, BookJobs
<1> QED BY <1>19 DEF Books

\* Delayed jobs become ready.
LEMMA PromoteBooks ==
    ASSUME Parts, Books, NEW t \in Tubes, NEW K, K \subseteq tube[t].delay,
           MakeReady(t, [tube[t] EXCEPT !.delay = @ \ K], "delayed", K)
    PROVE  Books'
<1> DEFINE r == [tube[t] EXCEPT !.delay = @ \ K]
<1>1. /\ K \subseteq JobIds /\ \A k \in K : job[k].state = "delayed" /\ job[k].tube = t
      /\ Without(r, tube[t], "delayed", K) /\ MakeReady(t, r, "delayed", K)
  BY WithoutDelayed
<1> HIDE DEF r
<1> QED BY <1>1, ReadyBooks

\* kick and kick-tube.
LEMMA KickBooks ==
    ASSUME Parts, Books, NEW t \in Tubes, NEW b \in KickBounds, kickTube(t, b)
    PROVE  Books'
<1> DEFINE tb == tube[t]
           n == Min({b, Len(tb.buried)})
<1>1. /\ tb \in Tube /\ TubeHolds(tb, t, job, conn) /\ tb.buried \in Seq(JobIds)
      /\ IsInjective(tb.buried)
  BY PartsTypes DEF MapHolds, TubeHolds, Tube
<1>2. Len(tb.buried) \in Nat /\ b \in Nat
  BY <1>1, InputAssumption
<1>3. n \in Nat /\ n <= Len(tb.buried)
  BY <1>2, MinOfTwo
<1> HIDE DEF n
<1>4. CASE /\ n > 0
           /\ MakeReady(t, [tb EXCEPT !.buried = SubSeq(@, n + 1, Len(@))], "buried",
                        ToSet(SubSeq(tb.buried, 1, n)))
  <2> DEFINE u == SubSeq(tb.buried, 1, n)
             v == SubSeq(tb.buried, n + 1, Len(tb.buried))
             K == ToSet(u)
             r == [tb EXCEPT !.buried = v]
  <2>1. n \in 1 .. Len(tb.buried)
    BY <1>2, <1>3, <1>4
  <2>2. /\ u \in Seq(JobIds) /\ v \in Seq(JobIds)
        /\ Len(u) = n /\ Len(v) = Len(tb.buried) - n
        /\ IsInjective(u) /\ IsInjective(v)
        /\ ToSet(v) = ToSet(tb.buried) \ K /\ K \subseteq ToSet(tb.buried)
    BY <2>1, <1>1, SplitList
  <2>3. MakeReady(t, r, "buried", K)
    BY <1>4
  <2>4. Cardinality(K) = n
    <3> HIDE DEF u
    <3> QED BY <2>2, CardOfList
  <2>5. ToSet(tb.buried) \subseteq JobIds
    BY <1>1 DEF ToSet
  <2> HIDE DEF u, v
  <2>6. K \subseteq JobIds /\ \A k \in K : job[k].state = "buried" /\ job[k].tube = t
    BY <2>2, <2>5, <1>1 DEF TubeHolds, FiledIn
  <2>7. /\ r \in Tube /\ r.ready = tb.ready /\ r.ct = tb.ct /\ r.live = tb.live
        /\ r.using = tb.using /\ r.watching = tb.watching
        /\ r.delay = tb.delay /\ r.buried = v
    BY <2>2, <1>1 DEF Tube
  <2> HIDE DEF r, K
  <2>8. Without(r, tb, "buried", K)
    BY <2>2, <2>4, <2>7 DEF Without
  <2> QED BY <2>3, <2>6, <2>8, ReadyBooks
<1>5. CASE \E K \in SUBSET tb.delay : MakeReady(t, [tb EXCEPT !.delay = @ \ K], "delayed", K)
  BY <1>5, PromoteBooks
<1> QED BY <1>4, <1>5 DEF kickTube, n

\* kick-job.
LEMMA KickJobBooks ==
    ASSUME Parts, Books, NEW c \in Conns, NEW j \in JobIds, handleKickJob(c, j)
    PROVE  Books'
<1> DEFINE t == job[j].tube
           tb == tube[t]
           K == {j}
<1>1. t \in Tubes /\ K \subseteq JobIds /\ Cardinality(K) = 1
  BY PartsTypes, FS_Singleton
<1>2. /\ tb \in Tube /\ TubeHolds(tb, t, job, conn) /\ tb.buried \in Seq(JobIds)
      /\ IsInjective(tb.buried)
  BY <1>1, PartsTypes DEF MapHolds, TubeHolds, Tube
<1>3. CASE /\ job[j].state = "buried"
           /\ MakeReady(t, [tb EXCEPT !.buried = RemoveFirst(@, j)], "buried", K)
  <2> DEFINE v == RemoveFirst(tb.buried, j)
             r == [tb EXCEPT !.buried = v]
  <2>1. j \in ToSet(tb.buried)
    BY <1>2, <1>3 DEF TubeHolds, FiledIn
  <2>2. /\ v \in Seq(JobIds) /\ ToSet(v) = ToSet(tb.buried) \ K /\ IsInjective(v)
        /\ Len(v) = Len(tb.buried) - 1
    BY <2>1, <1>2, RemoveList
  <2> HIDE DEF v
  <2>3. /\ r \in Tube /\ r.ready = tb.ready /\ r.ct = tb.ct /\ r.live = tb.live
        /\ r.using = tb.using /\ r.watching = tb.watching
        /\ r.delay = tb.delay /\ r.buried = v
    BY <2>2, <1>2 DEF Tube
  <2>4. MakeReady(t, r, "buried", K)
    BY <1>3 DEF v
  <2>5. \A k \in K : job[k].state = "buried" /\ job[k].tube = t
    BY <1>3
  <2> HIDE DEF r, K
  <2>6. Without(r, tb, "buried", K)
    BY <2>2, <2>3, <1>1 DEF Without
  <2> HIDE DEF t
  <2> QED BY <2>4, <2>5, <2>6, <1>1, ReadyBooks
<1>4. CASE /\ job[j].state = "delayed"
           /\ MakeReady(t, [tb EXCEPT !.delay = @ \ K], "delayed", K)
  <2>1. K \subseteq tb.delay
    BY <1>2, <1>4 DEF TubeHolds, FiledIn
  <2> HIDE DEF K, t
  <2> QED BY <2>1, <1>1, <1>4, PromoteBooks
<1> QED BY <1>3, <1>4 DEF handleKickJob

\* delete-tube takes the ready, the delayed and the buried jobs off the books.
LEMMA DeleteTubeBooks ==
    ASSUME Parts, Parts', Books, NEW c \in Conns, NEW t \in Tubes, handleDeleteTube(c, t)
    PROVE  Books'
<1>0. PICK sr \in QueueStates, sd \in QueueStates, sb \in QueueStates :
         sr = "ready" /\ sd = "delayed" /\ sb = "buried"
  BY DEF QueueStates
<1> DEFINE tb == tube[t]
           R == tb.ready
           D == tb.delay
           B == ToSet(tb.buried)
           gone == R \cup D \cup B
           P1(ct) == Leave(ct, sr, R, job)
           P2(ct) == Leave(P1(ct), sd, D, job)
           P3(ct) == Leave(P2(ct), sb, B, job)
           c1 == P1(tb.ct)
           c2 == Leave(c1, sd, D, job)
           c3 == Leave(c2, sb, B, job)
           r1 == [tb EXCEPT !.ready = {}, !.ct = c1]
           r2 == [tb EXCEPT !.ready = {}, !.delay = {}, !.ct = c2]
           r3 == [tb EXCEPT !.ready = {}, !.delay = {}, !.buried = <<>>, !.ct = c3,
                            !.tombstoned = TRUE]
           T1 == [tube EXCEPT ![t] = r1]
           T2 == [T1 EXCEPT ![t] = r2]
           T3 == [T2 EXCEPT ![t] = r3]
           n1 == P1(count)
           n2 == Leave(n1, sd, D, job)
           n3 == Leave(n2, sb, B, job)
<1>1. /\ tb \in Tube /\ tb.ct \in [Counters -> Int] /\ R \subseteq JobIds /\ D \subseteq JobIds
      /\ tb.buried \in Seq(JobIds) /\ tube \in [Tubes -> Tube] /\ tb.live
  BY DEF Parts, TypeOK, Tube, handleDeleteTube
<1>2. B \subseteq JobIds
  BY <1>1 DEF ToSet
<1>3. /\ job' = [j \in JobIds |-> IF j \in gone THEN NoJob ELSE job[j]]
      /\ tube' = gcTube([tube EXCEPT ![t] = r3], {t}) /\ count' = n3
  BY <1>0, Zenon DEF handleDeleteTube, purgeTube
<1>4. [tube EXCEPT ![t] = r3] = T3
  BY <1>1
<1>5. Debited(c1, tb.ct, sr, R, job)
  BY <1>1, CtMoves
<1> HIDE DEF c1, n1
<1>6. c1 \in [Counters -> Int]
  BY <1>5 DEF Debited
<1>7. Debited(c2, c1, sd, D, job)
  BY <1>1, <1>6, CtMoves
<1> HIDE DEF c2, n2, B
<1>8. c2 \in [Counters -> Int]
  BY <1>7 DEF Debited
<1>9. Debited(c3, c2, sb, B, job)
  BY <1>2, <1>8, CtMoves
<1> HIDE DEF c3, n3
<1>10. c3 \in [Counters -> Int]
  BY <1>9 DEF Debited
<1>11. /\ r1 \in Tube /\ r1.ready = {} /\ r1.delay = D /\ r1.ct = c1 /\ r1.live
       /\ r2 \in Tube /\ r2.ready = {} /\ r2.delay = {} /\ r2.ct = c2 /\ r2.live
  BY <1>1, <1>6, <1>8 DEF Tube
<1>12. r3 \in Tube /\ r3.ready = {} /\ r3.delay = {} /\ r3.ct = c3 /\ r3.live
  <2>1. <<>> \in Seq(JobIds)
    OBVIOUS
  <2> QED BY <2>1, <1>1, <1>10 DEF Tube
<1> HIDE DEF r1, r2, r3
<1>13. Lost(r1, tb, sr, R, job)
  BY <1>0, <1>1, <1>5, <1>11 DEF Lost
<1>14. Lost(r2, r1, sd, D, job)
  BY <1>0, <1>7, <1>11 DEF Lost
<1>15. Lost(r3, r2, sb, B, job)
  BY <1>0, <1>9, <1>11, <1>12 DEF Lost
<1>16. T1[t] = r1 /\ T2[t] = r2
  BY <1>1
<1>17. Booked(T1, job, n1)
  BY <1>1, <1>11, <1>13, BookLostOne DEF Books, n1
<1> HIDE DEF T1, R
<1>18. Booked(T2, job, n2)
  BY <1>1, <1>11, <1>14, <1>16, <1>17, BookLostOne DEF n2
<1> HIDE DEF T2, D
<1>19. Booked(T3, job, n3)
  BY <1>2, <1>12, <1>15, <1>16, <1>18, BookLostOne DEF n3
<1> HIDE DEF T3
<1>20. Booked(tube', job, count')
  BY <1>3, <1>4, <1>19, BookGc
<1>21. \A u \in Tubes : \A k \in tube'[u].ready : job'[k].pri = job[k].pri
  <2>1. \A u \in Tubes : tube'[u].ready \subseteq JobIds
    BY <1>20 DEF Booked, Tube
  <2>2. MapHolds(tube', job', conn')
    BY DEF Parts, Good
  <2>3. ASSUME NEW u \in Tubes, NEW k \in tube'[u].ready PROVE k \notin gone
    <3>1. k \in JobIds /\ job'[k].state = "ready"
      BY <2>1, <2>2, <2>3 DEF MapHolds, TubeHolds, FiledIn
    <3> QED BY <3>1, <1>3 DEF NoJob
  <2> QED BY <2>1, <2>3, <1>3
<1>22. Booked(tube', job', count')
  BY <1>20, <1>21, BookJobs
<1> QED BY <1>22 DEF Books

\* A closing connection: the dropped jobs are uncounted as reserved, the ones
\* that go back are counted as ready.
LEMMA CloseBooks ==
    ASSUME Parts, Parts', Books, NEW c \in Conns, Close(c)
    PROVE  Books'
<1>0. PICK sr \in QueueStates, sv \in QueueStates : sr = "ready" /\ sv = "reserved"
  BY DEF QueueStates
<1> DEFINE R == conn[c].reserved
           dropped == {j \in R : tube[job[j].tube].tombstoned}
           back == R \ dropped
           Of(J, t) == {j \in J : job[j].tube = t}
           p == [j \in JobIds |-> job[j].tube]
           m(t) == Leave(tube[t].ct, sv, Of(dropped, t), job)
           k(t) == Enter(m(t), sr, Of(back, t), job)
           tu(t) == tube[t].using - (IF t = conn[c].use THEN 1 ELSE 0)
           tw(t) == tube[t].watching - (IF t \in conn[c].watch THEN 1 ELSE 0)
           r1(t) == [tube[t] EXCEPT !.ct = m(t)]
           r2(t) == [tube[t] EXCEPT !.ready = @ \cup Of(back, t), !.ct = k(t),
                                    !.using = tu(t), !.watching = tw(t)]
           T1 == [t \in Tubes |-> r1(t)]
           T2 == [t \in Tubes |-> r2(t)]
           ts == conn[c].watch \cup {conn[c].use} \cup {job[j].tube : j \in dropped}
           n1 == Leave(count, sv, dropped, job)
           n2 == Enter(n1, sr, back, job)
<1>1. /\ tube' = gcTube(T2, ts) /\ count' = n2
      /\ job' = [j \in JobIds |->
                    IF j \in dropped \cup {conn[c].inJob} THEN NoJob
                    ELSE IF j \in back THEN [job[j] EXCEPT !.state = "ready", !.reserver = NoConn]
                    ELSE job[j]]
  BY <1>0 DEF Close, Dropped
<1>2. /\ job \in [JobIds -> Job] /\ count \in [Counters -> Int]
      /\ tube \in [Tubes -> Tube] /\ conn \in [Conns -> Conn]
  BY DEF Parts, TypeOK
<1>3. R \subseteq JobIds /\ \A j \in R : job[j].state = "reserved"
  BY <1>2, PartsTypes DEF OwnersHold, Conn
<1>4. /\ dropped \subseteq JobIds /\ back \subseteq JobIds /\ dropped \subseteq R /\ back \subseteq R
      /\ \A j \in dropped \cup back : p[j] \in Tubes /\ p[j] = job[j].tube
  BY <1>2, <1>3 DEF Job
<1>5. ASSUME NEW J, J \subseteq JobIds, NEW t \in Tubes PROVE Of(J, t) = Part(J, p, t)
  BY <1>5 DEF Part
<1>6. ASSUME NEW J, J \subseteq R, NEW t \in Tubes, Of(J, t) # {} PROVE tube[t].live
  <2>1. PICK j \in J : job[j].tube = t
    BY <1>6
  <2>2. j \in JobIds /\ job[j].state # "invalid"
    BY <1>3, <1>6, <2>1
  <2> QED BY <2>1, <2>2, FiledJob
<1>7. \A t \in Tubes : Of(back, t) \cap tube[t].ready = {}
  <2>1. ASSUME NEW t \in Tubes, NEW j \in back PROVE j \notin tube[t].ready
    <3>1. j \in JobIds /\ job[j].state = "reserved"
      BY <1>3, <1>4
    <3> QED BY <3>1, FiledJob
  <2> QED BY <2>1
<1> HIDE DEF dropped, back, R, p
<1>8. ASSUME NEW t \in Tubes
      PROVE  /\ r1(t) \in Tube /\ Lost(r1(t), tube[t], sv, Part(dropped, p, t), job)
             /\ r2(t) \in Tube /\ Won(r2(t), r1(t), sr, Part(back, p, t), job)
  <2> DEFINE tb == tube[t]
             D == Of(dropped, t)
             B == Of(back, t)
             a == m(t)
             b == k(t)
             u == tu(t)
             w == tw(t)
             q1 == r1(t)
             q2 == r2(t)
  <2>1. D = Part(dropped, p, t) /\ B = Part(back, p, t) /\ D \subseteq JobIds /\ B \subseteq JobIds
    BY <1>4, <1>5
  <2>2. tb \in Tube /\ tb.ct \in [Counters -> Int] /\ tb.using \in Int /\ tb.watching \in Int
    BY <1>2 DEF Tube
  <2>3. u \in Int /\ w \in Int
    BY <2>2
  <2>4. D # {} \/ B # {} => tb.live
    BY <1>4, <1>6
  <2>5. B \cap tb.ready = {}
    BY <1>7
  <2>6. /\ q1 = [tb EXCEPT !.ct = a]
        /\ q2 = [tb EXCEPT !.ready = tb.ready \cup B, !.ct = b, !.using = u, !.watching = w]
    OBVIOUS
  <2>7. a = Leave(tb.ct, sv, D, job) /\ b = Enter(a, sr, B, job)
    OBVIOUS
  <2> HIDE DEF D, B, u, w, a, b, q1, q2, tb
  <2>8. Debited(a, tb.ct, sv, D, job)
    BY <2>1, <2>2, <2>7, CtMoves
  <2>9. a \in [Counters -> Int]
    BY <2>8 DEF Debited
  <2>10. Credited(b, a, sr, B, job)
    BY <2>1, <2>7, <2>9, CtMoves
  <2>11. b \in [Counters -> Int]
    BY <2>10 DEF Credited
  <2>12. /\ q1 \in Tube /\ q1.ready = tb.ready /\ q1.delay = tb.delay /\ q1.live = tb.live
         /\ q1.ct = a
    BY <2>2, <2>6, <2>9 DEF Tube
  <2>13. /\ q2 \in Tube /\ q2.ready = tb.ready \cup B /\ q2.delay = tb.delay
         /\ q2.live = tb.live /\ q2.ct = b
    BY <2>1, <2>2, <2>3, <2>6, <2>11 DEF Tube
  <2>14. Lost(q1, tb, sv, D, job)
    BY <1>0, <2>4, <2>8, <2>12 DEF Lost
  <2>15. Won(q2, q1, sr, B, job)
    BY <1>0, <2>4, <2>5, <2>10, <2>12, <2>13 DEF Won
  <2> QED BY <2>1, <2>12, <2>13, <2>14, <2>15 DEF q1, q2, tb
<1> HIDE DEF r1, r2
<1>9. /\ T1 \in [Tubes -> Tube] /\ T2 \in [Tubes -> Tube]
      /\ \A t \in Tubes : T1[t] = r1(t) /\ T2[t] = r2(t)
  BY <1>8
<1> HIDE DEF T1, T2
<1>10. Debited(n1, count, sv, dropped, job)
  BY <1>2, <1>4, CtMoves
<1> HIDE DEF n1
<1>11. Credited(n2, n1, sr, back, job)
  BY <1>4, <1>10, CtMoves DEF Debited
<1> HIDE DEF n2
<1>12. Booked(T1, job, n1)
  <2>1. \A t \in Tubes : Lost(T1[t], tube[t], sv, Part(dropped, p, t), job)
    BY <1>8, <1>9
  <2>2. \A j \in dropped : p[j] \in Tubes
    BY <1>4
  <2> QED BY <2>1, <2>2, <1>4, <1>9, <1>10, BookLost DEF Books
<1>13. Booked(T2, job, n2)
  <2>1. \A t \in Tubes : Won(T2[t], T1[t], sr, Part(back, p, t), job)
    BY <1>8, <1>9
  <2>2. \A j \in back : p[j] \in Tubes
    BY <1>4
  <2> QED BY <2>1, <2>2, <1>4, <1>9, <1>11, <1>12, BookWon
<1>14. Booked(tube', job, count')
  BY <1>1, <1>13, BookGc
<1>15. \A u \in Tubes : \A j \in tube'[u].ready : job'[j].pri = job[j].pri
  <2>1. SUFFICES ASSUME NEW u \in Tubes, NEW j \in tube'[u].ready PROVE job'[j].pri = job[j].pri
    OBVIOUS
  <2>2. tube'[u].ready \subseteq JobIds
    BY <1>14 DEF Booked, Tube
  <2>3. MapHolds(tube', job', conn')
    BY DEF Parts, Good
  <2>4. j \in JobIds /\ job'[j].state = "ready"
    BY <2>2, <2>3 DEF MapHolds, TubeHolds, FiledIn
  <2>5. j \notin dropped \cup {conn[c].inJob}
    BY <2>4, <1>1 DEF NoJob
  <2>6. job[j] \in Job
    BY <2>4, <1>2
  <2>7. CASE j \in back
    <3>1. job'[j] = [job[j] EXCEPT !.state = "ready", !.reserver = NoConn]
      BY <2>4, <2>5, <2>7, <1>1
    <3> QED BY <3>1, <2>6 DEF Job
  <2>8. CASE j \notin back
    BY <2>4, <2>5, <2>8, <1>1
  <2> QED BY <2>7, <2>8
<1>16. Booked(tube', job', count')
  BY <1>14, <1>15, BookJobs
<1> QED BY <1>16 DEF Books

\* All counters at zero.
LEMMA ZeroBook ==
    ASSUME NEW T \in [Tubes -> Tube], \A t \in Tubes : T[t] = NewTube \/ T[t] = NoTube, NEW jobs
    PROVE  Booked(T, jobs, NewTube.ct)
<1>0. Cardinality({}) = 0 /\ UrgentOf({}, jobs) = {} /\ IsFiniteSet(Tubes)
  BY FS_EmptySet, TubesAssumption DEF UrgentOf
<1>1. ASSUME NEW t \in Tubes PROVE Tally(T[t], jobs)
  BY <1>0, EmptyBook DEF Tally, Counters
<1>2. ASSUME NEW q \in Counters PROVE NewTube.ct[q] = SumFunctionOnSet(Col(T, q), Tubes)
  <2> DEFINE f == Col(T, q)
  <2>1. \A t \in Tubes : f[t] \in Int /\ (t \notin {} => f[t] = 0)
    BY EmptyBook DEF Col
  <2> HIDE DEF f
  <2>2. SumFunctionOnSet(f, {}) = SumFunctionOnSet(f, Tubes) /\ SumFunctionOnSet(f, {}) = 0
    BY <1>0, <2>1, SumSupport, SumEmpty
  <2> QED BY <2>2, EmptyBook DEF f
<1> QED BY <1>1, <1>2, EmptyBook DEF Booked

\* The books are right at the start.
LEMMA InitBooks ==
    ASSUME Init
    PROVE  Books
<1>1. tube = [t \in Tubes |-> IF t = Default THEN NewTube ELSE NoTube] /\ count = NewTube.ct
  BY DEF Init
<1>2. tube \in [Tubes -> Tube] /\ \A t \in Tubes : tube[t] = NewTube \/ tube[t] = NoTube
  BY <1>1, EmptyBook
<1> QED BY <1>1, <1>2, ZeroBook DEF Books

\* Recovery counts each job once, in its tube and in the server.
LEMMA RecoverBooks ==
    ASSUME NEW img \in [JobIds -> Saved], Recover(img)
    PROVE  Books'
<1>0. PICK sr \in QueueStates, sd \in QueueStates : sr = "ready" /\ sd = "delayed"
  BY DEF QueueStates
<1> DEFINE found == {j \in JobIds : img[j].stored}
           jobs == job'
           In(q, ts) == {j \in found : jobs[j].state = q /\ jobs[j].tube \in ts}
           p == [j \in JobIds |-> jobs[j].tube]
           named(t) == t = Default \/ \E j \in found : jobs[j].tube = t
           A == In(sr, Tubes)
           D == In(sd, Tubes)
           c0 == NewTube.ct
           m(ts) == Enter(c0, sr, In(sr, ts), jobs)
           k(ts) == Enter(m(ts), sd, In(sd, ts), jobs)
           r0(t) == IF named(t) THEN NewTube ELSE NoTube
           r1(t) == IF named(t) THEN [NewTube EXCEPT !.ready = In(sr, {t}), !.ct = m({t})]
                                ELSE NoTube
           r2(t) == IF named(t) THEN [NewTube EXCEPT !.ready = In(sr, {t}),
                                                     !.delay = In(sd, {t}), !.ct = k({t})]
                                ELSE NoTube
           T0 == [t \in Tubes |-> r0(t)]
           T1 == [t \in Tubes |-> r1(t)]
           T2 == [t \in Tubes |-> r2(t)]
           n1 == m(Tubes)
           n2 == k(Tubes)
<1>1. tube' = T2 /\ count' = n2
  BY <1>0 DEF Recover, LoadAllJobs
<1>2. \A j \in found : jobs[j].tube \in Tubes
  <2>1. ASSUME NEW j \in found PROVE jobs[j].tube = img[j].tube
    BY <2>1, Zenon DEF Recover, LoadAllJobs, NoJob
  <2> QED BY <2>1 DEF Saved
<1>3. /\ A \subseteq JobIds /\ D \subseteq JobIds
      /\ \A j \in A \cup D : p[j] \in Tubes
  BY <1>2
<1>4. ASSUME NEW t \in Tubes
      PROVE  /\ In(sr, {t}) = Part(A, p, t) /\ In(sd, {t}) = Part(D, p, t)
             /\ named(t) \/ (In(sr, {t}) = {} /\ In(sd, {t}) = {})
  BY <1>2 DEF Part
<1>5. c0 \in [Counters -> Int]
  BY EmptyBook
<1> HIDE DEF In, p, named, c0, found
<1>6. ASSUME NEW t \in Tubes
      PROVE  /\ r0(t) \in Tube /\ (r0(t) = NewTube \/ r0(t) = NoTube)
             /\ r1(t) \in Tube /\ Won(r1(t), r0(t), sr, Part(A, p, t), jobs)
             /\ r2(t) \in Tube /\ Won(r2(t), r1(t), sd, Part(D, p, t), jobs)
  <2> DEFINE a == In(sr, {t})
             d == In(sd, {t})
             e == m({t})
             f == k({t})
             q1 == r1(t)
             q2 == r2(t)
  <2>1. a \subseteq JobIds /\ d \subseteq JobIds /\ a = Part(A, p, t) /\ d = Part(D, p, t)
    BY <1>3, <1>4 DEF Part
  <2>2. e = Enter(c0, sr, a, jobs) /\ f = Enter(e, sd, d, jobs)
    OBVIOUS
  <2>3. /\ q1 = IF named(t) THEN [NewTube EXCEPT !.ready = a, !.ct = e] ELSE NoTube
        /\ q2 = IF named(t) THEN [NewTube EXCEPT !.ready = a, !.delay = d, !.ct = f] ELSE NoTube
    OBVIOUS
  <2>4. named(t) \/ (a = {} /\ d = {})
    BY <1>4
  <2> HIDE DEF a, d, e, f, q1, q2, A, D
  <2>5. Credited(e, c0, sr, a, jobs)
    BY <1>5, <2>1, <2>2, CtMoves
  <2>6. e \in [Counters -> Int]
    BY <2>5 DEF Credited
  <2>7. Credited(f, e, sd, d, jobs)
    BY <2>1, <2>2, <2>6, CtMoves
  <2>8. f \in [Counters -> Int]
    BY <2>7 DEF Credited
  <2>9. CASE named(t)
    <3>1. q1 \in Tube /\ q1.ready = a /\ q1.delay = {} /\ q1.live /\ q1.ct = e
      BY <2>1, <2>3, <2>6, <2>9, NewTubeProps DEF Tube
    <3>2. q2 \in Tube /\ q2.ready = a /\ q2.delay = d /\ q2.live /\ q2.ct = f
      BY <2>1, <2>3, <2>8, <2>9, NewTubeProps DEF Tube
    <3>3. Won(q1, NewTube, sr, a, jobs)
      BY <1>0, <2>5, <3>1, NewTubeProps DEF Won, c0
    <3>4. Won(q2, q1, sd, d, jobs)
      BY <1>0, <2>7, <3>1, <3>2 DEF Won
    <3> QED BY <2>1, <2>9, <3>1, <3>2, <3>3, <3>4, EmptyBook DEF q1, q2
  <2>10. CASE ~named(t)
    <3>1. q1 = NoTube /\ q2 = NoTube /\ r0(t) = NoTube /\ a = {} /\ d = {}
      BY <2>3, <2>4, <2>10
    <3>2. NoTube \in Tube /\ NoTube.ready = {} /\ NoTube.delay = {} /\ NoTube.ct \in [Counters -> Int]
      BY EmptyBook DEF Tube
    <3>3. \A q \in Counters : Gain(sr, q, a, jobs) = 0 /\ Gain(sd, q, d, jobs) = 0
      BY <3>1, FS_EmptySet DEF Gain, UrgentOf
    <3>4. Credited(NoTube.ct, NoTube.ct, sr, a, jobs) /\ Credited(NoTube.ct, NoTube.ct, sd, d, jobs)
      BY <3>2, <3>3 DEF Credited
    <3>5. Won(NoTube, NoTube, sr, a, jobs) /\ Won(NoTube, NoTube, sd, d, jobs)
      BY <3>1, <3>2, <3>4 DEF Won
    <3> QED BY <2>1, <3>1, <3>2, <3>5 DEF q1, q2
  <2> QED BY <2>9, <2>10
<1> HIDE DEF r0, r1, r2
<1>7. /\ T0 \in [Tubes -> Tube] /\ T1 \in [Tubes -> Tube] /\ T2 \in [Tubes -> Tube]
      /\ \A t \in Tubes : T0[t] = r0(t) /\ T1[t] = r1(t) /\ T2[t] = r2(t)
  BY <1>6
<1>8. n1 = Enter(c0, sr, A, jobs) /\ n2 = Enter(n1, sd, D, jobs)
  OBVIOUS
<1> HIDE DEF T0, T1, T2, A, D, n1, n2, jobs
<1>9. Credited(n1, c0, sr, A, jobs)
  BY <1>3, <1>5, <1>8, CtMoves
<1>10. Credited(n2, n1, sd, D, jobs)
  <2>1. n1 \in [Counters -> Int]
    BY <1>9 DEF Credited
  <2> QED BY <2>1, <1>3, <1>8, CtMoves
<1>11. Booked(T0, jobs, c0)
  <2>1. \A t \in Tubes : T0[t] = NewTube \/ T0[t] = NoTube
    BY <1>6, <1>7
  <2> QED BY <2>1, <1>7, ZeroBook DEF c0
<1>12. Booked(T1, jobs, n1)
  <2>1. \A t \in Tubes : Won(T1[t], T0[t], sr, Part(A, p, t), jobs)
    BY <1>6, <1>7
  <2>2. \A j \in A : p[j] \in Tubes
    BY <1>3
  <2> QED BY <2>1, <2>2, <1>3, <1>7, <1>9, <1>11, BookWon
<1>13. Booked(T2, jobs, n2)
  <2>1. \A t \in Tubes : Won(T2[t], T1[t], sd, Part(D, p, t), jobs)
    BY <1>6, <1>7
  <2>2. \A j \in D : p[j] \in Tubes
    BY <1>3
  <2> QED BY <2>1, <2>2, <1>3, <1>7, <1>10, <1>12, BookWon
<1> QED BY <1>1, <1>13 DEF Books, jobs

\* Every step keeps the books.
LEMMA NextBooks == Parts /\ Books /\ [Next]_vars => Books'
<1> SUFFICES ASSUME Parts, Books, [Next]_vars PROVE Books'
  OBVIOUS
<1>0. Parts' /\ Pausable \subseteq Tubes /\ conn \in [Conns -> Conn]
  BY NextParts, InputAssumption, TameTubes
<1>1. ASSUME NEW c \in Conns, ConnNext(c) PROVE Books'
  <2>1. ASSUME refusePut(c) \/ bitBucketDone(c) PROVE Books'
    BY <2>1, QuietBooks DEF refusePut, bitBucketDone
  <2>2. Default \in Tubes
    BY TubesAssumption
  <2>3. ASSUME Connect(c) PROVE Books'
    BY <2>2, <2>3, RefsBooks
  <2>4. ASSUME NEW t \in Tubes, handleUse(c, t) \/ handleWatch(c, t) \/ handleIgnore(c, t)
        PROVE  Books'
    BY <2>4, RefsBooks
  <2> QED BY <2>1, <2>3, <2>4, <1>0, <1>1, CloseBooks, PutBooks, FinishBooks, ReserveBooks
          DEF ConnNext
<1>2. ASSUME NEW c \in Conns, NEW j \in JobIds, JobNext(c, j) PROVE Books'
  <2>1. ASSUME handleReserveJob(c, j) PROVE Books'
    <3>1. tube \in [Tubes -> Tube] /\ \A u \in Tubes : SameBook(tube[u], tube[u])
      BY TameTubes DEF SameBook
    <3> QED BY <3>1, <2>1, TakeBooks DEF handleReserveJob
  <2> QED BY <2>1, <1>0, <1>2, EndBooks, KickJobBooks DEF JobNext
<1>3. ASSUME NEW c \in Conns, TubeNext(c) PROVE Books'
  <2>1. ASSUME NEW b \in KickBounds, handleKick(c, b) \/ \E u \in Tubes : handleKickTube(c, u, b)
        PROVE  Books'
    <3>1. \E u \in Tubes : kickTube(u, b)
      BY <2>1, <1>0 DEF handleKick, handleKickTube, Conn
    <3> QED BY <3>1, KickBooks
  <2>2. ASSUME NEW p \in Policies, handleSetDlq(c, p[1], p[2], p[3]) PROVE Books'
    <3>1. p \in Tubes \X Nat \X Tubes
      BY InputAssumption
    <3>2. p[1] \in Tubes /\ p[2] \in Nat /\ p[3] \in Tubes
      BY <3>1
    <3> QED BY <2>2, <3>2, SettingsBooks
  <2>3. ASSUME NEW u \in Pausable, handlePauseTube(c, u) PROVE Books'
    <3>1. u \in Tubes
      BY <1>0
    <3> QED BY <2>3, <3>1, SettingsBooks
  <2> QED BY <2>1, <2>2, <2>3, <1>0, <1>3, DeleteTubeBooks DEF TubeNext
<1>4. CASE tick
  <2>1. ASSUME NEW u \in Tubes, tickUnpause(u) PROVE Books'
    BY <2>1, SettingsBooks
  <2>2. ASSUME NEW u \in Tubes, NEW j \in JobIds, tickPromote(u, j) PROVE Books'
    <3> DEFINE K == {j}
    <3>1. K \subseteq tube[u].delay /\ MakeReady(u, [tube[u] EXCEPT !.delay = @ \ K], "delayed", K)
      BY <2>2 DEF tickPromote
    <3> HIDE DEF K
    <3> QED BY <3>1, PromoteBooks
  <2>3. ASSUME NEW j \in JobIds, tickExpire(j) PROVE Books'
    <3>1. job[j].reserver \in Conns
      <4>1. job[j].reserver \in Conns \cup {NoConn}
        BY TameTubes DEF Job
      <4> QED BY <4>1, <2>3, PartsTypes DEF tickExpire, OwnersHold
    <3> QED BY <3>1, <2>3, <1>0, EndBooks
  <2> QED BY <2>1, <2>2, <2>3, <1>4 DEF tick
<1>5. ASSUME NEW on \in DrainModes, setDrain(on) PROVE Books'
  BY <1>5, QuietBooks DEF setDrain
<1>6. CASE Restart
  <2>1. saved \in [JobIds -> Saved]
    BY DEF Parts, TypeOK
  <2> QED BY <2>1, <1>6, RecoverBooks DEF Restart
<1>7. CASE UNCHANGED vars
  BY <1>7, QuietBooks DEF vars
<1> QED BY <1>1, <1>2, <1>3, <1>4, <1>5, <1>6, <1>7 DEF Next, Serve

\* The counters of one tube, from the books and the invariant of the broker.
LEMMA TubeCounts ==
    ASSUME Parts, Books, NEW t \in Tubes
    PROVE  /\ tube[t] \in Tube
           /\ tube[t].ct["ready"] = Cardinality(tube[t].ready)
           /\ tube[t].ct["urgent"] = Cardinality(UrgentOf(tube[t].ready, job))
           /\ tube[t].ct["delayed"] = Cardinality(tube[t].delay)
           /\ tube[t].ct["buried"] = Len(tube[t].buried)
           /\ tube[t].ct["buried"] = Cardinality(ToSet(tube[t].buried))
           /\ tube[t].ct["reserved"] >= Cardinality(Held(t))
<1>1. TubeHolds(tube[t], t, job, conn) /\ tube[t] \in Tube
  BY PartsTypes DEF MapHolds, TypeOK
<1>2. Tally(tube[t], job)
  BY DEF Books, Booked
<1>3. tube[t].ct["buried"] = Len(tube[t].buried) /\ tube[t].ct["reserved"] >= Cardinality(Held(t))
  BY <1>1 DEF TubeHolds, HeldIn, Held
<1>4. Cardinality(ToSet(tube[t].buried)) = Len(tube[t].buried)
  <2>1. tube[t].buried \in Seq(JobIds) /\ IsInjective(tube[t].buried)
    BY <1>1 DEF TubeHolds, Tube
  <2> QED BY <2>1, CardOfList
<1> QED BY <1>1, <1>2, <1>3, <1>4 DEF Tally

\* Each counter of the server is the sum of the tubes' counters.
LEMMA ServerCounts ==
    ASSUME Books, NEW s \in Counters
    PROVE  count[s] = SumFunction([t \in Tubes |-> tube[t].ct[s]])
<1> DEFINE f == [t \in Tubes |-> tube[t].ct[s]]
<1>1. f = Col(tube, s) /\ DOMAIN f = Tubes
  BY DEF Col
<1>2. count[s] = SumFunctionOnSet(f, Tubes)
  BY <1>1 DEF Books, Booked
<1> HIDE DEF f
<1>3. SumFunction(f) = SumFunctionOnSet(f, Tubes)
  BY <1>1 DEF SumFunction
<1> QED BY <1>2, <1>3 DEF f

\* The books are right in every reachable state.
LEMMA BooksHold == Spec => [](Parts /\ Books)
<1>1. Init => Parts /\ Books
  BY InitParts, InitBooks
<1>2. Parts /\ Books /\ [Next]_vars => Parts' /\ Books'
  BY NextParts, NextBooks
<1> QED BY <1>1, <1>2, PTL DEF Spec

\* In every reachable state the counters of a tube are the sizes of its heaps
\* and of its buried list, the server's counters are the sums over the tubes,
\* and ReservedCt is never below the number of reserved jobs.
THEOREM CountersCorrect == Spec => []CountersHold
<1>1. ASSUME Parts, Books PROVE CountersHold
  <2>1. \A t \in Tubes :
          /\ tube[t].ct["ready"] = Cardinality(tube[t].ready)
          /\ tube[t].ct["urgent"] = Cardinality(UrgentOf(tube[t].ready, job))
          /\ tube[t].ct["delayed"] = Cardinality(tube[t].delay)
          /\ tube[t].ct["buried"] = Len(tube[t].buried)
          /\ tube[t].ct["reserved"] >= Cardinality(Held(t))
    BY <1>1, TubeCounts
  <2>2. \A s \in Counters : count[s] = SumFunction([t \in Tubes |-> tube[t].ct[s]])
    BY <1>1, ServerCounts
  <2> QED BY <2>1, <2>2 DEF CountersHold
<1> QED BY <1>1, BooksHold, PTL

-----------------------------------------------------------------------------
(* The pages. *)

\* What stats-tube-all, list-jobs and peek-tube say of one tube.
LEMMA TubePage ==
    ASSUME Parts, Books, NEW t \in formatListTubes, NEW s \in Listable
    PROVE  /\ formatAllTubeStats[t][s] = Cardinality(handleListJobs(t, s))
           /\ handlePeekTube(t, s) \subseteq handleListJobs(t, s)
           /\ formatAllTubeStats[t][s] > 0 => handlePeekTube(t, s) # {}
<1>0. t \in Tubes /\ formatAllTubeStats[t] = tube[t].ct
  BY DEF formatListTubes, formatAllTubeStats, formatTubeStats
<1>1. /\ tube[t].ready \subseteq JobIds /\ tube[t].buried \in Seq(JobIds)
      /\ tube[t].ct[s] = Cardinality(handleListJobs(t, s))
  BY <1>0, TubeCounts DEF handleListJobs, Listable, Tube
<1>2. handleListJobs(t, s) # {} =>
         handlePeekTube(t, s) # {} /\ handlePeekTube(t, s) \subseteq handleListJobs(t, s)
  <2>1. SUFFICES ASSUME handleListJobs(t, s) # {}
                 PROVE  handlePeekTube(t, s) # {} /\ handlePeekTube(t, s) \subseteq handleListJobs(t, s)
    OBVIOUS
  <2>2. CASE s = "ready"
    <3>1. handleListJobs(t, s) = tube[t].ready /\ handlePeekTube(t, s) = {Best({t})}
      BY <2>1, <2>2 DEF handleListJobs, handlePeekTube
    <3>2. \A j \in JobIds : job[j].pri \in Nat
      BY TameTubes DEF Job
    <3> DEFINE ts == {t}
    <3>3. t \in ts /\ tube[t].ready # {} /\ \A u \in ts : tube[u].ready \subseteq JobIds
      BY <2>1, <3>1, <1>1
    <3>4. \A u \in ts : u = t
      OBVIOUS
    <3> HIDE DEF ts
    <3>5. \E u \in ts : Best(ts) \in tube[u].ready
      BY <3>2, <3>3, BestIsReady
    <3>6. Best(ts) \in tube[t].ready
      BY <3>4, <3>5
    <3> QED BY <3>1, <3>6 DEF ts
  <2>3. CASE s = "delayed"
    BY <2>1, <2>3 DEF handleListJobs, handlePeekTube
  <2>4. CASE s = "buried"
    <3>1. handleListJobs(t, s) = ToSet(tube[t].buried) /\ handlePeekTube(t, s) = {Head(tube[t].buried)}
      BY <2>1, <2>4 DEF handleListJobs, handlePeekTube
    <3>2. tube[t].buried # <<>>
      BY <2>1, <3>1 DEF ToSet
    <3>3. Head(tube[t].buried) \in ToSet(tube[t].buried)
      BY <1>1, <3>2 DEF ToSet
    <3> QED BY <3>1, <3>3
  <2> QED BY <2>2, <2>3, <2>4 DEF Listable
<1>3. handleListJobs(t, s) = {} => handlePeekTube(t, s) = {} /\ tube[t].ct[s] = 0
  BY <1>1, FS_EmptySet DEF handlePeekTube
<1> QED BY <1>0, <1>1, <1>2, <1>3

\* The totals of the metrics page: a tube that is not on it counts nothing.
LEMMA PageTotals ==
    ASSUME Parts, Books, NEW s \in Counters
    PROVE  snapshotStats.global[s] =
             SumFunction([t \in formatListTubes |-> snapshotStats.tubes[t][s]])
<1> DEFINE L == formatListTubes
           f == [t \in Tubes |-> tube[t].ct[s]]
           h == [t \in L |-> snapshotStats.tubes[t][s]]
<1>1. /\ L \in SUBSET Tubes /\ IsFiniteSet(Tubes) /\ IsFiniteSet(L)
      /\ \A t \in Tubes \ L : ~tube[t].live
  BY TubesAssumption, FS_Subset DEF formatListTubes
<1>2. \A t \in Tubes : f[t] \in Int /\ (t \notin L => f[t] = 0)
  <2>1. SUFFICES ASSUME NEW t \in Tubes PROVE f[t] \in Int /\ (t \notin L => f[t] = 0)
    OBVIOUS
  <2>2. Tally(tube[t], job) /\ tube[t] \in Tube
    BY DEF Books, Booked
  <2>3. tube[t].ct[s] \in Int
    BY <2>2 DEF Tube
  <2> HIDE DEF L
  <2> QED BY <2>2, <2>3, <1>1 DEF Tally
<1>3. /\ snapshotStats.global = count
      /\ \A t \in L : snapshotStats.tubes[t] = tube[t].ct
  BY DEF snapshotStats, formatTubeStats
<1>4. DOMAIN h = L /\ \A t \in L : h[t] = f[t]
  BY <1>1, <1>3
<1>5. count[s] = SumFunction(f) /\ DOMAIN f = Tubes
  BY ServerCounts
<1> HIDE DEF L, f, h
<1>6. SumFunctionOnSet(f, L) = SumFunctionOnSet(f, Tubes)
  BY <1>1, <1>2, SumSupport
<1>7. SumFunctionOnSet(h, L) = SumFunctionOnSet(f, L)
  <2>1. \A t \in L : f[t] \in Int /\ h[t] = f[t]
    BY <1>1, <1>2, <1>4
  <2> QED BY <2>1, <1>1, SumSame
<1>8. SumFunction(f) = SumFunctionOnSet(f, Tubes) /\ SumFunction(h) = SumFunctionOnSet(h, L)
  BY <1>4, <1>5 DEF SumFunction
<1>9. count[s] = SumFunction(h)
  BY <1>5, <1>6, <1>7, <1>8
<1> QED BY <1>3, <1>9 DEF h, L

\* Whatever clients, tick and restarts do, stats-tube-all counts what list-jobs
\* shows, peek-tube answers one of these jobs whenever there is one, and the
\* totals of the metrics page are the sums over the tubes on it.
THEOREM PagesConsistent == Spec => []PagesAgree
<1>1. ASSUME Parts, Books PROVE PagesAgree
  BY <1>1, TubePage, PageTotals DEF PagesAgree
<1> QED BY <1>1, BooksHold, PTL
=============================================================================
