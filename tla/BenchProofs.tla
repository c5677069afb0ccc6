---------------------------- MODULE BenchProofs -----------------------------
(***************************************************************************)
(* The benchmark puts exactly the jobs it was asked for and does not stop  *)
(* before its consumers caught up, for any number of producers, consumers, *)
(* idle connections and jobs.  What each producer accounts for is its loop *)
(* variable, or its whole share when its dial failed; these add up to the  *)
(* counters of the report, and the shares add up to -n.                    *)
(***************************************************************************)
EXTENDS Bench, SumLemmas

-----------------------------------------------------------------------------
(* Shares. *)

\* The producers are numbered 0 .. P - 1.
LEMMA ProducersFinite ==
    /\ IsFiniteSet(Producers) /\ Cardinality(Producers) = P
    /\ Producers \subseteq Nat /\ \A g \in Producers : g < P
<1>1. 0 \in Int /\ P - 1 \in Int /\ P \in Nat /\ P > 0
  BY BenchAssumption
<1>2. IsFiniteSet(0 .. P - 1) /\ Cardinality(0 .. P - 1) = P
  BY <1>1, FS_Interval
<1> QED BY <1>1, <1>2 DEF Producers

\* Division leaves a remainder below the divisor.
LEMMA Division ==
    /\ NumJobs \div P \in Nat /\ NumJobs % P \in 0 .. P - 1
    /\ NumJobs = P * (NumJobs \div P) + (NumJobs % P)
    /\ P <= NumJobs => NumJobs \div P >= 1
<1>1. NumJobs \in Nat /\ P \in Nat /\ P > 0
  BY BenchAssumption
<1>2. NumJobs = P * (NumJobs \div P) + (NumJobs % P)
  BY <1>1
<1>3. NumJobs % P \in 0 .. P - 1
  BY <1>1
<1>4. NumJobs \div P \in Nat
  BY <1>1
<1>5. P <= NumJobs => NumJobs \div P >= 1
  BY <1>1, <1>2, <1>3, <1>4
<1> QED BY <1>2, <1>3, <1>4, <1>5

\* A share is at most one above the quotient, and positive when there are
\* enough jobs for all producers.
LEMMA ShareBound ==
    ASSUME NEW g \in Producers
    PROVE  /\ Share(g) \in Nat /\ Share(g) <= NumJobs \div P + 1
           /\ ~timed /\ P <= NumJobs => Share(g) > 0
           /\ timed => Share(g) = 0
BY Division, ProducersFinite DEF Share

\* The shares add up to -n.
LEMMA SharesAddUp ==
    ASSUME ~timed
    PROVE  SumFunctionOnSet([g \in Producers |-> Share(g)], Producers) = NumJobs
<1> DEFINE q == NumJobs \div P
           r == NumJobs % P
           J == 0 .. r - 1
           id == [g \in Producers |-> g]
           a == [g \in Producers |-> q]
           b == [g \in Producers |-> Cardinality(Part(J, id, g))]
           h == [g \in Producers |-> Share(g)]
<1>1. q \in Nat /\ r \in 0 .. P - 1 /\ NumJobs = P * q + r /\ P \in Nat
  BY Division, BenchAssumption
<1>2. IsFiniteSet(Producers) /\ Cardinality(Producers) = P /\ Producers \subseteq Nat
  BY ProducersFinite
<1>3. SumFunctionOnSet(a, Producers) = P * q
  <2>1. q \in Int /\ \A g \in Producers : a[g] = q
    BY <1>1
  <2> HIDE DEF a, q
  <2>2. SumFunctionOnSet(a, Producers) = Cardinality(Producers) * q
    BY <2>1, <1>2, SumConstant
  <2> QED BY <2>2, <1>2
<1>4. IsFiniteSet(J) /\ Cardinality(J) = r
  <2>1. 0 \in Int /\ r - 1 \in Int
    BY <1>1
  <2> HIDE DEF r
  <2>2. IsFiniteSet(0 .. r - 1) /\ Cardinality(0 .. r - 1) = IF 0 > r - 1 THEN 0 ELSE r - 1 - 0 + 1
    BY <2>1, FS_Interval
  <2> QED BY <2>2, <1>1
<1>5. \A j \in J : j \in Producers /\ id[j] \in Producers
  BY <1>1 DEF Producers
<1>6. SumFunctionOnSet(b, Producers) = r
  <2> HIDE DEF J, id
  <2>1. \A j \in J : id[j] \in Producers
    BY <1>5
  <2>2. SumFunctionOnSet([g \in Producers |-> Cardinality(Part(J, id, g))], Producers) = Cardinality(J)
    BY <2>1, <1>2, <1>4, SumParts
  <2> QED BY <2>2, <1>4
<1>7. ASSUME NEW g \in Producers PROVE a[g] \in Int /\ b[g] \in Int /\ h[g] = a[g] + b[g]
  <2>1. CASE g < r
    <3>1. Part(J, id, g) = {g}
      BY <2>1, <1>1, <1>2, <1>5 DEF Part
    <3>2. Cardinality({g}) = 1
      BY FS_Singleton
    <3>3. a[g] = q /\ b[g] = 1
      BY <3>1, <3>2
    <3>4. h[g] = q + 1
      BY <2>1 DEF Share
    <3> HIDE DEF a, b, h, q
    <3> QED BY <3>3, <3>4, <1>1
  <2>2. CASE ~(g < r)
    <3>1. Part(J, id, g) = {}
      BY <2>2, <1>1, <1>2, <1>5 DEF Part
    <3>2. Cardinality({}) = 0
      BY FS_EmptySet
    <3>3. a[g] = q /\ b[g] = 0
      BY <3>1, <3>2
    <3>4. h[g] = q + 0
      BY <2>2 DEF Share
    <3> HIDE DEF a, b, h, q
    <3> QED BY <3>3, <3>4, <1>1
  <2> QED BY <2>1, <2>2
<1> HIDE DEF a, b, h
<1>8. SumFunctionOnSet(h, Producers) = SumFunctionOnSet(a, Producers) + SumFunctionOnSet(b, Producers)
  BY <1>2, <1>7, SumPlus
<1> QED BY <1>1, <1>3, <1>6, <1>8 DEF h

-----------------------------------------------------------------------------
(* The inductive invariant. *)

\* What producer g has accounted for; the producers of D failed to dial.
Paid(D) == [g \in Producers |-> IF g \in D THEN Share(g) ELSE i[g]]

\* The puts of the report are those of the producers, and a producer that
\* ended has accounted for its share, unless the run was cut.
Accounted ==
    \E D \in SUBSET Producers :
        /\ \A g \in D : at[g] = "ended"
        /\ \A g \in Producers \ D : at[g] = "ended" => cut \/ i[g] = Share(g)
        /\ putCount + putErr = SumFunctionOnSet(Paid(D), Producers)

\* A producer stays within its share.
ShareKept(g) ==
    /\ i[g] <= Share(g)
    /\ at[g] = "put" => Share(g) = 0 \/ i[g] < Share(g)
    /\ at[g] = "dial" => i[g] = 0

\* What ended a run without a duration: only a cut ends it before its
\* producers are done, or before the drain loop has counted -n jobs.
StopsHold ==
    ~timed => /\ main = "idle" => mode = "idle"
              /\ ctx /\ ~cut => main # "producers"
              /\ main # "producers" => Ended(Producers)
              /\ ~cut /\ runConsumers /\ main \in {"wait", "reported"} => Reached

\* The producers whose put is on its way.
Putting == {g \in Producers : at[g] = "put"}

Known == {j \in Jobs : job[j] # "none"}
Gone  == {j \in Jobs : job[j] = "gone"}

\* The report counts the jobs of the server.
JobsCounted ==
    /\ Cardinality(Known) = Old + putCount
    /\ Cardinality(Gone) = deleteCount
    /\ Old + putCount + Cardinality(Putting) <= MaxJobs

\* No producer puts without limit: there are as many jobs as producers, or the
\* producers without a share have not begun or could not dial.
Limited ==
    \/ P <= NumJobs
    \/ ~cut /\ \A g \in Producers : Share(g) = 0 => at[g] \in {"dial", "ended"}

BInv ==
    /\ TypeOK
    /\ \A g \in Producers : ShareKept(g)
    /\ \A g \in Consumers : at[g] = "delete" => held[g] \in Jobs
    /\ StopsHold
    /\ JobsCounted
    /\ runProducers /\ ~timed /\ Limited => Accounted

-----------------------------------------------------------------------------
(* Init. *)

\* The invariant holds when run starts.
LEMMA InitBInv == Init => BInv
<1> SUFFICES ASSUME Init PROVE BInv
  OBVIOUS
<1>1. TypeOK
  <2>1. i \in [Producers -> 0 .. NumJobs \div P + 1]
    BY Division DEF Init
  <2> QED BY <2>1, BenchAssumption DEF Init, TypeOK, counts
<1>2. \A g \in Producers : ShareKept(g)
  BY ShareBound DEF Init, ShareKept
<1>3. StopsHold
  BY DEF Init, StopsHold
<1>4. JobsCounted
  <2>0. Old \in Nat /\ Old <= MaxJobs /\ MaxJobs \in Nat
    BY BenchAssumption
  <2>1. Known = 1 .. Old
    BY <2>0 DEF Init, Known, Jobs
  <2>2. Cardinality(1 .. Old) = Old
    BY <2>0, FS_Interval
  <2>3. Gone = {} /\ Putting = {} /\ Cardinality({}) = 0
    BY FS_EmptySet DEF Init, Gone, Putting
  <2> QED BY <2>0, <2>1, <2>2, <2>3 DEF Init, JobsCounted
<1>5. Accounted
  <2> DEFINE f == Paid({})
  <2>1. \A g \in Producers : f[g] \in Int /\ (g \notin {} => f[g] = 0)
    BY DEF Init, Paid
  <2>2. {} \in SUBSET Producers /\ \A g \in {} : at[g] = "ended"
    OBVIOUS
  <2>3. \A g \in Producers \ {} : at[g] = "ended" => cut \/ i[g] = Share(g)
    BY DEF Init
  <2> HIDE DEF f
  <2>4. SumFunctionOnSet(f, Producers) = 0
    <3>1. SumFunctionOnSet(f, {}) = SumFunctionOnSet(f, Producers)
      BY <2>1, <2>2, ProducersFinite, SumSupport
    <3> QED BY <3>1, SumEmpty
  <2>5. putCount + putErr = SumFunctionOnSet(Paid({}), Producers)
    BY <2>4 DEF Init, f
  <2> QED BY <2>2, <2>3, <2>5, Zenon DEF Accounted
<1>6. \A g \in Consumers : at[g] = "delete" => held[g] \in Jobs
  BY DEF Init
<1> QED BY <1>1, <1>2, <1>3, <1>4, <1>5, <1>6 DEF BInv

-----------------------------------------------------------------------------
(* Steps that leave the producers alone. *)

\* The producers, their loop variables and the put counters are what they were.
ProducersStay ==
    /\ UNCHANGED <<mode, timed, i, putCount, putErr>>
    /\ \A g \in Producers : at'[g] = at[g]
    /\ cut => cut'

\* What the producers accounted for stays.
LEMMA QuietHolds ==
    ASSUME BInv, ProducersStay, TypeOK', StopsHold', JobsCounted',
           \A g \in Consumers : at'[g] = "delete" => held'[g] \in Jobs
    PROVE  BInv'
<1>1. \A g \in Producers : Share(g)' = Share(g)
  BY DEF ProducersStay, Share
<1>2. \A g \in Producers : ShareKept(g)'
  BY <1>1 DEF BInv, ShareKept, ProducersStay
<1>3. ASSUME (runProducers /\ ~timed /\ Limited)' PROVE Accounted'
  <2>0. Limited
    BY <1>1, <1>3, Zenon DEF Limited, ProducersStay
  <2>1. runProducers /\ ~timed /\ Limited
    BY <1>3, <2>0 DEF runProducers, ProducersStay
  <2>2. PICK D \in SUBSET Producers :
          /\ \A g \in D : at[g] = "ended"
          /\ \A g \in Producers \ D : at[g] = "ended" => cut \/ i[g] = Share(g)
          /\ putCount + putErr = SumFunctionOnSet(Paid(D), Producers)
    BY <2>1, Zenon DEF BInv, Accounted
  <2>3. Paid(D)' = Paid(D)
    BY <1>1 DEF Paid, ProducersStay
  <2>4. \A g \in D : at'[g] = "ended"
    BY <2>2 DEF ProducersStay
  <2>5. \A g \in Producers \ D : at'[g] = "ended" => cut' \/ i'[g] = Share(g)'
    BY <1>1, <2>2 DEF ProducersStay
  <2>6. putCount' + putErr' = SumFunctionOnSet(Paid(D)', Producers)
    BY <2>2, <2>3 DEF ProducersStay
  <2> QED BY <2>4, <2>5, <2>6, Zenon DEF Accounted
<1> QED BY <1>2, <1>3 DEF BInv

\* The reasons to stop stay.
LEMMA StopsStay ==
    ASSUME BInv, ProducersStay, TypeOK', UNCHANGED <<ctx, main, cut>>,
           deleteCount' + deleteErr' >= deleteCount + deleteErr
    PROVE  StopsHold'
<1>1. Ended(Producers) => Ended(Producers)'
  BY DEF Ended, Running, runProducers, runConsumers, ProducersStay
<1>2. Reached => Reached'
  <2>1. /\ deleteCount \in Nat /\ deleteErr \in Nat /\ deleteCount' \in Nat /\ deleteErr' \in Nat
        /\ NumJobs \in Nat
    BY BenchAssumption DEF BInv, TypeOK, counts
  <2>2. ASSUME NEW a \in Nat, NEW b \in Nat, NEW n \in Nat, b >= a, a >= n PROVE b >= n
    BY <2>2
  <2>3. ASSUME NEW a \in Nat, NEW b \in Nat PROVE a + b \in Nat
    OBVIOUS
  <2>4. deleteCount + deleteErr \in Nat /\ deleteCount' + deleteErr' \in Nat
    BY <2>1, <2>3, Zenon
  <2> QED BY <2>1, <2>2, <2>4, Zenon DEF Reached
<1> QED BY <1>1, <1>2 DEF BInv, StopsHold, ProducersStay, runConsumers

\* The jobs stay.
LEMMA JobsStay ==
    ASSUME BInv, ProducersStay, UNCHANGED deleteCount,
           \A j \in Jobs : /\ job'[j] = "none" <=> job[j] = "none"
                           /\ job'[j] = "gone" <=> job[j] = "gone"
    PROVE  JobsCounted'
<1>1. Known' = Known /\ Gone' = Gone /\ Putting' = Putting
  BY DEF Known, Gone, Putting, ProducersStay
<1> QED BY <1>1 DEF BInv, JobsCounted, ProducersStay

\* A consumer or an idle connection moves.
LEMMA OthersMove ==
    ASSUME BInv, NEW g \in Consumers \cup Idlers, NEW place, Moves(g, place),
           UNCHANGED <<mode, timed, i, putCount, putErr, cut>>
    PROVE  /\ ProducersStay
           /\ \A h \in Producers \cup Consumers \cup Idlers :
                 at'[h] = IF h = g THEN place ELSE at[h]
<1>1. \A h \in Producers \cup Consumers \cup Idlers :
         at'[h] = IF h = g THEN place ELSE at[h]
  BY DEF Moves, BInv, TypeOK
<1>2. g \notin Producers
  BY BenchAssumption
<1> QED BY <1>1, <1>2 DEF ProducersStay

Places == {"dial", "check", "put", "reserve", "delete", "hold", "ended"}

\* A consumer or an idle connection moves and the server's jobs stay.
LEMMA PlaceHolds ==
    ASSUME BInv, NEW g \in Consumers \cup Idlers, NEW place \in Places \ {"delete"},
           Moves(g, place),
           UNCHANGED <<mode, timed, ctx, main, i, held, job, counts, cut>>
    PROVE  BInv'
<1>1. UNCHANGED <<putCount, putErr, deleteCount, deleteErr>>
  BY DEF counts
<1>2. /\ ProducersStay
      /\ \A h \in Producers \cup Consumers \cup Idlers :
                 at'[h] = IF h = g THEN place ELSE at[h]
  BY <1>1, OthersMove
<1>3. TypeOK'
  BY DEF BInv, TypeOK, Moves, Places
<1>4. StopsHold'
  <2>1. deleteCount' + deleteErr' >= deleteCount + deleteErr
    BY <1>1 DEF BInv, TypeOK, counts
  <2> QED BY <2>1, <1>2, <1>3, StopsStay
<1>5. JobsCounted'
  BY <1>1, <1>2, JobsStay
<1>6. \A h \in Consumers : at'[h] = "delete" => held'[h] \in Jobs
  BY <1>2 DEF BInv
<1> QED BY <1>2, <1>3, <1>4, <1>5, <1>6, QuietHolds

\* A non-empty set of jobs has a least one.
LEMMA MinJob ==
    ASSUME NEW S, S \subseteq Jobs, S # {}
    PROVE  Min(S) \in S
<1>1. S \subseteq Nat
  BY DEF Jobs
<1>2. \E x \in S : \A y \in S : x <= y
  BY <1>1, LeastNumber
<1> QED BY <1>2 DEF Min

\* reserve.
LEMMA ReserveHolds ==
    ASSUME BInv, NEW g \in Consumers, reserveConsumer(g)
    PROVE  BInv'
<1>1. CASE Moves(g, "check") /\ UNCHANGED <<job, held>>
  BY <1>1, PlaceHolds DEF reserveConsumer, Places
<1>2. CASE /\ Ready # {}
           /\ job' = [job EXCEPT ![Min(Ready)] = g]
           /\ held' = [held EXCEPT ![g] = Min(Ready)]
           /\ Moves(g, "delete")
  <2> DEFINE m == Min(Ready)
  <2>0. m \in Jobs /\ job[m] = "ready" /\ g \notin {"none", "gone"}
    <3>1. Ready \subseteq Jobs /\ \A j \in Ready : job[j] = "ready"
      BY DEF Ready
    <3>2. m \in Ready
      BY <1>2, <3>1, MinJob
    <3> QED BY <3>1, <3>2, BenchAssumption
  <2>1. job' = [job EXCEPT ![m] = g] /\ held' = [held EXCEPT ![g] = m]
    BY <1>2
  <2> HIDE DEF m
  <2>2. UNCHANGED <<putCount, putErr, deleteCount, deleteErr, mode, timed, ctx, main, i, cut>>
    BY DEF reserveConsumer, counts
  <2>3. /\ ProducersStay
        /\ \A h \in Producers \cup Consumers \cup Idlers :
                 at'[h] = IF h = g THEN "delete" ELSE at[h]
    BY <1>2, <2>2, OthersMove
  <2>4. TypeOK'
    BY <1>2, <2>0, <2>1, <2>2 DEF BInv, TypeOK, Moves, counts
  <2>5. StopsHold'
    <3>1. deleteCount' + deleteErr' >= deleteCount + deleteErr
      BY <2>2 DEF BInv, TypeOK, counts
    <3> QED BY <3>1, <2>2, <2>3, <2>4, StopsStay
  <2>6. JobsCounted'
    <3>1. \A j \in Jobs : /\ job'[j] = "none" <=> job[j] = "none"
                          /\ job'[j] = "gone" <=> job[j] = "gone"
      BY <2>0, <2>1 DEF BInv, TypeOK
    <3> QED BY <3>1, <2>2, <2>3, JobsStay
  <2>7. \A h \in Consumers : at'[h] = "delete" => held'[h] \in Jobs
    BY <2>0, <2>1, <2>3 DEF BInv, TypeOK
  <2> QED BY <2>3, <2>4, <2>5, <2>6, <2>7, QuietHolds
<1> QED BY <1>1, <1>2 DEF reserveConsumer

\* Sets of jobs are finite.
LEMMA JobsFinite ==
    ASSUME NEW S, S \subseteq Jobs
    PROVE  /\ IsFiniteSet(S) /\ Cardinality(S) \in Nat /\ Cardinality(S) <= MaxJobs
           /\ Cardinality(S) = MaxJobs => S = Jobs
           /\ \A j \in Jobs \ S : Cardinality(S \cup {j}) = Cardinality(S) + 1
<1>1. MaxJobs \in Nat /\ 1 \in Int /\ MaxJobs \in Int
  BY BenchAssumption
<1>2. IsFiniteSet(Jobs) /\ Cardinality(Jobs) = MaxJobs
  BY <1>1, FS_Interval DEF Jobs
<1>3. IsFiniteSet(S) /\ Cardinality(S) \in Nat /\ Cardinality(S) <= MaxJobs
      /\ (Cardinality(S) = MaxJobs => S = Jobs)
  BY <1>2, FS_Subset, FS_CardinalityType
<1>4. \A j \in Jobs \ S : Cardinality(S \cup {j}) = Cardinality(S) + 1
  BY <1>3, FS_AddElement
<1> QED BY <1>3, <1>4

\* delete: the job is gone and counted, or the delete is refused and counted.
LEMMA DeleteHolds ==
    ASSUME BInv, NEW g \in Consumers, deleteConsumer(g)
    PROVE  BInv'
<1> DEFINE m == held[g]
<1>0. m \in Jobs /\ at[g] = "delete"
  BY DEF BInv, deleteConsumer
<1>1. /\ UNCHANGED <<putCount, putErr, mode, timed, ctx, main, i, cut>>
      /\ held' = [held EXCEPT ![g] = 0] /\ Moves(g, "check")
  BY DEF deleteConsumer
<1>2. /\ deleteCount \in Nat /\ deleteErr \in Nat /\ putCount \in Nat /\ putErr \in Nat
  BY DEF BInv, TypeOK, counts
<1>3. \/ /\ job[m] \in {g, "ready"} /\ job' = [job EXCEPT ![m] = "gone"]
         /\ deleteCount' = deleteCount + 1 /\ deleteErr' = deleteErr
      \/ job' = job /\ deleteCount' = deleteCount /\ deleteErr' = deleteErr + 1
  BY DEF deleteConsumer
<1> HIDE DEF m
<1>4. /\ ProducersStay
      /\ \A h \in Producers \cup Consumers \cup Idlers :
               at'[h] = IF h = g THEN "check" ELSE at[h]
  BY <1>1, OthersMove
<1>5. TypeOK'
  <2>1. counts' \in Nat \X Nat \X Nat \X Nat
    BY <1>1, <1>2, <1>3 DEF counts
  <2>2. job' \in [Jobs -> {"none", "ready", "gone"} \cup Consumers]
    BY <1>0, <1>3 DEF BInv, TypeOK
  <2> QED BY <2>1, <2>2, <1>1 DEF BInv, TypeOK, Moves
<1>6. StopsHold'
  BY <1>1, <1>2, <1>3, <1>4, <1>5, StopsStay
<1>7. JobsCounted'
  <2>1. CASE job' = job /\ deleteCount' = deleteCount
    BY <2>1, <1>4, JobsStay
  <2>2. CASE /\ job[m] \in {g, "ready"} /\ job' = [job EXCEPT ![m] = "gone"]
             /\ deleteCount' = deleteCount + 1
    <3>1. g \notin {"none", "gone"}
      BY BenchAssumption
    <3>2. \A j \in Jobs : job'[j] = IF j = m THEN "gone" ELSE job[j]
      BY <2>2, <1>0 DEF BInv, TypeOK
    <3>3. Known' = Known /\ Gone' = Gone \cup {m} /\ m \in Jobs \ Gone /\ Gone \subseteq Jobs
      BY <2>2, <3>1, <3>2, <1>0 DEF Known, Gone
    <3>4. Putting' = Putting
      BY <1>4 DEF Putting, ProducersStay
    <3>5. Cardinality(Gone \cup {m}) = Cardinality(Gone) + 1
      BY <3>3, JobsFinite
    <3> QED BY <2>2, <3>3, <3>4, <3>5, <1>1 DEF BInv, JobsCounted
  <2> QED BY <2>1, <2>2, <1>3
<1>8. \A h \in Consumers : at'[h] = "delete" => held'[h] \in Jobs
  BY <1>1, <1>4 DEF BInv, TypeOK
<1> QED BY <1>4, <1>5, <1>6, <1>7, <1>8, QuietHolds

\* Every step of a consumer.
LEMMA ConsumerHolds ==
    ASSUME BInv, NEW g \in Consumers, runConsumer(g)
    PROVE  BInv'
<1>1. ASSUME dialConsumer(g) \/ checkConsumer(g) PROVE BInv'
  <2>1. PICK place \in Places \ {"delete"} : Moves(g, place)
    BY <1>1 DEF dialConsumer, checkConsumer, Places
  <2>2. UNCHANGED <<mode, timed, ctx, main, i, held, job, counts, cut>>
    BY <1>1 DEF dialConsumer, checkConsumer
  <2> QED BY <2>1, <2>2, PlaceHolds
<1> QED BY <1>1, ReserveHolds, DeleteHolds DEF runConsumer

\* An idle connection.
LEMMA IdleHolds ==
    ASSUME BInv, NEW g \in Idlers, runIdleConns(g)
    PROVE  BInv'
<1>1. PICK place \in Places \ {"delete"} : Moves(g, place)
  BY DEF runIdleConns, Places
<1> QED BY <1>1, PlaceHolds DEF runIdleConns

\* A reservation runs out.
LEMMA ExpireHolds ==
    ASSUME BInv, NEW j \in Jobs, expire(j)
    PROVE  BInv'
<1>1. /\ job' = [job EXCEPT ![j] = "ready"] /\ job[j] \in Consumers
      /\ UNCHANGED <<putCount, putErr, deleteCount, deleteErr, mode, timed, ctx, main, at, i, held, cut>>
  BY DEF expire, counts
<1>2. ProducersStay
  BY <1>1 DEF ProducersStay
<1>3. TypeOK'
  BY <1>1 DEF BInv, TypeOK, counts
<1>4. StopsHold'
  <2>1. deleteCount' + deleteErr' >= deleteCount + deleteErr
    BY <1>1 DEF BInv, TypeOK, counts
  <2> QED BY <2>1, <1>1, <1>2, <1>3, StopsStay
<1>5. JobsCounted'
  <2>1. \A k \in Jobs : /\ job'[k] = "none" <=> job[k] = "none"
                        /\ job'[k] = "gone" <=> job[k] = "gone"
    BY <1>1, BenchAssumption DEF BInv, TypeOK
  <2> QED BY <2>1, <1>1, <1>2, JobsStay
<1> QED BY <1>1, <1>2, <1>3, <1>4, <1>5, QuietHolds DEF BInv

\* Steps of run itself, Ctrl-C and the duration timer.
LEMMA MainHolds ==
    ASSUME BInv, interrupt \/ timeUp \/ mainStep \/ UNCHANGED vars
    PROVE  BInv'
<1>1. /\ UNCHANGED <<putCount, putErr, deleteCount, deleteErr, mode, timed, at, i, held, job>>
      /\ cut' \in BOOLEAN /\ (cut => cut') /\ ctx' \in BOOLEAN
      /\ main' \in {"producers", "idle", "drain", "wait", "reported"}
  BY DEF BInv, TypeOK, interrupt, timeUp, mainStep, producersDone, idleOver, drained,
         drainTimeout, report, vars, counts
<1>2. ProducersStay
  BY <1>1 DEF ProducersStay
<1>3. TypeOK'
  BY <1>1 DEF BInv, TypeOK, counts
<1>4. JobsCounted'
  BY <1>1, <1>2, JobsStay
<1>5. StopsHold'
  <2>1. (Ended(Producers)' <=> Ended(Producers)) /\ (Reached' <=> Reached)
        /\ (runConsumers' <=> runConsumers)
    BY <1>1 DEF Ended, Running, runProducers, runConsumers, Reached
  <2>2. CASE interrupt
    BY <2>1, <2>2, <1>1 DEF interrupt, StopsHold, BInv
  <2>3. CASE timeUp
    BY <2>1, <2>3, <1>1 DEF timeUp, StopsHold, BInv
  <2>4. CASE producersDone
    BY <2>1, <2>4, <1>1 DEF producersDone, StopsHold, BInv, runConsumers
  <2>5. CASE idleOver
    BY <2>1, <2>5, <1>1 DEF idleOver, StopsHold, BInv, runConsumers
  <2>6. CASE drained
    BY <2>1, <2>6, <1>1 DEF drained, StopsHold, BInv
  <2>7. CASE drainTimeout
    BY <2>1, <2>7, <1>1 DEF drainTimeout, StopsHold, BInv
  <2>8. CASE report
    BY <2>1, <2>8, <1>1 DEF report, StopsHold, BInv
  <2>9. CASE UNCHANGED vars
    BY <2>1, <2>9, <1>1 DEF vars, StopsHold, BInv
  <2> QED BY <2>2, <2>3, <2>4, <2>5, <2>6, <2>7, <2>8, <2>9 DEF mainStep
<1> QED BY <1>1, <1>2, <1>3, <1>4, <1>5, QuietHolds DEF BInv

-----------------------------------------------------------------------------
(* Producers. *)

\* Sets of producers are finite.
LEMMA ProducerSets ==
    ASSUME NEW S, S \subseteq Producers
    PROVE  /\ IsFiniteSet(S) /\ Cardinality(S) \in Nat
           /\ \A g \in Producers \ S : Cardinality(S \cup {g}) = Cardinality(S) + 1
           /\ \A g \in S : Cardinality(S \ {g}) = Cardinality(S) - 1
<1>1. IsFiniteSet(S) /\ Cardinality(S) \in Nat
  BY ProducersFinite, FS_Subset, FS_CardinalityType
<1> QED BY <1>1, FS_AddElement, FS_RemoveElement

\* A producer that runs keeps run waiting.
LEMMA ProducerRuns ==
    ASSUME BInv, NEW g \in Producers, runProducers, at[g] # "ended", ~timed
    PROVE  main = "producers" /\ (ctx => cut)
<1>1. g \in Running
  BY DEF Running
<1>2. ~Ended(Producers)
  BY <1>1 DEF Ended
<1> QED BY <1>2 DEF BInv, StopsHold, TypeOK

\* A step of producer g that changes neither what ended the run nor the jobs
\* counted: the conjuncts of BInv that it leaves to show.
LEMMA ProducerMoves ==
    ASSUME BInv, NEW g \in Producers, runProducers, at[g] # "ended", NEW place \in Places \ {"delete"},
           Moves(g, place), TypeOK', JobsCounted', ShareKept(g)',
           UNCHANGED <<mode, timed, ctx, main, held, deleteCount, deleteErr, cut>>,
           \A h \in Producers : h # g => i'[h] = i[h],
           ~timed /\ Limited' => Accounted'
    PROVE  BInv'
<1>1. \A h \in Producers \cup Consumers \cup Idlers :
         at'[h] = IF h = g THEN place ELSE at[h]
  BY DEF Moves, BInv, TypeOK
<1>2. \A h \in Producers : Share(h)' = Share(h)
  BY DEF Share
<1>3. \A h \in Producers : ShareKept(h)'
  BY <1>1, <1>2 DEF BInv, ShareKept
<1>4. \A h \in Consumers : at'[h] = "delete" => held'[h] \in Jobs
  <2>1. g \notin Consumers
    BY BenchAssumption
  <2> QED BY <2>1, <1>1 DEF BInv
<1>5. StopsHold'
  <2>1. ~timed => main = "producers" /\ (ctx => cut)
    BY ProducerRuns
  <2> QED BY <2>1 DEF StopsHold
<1>6. (runProducers /\ ~timed /\ Limited)' => Accounted'
  OBVIOUS
<1> QED BY <1>3, <1>4, <1>5, <1>6 DEF BInv

\* The account of a producer grows by d, which the report counts.
LEMMA AccountGrows ==
    ASSUME BInv, runProducers, ~timed, Limited, NEW g \in Producers, at[g] # "ended",
           NEW place, Moves(g, place), UNCHANGED <<mode, timed, cut>>, TypeOK',
           NEW d \in Nat, putCount' + putErr' = putCount + putErr + d,
           \A h \in Producers : h # g => i'[h] = i[h],
           \/ i'[g] = i[g] + d /\ (place = "ended" => cut \/ i'[g] = Share(g))
           \/ i'[g] = i[g] /\ i[g] = 0 /\ d = Share(g) /\ place = "ended"
    PROVE  Accounted'
<1>0. \A h \in Producers : Share(h)' = Share(h) /\ Share(h) \in Nat
  BY ShareBound DEF Share
<1>1. \A h \in Producers : at'[h] = IF h = g THEN place ELSE at[h]
  BY DEF Moves, BInv, TypeOK
<1>2. \A h \in Producers : i[h] \in Int /\ i'[h] \in Int
  BY Division DEF BInv, TypeOK
<1>3. PICK D \in SUBSET Producers :
          /\ \A h \in D : at[h] = "ended"
          /\ \A h \in Producers \ D : at[h] = "ended" => cut \/ i[h] = Share(h)
          /\ putCount + putErr = SumFunctionOnSet(Paid(D), Producers)
  BY Zenon DEF BInv, Accounted
<1>4. ASSUME NEW E \in SUBSET Producers, \A h \in Producers : h # g => (h \in E <=> h \in D),
             (IF g \in E THEN Share(g) ELSE i'[g]) = i[g] + d,
             g \in E => place = "ended",
             g \notin E => (place = "ended" => cut \/ i'[g] = Share(g))
      PROVE  Accounted'
  <2> DEFINE f == Paid(D)
             k == Paid(E)'
  <2>1. \A h \in E : at'[h] = "ended"
    BY <1>1, <1>3, <1>4
  <2>2. \A h \in Producers \ E : at'[h] = "ended" => cut' \/ i'[h] = Share(h)'
    BY <1>0, <1>1, <1>3, <1>4
  <2>3. /\ \A h \in Producers : f[h] \in Int /\ (h # g => k[h] = f[h])
        /\ f[g] = i[g] /\ k[g] = i[g] + d /\ k[g] \in Int
    <3>1. g \notin D
      BY <1>3
    <3> QED BY <3>1, <1>0, <1>2, <1>4 DEF Paid
  <2>4. putCount + putErr = SumFunctionOnSet(f, Producers)
    BY <1>3
  <2> HIDE DEF f, k
  <2>5. IsFiniteSet(Producers)
    BY ProducersFinite
  <2>6. SumFunctionOnSet(f, Producers) \in Int
    BY <2>3, <2>5, SumInt
  <2>7. SumFunctionOnSet(k, Producers) = SumFunctionOnSet(f, Producers) + k[g] - f[g]
    BY <2>3, <2>5, SumChange
  <2>8. putCount' + putErr' = SumFunctionOnSet(k, Producers)
    BY <2>3, <2>4, <2>6, <2>7, <1>2
  <2>9. (putCount + putErr = SumFunctionOnSet(Paid(E), Producers))'
    BY <2>8 DEF k
  <2> QED BY <2>1, <2>2, <2>9, Zenon DEF Accounted
<1>5. CASE i'[g] = i[g] + d /\ (place = "ended" => cut \/ i'[g] = Share(g))
  <2>1. g \notin D
    BY <1>3
  <2> QED BY <1>4, <1>5, <2>1
<1>6. CASE i'[g] = i[g] /\ i[g] = 0 /\ d = Share(g) /\ place = "ended"
  <2> DEFINE E == D \cup {g}
  <2>1. /\ E \in SUBSET Producers /\ \A h \in Producers : h # g => (h \in E <=> h \in D)
        /\ g \in E
    OBVIOUS
  <2>2. i[g] + d = Share(g)
    BY <1>0, <1>6
  <2> HIDE DEF E
  <2> QED BY <1>4, <1>6, <2>1, <2>2
<1> QED BY <1>5, <1>6

\* The jobs stay when no producer begins or ends a put.
LEMMA PutsQuiet ==
    ASSUME BInv, NEW g \in Producers, NEW place, Moves(g, place), at[g] # "put", place # "put",
           UNCHANGED <<job, putCount, deleteCount>>
    PROVE  JobsCounted'
<1>1. \A h \in Producers : at'[h] = IF h = g THEN place ELSE at[h]
  BY DEF Moves, BInv, TypeOK
<1>2. Known' = Known /\ Gone' = Gone /\ Putting' = Putting
  BY <1>1 DEF Known, Gone, Putting
<1> QED BY <1>2 DEF BInv, JobsCounted

\* A producer that puts without limit ends only when the run is cut.
LEMMA LimitedBefore ==
    ASSUME BInv, runProducers, ~timed, NEW g \in Producers, at[g] # "ended",
           NEW place, Moves(g, place), UNCHANGED <<mode, timed, ctx, cut>>, Limited',
           at[g] # "dial" /\ Share(g) = 0 => place \notin {"dial", "ended"} \/ ctx
    PROVE  Limited
<1>1. \A h \in Producers : at'[h] = IF h = g THEN place ELSE at[h]
  BY DEF Moves, BInv, TypeOK
<1>2. ctx => cut
  BY ProducerRuns
<1>3. \A h \in Producers : Share(h)' = Share(h)
  BY DEF Share
<1>4. CASE P <= NumJobs
  BY <1>4 DEF Limited
<1>5. CASE ~(P <= NumJobs)
  <2>1. ~cut /\ \A h \in Producers : Share(h) = 0 => at'[h] \in {"dial", "ended"}
    BY <1>3, <1>5, Zenon DEF Limited
  <2>2. \A h \in Producers : h # g /\ Share(h) = 0 => at[h] \in {"dial", "ended"}
    BY <1>1, <2>1
  <2>3. Share(g) = 0 => at[g] = "dial"
    BY <1>1, <1>2, <2>1
  <2> QED BY <2>1, <2>2, <2>3 DEF Limited
<1> QED BY <1>4, <1>5

\* A producer dials; one that cannot accounts for its whole share.
LEMMA DialHolds ==
    ASSUME BInv, NEW g \in Producers, runProducers, dialProducer(g)
    PROVE  BInv'
<1>0. Share(g) \in Nat /\ i[g] = 0 /\ at[g] = "dial" /\ Share(g)' = Share(g)
  BY ShareBound DEF BInv, ShareKept, dialProducer, Share
<1>1. /\ UNCHANGED <<mode, timed, ctx, main, i, held, job, cut, putCount, deleteCount, deleteErr>>
      /\ \/ Moves(g, "check") /\ putErr' = putErr
         \/ Moves(g, "ended") /\ putErr' = putErr + Share(g)
  BY DEF dialProducer, counts
<1>2. PICK place \in {"check", "ended"} :
         /\ Moves(g, place)
         /\ \/ place = "check" /\ putErr' = putErr
            \/ place = "ended" /\ putErr' = putErr + Share(g)
  BY <1>1
<1>3. putErr \in Nat /\ putCount \in Nat /\ i[g] \in Int
  BY <1>0 DEF BInv, TypeOK, counts
<1>4. TypeOK'
  <2>1. counts' \in Nat \X Nat \X Nat \X Nat
    BY <1>0, <1>1, <1>3 DEF BInv, TypeOK, counts
  <2> QED BY <2>1, <1>1, <1>2 DEF BInv, TypeOK, Moves
<1>5. JobsCounted'
  BY <1>0, <1>1, <1>2, PutsQuiet
<1>6. ShareKept(g)'
  <2>1. at'[g] = place
    BY <1>2 DEF Moves, BInv, TypeOK
  <2> QED BY <2>1, <1>0, <1>1, <1>2 DEF ShareKept
<1>7. ASSUME ~timed, Limited' PROVE Accounted'
  <2>0. Limited
    BY <1>0, <1>1, <1>2, <1>7, LimitedBefore
  <2>1. CASE place = "check" /\ putErr' = putErr
    <3> DEFINE d == 0
    <3>1. /\ d \in Nat /\ putCount' + putErr' = putCount + putErr + d /\ i'[g] = i[g] + d
      BY <1>1, <1>3, <2>1
    <3> HIDE DEF d
    <3> QED BY <3>1, <2>1, <1>0, <1>1, <1>2, <1>4, <1>7, <2>0, AccountGrows
  <2>2. CASE place = "ended" /\ putErr' = putErr + Share(g)
    <3> DEFINE d == Share(g)
    <3>1. d \in Nat /\ putCount' + putErr' = putCount + putErr + d /\ d = Share(g)
      BY <1>0, <1>1, <1>3, <2>2
    <3> HIDE DEF d
    <3> QED BY <3>1, <2>2, <1>0, <1>1, <1>2, <1>4, <1>7, <2>0, AccountGrows
  <2> QED BY <2>1, <2>2, <1>2
<1>8. place \in Places \ {"delete"}
  BY DEF Places
<1> QED BY <1>0, <1>1, <1>2, <1>4, <1>5, <1>6, <1>7, <1>8, ProducerMoves

\* The head of a producer's loop.
LEMMA CheckHolds ==
    ASSUME BInv, NEW g \in Producers, runProducers, checkProducer(g)
    PROVE  BInv'
<1>0. /\ Share(g) \in Nat /\ i[g] \in Nat /\ i[g] <= Share(g) /\ at[g] = "check"
      /\ Share(g)' = Share(g) /\ (~timed /\ P <= NumJobs => Share(g) > 0)
  BY ShareBound, Division DEF BInv, ShareKept, checkProducer, Share, TypeOK
<1>1. UNCHANGED <<mode, timed, ctx, main, i, held, job, cut, putCount, putErr, deleteCount, deleteErr>>
  BY DEF checkProducer, counts
<1>2. PICK place \in {"put", "ended"} :
         /\ Moves(g, place)
         /\ place = "put" => Room /\ (Share(g) = 0 \/ i[g] < Share(g))
         /\ place = "ended" => ctx \/ (~(i[g] < Share(g)) /\ Share(g) # 0)
  <2>1. CASE (Share(g) = 0 \/ i[g] < Share(g)) /\ ~ctx
    BY <2>1, Zenon DEF checkProducer
  <2>2. CASE ~((Share(g) = 0 \/ i[g] < Share(g)) /\ ~ctx)
    <3>1. Moves(g, "ended")
      BY <2>2, Zenon DEF checkProducer
    <3>2. ctx \/ (~(i[g] < Share(g)) /\ Share(g) # 0)
      BY <2>2, Zenon
    <3>3. "ended" # "put" /\ "ended" \in {"put", "ended"}
      OBVIOUS
    <3> QED BY <3>1, <3>2, <3>3, Zenon
  <2> QED BY <2>1, <2>2
<1>3. \A h \in Producers : at'[h] = IF h = g THEN place ELSE at[h]
  BY <1>2 DEF Moves, BInv, TypeOK
<1>4. TypeOK'
  BY <1>1, <1>2 DEF BInv, TypeOK, Moves, counts
<1>5. JobsCounted'
  <2>1. CASE place = "ended"
    BY <2>1, <1>0, <1>1, <1>2, PutsQuiet
  <2>2. CASE place = "put"
    <3>1. Putting' = Putting \cup {g} /\ g \in Producers \ Putting /\ Putting \subseteq Producers
      BY <2>2, <1>0, <1>3 DEF Putting
    <3>2. Cardinality(Putting \cup {g}) = Cardinality(Putting) + 1 /\ Cardinality(Putting) \in Nat
      BY <3>1, ProducerSets
    <3>3. Old + putCount + putErr + Cardinality(Putting) < MaxJobs
      BY <2>2, <1>2 DEF Room, Putting
    <3>4. /\ Old \in Nat /\ MaxJobs \in Nat /\ putCount \in Nat /\ putErr \in Nat
      BY BenchAssumption DEF BInv, TypeOK, counts
    <3>5. Old + putCount + (Cardinality(Putting) + 1) <= MaxJobs
      BY <3>2, <3>3, <3>4
    <3>6. Known' = Known /\ Gone' = Gone
      BY <1>1 DEF Known, Gone
    <3> QED BY <3>1, <3>2, <3>5, <3>6, <1>1 DEF BInv, JobsCounted
  <2> QED BY <2>1, <2>2
<1>6. ShareKept(g)'
  BY <1>0, <1>1, <1>2, <1>3 DEF ShareKept
<1>7. ASSUME ~timed, Limited' PROVE Accounted'
  <2>0. Limited
    BY <1>0, <1>1, <1>2, <1>7, LimitedBefore
  <2> DEFINE d == 0
  <2>1. d \in Nat /\ putCount' + putErr' = putCount + putErr + d /\ i'[g] = i[g] + d
    BY <1>0, <1>1 DEF BInv, TypeOK, counts
  <2>2. place = "ended" => cut \/ i'[g] = Share(g)
    <3>1. ctx => cut
      BY <1>0, <1>7, ProducerRuns
    <3> QED BY <3>1, <1>0, <1>1, <1>2
  <2> HIDE DEF d
  <2> QED BY <2>1, <2>2, <1>0, <1>1, <1>2, <1>4, <1>7, <2>0, AccountGrows
<1>8. place \in Places \ {"delete"}
  BY DEF Places
<1> QED BY <1>0, <1>1, <1>2, <1>4, <1>5, <1>6, <1>7, <1>8, ProducerMoves

\* put: the server has a new job, or the put failed; both are counted.
LEMMA PutHolds ==
    ASSUME BInv, NEW g \in Producers, runProducers, putProducer(g)
    PROVE  BInv'
<1>0. /\ Share(g) \in Nat /\ i[g] \in Nat /\ i[g] <= Share(g) /\ at[g] = "put"
      /\ Share(g) = 0 \/ i[g] < Share(g)
      /\ Share(g)' = Share(g) /\ (~timed /\ P <= NumJobs => Share(g) > 0)
      /\ Share(g) <= NumJobs \div P + 1 /\ NumJobs \div P \in Nat
  BY ShareBound, Division DEF BInv, ShareKept, putProducer, Share, TypeOK
<1>1. /\ UNCHANGED <<mode, timed, ctx, main, held, cut, deleteCount, deleteErr>>
      /\ Moves(g, "check")
      /\ i' = [i EXCEPT ![g] = IF Share(g) = 0 THEN i[g] ELSE i[g] + 1]
      /\ \/ job' = [job EXCEPT ![Min(Unused)] = "ready"] /\ putCount' = putCount + 1 /\ putErr' = putErr
         \/ job' = job /\ putCount' = putCount /\ putErr' = putErr + 1
  BY DEF putProducer
<1>2. \A h \in Producers : at'[h] = IF h = g THEN "check" ELSE at[h]
  BY <1>1 DEF Moves, BInv, TypeOK
<1>3. \A h \in Producers : i'[h] = IF h # g \/ Share(g) = 0 THEN i[h] ELSE i[h] + 1
  BY <1>1 DEF BInv, TypeOK
<1>4. putCount \in Nat /\ putErr \in Nat /\ Old \in Nat /\ MaxJobs \in Nat
  BY BenchAssumption DEF BInv, TypeOK, counts
<1>5. /\ Putting' = Putting \ {g} /\ Cardinality(Putting) \in Nat
      /\ Cardinality(Putting \ {g}) = Cardinality(Putting) - 1
      /\ Cardinality(Putting) >= 1
  <2>1. Putting' = Putting \ {g} /\ g \in Putting /\ Putting \subseteq Producers /\ Putting \ {g} \subseteq Producers
    BY <1>0, <1>2 DEF Putting
  <2>2. /\ Cardinality(Putting) \in Nat /\ Cardinality(Putting \ {g}) \in Nat
    BY <2>1, ProducerSets
  <2>3. Cardinality(Putting \ {g}) = Cardinality(Putting) - 1
    BY <2>1, ProducerSets
  <2> QED BY <2>1, <2>2, <2>3
<1>6. Known \subseteq Jobs /\ Cardinality(Known) = Old + putCount /\ Cardinality(Gone) = deleteCount
      /\ Old + putCount + Cardinality(Putting) <= MaxJobs
  BY DEF BInv, JobsCounted, Known
<1>7. Unused = Jobs \ Known /\ Min(Unused) \in Unused
  <2>1. Unused = Jobs \ Known
    BY DEF Unused, Known
  <2>2. Cardinality(Known) # MaxJobs
    BY <1>4, <1>5, <1>6
  <2>3. Cardinality(Jobs) = MaxJobs
    BY <1>4, FS_Interval DEF Jobs
  <2>4. Unused # {} /\ Unused \subseteq Jobs
    BY <1>6, <2>1, <2>2, <2>3
  <2> QED BY <2>1, <2>4, MinJob
<1> DEFINE m == Min(Unused)
<1>8. m \in Jobs \ Known
  BY <1>7
<1>9. \/ job' = [job EXCEPT ![m] = "ready"] /\ putCount' = putCount + 1 /\ putErr' = putErr
      \/ job' = job /\ putCount' = putCount /\ putErr' = putErr + 1
  BY <1>1
<1> HIDE DEF m
<1>10. TypeOK'
  <2>1. counts' \in Nat \X Nat \X Nat \X Nat
    BY <1>1, <1>4 DEF BInv, TypeOK, counts
  <2>2. job' \in [Jobs -> {"none", "ready", "gone"} \cup Consumers]
    BY <1>8, <1>9 DEF BInv, TypeOK
  <2>3. i' \in [Producers -> 0 .. NumJobs \div P + 1]
    <3>1. i[g] + 1 \in 0 .. NumJobs \div P + 1 \/ Share(g) = 0
      BY <1>0
    <3> QED BY <3>1, <1>1 DEF BInv, TypeOK
  <2> QED BY <2>1, <2>2, <2>3, <1>1 DEF BInv, TypeOK, Moves
<1>11. JobsCounted'
  <2>1. CASE job' = job /\ putCount' = putCount
    <3>1. Known' = Known /\ Gone' = Gone
      BY <2>1 DEF Known, Gone
    <3> QED BY <2>1, <3>1, <1>1, <1>4, <1>5, <1>6 DEF JobsCounted
  <2>2. CASE job' = [job EXCEPT ![m] = "ready"] /\ putCount' = putCount + 1
    <3>1. \A j \in Jobs : job'[j] = IF j = m THEN "ready" ELSE job[j]
      BY <2>2 DEF BInv, TypeOK
    <3>2. job[m] = "none"
      BY <1>8 DEF Known
    <3>3. Known' = Known \cup {m} /\ Gone' = Gone
      BY <3>1, <3>2, <1>8 DEF Known, Gone
    <3>4. Cardinality(Known \cup {m}) = Cardinality(Known) + 1
      BY <1>6, <1>8, JobsFinite
    <3> QED BY <2>2, <3>3, <3>4, <1>1, <1>4, <1>5, <1>6 DEF JobsCounted
  <2> QED BY <2>1, <2>2, <1>9
<1>12. ShareKept(g)'
  BY <1>0, <1>2, <1>3 DEF ShareKept
<1>13. ASSUME ~timed, Limited' PROVE Accounted'
  <2>0. Limited /\ Share(g) > 0
    <3>1. Limited
      BY <1>0, <1>1, <1>13, LimitedBefore
    <3>2. "check" \notin {"dial", "ended"} /\ at'[g] = "check"
      BY <1>2
    <3>3. P <= NumJobs \/ Share(g) # 0
      BY <3>2, <1>0, <1>13, Zenon DEF Limited
    <3> QED BY <3>1, <3>3, <1>0, <1>13
  <2> DEFINE d == 1
  <2>1. d \in Nat /\ putCount' + putErr' = putCount + putErr + d /\ i'[g] = i[g] + d
    BY <1>0, <1>3, <1>4, <1>9, <2>0
  <2>2. \A h \in Producers : h # g => i'[h] = i[h]
    BY <1>3
  <2> HIDE DEF d
  <2> QED BY <2>1, <2>2, <1>0, <1>1, <1>10, <1>13, <2>0, AccountGrows
<1>14. "check" \in Places \ {"delete"} /\ \A h \in Producers : h # g => i'[h] = i[h]
  BY <1>3 DEF Places
<1> QED BY <1>0, <1>1, <1>10, <1>11, <1>12, <1>13, <1>14, ProducerMoves

-----------------------------------------------------------------------------
(* The theorems. *)

\* Every step keeps the invariant.
LEMMA NextBInv == BInv /\ [Next]_vars => BInv'
<1> SUFFICES ASSUME BInv, [Next]_vars PROVE BInv'
  OBVIOUS
<1>1. ASSUME NEW g \in Producers, runProducers /\ runProducer(g) PROVE BInv'
  BY <1>1, DialHolds, CheckHolds, PutHolds DEF runProducer
<1>2. ASSUME NEW g \in Consumers, runConsumers /\ runConsumer(g) PROVE BInv'
  BY <1>2, ConsumerHolds
<1>3. ASSUME NEW g \in Idlers, runIdleConns(g) PROVE BInv'
  BY <1>3, IdleHolds
<1>4. ASSUME NEW j \in Jobs, expire(j) PROVE BInv'
  BY <1>4, ExpireHolds
<1>5. ASSUME interrupt \/ timeUp \/ mainStep \/ UNCHANGED vars PROVE BInv'
  BY <1>5, MainHolds
<1> QED BY <1>1, <1>2, <1>3, <1>4, <1>5 DEF Next, Over

\* The invariant holds throughout a run of the benchmark.
THEOREM BenchInvariant == Spec => []BInv
<1> QED BY InitBInv, NextBInv, PTL DEF Spec

\* The counters, loop variables and goroutines of main.go have their types.
THEOREM BenchTypes == Spec => []TypeOK
<1>1. BInv => TypeOK
  BY DEF BInv
<1> QED BY <1>1, BenchInvariant, PTL

\* What the producers accounted for is at most -n, and all of it once they
\* ended and nothing cut them short.
LEMMA PutsFollow ==
    ASSUME BInv, runProducers, ~timed, Limited
    PROVE  /\ putCount + putErr <= NumJobs
           /\ main = "reported" /\ ~cut => putCount + putErr = NumJobs
<1>1. PICK D \in SUBSET Producers :
          /\ \A g \in D : at[g] = "ended"
          /\ \A g \in Producers \ D : at[g] = "ended" => cut \/ i[g] = Share(g)
          /\ putCount + putErr = SumFunctionOnSet(Paid(D), Producers)
  BY Zenon DEF BInv, Accounted
<1> DEFINE f == Paid(D)
           h == [g \in Producers |-> Share(g)]
<1>2. SumFunctionOnSet(h, Producers) = NumJobs
  BY SharesAddUp
<1>3. putCount + putErr = SumFunctionOnSet(f, Producers)
  BY <1>1
<1>4. \A g \in Producers : f[g] \in Int /\ h[g] \in Int /\ f[g] <= h[g]
  <2>1. \A g \in Producers : Share(g) \in Nat /\ i[g] \in Int /\ i[g] <= Share(g)
    BY ShareBound, Division DEF BInv, TypeOK, ShareKept
  <2> QED BY <2>1 DEF Paid
<1>5. ASSUME main = "reported", ~cut
      PROVE  \A g \in Producers : h[g] = f[g]
  <2>1. Ended(Producers)
    BY <1>5 DEF BInv, StopsHold
  <2>2. \A g \in Producers : at[g] = "ended"
    BY <2>1 DEF Ended, Running
  <2> QED BY <1>1, <1>5, <2>2 DEF Paid
<1> HIDE DEF f, h
<1>6. IsFiniteSet(Producers)
  BY ProducersFinite
<1>7. SumFunctionOnSet(f, Producers) <= SumFunctionOnSet(h, Producers)
  BY <1>4, <1>6, SumLeq
<1>8. ASSUME main = "reported", ~cut
      PROVE  SumFunctionOnSet(h, Producers) = SumFunctionOnSet(f, Producers)
  BY <1>4, <1>5, <1>6, <1>8, SumSame
<1> QED BY <1>2, <1>3, <1>7, <1>8

\* A run that was not cut short had no producer without limit.
LEMMA ReportedIsLimited ==
    ASSUME BInv, runProducers, ~timed, main = "reported", ~cut
    PROVE  Limited
<1>1. Ended(Producers)
  BY DEF BInv, StopsHold
<1>2. \A g \in Producers : at[g] = "ended"
  BY <1>1 DEF Ended, Running
<1> QED BY <1>2 DEF Limited

\* -n is honoured: the producers never put more than -n jobs between them,
\* and a run that nobody cuts short accounts for every one of them, whoever
\* failed to dial or to put.  With more producers than jobs some shares are
\* zero, which runProducer takes for no limit, hence the hypothesis.
THEOREM PutsAreExact ==
    ASSUME P <= NumJobs
    PROVE  Spec => []PutsExactly
<1>1. BInv => PutsExactly
  BY PutsFollow DEF PutsExactly, Limited
<1> QED BY <1>1, BenchInvariant, PTL

\* The drain loop of run stops early only by as many jobs as deletes failed.
THEOREM BenchCatchesUp == Spec => []CaughtUp
<1>1. ASSUME BInv PROVE CaughtUp
  <2> SUFFICES ASSUME mode = "both", ~timed, Old = 0, main = "reported", ~cut
               PROVE  Cardinality({j \in Jobs : job[j] \notin {"none", "gone"}}) <= deleteErr
    BY DEF CaughtUp
  <2>0. runProducers
    BY DEF runProducers
  <2>1. putCount + putErr <= NumJobs
    BY <1>1, <2>0, ReportedIsLimited, PutsFollow
  <2>2. deleteCount + deleteErr >= NumJobs
    BY <1>1 DEF BInv, StopsHold, runConsumers, Reached
  <2>3. /\ putCount \in Nat /\ putErr \in Nat /\ deleteCount \in Nat /\ deleteErr \in Nat
        /\ NumJobs \in Nat
    BY <1>1, BenchAssumption DEF BInv, TypeOK, counts
  <2>4. Cardinality(Known) = putCount /\ Cardinality(Gone) = deleteCount
    BY <1>1, <2>3 DEF BInv, JobsCounted
  <2>5. {j \in Jobs : job[j] \notin {"none", "gone"}} = Known \ Gone /\ Gone \subseteq Known
    BY DEF Known, Gone
  <2>6. IsFiniteSet(Known)
    BY JobsFinite DEF Known
  <2>7. Cardinality(Known \ Gone) = Cardinality(Known) - Cardinality(Known \cap Gone)
    BY <2>6, FS_Difference
  <2>8. Known \cap Gone = Gone
    BY <2>5
  <2>9. putCount - deleteCount <= deleteErr
    BY <2>1, <2>2, <2>3
  <2>10. Cardinality(Known \ Gone) = putCount - deleteCount
    BY <2>4, <2>7, <2>8, Zenon
  <2>11. Cardinality(Known \ Gone) <= deleteErr
    BY <2>9, <2>10, Zenon
  <2> QED BY <2>5, <2>11, Zenon
<1> QED BY <1>1, BenchInvariant, PTL
=============================================================================
