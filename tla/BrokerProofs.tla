---------------------------- MODULE BrokerProofs ----------------------------
(***************************************************************************)
(* The safety theorems of Broker, for any finite sets of connections and   *)
(* tubes and any bounds: IInv is inductive, and the invariants the runs    *)
(* check on small instances follow from it.  Then the action properties:   *)
(* drain mode, the fates of a job, tube GC.                                *)
(*                                                                         *)
(* The first sections are the lemmas about the list, counter and tube      *)
(* operators of Broker that the proofs are made of.                        *)
(*                                                                         *)
(* IInv is taken apart into what the tubes owe (MapHolds), who owns the    *)
(* reserved jobs, the puts in progress and the stored jobs; one lemma per  *)
(* action shows that it keeps each part.                                   *)
(***************************************************************************)
EXTENDS Broker, FiniteSetTheorems, WellFoundedInduction, TLAPS

-----------------------------------------------------------------------------
(* Naturals and lists. *)

\* A non-empty set of naturals has a least element.
LEMMA LeastNat ==
    ASSUME NEW T, T \subseteq Nat, T # {}
    PROVE  \E x \in T : \A y \in T : x <= y
<1>1. \E x \in T : \A y \in T : ~(<<y, x>> \in OpToRel(<, Nat))
  BY NatLessThanWellFounded, WFMin, Zenon
<1>2. ASSUME NEW x \in Nat, NEW y \in Nat, ~(<<y, x>> \in OpToRel(<, Nat))
      PROVE  ~(y < x)
  BY <1>2, Zenon DEF OpToRel
<1>3. \E x \in T : \A y \in T : ~(y < x)
  BY <1>1, <1>2, Zenon
<1> QED BY <1>3

\* A job appended to the buried list (buryPush) is its only new element.
LEMMA AppendList ==
    ASSUME NEW S, NEW s \in Seq(S), NEW e \in S
    PROVE  /\ Append(s, e) \in Seq(S)
           /\ Len(Append(s, e)) = Len(s) + 1
           /\ ToSet(Append(s, e)) = ToSet(s) \cup {e}
           /\ IsInjective(s) /\ e \notin ToSet(s) => IsInjective(Append(s, e))
<1>1. Append(s, e) \in Seq(S) /\ Len(Append(s, e)) = Len(s) + 1
  OBVIOUS
<1>2. /\ \A i \in 1 .. Len(s) : Append(s, e)[i] = s[i]
      /\ Append(s, e)[Len(s) + 1] = e
  OBVIOUS
<1>3. DOMAIN s = 1 .. Len(s) /\ DOMAIN Append(s, e) = 1 .. Len(s) + 1 /\ Len(s) \in Nat
  BY <1>1
<1>4. ToSet(Append(s, e)) = ToSet(s) \cup {e}
  BY <1>2, <1>3 DEF ToSet
<1>5. IsInjective(s) /\ e \notin ToSet(s) => IsInjective(Append(s, e))
  BY <1>2, <1>3 DEF ToSet, IsInjective
<1> QED BY <1>1, <1>4, <1>5

\* What is left of a list when its m-th element is cut out.
LEMMA RemoveAtList ==
    ASSUME NEW S, NEW s \in Seq(S), NEW m \in 1 .. Len(s)
    PROVE  /\ RemoveAt(s, m) \in Seq(S)
           /\ Len(RemoveAt(s, m)) = Len(s) - 1
           /\ \A i \in 1 .. Len(s) - 1 : RemoveAt(s, m)[i] = IF i < m THEN s[i] ELSE s[i + 1]
<1> DEFINE u == SubSeq(s, 1, m - 1)
           v == SubSeq(s, m + 1, Len(s))
<1>1. /\ u \in Seq(S) /\ v \in Seq(S)
      /\ Len(u) = m - 1 /\ Len(v) = Len(s) - m
  OBVIOUS
<1>2. \A i \in 1 .. m - 1 : u[i] = s[i]
  OBVIOUS
<1>3. \A i \in 1 .. Len(s) - m : v[i] = s[i + m]
  OBVIOUS
<1> HIDE DEF u, v
<1>4. u \o v \in Seq(S) /\ Len(u \o v) = Len(s) - 1
  BY <1>1
<1>5. \A i \in 1 .. Len(s) - 1 : (u \o v)[i] = IF i < m THEN s[i] ELSE s[i + 1]
  BY <1>1, <1>2, <1>3
<1> QED BY <1>4, <1>5 DEF RemoveAt, u, v

\* RemoveFirst (buryRemove) takes out the job and nothing else.
LEMMA RemoveList ==
    ASSUME NEW S, NEW s \in Seq(S), NEW e
    PROVE  /\ RemoveFirst(s, e) \in Seq(S)
           /\ IsInjective(s) => /\ ToSet(RemoveFirst(s, e)) = ToSet(s) \ {e}
                                /\ IsInjective(RemoveFirst(s, e))
           /\ e \in ToSet(s) => Len(RemoveFirst(s, e)) = Len(s) - 1
<1> DEFINE r == RemoveFirst(s, e)
<1>0. DOMAIN s = 1 .. Len(s) /\ Len(s) \in Nat
  OBVIOUS
<1>1. CASE ~ \E i \in 1 .. Len(s) : s[i] = e
  <2>1. r = s
    BY <1>1 DEF RemoveFirst
  <2> QED BY <2>1, <1>1, <1>0 DEF ToSet
<1>2. CASE \E i \in 1 .. Len(s) : s[i] = e
  <2> DEFINE I == {i \in 1 .. Len(s) : s[i] = e}
  <2>1. I \subseteq Nat /\ I # {}
    BY <1>2
  <2>3. \E x \in I : \A y \in I : x <= y
    BY <2>1, LeastNat
  <2>4. Min(I) \in I
    BY <2>3 DEF Min
  <2>5. PICK m \in 1 .. Len(s) : s[m] = e /\ r = RemoveAt(s, m)
    BY <2>4, <1>2 DEF RemoveFirst, SelectInSeq
  <2>6. /\ r \in Seq(S)
        /\ Len(r) = Len(s) - 1
        /\ \A i \in 1 .. Len(s) - 1 : r[i] = IF i < m THEN s[i] ELSE s[i + 1]
    BY <2>5, RemoveAtList
  <2>7. DOMAIN r = 1 .. Len(s) - 1
    BY <2>6
  <2>8. ASSUME IsInjective(s) PROVE IsInjective(r)
    BY <2>6, <2>7, <2>8, <1>0 DEF IsInjective
  <2>9. ASSUME IsInjective(s) PROVE ToSet(r) = ToSet(s) \ {e}
    <3>1. ASSUME NEW i \in 1 .. Len(s) - 1
          PROVE  r[i] \in ToSet(s) /\ r[i] # e
      <4>1. PICK k \in 1 .. Len(s) : k # m /\ r[i] = s[k]
        <5>1. CASE i < m
          BY <5>1, <2>6, <1>0
        <5>2. CASE ~(i < m)
          <6>1. i + 1 \in 1 .. Len(s) /\ i + 1 # m
            BY <5>2, <1>0
          <6> QED BY <5>2, <6>1, <2>6
        <5> QED BY <5>1, <5>2
      <4>2. s[k] # s[m]
        BY <4>1, <2>9, <1>0 DEF IsInjective
      <4> QED BY <4>1, <4>2, <2>5, <1>0 DEF ToSet
    <3>2. ASSUME NEW i \in 1 .. Len(s), s[i] # e
          PROVE  \E k \in 1 .. Len(s) - 1 : r[k] = s[i]
      <4>1. CASE i < m
        BY <4>1, <2>6, <1>0
      <4>2. CASE i > m
        <5>1. i - 1 \in 1 .. Len(s) - 1 /\ ~(i - 1 < m) /\ (i - 1) + 1 = i
          BY <4>2, <1>0
        <5> QED BY <5>1, <2>6
      <4> QED BY <4>1, <4>2, <3>2, <2>5
    <3>3. \A x \in ToSet(r) : x \in ToSet(s) \ {e}
      BY <3>1, <2>7 DEF ToSet
    <3>4. \A x \in ToSet(s) \ {e} : x \in ToSet(r)
      <4>1. SUFFICES ASSUME NEW x \in ToSet(s), x # e PROVE x \in ToSet(r)
        OBVIOUS
      <4>2. PICK i \in 1 .. Len(s) : s[i] = x
        BY <1>0 DEF ToSet
      <4>3. PICK k \in 1 .. Len(s) - 1 : r[k] = s[i]
        BY <4>1, <4>2, <3>2
      <4> QED BY <4>2, <4>3, <2>7 DEF ToSet
    <3> QED BY <3>3, <3>4
  <2> QED BY <2>6, <2>8, <2>9
<1> QED BY <1>1, <1>2

\* A list without repetition has as many elements as its length.
LEMMA CardOfList ==
    ASSUME NEW S, NEW s \in Seq(S), IsInjective(s)
    PROVE  IsFiniteSet(ToSet(s)) /\ Cardinality(ToSet(s)) = Len(s)
<1>1. DOMAIN s = 1 .. Len(s) /\ Len(s) \in Nat
  OBVIOUS
<1>2. s \in [1 .. Len(s) -> ToSet(s)]
  BY <1>1 DEF ToSet
<1>3. s \in Bijection(1 .. Len(s), ToSet(s))
  <2>1. \A y \in ToSet(s) : \E x \in 1 .. Len(s) : s[x] = y
    BY <1>1 DEF ToSet
  <2>2. \A x, y \in 1 .. Len(s) : s[x] = s[y] => x = y
    BY <1>1 DEF IsInjective
  <2> QED BY <2>1, <2>2, <1>1, <1>2
          DEF Bijection, Injection, Surjection, IsInjective
<1>4. ExistsBijection(1 .. Len(s), ToSet(s))
  BY <1>3 DEF ExistsBijection
<1> QED BY <1>1, <1>4, FS_CountingElements, FS_NatBijection

\* Cutting off the first n elements (kick) splits a list without repetition.
LEMMA SplitList ==
    ASSUME NEW S, NEW s \in Seq(S), IsInjective(s), NEW n \in 1 .. Len(s)
    PROVE  LET u == SubSeq(s, 1, n)
               v == SubSeq(s, n + 1, Len(s))
           IN  /\ u \in Seq(S) /\ v \in Seq(S)
               /\ Len(u) = n /\ Len(v) = Len(s) - n
               /\ IsInjective(u) /\ IsInjective(v)
               /\ ToSet(v) = ToSet(s) \ ToSet(u)
               /\ ToSet(u) \subseteq ToSet(s)
<1> DEFINE u == SubSeq(s, 1, n)
           v == SubSeq(s, n + 1, Len(s))
<1>1. /\ u \in Seq(S) /\ v \in Seq(S)
      /\ Len(u) = n /\ Len(v) = Len(s) - n
  OBVIOUS
<1>2. \A i \in 1 .. n : u[i] = s[i]
  OBVIOUS
<1>3. \A i \in 1 .. Len(s) - n : v[i] = s[i + n]
  OBVIOUS
<1> HIDE DEF u, v
<1>4. /\ DOMAIN s = 1 .. Len(s) /\ Len(s) \in Nat
      /\ DOMAIN u = 1 .. n /\ DOMAIN v = 1 .. Len(s) - n
  BY <1>1
<1>5. IsInjective(u) /\ IsInjective(v)
  <2>1. \A x, y \in 1 .. Len(s) : s[x] = s[y] => x = y
    BY <1>4 DEF IsInjective
  <2>2. \A x, y \in 1 .. n : u[x] = u[y] => x = y
    BY <2>1, <1>2, <1>4
  <2>3. ASSUME NEW x \in 1 .. Len(s) - n, NEW y \in 1 .. Len(s) - n, v[x] = v[y]
        PROVE  x = y
    <3>1. x + n \in 1 .. Len(s) /\ y + n \in 1 .. Len(s)
      BY <1>4
    <3> QED BY <3>1, <2>3, <2>1, <1>3
  <2> QED BY <2>2, <2>3, <1>4 DEF IsInjective
<1>6. ToSet(u) \subseteq ToSet(s)
  BY <1>2, <1>4 DEF ToSet
<1>7. ToSet(v) = ToSet(s) \ ToSet(u)
  <2>1. ASSUME NEW i \in 1 .. Len(s) - n PROVE v[i] \in ToSet(s) /\ v[i] \notin ToSet(u)
    BY <1>2, <1>3, <1>4 DEF ToSet, IsInjective
  <2>2. ASSUME NEW i \in 1 .. Len(s), s[i] \notin ToSet(u) PROVE s[i] \in ToSet(v)
    <3>1. i > n
      BY <2>2, <1>2, <1>4 DEF ToSet
    <3>2. i - n \in 1 .. Len(s) - n /\ (i - n) + n = i
      BY <3>1
    <3> QED BY <3>2, <1>3, <1>4 DEF ToSet
  <2> QED BY <2>1, <2>2, <1>4 DEF ToSet
<1> QED BY <1>1, <1>5, <1>6, <1>7 DEF u, v

-----------------------------------------------------------------------------
(* The bookkeeping operators. *)

QueueStates == {"ready", "reserved", "buried", "delayed"}

\* Sets of jobs are finite, so their sizes are natural numbers.
LEMMA JobSetsFinite ==
    ASSUME NEW J, J \subseteq JobIds
    PROVE  IsFiniteSet(J) /\ Cardinality(J) \in Nat
<1>1. IsFiniteSet(JobIds)
  BY FS_Interval, InputAssumption DEF JobIds
<1>2. IsFiniteSet(J)
  BY <1>1, FS_Subset
<1> QED BY <1>2, FS_CardinalityType

\* What becomes of the counters gcTube reads when J enters, or leaves, s.
Entered(ct2, ct, s, J) ==
    /\ ct2 \in [Counters -> Int]
    /\ ct2["buried"] = IF s = "buried" THEN ct["buried"] + Cardinality(J) ELSE ct["buried"]
    /\ ct2["reserved"] = IF s = "reserved" THEN ct["reserved"] + Cardinality(J)
                                           ELSE ct["reserved"]

Left(ct2, ct, s, J) ==
    /\ ct2 \in [Counters -> Int]
    /\ ct2["buried"] = IF s = "buried" THEN ct["buried"] - Cardinality(J) ELSE ct["buried"]
    /\ ct2["reserved"] = IF s = "reserved" THEN ct["reserved"] - Cardinality(J)
                                           ELSE ct["reserved"]

\* Enter and Leave move exactly the counter of s, as far as gcTube reads them.
LEMMA CtProps ==
    ASSUME NEW ct \in [Counters -> Int], NEW s \in QueueStates,
           NEW J, J \subseteq JobIds, NEW jobs
    PROVE  /\ Entered(Enter(ct, s, J, jobs), ct, s, J)
           /\ Left(Leave(ct, s, J, jobs), ct, s, J)
<1>1. UrgentOf(J, jobs) \subseteq JobIds
  BY DEF UrgentOf
<1>2. Cardinality(J) \in Nat /\ Cardinality(UrgentOf(J, jobs)) \in Nat
  BY <1>1, JobSetsFinite
<1>3. Entered(Enter(ct, s, J, jobs), ct, s, J)
  BY <1>2 DEF Enter, Entered, Counters, QueueStates
<1>4. Left(Leave(ct, s, J, jobs), ct, s, J)
  BY <1>2 DEF Leave, Left, Counters, QueueStates
<1> QED BY <1>3, <1>4

Linked(r, tb, s, j) ==
    /\ r \in Tube
    /\ r.ready = IF s = "ready" THEN tb.ready \cup {j} ELSE tb.ready
    /\ r.delay = IF s = "delayed" THEN tb.delay \cup {j} ELSE tb.delay
    /\ r.buried = IF s = "buried" THEN Append(tb.buried, j) ELSE tb.buried
    /\ \A q \in {"buried", "reserved"} :
          r.ct[q] = IF s = q THEN tb.ct[q] + 1 ELSE tb.ct[q]
    /\ r.live = tb.live /\ r.using = tb.using /\ r.watching = tb.watching

\* Link files the job in the container of s, counts it there and changes
\* nothing else that matters here.
LEMMA LinkProps ==
    ASSUME NEW tb \in Tube, NEW s \in QueueStates, NEW j \in JobIds, NEW jobs
    PROVE  Linked(Link(tb, s, j, jobs), tb, s, j)
<1>1. tb.ct \in [Counters -> Int] /\ tb.buried \in Seq(JobIds)
  BY DEF Tube
<1> DEFINE J == {j}
<1>J. J \subseteq JobIds /\ Cardinality(J) = 1
  BY FS_Singleton
<1> HIDE DEF J
<1>2. Entered(Enter(tb.ct, s, J, jobs), tb.ct, s, J)
  BY <1>1, <1>J, CtProps
<1>3. Append(tb.buried, j) \in Seq(JobIds)
  BY <1>1
<1> QED BY <1>J, <1>2, <1>3 DEF Linked, Link, Entered, Tube, J

Unlinked(r, tb, s, j) ==
    /\ r \in Tube
    /\ r.ready = IF s = "ready" THEN tb.ready \ {j} ELSE tb.ready
    /\ r.delay = IF s = "delayed" THEN tb.delay \ {j} ELSE tb.delay
    /\ r.buried = IF s = "buried" THEN RemoveFirst(tb.buried, j) ELSE tb.buried
    /\ \A q \in {"buried", "reserved"} :
          r.ct[q] = IF s = q THEN tb.ct[q] - 1 ELSE tb.ct[q]
    /\ r.live = tb.live /\ r.using = tb.using /\ r.watching = tb.watching

\* Unlink takes the job out of the container of s and uncounts it there.
LEMMA UnlinkProps ==
    ASSUME NEW tb \in Tube, NEW s \in QueueStates, NEW j \in JobIds
    PROVE  Unlinked(Unlink(tb, s, j), tb, s, j)
<1>1. tb.ct \in [Counters -> Int] /\ tb.buried \in Seq(JobIds)
  BY DEF Tube
<1> DEFINE J == {j}
<1>J. J \subseteq JobIds /\ Cardinality(J) = 1
  BY FS_Singleton
<1> HIDE DEF J
<1>2. Left(Leave(tb.ct, s, J, job), tb.ct, s, J)
  BY <1>1, <1>J, CtProps
<1>3. RemoveFirst(tb.buried, j) \in Seq(JobIds)
  BY <1>1, RemoveList
<1> QED BY <1>J, <1>2, <1>3 DEF Unlinked, Unlink, Left, Tube, J

\* An empty tube, in the map or not.
LEMMA NewTubeProps ==
    /\ NewTube \in Tube /\ NoTube \in Tube
    /\ NewTube.live /\ ~NoTube.live
    /\ \A r \in {NewTube, NoTube} :
          /\ r.ready = {} /\ r.delay = {} /\ r.buried = <<>>
          /\ r.ct["buried"] = 0 /\ r.ct["reserved"] = 0
          /\ r.using = 0 /\ r.watching = 0
<1>1. NewTube \in Tube
  BY TubesAssumption DEF NewTube, Tube, Counters
<1>2. /\ NewTube.ready = {} /\ NewTube.delay = {} /\ NewTube.buried = <<>>
      /\ NewTube.ct["buried"] = 0 /\ NewTube.ct["reserved"] = 0
      /\ NewTube.using = 0 /\ NewTube.watching = 0 /\ NewTube.live
  BY DEF NewTube, Counters
<1>3. /\ NoTube \in Tube /\ ~NoTube.live
      /\ NoTube.ready = NewTube.ready /\ NoTube.delay = NewTube.delay
      /\ NoTube.buried = NewTube.buried /\ NoTube.ct = NewTube.ct
      /\ NoTube.using = NewTube.using /\ NoTube.watching = NewTube.watching
  BY <1>1 DEF NoTube, Tube
<1> QED BY <1>1, <1>2, <1>3

-----------------------------------------------------------------------------
(* What a tube map owes to the jobs and the connections, tube by tube.  The  *)
(* handlers update the map in stages (unlink, link, makeTube, gcTube); each  *)
(* stage is shown to keep the debt of every tube.                            *)

HeldIn(jobs, t) == {j \in JobIds : jobs[j].state = "reserved" /\ jobs[j].tube = t}

Users(conns, t) == {c \in Conns : conns[c].phase # "closed" /\ conns[c].use = t}

Watchers(conns, t) == {c \in Conns : t \in conns[c].watch}

\* Job j is not in the index as a job of tube t.
Elsewhere(jobs, j, t) == ~(jobs[j].state # "invalid" /\ jobs[j].tube = t)

SameFiling(jobs, jobs2, j) ==
    jobs2[j].state = jobs[j].state /\ jobs2[j].tube = jobs[j].tube

SameRefs(conns, conns2, t) ==
    Users(conns2, t) = Users(conns, t) /\ Watchers(conns2, t) = Watchers(conns, t)

FiledIn(tb, t, jobs, j) ==
    /\ j \in tb.ready <=> jobs[j].state = "ready" /\ jobs[j].tube = t
    /\ j \in tb.delay <=> jobs[j].state = "delayed" /\ jobs[j].tube = t
    /\ j \in ToSet(tb.buried) <=> jobs[j].state = "buried" /\ jobs[j].tube = t

TubeHolds(tb, t, jobs, conns) ==
    /\ tb \in Tube
    /\ \A j \in JobIds : FiledIn(tb, t, jobs, j)
    /\ IsInjective(tb.buried)
    /\ tb.ct["buried"] = Len(tb.buried)
    /\ tb.ct["reserved"] >= Cardinality(HeldIn(jobs, t))
    /\ tb.using = Cardinality(Users(conns, t))
    /\ tb.watching = Cardinality(Watchers(conns, t))
    /\ ~tb.live => /\ \A j \in JobIds : Elsewhere(jobs, j, t)
                   /\ Users(conns, t) = {} /\ Watchers(conns, t) = {}

\* A step that neither moves a job of t nor a reference to t leaves t alone.
LEMMA FrameHolds ==
    ASSUME NEW tb, NEW t, NEW jobs, NEW jobs2, NEW conns, NEW conns2,
           TubeHolds(tb, t, jobs, conns),
           \A j \in JobIds : \/ SameFiling(jobs, jobs2, j)
                             \/ Elsewhere(jobs, j, t) /\ Elsewhere(jobs2, j, t),
           SameRefs(conns, conns2, t)
    PROVE  TubeHolds(tb, t, jobs2, conns2)
<1>1. HeldIn(jobs2, t) = HeldIn(jobs, t)
  BY DEF HeldIn, SameFiling, Elsewhere
<1>2. \A j \in JobIds : FiledIn(tb, t, jobs2, j)
  BY DEF TubeHolds, FiledIn, SameFiling, Elsewhere
<1>3. ~tb.live => \A j \in JobIds : Elsewhere(jobs2, j, t)
  BY DEF TubeHolds, SameFiling, Elsewhere
<1> QED BY <1>1, <1>2, <1>3 DEF TubeHolds, SameRefs

\* Filing one more job in a tube of the map.
LEMMA LinkHolds ==
    ASSUME NEW tb, NEW t, NEW jobs, NEW jobs2, NEW conns, NEW pris,
           NEW j \in JobIds, NEW s \in QueueStates,
           TubeHolds(tb, t, jobs, conns), tb.live,
           Elsewhere(jobs, j, t),
           jobs2[j].state = s /\ jobs2[j].tube = t,
           \A k \in JobIds \ {j} : SameFiling(jobs, jobs2, k)
    PROVE  TubeHolds(Link(tb, s, j, pris), t, jobs2, conns)
<1> DEFINE r == Link(tb, s, j, pris)
<1>0. tb \in Tube /\ tb.buried \in Seq(JobIds) /\ tb.ct \in [Counters -> Int]
  BY DEF TubeHolds, Tube
<1>1. Linked(r, tb, s, j)
  BY <1>0, LinkProps
<1> HIDE DEF r
<1>2. /\ j \notin tb.ready /\ j \notin tb.delay /\ j \notin ToSet(tb.buried)
      /\ j \notin HeldIn(jobs, t)
  BY DEF TubeHolds, FiledIn, Elsewhere, HeldIn
<1>3. /\ ToSet(r.buried) = IF s = "buried" THEN ToSet(tb.buried) \cup {j}
                                           ELSE ToSet(tb.buried)
      /\ IsInjective(r.buried)
      /\ r.ct["buried"] = Len(r.buried)
  <2>1. CASE s = "buried"
    <3>1. r.buried = Append(tb.buried, j) /\ r.ct["buried"] = tb.ct["buried"] + 1
      BY <2>1, <1>1 DEF Linked
    <3>2. /\ Len(r.buried) = Len(tb.buried) + 1 /\ IsInjective(r.buried)
          /\ ToSet(r.buried) = ToSet(tb.buried) \cup {j}
      BY <3>1, <1>0, <1>2, AppendList DEF TubeHolds
    <3> QED BY <2>1, <3>1, <3>2 DEF TubeHolds
  <2>2. CASE s # "buried"
    BY <2>2, <1>1 DEF TubeHolds, Linked
  <2> QED BY <2>1, <2>2
<1>4. \A k \in JobIds : FiledIn(r, t, jobs2, k)
  <2>1. ASSUME NEW k \in JobIds \ {j} PROVE FiledIn(r, t, jobs2, k)
    BY <1>1, <1>3 DEF TubeHolds, FiledIn, SameFiling, Linked
  <2>2. FiledIn(r, t, jobs2, j)
    BY <1>1, <1>2, <1>3 DEF FiledIn, QueueStates, Linked
  <2> QED BY <2>1, <2>2
<1>5. r.ct["reserved"] >= Cardinality(HeldIn(jobs2, t))
  <2>1. HeldIn(jobs, t) \subseteq JobIds
    BY DEF HeldIn
  <2>2. IsFiniteSet(HeldIn(jobs, t)) /\ Cardinality(HeldIn(jobs, t)) \in Nat
    BY <2>1, JobSetsFinite
  <2>3. CASE s = "reserved"
    <3>1. HeldIn(jobs2, t) = HeldIn(jobs, t) \cup {j}
      BY <2>3 DEF HeldIn, SameFiling
    <3>2. Cardinality(HeldIn(jobs2, t)) = Cardinality(HeldIn(jobs, t)) + 1
      BY <3>1, <2>2, <1>2, FS_AddElement
    <3>3. r.ct["reserved"] = tb.ct["reserved"] + 1 /\ tb.ct["reserved"] \in Int
      BY <2>3, <1>0, <1>1 DEF Counters, Linked
    <3> QED BY <3>2, <3>3, <2>2 DEF TubeHolds
  <2>4. CASE s # "reserved"
    <3>1. HeldIn(jobs2, t) = HeldIn(jobs, t)
      BY <2>4, <1>2 DEF HeldIn, SameFiling
    <3> QED BY <3>1, <2>4, <1>1 DEF TubeHolds, Linked
  <2> QED BY <2>3, <2>4
<1> QED BY <1>1, <1>3, <1>4, <1>5 DEF TubeHolds, r, Linked

\* Taking a job out of a tube.
LEMMA UnlinkHolds ==
    ASSUME NEW tb, NEW t, NEW jobs, NEW jobs2, NEW conns,
           NEW j \in JobIds, NEW s \in QueueStates,
           TubeHolds(tb, t, jobs, conns),
           jobs[j].state = s /\ jobs[j].tube = t,
           Elsewhere(jobs2, j, t),
           \A k \in JobIds \ {j} : SameFiling(jobs, jobs2, k)
    PROVE  TubeHolds(Unlink(tb, s, j), t, jobs2, conns)
<1> DEFINE r == Unlink(tb, s, j)
<1>0. tb \in Tube /\ tb.buried \in Seq(JobIds) /\ tb.ct \in [Counters -> Int]
  BY DEF TubeHolds, Tube
<1>1. Unlinked(r, tb, s, j)
  BY <1>0, UnlinkProps
<1> HIDE DEF r
<1>2. /\ s # "ready" => j \notin tb.ready
      /\ s # "delayed" => j \notin tb.delay
      /\ s = "buried" <=> j \in ToSet(tb.buried)
      /\ s = "reserved" <=> j \in HeldIn(jobs, t)
  BY DEF TubeHolds, FiledIn, HeldIn
<1>3. /\ ToSet(r.buried) = IF s = "buried" THEN ToSet(tb.buried) \ {j}
                                           ELSE ToSet(tb.buried)
      /\ IsInjective(r.buried)
      /\ r.ct["buried"] = Len(r.buried)
  <2>1. CASE s = "buried"
    <3>1. r.buried = RemoveFirst(tb.buried, j) /\ r.ct["buried"] = tb.ct["buried"] - 1
      BY <2>1, <1>1 DEF Unlinked
    <3>2. /\ Len(r.buried) = Len(tb.buried) - 1 /\ IsInjective(r.buried)
          /\ ToSet(r.buried) = ToSet(tb.buried) \ {j}
      BY <3>1, <2>1, <1>0, <1>2, RemoveList DEF TubeHolds
    <3> QED BY <2>1, <3>1, <3>2 DEF TubeHolds
  <2>2. CASE s # "buried"
    BY <2>2, <1>1 DEF TubeHolds, Unlinked
  <2> QED BY <2>1, <2>2
<1>4. \A k \in JobIds : FiledIn(r, t, jobs2, k)
  <2>1. ASSUME NEW k \in JobIds \ {j} PROVE FiledIn(r, t, jobs2, k)
    BY <1>1, <1>3 DEF TubeHolds, FiledIn, SameFiling, Unlinked
  <2>2. j \notin r.ready /\ j \notin r.delay /\ j \notin ToSet(r.buried)
    BY <1>1, <1>2, <1>3 DEF Unlinked
  <2>3. FiledIn(r, t, jobs2, j)
    BY <2>2 DEF FiledIn, Elsewhere
  <2> QED BY <2>1, <2>3
<1>5. r.ct["reserved"] >= Cardinality(HeldIn(jobs2, t))
  <2>1. HeldIn(jobs, t) \subseteq JobIds
    BY DEF HeldIn
  <2>2. IsFiniteSet(HeldIn(jobs, t)) /\ Cardinality(HeldIn(jobs, t)) \in Nat
    BY <2>1, JobSetsFinite
  <2>3. CASE s = "reserved"
    <3>1. HeldIn(jobs2, t) = HeldIn(jobs, t) \ {j}
      BY <2>3 DEF HeldIn, SameFiling, Elsewhere
    <3>2. Cardinality(HeldIn(jobs2, t)) = Cardinality(HeldIn(jobs, t)) - 1
      BY <3>1, <2>2, <2>3, <1>2, FS_RemoveElement
    <3>3. r.ct["reserved"] = tb.ct["reserved"] - 1 /\ tb.ct["reserved"] \in Int
      BY <2>3, <1>0, <1>1 DEF Counters, Unlinked
    <3> QED BY <3>2, <3>3, <2>2 DEF TubeHolds
  <2>4. CASE s # "reserved"
    <3>1. HeldIn(jobs2, t) = HeldIn(jobs, t)
      BY <2>4 DEF HeldIn, SameFiling, Elsewhere
    <3> QED BY <3>1, <2>4, <1>1 DEF TubeHolds, Unlinked
  <2> QED BY <2>3, <2>4
<1>6. tb.live
  BY DEF TubeHolds, Elsewhere, QueueStates
<1> QED BY <1>1, <1>3, <1>4, <1>5, <1>6 DEF TubeHolds, r, Unlinked

\* A collectable tube holds and is referred to by nothing: gcTube may take it.
LEMMA GcHolds ==
    ASSUME NEW tb, NEW t, NEW jobs, NEW conns,
           TubeHolds(tb, t, jobs, conns), Collectable(tb),
           \A j \in JobIds : jobs[j].state \in JobStates
    PROVE  TubeHolds(NoTube, t, jobs, conns)
<1>1. tb.buried \in Seq(JobIds) /\ Len(tb.buried) = 0
  BY DEF TubeHolds, Collectable, Tube
<1>2. tb.buried = <<>> /\ ToSet(tb.buried) = {}
  BY <1>1 DEF ToSet
<1>3. HeldIn(jobs, t) = {}
  <2>1. HeldIn(jobs, t) \subseteq JobIds
    BY DEF HeldIn
  <2>2. IsFiniteSet(HeldIn(jobs, t)) /\ Cardinality(HeldIn(jobs, t)) \in Nat
    BY <2>1, JobSetsFinite
  <2>3. Cardinality(HeldIn(jobs, t)) = 0
    BY <2>2 DEF TubeHolds, Collectable
  <2> QED BY <2>2, <2>3, FS_EmptySet
<1>4. Users(conns, t) = {} /\ Watchers(conns, t) = {}
  <2>1. IsFiniteSet(Users(conns, t)) /\ IsFiniteSet(Watchers(conns, t))
    <3>1. Users(conns, t) \subseteq Conns /\ Watchers(conns, t) \subseteq Conns
      BY DEF Users, Watchers
    <3> QED BY <3>1, ConnsAssumption, FS_Subset
  <2> QED BY <2>1, FS_EmptySet DEF TubeHolds, Collectable
<1>5. \A j \in JobIds : Elsewhere(jobs, j, t)
  BY <1>2, <1>3 DEF TubeHolds, Collectable, FiledIn, HeldIn, Elsewhere, JobStates
<1>6. NoTube.buried = tb.buried
  BY <1>2, NewTubeProps
<1>7. Cardinality({}) = 0
  BY FS_EmptySet
<1> QED BY <1>1, <1>2, <1>3, <1>4, <1>5, <1>6, <1>7, NewTubeProps
        DEF TubeHolds, Collectable, FiledIn

\* Nothing is filed under or refers to a name that is not in the map: makeTube
\* may start it afresh.
LEMMA MakeHolds ==
    ASSUME NEW tb, NEW t, NEW jobs, NEW conns,
           TubeHolds(tb, t, jobs, conns), ~tb.live
    PROVE  TubeHolds(NewTube, t, jobs, conns)
<1>1. \A j \in JobIds : Elsewhere(jobs, j, t)
  BY DEF TubeHolds
<1>2. HeldIn(jobs, t) = {} /\ Users(conns, t) = {} /\ Watchers(conns, t) = {}
  BY <1>1 DEF TubeHolds, HeldIn, Elsewhere
<1>3. Cardinality({}) = 0
  BY FS_EmptySet
<1>4. ToSet(<<>>) = {} /\ IsInjective(<<>>) /\ Len(<<>>) = 0
  BY DEF ToSet, IsInjective
<1>5. \A j \in JobIds : FiledIn(NewTube, t, jobs, j)
  BY <1>1, <1>4, NewTubeProps DEF FiledIn, Elsewhere
<1> QED BY <1>2, <1>3, <1>4, <1>5, NewTubeProps DEF TubeHolds

-----------------------------------------------------------------------------
(* The whole tube map. *)

MapHolds(T, jobs, conns) ==
    /\ T \in [Tubes -> Tube]
    /\ \A t \in Tubes : TubeHolds(T[t], t, jobs, conns)

\* Taking a job out of its tube and of the index.
LEMMA MapUnlink ==
    ASSUME NEW T, NEW jobs, NEW jobs2, NEW conns, NEW j \in JobIds,
           NEW s \in QueueStates, NEW t \in Tubes,
           MapHolds(T, jobs, conns),
           jobs[j].state = s /\ jobs[j].tube = t,
           jobs2[j].state = "invalid",
           \A k \in JobIds \ {j} : SameFiling(jobs, jobs2, k)
    PROVE  MapHolds([T EXCEPT ![t] = Unlink(@, s, j)], jobs2, conns)
<1> DEFINE r == Unlink(T[t], s, j)
           T2 == [T EXCEPT ![t] = r]
<1>1. TubeHolds(r, t, jobs2, conns)
  <2>1. Elsewhere(jobs2, j, t) /\ TubeHolds(T[t], t, jobs, conns)
    BY DEF Elsewhere, MapHolds
  <2> QED BY <2>1, UnlinkHolds
<1>2. r \in Tube
  BY <1>1 DEF TubeHolds
<1> HIDE DEF r
<1>3. ASSUME NEW u \in Tubes, u # t PROVE TubeHolds(T[u], u, jobs2, conns)
  <2>1. \A k \in JobIds : \/ SameFiling(jobs, jobs2, k)
                          \/ Elsewhere(jobs, k, u) /\ Elsewhere(jobs2, k, u)
    BY <1>3 DEF Elsewhere
  <2>2. SameRefs(conns, conns, u) /\ TubeHolds(T[u], u, jobs, conns)
    BY <1>3 DEF SameRefs, MapHolds
  <2> QED BY <2>1, <2>2, FrameHolds
<1>4. MapHolds(T2, jobs2, conns)
  BY <1>1, <1>2, <1>3 DEF MapHolds
<1> QED BY <1>4 DEF r

\* Filing a job that is not in the index in a tube of the map.
LEMMA MapLink ==
    ASSUME NEW T, NEW jobs, NEW jobs2, NEW conns, NEW pris, NEW j \in JobIds,
           NEW s \in QueueStates, NEW t \in Tubes,
           MapHolds(T, jobs, conns), T[t].live,
           jobs[j].state = "invalid",
           jobs2[j].state = s /\ jobs2[j].tube = t,
           \A k \in JobIds \ {j} : SameFiling(jobs, jobs2, k)
    PROVE  MapHolds([T EXCEPT ![t] = Link(@, s, j, pris)], jobs2, conns)
<1> DEFINE r == Link(T[t], s, j, pris)
           T2 == [T EXCEPT ![t] = r]
<1>1. TubeHolds(r, t, jobs2, conns)
  <2>1. Elsewhere(jobs, j, t) /\ TubeHolds(T[t], t, jobs, conns)
    BY DEF Elsewhere, MapHolds
  <2> QED BY <2>1, LinkHolds
<1>2. r \in Tube
  BY <1>1 DEF TubeHolds
<1> HIDE DEF r
<1>3. ASSUME NEW u \in Tubes, u # t PROVE TubeHolds(T[u], u, jobs2, conns)
  <2>1. \A k \in JobIds : \/ SameFiling(jobs, jobs2, k)
                          \/ Elsewhere(jobs, k, u) /\ Elsewhere(jobs2, k, u)
    BY <1>3 DEF Elsewhere
  <2>2. SameRefs(conns, conns, u) /\ TubeHolds(T[u], u, jobs, conns)
    BY <1>3 DEF SameRefs, MapHolds
  <2> QED BY <2>1, <2>2, FrameHolds
<1>4. MapHolds(T2, jobs2, conns)
  BY <1>1, <1>2, <1>3 DEF MapHolds
<1> QED BY <1>4 DEF r

\* gcTube and makeTube keep the map in order.
LEMMA MapGc ==
    ASSUME NEW T, NEW jobs, NEW conns, NEW ts,
           MapHolds(T, jobs, conns),
           \A j \in JobIds : jobs[j].state \in JobStates
    PROVE  MapHolds(gcTube(T, ts), jobs, conns)
<1>1. ASSUME NEW t \in Tubes
      PROVE  TubeHolds(gcTube(T, ts)[t], t, jobs, conns)
  <2>1. TubeHolds(T[t], t, jobs, conns)
    BY DEF MapHolds
  <2>2. CASE t \in ts \ {Default} /\ Collectable(T[t])
    <3>1. gcTube(T, ts)[t] = NoTube
      BY <2>2 DEF gcTube
    <3> QED BY <3>1, <2>1, <2>2, GcHolds
  <2>3. CASE ~(t \in ts \ {Default} /\ Collectable(T[t]))
    <3>1. gcTube(T, ts)[t] = T[t]
      BY <2>3 DEF gcTube
    <3> QED BY <3>1, <2>1
  <2> QED BY <2>2, <2>3
<1>2. gcTube(T, ts) \in [Tubes -> Tube]
  BY NewTubeProps DEF gcTube, MapHolds
<1> QED BY <1>1, <1>2 DEF MapHolds

\* makeTube keeps the map in order, and the tube is in it afterwards.
LEMMA MapMake ==
    ASSUME NEW T, NEW jobs, NEW conns, NEW t \in Tubes,
           MapHolds(T, jobs, conns)
    PROVE  /\ MapHolds(makeTube(T, t), jobs, conns)
           /\ makeTube(T, t)[t].live
<1>1. CASE T[t].live
  BY <1>1 DEF makeTube
<1>2. CASE ~T[t].live
  <2>1. TubeHolds(NewTube, t, jobs, conns)
    BY <1>2, MakeHolds DEF MapHolds
  <2>2. makeTube(T, t) = [T EXCEPT ![t] = NewTube]
    BY <1>2 DEF makeTube
  <2> QED BY <2>1, <2>2, NewTubeProps DEF MapHolds
<1> QED BY <1>1, <1>2

\* Job j is filed where it was, or is not in the index before and after.
Undisturbed(jobs, jobs2, j) ==
    \/ SameFiling(jobs, jobs2, j)
    \/ jobs[j].state = "invalid" /\ jobs2[j].state = "invalid"

\* Two tubes that differ in their settings only (pause, tombstone, policy).
SameBook(tb, tb2) ==
    /\ tb2 \in Tube
    /\ tb2.ready = tb.ready /\ tb2.delay = tb.delay /\ tb2.buried = tb.buried
    /\ tb2.ct = tb.ct /\ tb2.using = tb.using /\ tb2.watching = tb.watching
    /\ tb2.live = tb.live

\* Changing settings, and steps that move no job and no reference.
LEMMA MapFrame ==
    ASSUME NEW T, NEW T2, NEW jobs, NEW jobs2, NEW conns, NEW conns2,
           MapHolds(T, jobs, conns),
           T2 \in [Tubes -> Tube], \A t \in Tubes : SameBook(T[t], T2[t]),
           \A j \in JobIds : Undisturbed(jobs, jobs2, j),
           \A t \in Tubes : SameRefs(conns, conns2, t)
    PROVE  MapHolds(T2, jobs2, conns2)
<1>1. SUFFICES ASSUME NEW t \in Tubes PROVE TubeHolds(T2[t], t, jobs2, conns2)
  BY DEF MapHolds
<1>2. TubeHolds(T[t], t, jobs2, conns2)
  <2>1. \A j \in JobIds : \/ SameFiling(jobs, jobs2, j)
                          \/ Elsewhere(jobs, j, t) /\ Elsewhere(jobs2, j, t)
    BY DEF Elsewhere, Undisturbed
  <2>2. TubeHolds(T[t], t, jobs, conns)
    BY DEF MapHolds
  <2> QED BY <2>1, <2>2, FrameHolds
<1> QED BY <1>2 DEF TubeHolds, SameBook, FiledIn

\* Sets of connections are finite; one that joins or leaves changes the size
\* by one.
LEMMA ConnSets ==
    ASSUME NEW S, S \subseteq Conns, NEW c \in Conns
    PROVE  /\ Cardinality(S) \in Nat
           /\ c \notin S => Cardinality(S \cup {c}) = Cardinality(S) + 1
           /\ c \in S => Cardinality(S \ {c}) = Cardinality(S) - 1
<1>1. IsFiniteSet(S)
  BY ConnsAssumption, FS_Subset
<1> QED BY <1>1, FS_CardinalityType, FS_AddElement, FS_RemoveElement

\* Two tubes that differ in settings and reference counts only.
SameJobs(tb, tb2) ==
    /\ tb2 \in Tube
    /\ tb2.ready = tb.ready /\ tb2.delay = tb.delay /\ tb2.buried = tb.buried
    /\ tb2.ct = tb.ct /\ tb2.live = tb.live

RefsCounted(tb, t, conns) ==
    /\ tb.using = Cardinality(Users(conns, t))
    /\ tb.watching = Cardinality(Watchers(conns, t))
    /\ ~tb.live => Users(conns, t) = {} /\ Watchers(conns, t) = {}

\* Connections that come, go or change tubes, each counted where it belongs.
LEMMA MapRefs ==
    ASSUME NEW T, NEW T2, NEW jobs, NEW jobs2, NEW conns, NEW conns2,
           MapHolds(T, jobs, conns),
           T2 \in [Tubes -> Tube],
           \A t \in Tubes : SameJobs(T[t], T2[t]) /\ RefsCounted(T2[t], t, conns2)
    PROVE  MapHolds(T2, jobs, conns2)
<1>1. SUFFICES ASSUME NEW t \in Tubes PROVE TubeHolds(T2[t], t, jobs, conns2)
  BY DEF MapHolds
<1>2. TubeHolds(T[t], t, jobs, conns)
  BY DEF MapHolds
<1>3. SameJobs(T[t], T2[t]) /\ RefsCounted(T2[t], t, conns2)
  OBVIOUS
<1> QED BY <1>2, <1>3 DEF TubeHolds, SameJobs, RefsCounted, FiledIn

\* The tube the jobs of K have been taken out of, from the container of s.
Without(r, tb, s, K) ==
    /\ r \in Tube
    /\ r.ready = tb.ready /\ r.ct = tb.ct /\ r.live = tb.live
    /\ r.using = tb.using /\ r.watching = tb.watching
    /\ r.delay = IF s = "delayed" THEN tb.delay \ K ELSE tb.delay
    /\ ToSet(r.buried) = IF s = "buried" THEN ToSet(tb.buried) \ K ELSE ToSet(tb.buried)
    /\ IsInjective(r.buried)
    /\ Len(r.buried) = IF s = "buried" THEN Len(tb.buried) - Cardinality(K)
                                       ELSE Len(tb.buried)

ReadyAgain(r, s, K, pris) ==
    [r EXCEPT !.ready = @ \cup K, !.ct = Enter(Leave(@, s, K, pris), "ready", K, pris)]

TurnReady(jobs, jobs2, t, s, K) ==
    /\ \A k \in K : /\ jobs[k].state = s /\ jobs[k].tube = t
                    /\ jobs2[k].state = "ready" /\ jobs2[k].tube = t
    /\ \A k \in JobIds \ K : SameFiling(jobs, jobs2, k)

\* Buried or delayed jobs of a tube that turn ready (kick, tick).
LEMMA ReadyHolds ==
    ASSUME NEW tb, NEW t, NEW jobs, NEW jobs2, NEW conns, NEW pris, NEW r,
           NEW s \in {"buried", "delayed"}, NEW K, K \subseteq JobIds,
           TubeHolds(tb, t, jobs, conns),
           Without(r, tb, s, K),
           TurnReady(jobs, jobs2, t, s, K)
    PROVE  TubeHolds(ReadyAgain(r, s, K, pris), t, jobs2, conns)
<1> DEFINE ct1 == Leave(r.ct, s, K, pris)
           ct2 == Enter(ct1, "ready", K, pris)
           q == ReadyAgain(r, s, K, pris)
<1>1. r \in Tube /\ r.ct \in [Counters -> Int] /\ r.ready \subseteq JobIds
  BY DEF Without, Tube
<1>2. Cardinality(K) \in Nat
  BY JobSetsFinite
<1>3. Left(ct1, r.ct, s, K)
  <2>1. s \in QueueStates
    BY DEF QueueStates
  <2> QED BY <2>1, <1>1, CtProps
<1> HIDE DEF ct1
<1>4. Entered(ct2, ct1, "ready", K)
  <2>1. "ready" \in QueueStates /\ ct1 \in [Counters -> Int]
    BY <1>3 DEF QueueStates, Left
  <2> QED BY <2>1, CtProps
<1> HIDE DEF ct2
<1>5. /\ q \in Tube
      /\ q.ready = r.ready \cup K /\ q.ct = ct2
      /\ q.delay = r.delay /\ q.buried = r.buried /\ q.live = r.live
      /\ q.using = r.using /\ q.watching = r.watching
  <2>1. q = [r EXCEPT !.ready = @ \cup K, !.ct = ct2]
    BY DEF ReadyAgain, ct1, ct2
  <2> HIDE DEF q
  <2> QED BY <2>1, <1>1, <1>4 DEF Tube, Entered
<1> HIDE DEF q
<1>6. HeldIn(jobs2, t) = HeldIn(jobs, t)
  BY DEF HeldIn, SameFiling, TurnReady
<1>7. \A k \in JobIds : FiledIn(q, t, jobs2, k)
  <2>1. ASSUME NEW k \in K PROVE FiledIn(q, t, jobs2, k)
    <3>1. FiledIn(tb, t, jobs, k) /\ k \in JobIds
      BY DEF TubeHolds, TurnReady
    <3> QED BY <3>1, <1>5 DEF FiledIn, Without, TurnReady
  <2>2. ASSUME NEW k \in JobIds \ K PROVE FiledIn(q, t, jobs2, k)
    <3>1. FiledIn(tb, t, jobs, k) /\ SameFiling(jobs, jobs2, k)
      BY DEF TubeHolds, TurnReady
    <3> QED BY <3>1, <1>5 DEF FiledIn, Without, SameFiling
  <2> QED BY <2>1, <2>2
<1>8. q.ct["buried"] = Len(q.buried)
  BY <1>2, <1>3, <1>4, <1>5 DEF TubeHolds, Without, Entered, Left
<1>9. ~q.live => \A k \in JobIds : Elsewhere(jobs2, k, t)
  <2>1. ~q.live => K = {}
    BY <1>5 DEF TubeHolds, Without, Elsewhere, TurnReady
  <2> QED BY <2>1, <1>5 DEF TubeHolds, Without, Elsewhere, SameFiling, TurnReady
<1>10. q.ct["reserved"] = tb.ct["reserved"]
  BY <1>3, <1>4, <1>5 DEF Without, Entered, Left
<1>11. /\ q \in Tube /\ IsInjective(q.buried) /\ q.live = tb.live
       /\ q.using = tb.using /\ q.watching = tb.watching
  BY <1>5 DEF Without
<1> HIDE DEF ReadyAgain
<1> QED BY <1>6, <1>7, <1>8, <1>9, <1>10, <1>11 DEF TubeHolds, q

\* One tube of the map changes with the jobs of that tube; the others see none
\* of it.
LEMMA MapOne ==
    ASSUME NEW T, NEW jobs, NEW jobs2, NEW conns, NEW t \in Tubes, NEW r,
           MapHolds(T, jobs, conns),
           TubeHolds(r, t, jobs2, conns),
           \A k \in JobIds :
              \/ SameFiling(jobs, jobs2, k)
              \/ jobs[k].tube = t /\ (jobs2[k].tube = t \/ jobs2[k].state = "invalid")
    PROVE  MapHolds([T EXCEPT ![t] = r], jobs2, conns)
<1>1. ASSUME NEW u \in Tubes, u # t PROVE TubeHolds(T[u], u, jobs2, conns)
  <2>1. \A k \in JobIds : \/ SameFiling(jobs, jobs2, k)
                          \/ Elsewhere(jobs, k, u) /\ Elsewhere(jobs2, k, u)
    BY <1>1 DEF Elsewhere
  <2>2. SameRefs(conns, conns, u) /\ TubeHolds(T[u], u, jobs, conns)
    BY <1>1 DEF SameRefs, MapHolds
  <2> QED BY <2>1, <2>2, FrameHolds
<1>2. r \in Tube
  BY DEF TubeHolds
<1> QED BY <1>1, <1>2 DEF MapHolds

-----------------------------------------------------------------------------
(* Extrema. *)

\* The smaller of two naturals.
LEMMA MinOfTwo ==
    ASSUME NEW b \in Nat, NEW n \in Nat
    PROVE  Min({b, n}) \in Nat /\ Min({b, n}) <= b /\ Min({b, n}) <= n
<1> DEFINE S == {b, n}
<1>1. S \subseteq Nat /\ S # {}
  OBVIOUS
<1>2. \E x \in S : \A y \in S : x <= y
  BY <1>1, LeastNat
<1>3. Min(S) \in S /\ \A y \in S : Min(S) <= y
  BY <1>2 DEF Min
<1> QED BY <1>3

\* A bounded, non-empty set of naturals has a greatest element.
LEMMA GreatestNat ==
    ASSUME NEW S, S \subseteq Nat, S # {}, NEW n \in Nat, \A x \in S : x <= n
    PROVE  Max(S) \in S /\ \A y \in S : y <= Max(S)
<1> DEFINE R == {n - x : x \in S}
<1>1. R \subseteq Nat
  <2>1. ASSUME NEW x \in S PROVE n - x \in Nat
    OBVIOUS
  <2> QED BY <2>1
<1>0. R # {}
  <2>1. PICK x \in S : TRUE
    OBVIOUS
  <2>2. n - x \in R
    OBVIOUS
  <2> QED BY <2>2
<1> HIDE DEF R
<1>2. PICK z \in R : \A y \in R : z <= y
  BY <1>0, <1>1, LeastNat
<1>3. PICK m \in S : z = n - m
  BY DEF R
<1>4. \A y \in S : y <= m
  <2>1. ASSUME NEW y \in S PROVE y <= m
    <3>1. n - y \in R
      BY DEF R
    <3>2. z <= n - y
      BY <3>1, <1>2
    <3> QED BY <3>2, <1>3
  <2> QED BY <2>1
<1>5. \E x \in S : \A y \in S : x >= y
  BY <1>4
<1>6. Max(S) \in S /\ \A y \in S : Max(S) >= y
  BY <1>5 DEF Max
<1> QED BY <1>6

\* Recovery leaves the id counter above every id it loaded, within bounds.
LEMMA RecoveredIdBound ==
    ASSUME NEW found, found \subseteq JobIds
    PROVE  /\ RecoveredId(found) \in 1 .. MaxId + 1
           /\ \A j \in found : j < RecoveredId(found)
<1> DEFINE S == {j + 1 : j \in found} \cup {1}
<1>1. MaxId \in Nat /\ MaxId + 1 \in Nat /\ found \subseteq 2 .. MaxId
  BY InputAssumption DEF JobIds
<1>2. S \subseteq Nat /\ S # {} /\ \A x \in S : x <= MaxId + 1 /\ 1 <= x
  BY <1>1
<1>3. \A j \in found : j + 1 \in S
  OBVIOUS
<1> HIDE DEF S
<1>4. Max(S) \in S /\ \A y \in S : y <= Max(S)
  BY <1>1, <1>2, GreatestNat
<1>5. RecoveredId(found) = Max(S)
  BY DEF RecoveredId, S
<1>6. Max(S) \in Nat /\ Max(S) <= MaxId + 1 /\ 1 <= Max(S)
  BY <1>2, <1>4
<1>7. \A j \in found : j < Max(S)
  <2>1. ASSUME NEW j \in found PROVE j < Max(S)
    <3>1. j + 1 <= Max(S) /\ j \in Nat
      BY <1>1, <1>3, <1>4
    <3> QED BY <3>1, <1>6
  <2> QED BY <2>1
<1> QED BY <1>1, <1>5, <1>6, <1>7

\* The job findJobForConn picks is one of the ready jobs it looks at.
LEMMA BestIsReady ==
    ASSUME NEW ts, NEW t0 \in ts, tube[t0].ready # {},
           \A t \in ts : tube[t].ready \subseteq JobIds,
           \A j \in JobIds : job[j].pri \in Nat
    PROVE  \E t \in ts : Best(ts) \in tube[t].ready
<1> DEFINE heads == UNION {tube[t].ready : t \in ts}
           P == {job[j].pri : j \in heads}
<1>1. heads \subseteq JobIds /\ heads # {} /\ JobIds \subseteq Nat
  BY InputAssumption DEF JobIds
<1> HIDE DEF heads
<1>2. P \subseteq Nat /\ P # {}
  BY <1>1
<1> HIDE DEF P
<1>3. PICK p \in P : \A q \in P : p <= q
  BY <1>2, LeastNat
<1> DEFINE F == {j \in heads : job[j].pri = p}
<1>4. F \subseteq Nat /\ F # {}
  BY <1>1, <1>3 DEF P
<1>5. PICK j \in F : \A k \in F : j <= k
  BY <1>4, LeastNat
<1>6. ASSUME NEW k \in heads, k # j PROVE jobPriLess(j, k)
  <2>1. job[k].pri \in P /\ p <= job[k].pri /\ job[j].pri = p
    BY <1>3, <1>5 DEF P
  <2>2. CASE job[k].pri = p
    BY <2>1, <2>2, <1>1, <1>5, <1>6 DEF jobPriLess
  <2>3. CASE job[k].pri # p
    <3>1. p \in Nat /\ job[k].pri \in Nat
      BY <2>1, <1>2
    <3> QED BY <2>1, <2>3, <3>1 DEF jobPriLess
  <2> QED BY <2>2, <2>3
<1>7. \E h \in heads : \A k \in heads \ {h} : jobPriLess(h, k)
  BY <1>5, <1>6
<1>8. Best(ts) \in heads
  BY <1>7 DEF Best, heads
<1> QED BY <1>8 DEF heads

SameLive(T, T2) == \A u \in Tubes : T2[u].live = T[u].live

\* Filing and unfiling do not touch the map itself.
LEMMA LiveKept ==
    ASSUME NEW T \in [Tubes -> Tube], NEW t \in Tubes, NEW s \in QueueStates,
           NEW j \in JobIds, NEW pris
    PROVE  /\ SameLive(T, [T EXCEPT ![t] = Unlink(@, s, j)])
           /\ SameLive(T, [T EXCEPT ![t] = Link(@, s, j, pris)])
<1>1. Linked(Link(T[t], s, j, pris), T[t], s, j) /\ Unlinked(Unlink(T[t], s, j), T[t], s, j)
  BY LinkProps, UnlinkProps
<1>2. Link(T[t], s, j, pris).live = T[t].live /\ Unlink(T[t], s, j).live = T[t].live
  BY <1>1 DEF Linked, Unlinked
<1> QED BY <1>2 DEF SameLive

Moved(T, t, s, s2, j, pris) == [T EXCEPT ![t] = Link(Unlink(@, s, j), s2, j, pris)]

\* A job that changes its container within its tube.
LEMMA Relocate ==
    ASSUME NEW T, NEW jobs, NEW jobs2, NEW conns, NEW pris, NEW j \in JobIds,
           NEW s \in QueueStates, NEW s2 \in QueueStates, NEW t \in Tubes,
           MapHolds(T, jobs, conns), jobs \in [JobIds -> Job],
           jobs[j].state = s /\ jobs[j].tube = t,
           jobs2[j].state = s2 /\ jobs2[j].tube = t,
           \A k \in JobIds \ {j} : SameFiling(jobs, jobs2, k)
    PROVE  /\ MapHolds(Moved(T, t, s, s2, j, pris), jobs2, conns)
           /\ SameLive(T, Moved(T, t, s, s2, j, pris))
<1> DEFINE jobs1 == [jobs EXCEPT ![j] = NoJob]
           T1 == [T EXCEPT ![t] = Unlink(@, s, j)]
           T2 == [T1 EXCEPT ![t] = Link(@, s2, j, pris)]
<1>0. T \in [Tubes -> Tube]
  BY DEF MapHolds
<1>1. /\ jobs1[j].state = "invalid"
      /\ \A k \in JobIds \ {j} : SameFiling(jobs, jobs1, k) /\ SameFiling(jobs1, jobs2, k)
  BY DEF NoJob, SameFiling
<1> HIDE DEF jobs1
<1>2. MapHolds(T1, jobs1, conns)
  BY <1>1, MapUnlink
<1>3. SameLive(T, T1)
  BY <1>0, LiveKept
<1>4. T[t].live
  <2>1. ~Elsewhere(jobs, j, t)
    BY DEF Elsewhere, QueueStates
  <2> QED BY <2>1 DEF MapHolds, TubeHolds
<1>5. T2 = Moved(T, t, s, s2, j, pris)
  BY <1>0 DEF Moved
<1> HIDE DEF T1
<1>6. MapHolds(T2, jobs2, conns)
  <2>1. T1[t].live
    BY <1>3, <1>4 DEF SameLive
  <2> QED BY <1>1, <1>2, <2>1, MapLink
<1>7. SameLive(T1, T2)
  <2>1. T1 \in [Tubes -> Tube]
    BY <1>2 DEF MapHolds
  <2> QED BY <2>1, LiveKept
<1> HIDE DEF T2
<1> QED BY <1>3, <1>5, <1>6, <1>7 DEF SameLive

\* Two tubes with the same jobs and these reference counts.
Referred(tb, tb2, u, w) == SameJobs(tb, tb2) /\ tb2.using = u /\ tb2.watching = w

\* Changing UsingCt and WatchingCt leaves the jobs of the tube alone.
LEMMA EditRefs ==
    ASSUME NEW tb \in Tube, NEW u \in Int, NEW w \in Int
    PROVE  /\ Referred(tb, tb, tb.using, tb.watching)
           /\ Referred(tb, [tb EXCEPT !.using = u], u, tb.watching)
           /\ Referred(tb, [tb EXCEPT !.watching = w], tb.using, w)
           /\ Referred(tb, [tb EXCEPT !.using = u, !.watching = w], u, w)
<1>1. Referred(tb, tb, tb.using, tb.watching)
  BY DEF Referred, SameJobs
<1>2. Referred(tb, [tb EXCEPT !.using = u], u, tb.watching)
  BY DEF Referred, SameJobs, Tube
<1>3. Referred(tb, [tb EXCEPT !.watching = w], tb.using, w)
  BY DEF Referred, SameJobs, Tube
<1>4. Referred(tb, [tb EXCEPT !.using = u, !.watching = w], u, w)
  BY DEF Referred, SameJobs, Tube
<1> QED BY <1>1, <1>2, <1>3, <1>4

\* Tube t changes its reference counts to those of conns2; for the other tubes
\* conns2 makes no difference.
LEMMA MapRefer ==
    ASSUME NEW T, NEW jobs, NEW conns, NEW conns2, NEW t \in Tubes, NEW r,
           MapHolds(T, jobs, conns),
           T[t].live \/ (Users(conns2, t) = {} /\ Watchers(conns2, t) = {}),
           Referred(T[t], r, Cardinality(Users(conns2, t)), Cardinality(Watchers(conns2, t))),
           \A u \in Tubes \ {t} : SameRefs(conns, conns2, u)
    PROVE  /\ MapHolds([T EXCEPT ![t] = r], jobs, conns2)
           /\ SameLive(T, [T EXCEPT ![t] = r])
<1> DEFINE T2 == [T EXCEPT ![t] = r]
<1>1. T \in [Tubes -> Tube] /\ r \in Tube
  BY DEF MapHolds, Referred, SameJobs
<1>2. SameJobs(T[t], T2[t]) /\ RefsCounted(T2[t], t, conns2)
  BY <1>1 DEF Referred, RefsCounted, SameJobs
<1>3. ASSUME NEW u \in Tubes, u # t
      PROVE  SameJobs(T[u], T2[u]) /\ RefsCounted(T2[u], u, conns2)
  <2>1. T2[u] = T[u] /\ TubeHolds(T[u], u, jobs, conns) /\ SameRefs(conns, conns2, u)
    BY <1>1, <1>3 DEF MapHolds
  <2> QED BY <2>1 DEF TubeHolds, RefsCounted, SameJobs, SameRefs
<1>4. T2 \in [Tubes -> Tube] /\ \A u \in Tubes : SameJobs(T[u], T2[u]) /\ RefsCounted(T2[u], u, conns2)
  BY <1>1, <1>2, <1>3
<1> HIDE DEF T2
<1>5. MapHolds(T2, jobs, conns2)
  BY <1>4, MapRefs
<1>6. SameLive(T, T2)
  BY <1>4 DEF SameLive, SameJobs
<1> QED BY <1>5, <1>6 DEF T2

-----------------------------------------------------------------------------
(* A connection that goes away. *)

\* The tube tb after the jobs of D were dropped and those of B put back ready;
\* the reserved counter only loses the dropped ones.
HandedBack(r, tb, D, B) ==
    /\ r \in Tube
    /\ r.ready = tb.ready \cup B /\ r.delay = tb.delay /\ r.buried = tb.buried
    /\ r.ct["buried"] = tb.ct["buried"]
    /\ r.ct["reserved"] = tb.ct["reserved"] - Cardinality(D)
    /\ r.live = tb.live

\* reenqueueReservedJobs, seen from one tube.
LEMMA HandBackHolds ==
    ASSUME NEW r, NEW tb, NEW t, NEW jobs, NEW jobs2, NEW conns, NEW conns2,
           NEW D, NEW B, D \subseteq HeldIn(jobs, t), B \subseteq HeldIn(jobs, t),
           D \cap B = {},
           TubeHolds(tb, t, jobs, conns), HandedBack(r, tb, D, B),
           RefsCounted(r, t, conns2),
           \A k \in D : jobs2[k].state = "invalid",
           \A k \in B : jobs2[k].state = "ready" /\ jobs2[k].tube = t,
           \A k \in JobIds \ (D \cup B) :
              \/ SameFiling(jobs, jobs2, k)
              \/ Elsewhere(jobs, k, t) /\ Elsewhere(jobs2, k, t)
    PROVE  TubeHolds(r, t, jobs2, conns2)
<1>0. HeldIn(jobs, t) \subseteq JobIds
  BY DEF HeldIn
<1>1. ASSUME NEW k \in JobIds PROVE FiledIn(r, t, jobs2, k)
  <2>1. FiledIn(tb, t, jobs, k)
    BY DEF TubeHolds
  <2>2. CASE k \in D
    BY <2>1, <2>2 DEF FiledIn, HandedBack, HeldIn
  <2>3. CASE k \in B
    BY <2>1, <2>3 DEF FiledIn, HandedBack, HeldIn
  <2>4. CASE k \notin D \cup B
    BY <2>1, <2>4 DEF FiledIn, HandedBack, SameFiling, Elsewhere
  <2> QED BY <2>2, <2>3, <2>4
<1>2. r.ct["reserved"] >= Cardinality(HeldIn(jobs2, t))
  <2>1. HeldIn(jobs2, t) \subseteq HeldIn(jobs, t) \ D
    <3>1. ASSUME NEW k \in HeldIn(jobs2, t) PROVE k \in HeldIn(jobs, t) /\ k \notin D
      <4>1. k \in JobIds /\ k \notin D /\ k \notin B
        BY DEF HeldIn
      <4> QED BY <4>1 DEF HeldIn, SameFiling, Elsewhere
    <3> QED BY <3>1
  <2>2. /\ IsFiniteSet(HeldIn(jobs, t)) /\ Cardinality(HeldIn(jobs, t)) \in Nat
        /\ IsFiniteSet(D) /\ Cardinality(D) \in Nat
    BY <1>0, JobSetsFinite
  <2>3. HeldIn(jobs, t) \cap D = D
    OBVIOUS
  <2>4. /\ IsFiniteSet(HeldIn(jobs, t) \ D)
        /\ Cardinality(HeldIn(jobs, t) \ D) = Cardinality(HeldIn(jobs, t)) - Cardinality(D)
    <3> DEFINE H == HeldIn(jobs, t)
    <3>1. IsFiniteSet(H) /\ H \cap D = D
      BY <2>2, <2>3
    <3> HIDE DEF H
    <3>2. IsFiniteSet(H \ D) /\ Cardinality(H \ D) = Cardinality(H) - Cardinality(H \cap D)
      BY <3>1, FS_Difference
    <3> QED BY <3>1, <3>2 DEF H
  <2>5. /\ Cardinality(HeldIn(jobs2, t)) <= Cardinality(HeldIn(jobs, t) \ D)
        /\ Cardinality(HeldIn(jobs2, t)) \in Nat
    <3>1. HeldIn(jobs2, t) \in SUBSET (HeldIn(jobs, t) \ D)
      BY <2>1
    <3>2. /\ IsFiniteSet(HeldIn(jobs2, t))
          /\ Cardinality(HeldIn(jobs2, t)) <= Cardinality(HeldIn(jobs, t) \ D)
      BY <3>1, <2>4, FS_Subset
    <3> QED BY <3>2, FS_CardinalityType
  <2>6. tb.ct["reserved"] \in Int /\ tb.ct["reserved"] >= Cardinality(HeldIn(jobs, t))
    BY DEF TubeHolds, Tube, Counters
  <2> QED BY <2>2, <2>4, <2>5, <2>6 DEF HandedBack
<1>3. ~r.live => \A k \in JobIds : Elsewhere(jobs2, k, t)
  <2>1. ASSUME ~r.live, NEW k \in JobIds PROVE Elsewhere(jobs2, k, t)
    <3>1. Elsewhere(jobs, k, t)
      BY <2>1 DEF TubeHolds, HandedBack
    <3>2. k \notin D /\ k \notin B
      BY <3>1 DEF HeldIn, Elsewhere
    <3> QED BY <3>1, <3>2 DEF SameFiling, Elsewhere
  <2> QED BY <2>1
<1> QED BY <1>1, <1>2, <1>3 DEF TubeHolds, HandedBack, RefsCounted

-----------------------------------------------------------------------------
(* The parts of the inductive invariant. *)

OwnersHold(jobs, conns) ==
    \A j \in JobIds :
        /\ \A c \in Conns : j \in conns[c].reserved <=>
                               jobs[j].state = "reserved" /\ jobs[j].reserver = c
        /\ jobs[j].state = "reserved" <=> jobs[j].reserver # NoConn

PutHolds(jobs, cl, next) ==
    /\ cl.phase = "data" <=> cl.inJob # 0
    /\ cl.phase = "closed" => cl.reserved = {} /\ cl.watch = {}
    /\ cl.inJob # 0 => /\ jobs[cl.inJob].tube = cl.use
                       /\ jobs[cl.inJob].state = "invalid"
                       /\ cl.inJob <= next

PutsHold(jobs, conns, next) ==
    /\ \A c \in Conns : PutHolds(jobs, conns[c], next)
    /\ \A c, d \in Conns : conns[c].inJob = conns[d].inJob /\ conns[c].inJob # 0 => c = d
    /\ \A j \in JobIds : jobs[j].state # "invalid" => j <= next

StoreHolds(jb, img) ==
    /\ img.stored <=> jb.state # "invalid"
    /\ jb.state # "invalid" => /\ img.tube = jb.tube /\ img.pri = jb.pri
                               /\ img.delay = jb.delay
                               /\ img.attempts <= jb.attempts

Good(jobs, T, conns, next, imgs) ==
    /\ MapHolds(T, jobs, conns)
    /\ T[Default].live
    /\ OwnersHold(jobs, conns)
    /\ PutsHold(jobs, conns, next)
    /\ \A j \in JobIds : StoreHolds(jobs[j], imgs[j])

\* The invariant, part by part.
LEMMA IInvParts == IInv <=> TypeOK /\ Good(job, tube, conn, nextId, saved)
<1>0. 0 \notin JobIds /\ JobIds \subseteq Nat
  BY InputAssumption DEF JobIds
<1>1. ASSUME IInv PROVE Good(job, tube, conn, nextId, saved)
  <2> USE <1>1 DEF IInv
  <2>1. ASSUME NEW t \in Tubes PROVE TubeHolds(tube[t], t, job, conn)
    <3>1. \A j \in JobIds : FiledIn(tube[t], t, job, j)
      BY DEF Placement, FiledIn
    <3>2. HeldIn(job, t) = Held(t)
      BY DEF HeldIn, Held
    <3>3. ~tube[t].live => \A j \in JobIds : Elsewhere(job, j, t)
      BY DEF NoOrphanTube, Live, Elsewhere
    <3>4. ~tube[t].live => Users(conn, t) = {} /\ Watchers(conn, t) = {}
      BY DEF NoOrphanTube, PhasesHold, Users, Watchers
    <3>5. /\ tube[t].using = Cardinality(Users(conn, t))
          /\ tube[t].watching = Cardinality(Watchers(conn, t))
      BY DEF RefCountsHold, Users, Watchers
    <3>6. /\ tube[t] \in Tube /\ IsInjective(tube[t].buried)
          /\ tube[t].ct["buried"] = Len(tube[t].buried)
          /\ tube[t].ct["reserved"] >= Cardinality(HeldIn(job, t))
      BY <3>2 DEF TypeOK, Placement, CountedForGc
    <3> QED BY <3>1, <3>3, <3>4, <3>5, <3>6 DEF TubeHolds
  <2>2. OwnersHold(job, conn)
    BY DEF Placement, OwnersHold, Holds
  <2>3. PutsHold(job, conn, nextId)
    <3>1. ASSUME NEW c \in Conns PROVE PutHolds(job, conn[c], nextId)
      <4>1. conn[c].inJob \in JobIds \cup {0}
        BY DEF TypeOK, Conn
      <4> QED BY <4>1 DEF PhasesHold, NoOrphanTube, DistinctIds, Live, PutHolds
    <3> QED BY <3>1 DEF DistinctIds, Live, PutsHold
  <2>4. \A j \in JobIds : StoreHolds(job[j], saved[j])
    BY DEF StoredIsLive, Live, StoreHolds
  <2>5. tube \in [Tubes -> Tube] /\ tube[Default].live
    BY DEF TypeOK, NoOrphanTube
  <2> QED BY <2>1, <2>2, <2>3, <2>4, <2>5 DEF Good, MapHolds
<1>2. ASSUME TypeOK, Good(job, tube, conn, nextId, saved) PROVE IInv
  <2> USE <1>2
  <2>0. \A t \in Tubes : TubeHolds(tube[t], t, job, conn)
    BY DEF Good, MapHolds
  <2>1. Placement
    <3>1. ASSUME NEW t \in Tubes, NEW j \in JobIds PROVE FiledIn(tube[t], t, job, j)
      BY <2>0 DEF TubeHolds
    <3>2. \A t \in Tubes : IsInjective(tube[t].buried)
      BY <2>0 DEF TubeHolds
    <3> QED BY <3>1, <3>2 DEF Good, OwnersHold, Placement, FiledIn, Holds
  <2>2. CountedForGc
    <3>1. \A t \in Tubes : HeldIn(job, t) = Held(t)
      BY DEF HeldIn, Held
    <3> QED BY <2>0, <3>1 DEF CountedForGc, TubeHolds
  <2>3. RefCountsHold
    BY <2>0 DEF RefCountsHold, TubeHolds, Users, Watchers
  <2>4. \A c \in Conns : PutHolds(job, conn[c], nextId)
    BY DEF Good, PutsHold
  <2>5. PhasesHold
    BY <2>4 DEF PhasesHold, PutHolds
  <2>6. DistinctIds
    BY <2>4 DEF DistinctIds, Good, PutsHold, PutHolds, Live
  <2>7. StoredIsLive
    BY DEF StoredIsLive, Good, StoreHolds, Live
  <2>8. NoOrphanTube
    <3>1. ASSUME NEW c \in Conns, conn[c].phase # "closed",
                 NEW t \in conn[c].watch \cup {conn[c].use}
          PROVE  tube[t].live
      <4>1. t \in Tubes
        BY DEF TypeOK, Conn
      <4>2. c \in Users(conn, t) \/ c \in Watchers(conn, t)
        BY <3>1 DEF Users, Watchers
      <4> QED BY <4>1, <4>2, <2>0 DEF TubeHolds
    <3>2. ASSUME NEW j \in Live PROVE tube[job[j].tube].live
      <4>1. j \in JobIds /\ job[j].tube \in Tubes
        BY DEF Live, TypeOK, Job
      <4>2. ~Elsewhere(job, j, job[j].tube)
        BY <4>1 DEF Live, Elsewhere
      <4> QED BY <4>1, <4>2, <2>0 DEF TubeHolds
    <3>3. \A c \in Conns : conn[c].inJob # 0 => job[conn[c].inJob].tube = conn[c].use
      BY <2>4 DEF PutHolds
    <3>4. tube[Default].live
      BY DEF Good
    <3> QED BY <3>1, <3>2, <3>3, <3>4 DEF NoOrphanTube
  <2> QED BY <2>1, <2>2, <2>3, <2>5, <2>6, <2>7, <2>8 DEF IInv
<1>3. IInv => TypeOK
  BY DEF IInv
<1> QED BY <1>1, <1>2, <1>3

-----------------------------------------------------------------------------
(* Steps that move no job. *)

Parts == TypeOK /\ Good(job, tube, conn, nextId, saved)

\* The first server state: one empty tube, nobody connected.
LEMMA InitParts == Init => Parts
<1> SUFFICES ASSUME Init PROVE Parts
  OBVIOUS
<1> USE DEF Init
<1>0. 0 \notin JobIds /\ JobIds \subseteq Nat /\ MaxId \in Nat /\ Default \in Tubes
  BY InputAssumption, TubesAssumption DEF JobIds
<1>1. NoJob \in Job /\ NoClient \in Conn /\ NoImage \in Saved
  BY <1>0, TubesAssumption
     DEF NoJob, Job, JobStates, DelayKinds, NoClient, Conn, Phases, NoImage, Saved
<1>2. TypeOK
  <2>1. tube \in [Tubes -> Tube] /\ count \in [Counters -> Int]
    BY NewTubeProps DEF Tube
  <2>2. nextId \in 1 .. MaxId + 1
    BY <1>0
  <2>3. job \in [JobIds -> Job] /\ conn \in [Conns -> Conn] /\ saved \in [JobIds -> Saved]
    BY <1>1
  <2>4. drain \in BOOLEAN /\ doomed \in SUBSET JobIds
    OBVIOUS
  <2> HIDE DEF Init
  <2> QED BY <2>1, <2>2, <2>3, <2>4 DEF TypeOK
<1>3. ASSUME NEW t \in Tubes PROVE TubeHolds(tube[t], t, job, conn)
  <2>1. Users(conn, t) = {} /\ Watchers(conn, t) = {} /\ HeldIn(job, t) = {}
    BY DEF Users, Watchers, HeldIn, NoClient, NoJob
  <2>2. Cardinality({}) = 0
    BY FS_EmptySet
  <2>3. ToSet(<<>>) = {} /\ IsInjective(<<>>) /\ Len(<<>>) = 0
    BY DEF ToSet, IsInjective
  <2>4. tube[t] \in {NewTube, NoTube}
    OBVIOUS
  <2> HIDE DEF Init
  <2>5. /\ tube[t] \in Tube
        /\ tube[t].ready = {} /\ tube[t].delay = {} /\ tube[t].buried = <<>>
        /\ tube[t].ct["buried"] = 0 /\ tube[t].ct["reserved"] = 0
        /\ tube[t].using = 0 /\ tube[t].watching = 0
    BY <2>4, NewTubeProps
  <2>6. \A j \in JobIds : Elsewhere(job, j, t) /\ FiledIn(tube[t], t, job, j)
    BY <2>3, <2>5 DEF Elsewhere, FiledIn, NoJob, Init
  <2> QED BY <2>1, <2>2, <2>3, <2>5, <2>6 DEF TubeHolds
<1>4. tube[Default].live
  BY <1>0, NewTubeProps
<1>5. OwnersHold(job, conn)
  BY DEF OwnersHold, NoJob, NoClient
<1>6. PutsHold(job, conn, nextId)
  BY DEF PutsHold, PutHolds, NoJob, NoClient
<1>7. \A j \in JobIds : StoreHolds(job[j], saved[j])
  BY DEF StoreHolds, NoJob, NoImage
<1>8. MapHolds(tube, job, conn)
  BY <1>2, <1>3 DEF MapHolds, TypeOK
<1> QED BY <1>2, <1>4, <1>5, <1>6, <1>7, <1>8 DEF Parts, Good

\* Users and watchers depend on the used and watched tubes of the open
\* connections only.
LEMMA RefsFrame ==
    ASSUME NEW conns, NEW conns2,
           \A c \in Conns : /\ conns2[c].use = conns[c].use
                            /\ conns2[c].watch = conns[c].watch
                            /\ conns2[c].phase = "closed" <=> conns[c].phase = "closed"
    PROVE  \A t \in Tubes : SameRefs(conns, conns2, t)
  BY DEF SameRefs, Users, Watchers

\* Editing the settings of a tube leaves its books alone.
LEMMA EditBook ==
    ASSUME NEW tb \in Tube, NEW b \in BOOLEAN, NEW m \in Nat, NEW d \in Tubes
    PROVE  /\ SameBook(tb, tb)
           /\ SameBook(tb, [tb EXCEPT !.paused = b])
           /\ SameBook(tb, [tb EXCEPT !.tombstoned = b])
           /\ SameBook(tb, [tb EXCEPT !.max = m, !.dead = d])
<1>1. SameBook(tb, tb)
  BY DEF SameBook
<1>2. SameBook(tb, [tb EXCEPT !.paused = b])
  BY DEF SameBook, Tube
<1>3. SameBook(tb, [tb EXCEPT !.tombstoned = b])
  BY DEF SameBook, Tube
<1>4. SameBook(tb, [tb EXCEPT !.max = m, !.dead = d])
  BY DEF SameBook, Tube
<1> QED BY <1>1, <1>2, <1>3, <1>4

\* A change of tube settings alone.
LEMMA SettingsStep ==
    ASSUME Parts, UNCHANGED <<job, nextId, conn, count, saved>>,
           drain' \in BOOLEAN, doomed' \in SUBSET JobIds,
           tube' \in [Tubes -> Tube], \A t \in Tubes : SameBook(tube[t], tube'[t])
    PROVE  Parts'
<1>1. MapHolds(tube, job, conn)
  BY DEF Parts, Good
<1>2. \A j \in JobIds : Undisturbed(job, job', j)
  <2>1. \A j \in JobIds : SameFiling(job, job', j)
    BY DEF SameFiling
  <2> QED BY <2>1 DEF Undisturbed
<1>3. \A t \in Tubes : SameRefs(conn, conn', t)
  BY DEF SameRefs
<1>4. MapHolds(tube', job', conn')
  BY <1>1, <1>2, <1>3, MapFrame
<1>5. tube'[Default].live
  BY TubesAssumption DEF Parts, Good, SameBook
<1>6. TypeOK'
  BY DEF Parts, TypeOK
<1>7. /\ OwnersHold(job', conn') /\ PutsHold(job', conn', nextId')
      /\ \A j \in JobIds : StoreHolds(job'[j], saved'[j])
  BY DEF Parts, Good
<1> QED BY <1>4, <1>5, <1>6, <1>7 DEF Parts, Good

\* pause-tube changes a setting of the tube.
LEMMA PauseStep ==
    ASSUME Parts, NEW c \in Conns, NEW t \in Pausable, handlePauseTube(c, t)
    PROVE  Parts'
<1>1. t \in Tubes /\ tube \in [Tubes -> Tube] /\ drain \in BOOLEAN /\ doomed \in SUBSET JobIds
  BY InputAssumption DEF Parts, TypeOK
<1> DEFINE r == [tube[t] EXCEPT !.paused = TRUE]
<1>2. tube' = [tube EXCEPT ![t] = r]
  BY DEF handlePauseTube
<1>r. SameBook(tube[t], r) /\ \A u \in Tubes : SameBook(tube[u], tube[u])
  BY <1>1, TubesAssumption, EditBook
<1> HIDE DEF r
<1>3. \A u \in Tubes : SameBook(tube[u], tube'[u])
  BY <1>1, <1>2, <1>r
<1>4. tube' \in [Tubes -> Tube]
  BY <1>1, <1>2, <1>3 DEF SameBook
<1>5. UNCHANGED <<job, nextId, conn, count, saved, drain, doomed>>
  BY DEF handlePauseTube
<1> QED BY <1>1, <1>3, <1>4, <1>5, SettingsStep

\* The end of a pause changes a setting of the tube.
LEMMA UnpauseStep ==
    ASSUME Parts, NEW t \in Tubes, tickUnpause(t)
    PROVE  Parts'
<1>1. tube \in [Tubes -> Tube] /\ drain \in BOOLEAN /\ doomed \in SUBSET JobIds
  BY DEF Parts, TypeOK
<1> DEFINE r == [tube[t] EXCEPT !.paused = FALSE]
<1>2. tube' = [tube EXCEPT ![t] = r]
  BY DEF tickUnpause
<1>r. SameBook(tube[t], r) /\ \A u \in Tubes : SameBook(tube[u], tube[u])
  BY <1>1, TubesAssumption, EditBook
<1> HIDE DEF r
<1>3. \A u \in Tubes : SameBook(tube[u], tube'[u])
  BY <1>1, <1>2, <1>r
<1>4. tube' \in [Tubes -> Tube]
  BY <1>1, <1>2, <1>3 DEF SameBook
<1>5. UNCHANGED <<job, nextId, conn, count, saved, drain, doomed>>
  BY DEF tickUnpause
<1> QED BY <1>1, <1>3, <1>4, <1>5, SettingsStep

\* Switching drain mode touches no job, tube or connection.
LEMMA DrainStep ==
    ASSUME Parts, NEW on \in DrainModes, setDrain(on)
    PROVE  Parts'
<1>1. tube \in [Tubes -> Tube] /\ on \in BOOLEAN /\ doomed \in SUBSET JobIds
  BY InputAssumption DEF Parts, TypeOK
<1>2. \A u \in Tubes : SameBook(tube[u], tube'[u])
  BY <1>1 DEF SameBook, setDrain
<1> QED BY <1>1, <1>2, SettingsStep DEF setDrain

\* set-dlq may put the tube into the map and changes its policy.
LEMMA SetDlqStep ==
    ASSUME Parts, NEW c \in Conns, NEW p \in Policies, handleSetDlq(c, p[1], p[2], p[3])
    PROVE  Parts'
<1> DEFINE t == p[1]
           T == makeTube(tube, t)
           d == IF p[2] = 0 THEN Default ELSE p[3]
           r == [T[t] EXCEPT !.max = p[2], !.dead = d]
<1>1. t \in Tubes /\ p[2] \in Nat /\ d \in Tubes
  BY InputAssumption, TubesAssumption
<1>2. MapHolds(T, job, conn)
  BY <1>1, MapMake DEF Parts, Good
<1>3. T[Default].live
  BY <1>1, NewTubeProps, TubesAssumption DEF makeTube, Parts, Good, TypeOK
<1>4. tube' = [T EXCEPT ![t] = r]
  BY DEF handleSetDlq
<1> HIDE DEF T, d
<1>5. T \in [Tubes -> Tube]
  BY <1>2 DEF MapHolds
<1>r. SameBook(T[t], r) /\ \A u \in Tubes : SameBook(T[u], T[u])
  BY <1>1, <1>5, EditBook
<1> HIDE DEF r
<1>6. \A u \in Tubes : SameBook(T[u], tube'[u])
  BY <1>1, <1>4, <1>5, <1>r
<1>7. tube' \in [Tubes -> Tube]
  BY <1>1, <1>4, <1>5, <1>6 DEF SameBook
<1>8. UNCHANGED <<job, nextId, conn, count, saved, drain, doomed>>
  BY DEF handleSetDlq
<1>9. MapHolds(tube', job', conn')
  <2>1. \A j \in JobIds : Undisturbed(job, job', j)
    <3>1. \A j \in JobIds : SameFiling(job, job', j)
      BY <1>8 DEF SameFiling
    <3> QED BY <3>1 DEF Undisturbed
  <2>2. \A u \in Tubes : SameRefs(conn, conn', u)
    BY <1>8 DEF SameRefs
  <2> QED BY <1>2, <1>6, <1>7, <2>1, <2>2, MapFrame
<1>10. tube'[Default].live
  BY <1>3, <1>6, TubesAssumption DEF SameBook
<1>11. TypeOK'
  BY <1>7, <1>8 DEF Parts, TypeOK
<1>12. /\ OwnersHold(job', conn') /\ PutsHold(job', conn', nextId')
       /\ \A j \in JobIds : StoreHolds(job'[j], saved'[j])
  BY <1>8 DEF Parts, Good
<1> QED BY <1>9, <1>10, <1>11, <1>12 DEF Parts, Good

-----------------------------------------------------------------------------
(* put. *)

\* What the parts say about one connection and one job.
LEMMA PartsTypes ==
    ASSUME Parts
    PROVE  /\ TypeOK /\ MapHolds(tube, job, conn) /\ tube[Default].live
           /\ OwnersHold(job, conn) /\ PutsHold(job, conn, nextId)
           /\ \A j \in JobIds : StoreHolds(job[j], saved[j])
           /\ \A j \in JobIds : job[j].state \in JobStates /\ job[j].tube \in Tubes
           /\ 0 \notin JobIds /\ JobIds \subseteq Nat /\ Default \in Tubes
<1>1. \A j \in JobIds : job[j].state \in JobStates /\ job[j].tube \in Tubes
  BY DEF Parts, TypeOK, Job
<1>2. 0 \notin JobIds /\ JobIds \subseteq Nat /\ Default \in Tubes
  BY InputAssumption, TubesAssumption DEF JobIds
<1> QED BY <1>1, <1>2 DEF Parts, Good

\* A connection between command and bit-bucket mode.
LEMMA BucketStep ==
    ASSUME Parts, NEW c \in Conns, refusePut(c) \/ bitBucketDone(c)
    PROVE  Parts'
<1>0. PICK ph \in {"command", "bucket"} :
         /\ conn[c].phase \in {"command", "bucket"}
         /\ conn' = [conn EXCEPT ![c] = [@ EXCEPT !.phase = ph]]
         /\ UNCHANGED <<job, nextId, tube, count, saved, drain, doomed>>
  BY DEF refusePut, bitBucketDone, Commanding
<1>1. conn \in [Conns -> Conn]
  BY DEF Parts, TypeOK
<1>2. /\ conn' \in [Conns -> Conn]
      /\ \A d \in Conns : /\ conn'[d].use = conn[d].use /\ conn'[d].watch = conn[d].watch
                          /\ conn'[d].reserved = conn[d].reserved
                          /\ conn'[d].inJob = conn[d].inJob
                          /\ conn'[d].phase = "closed" <=> conn[d].phase = "closed"
                          /\ conn'[d].phase = "data" <=> conn[d].phase = "data"
  BY <1>0, <1>1 DEF Conn, Phases
<1>3. \A t \in Tubes : SameRefs(conn, conn', t)
  BY <1>2, RefsFrame
<1>4. MapHolds(tube', job', conn')
  <2>1. \A j \in JobIds : Undisturbed(job, job', j)
    BY <1>0 DEF SameFiling, Undisturbed
  <2>2. \A t \in Tubes : SameBook(tube[t], tube'[t])
    BY <1>0 DEF SameBook, Parts, TypeOK
  <2>3. tube' \in [Tubes -> Tube]
    BY <1>0 DEF Parts, TypeOK
  <2> QED BY <2>1, <2>2, <2>3, <1>3, PartsTypes, MapFrame
<1>5. OwnersHold(job', conn')
  BY <1>0, <1>2, PartsTypes DEF OwnersHold
<1>6. PutsHold(job', conn', nextId')
  <2>1. ASSUME NEW d \in Conns PROVE PutHolds(job', conn'[d], nextId')
    <3>1. PutHolds(job, conn[d], nextId)
      BY PartsTypes DEF PutsHold
    <3> QED BY <3>1, <1>0, <1>2 DEF PutHolds
  <2> QED BY <2>1, <1>0, <1>2, PartsTypes DEF PutsHold
<1>7. TypeOK'
  BY <1>0, <1>2 DEF Parts, TypeOK
<1>8. tube'[Default].live /\ \A j \in JobIds : StoreHolds(job'[j], saved'[j])
  BY <1>0, PartsTypes
<1> QED BY <1>4, <1>5, <1>6, <1>7, <1>8 DEF Parts, Good

\* A put is accepted: the new id is nobody's.
LEMMA StartPutStep ==
    ASSUME Parts, NEW c \in Conns, NEW p \in Pris, NEW d \in Delays, startPut(c, p, d)
    PROVE  Parts'
<1> DEFINE n == nextId + 1
           jb == [NoJob EXCEPT !.tube = conn[c].use, !.pri = p, !.delay = d]
           cl == [conn[c] EXCEPT !.phase = "data", !.inJob = n]
<1>0. /\ nextId' = n /\ job' = [job EXCEPT ![n] = jb] /\ conn' = [conn EXCEPT ![c] = cl]
      /\ UNCHANGED <<tube, count, saved, drain, doomed>>
      /\ conn[c].phase = "command" /\ nextId < MaxId
  BY DEF startPut, Commanding
<1>1. /\ conn \in [Conns -> Conn] /\ conn[c] \in Conn /\ conn[c].use \in Tubes
      /\ job \in [JobIds -> Job] /\ nextId \in 1 .. MaxId + 1 /\ MaxId \in Nat
      /\ p \in Nat /\ d \in DelayKinds
  BY InputAssumption DEF Parts, TypeOK, Conn
<1>2. n \in JobIds /\ n \in 1 .. MaxId + 1 /\ n # 0 /\ nextId <= n /\ ~(n <= nextId)
  BY <1>0, <1>1 DEF JobIds
<1> HIDE DEF n
<1>3. /\ jb \in Job /\ jb.state = "invalid" /\ jb.reserver = NoConn /\ jb.tube = conn[c].use
  BY <1>1, TubesAssumption DEF NoJob, Job, JobStates, DelayKinds
<1>4. /\ cl \in Conn /\ cl.phase = "data" /\ cl.inJob = n /\ cl.use = conn[c].use
      /\ cl.watch = conn[c].watch /\ cl.reserved = conn[c].reserved
  BY <1>1, <1>2 DEF Conn, Phases
<1> HIDE DEF jb, cl
<1>5. job[n].state = "invalid"
  BY <1>2, PartsTypes DEF PutsHold
<1>6. conn' \in [Conns -> Conn] /\ job' \in [JobIds -> Job]
  BY <1>0, <1>1, <1>3, <1>4
<1>7. /\ job'[n] = jb /\ conn'[c] = cl
      /\ \A j \in JobIds \ {n} : job'[j] = job[j]
      /\ \A e \in Conns \ {c} : conn'[e] = conn[e]
  BY <1>0, <1>1, <1>2
<1>8. MapHolds(tube', job', conn')
  <2>1. \A j \in JobIds : Undisturbed(job, job', j)
    BY <1>3, <1>5, <1>7 DEF SameFiling, Undisturbed
  <2>2. \A t \in Tubes : SameBook(tube[t], tube'[t])
    BY <1>0 DEF SameBook, Parts, TypeOK
  <2>3. tube' \in [Tubes -> Tube]
    BY <1>0 DEF Parts, TypeOK
  <2>4. \A t \in Tubes : SameRefs(conn, conn', t)
    <3>1. \A e \in Conns : /\ conn'[e].use = conn[e].use
                           /\ conn'[e].watch = conn[e].watch
                           /\ conn'[e].phase = "closed" <=> conn[e].phase = "closed"
      BY <1>0, <1>4, <1>7
    <3> QED BY <3>1, RefsFrame
  <2> QED BY <2>1, <2>2, <2>3, <2>4, PartsTypes, MapFrame
<1>9. OwnersHold(job', conn')
  <2>1. \A e \in Conns : conn'[e].reserved = conn[e].reserved
    BY <1>4, <1>7
  <2>2. \A e \in Conns : n \notin conn[e].reserved
    BY <1>2, <1>5, PartsTypes DEF OwnersHold
  <2>3. ASSUME NEW j \in JobIds \ {n}, NEW e \in Conns
        PROVE  /\ j \in conn'[e].reserved <=>
                     job'[j].state = "reserved" /\ job'[j].reserver = e
               /\ job'[j].state = "reserved" <=> job'[j].reserver # NoConn
    BY <2>1, <1>7, PartsTypes DEF OwnersHold
  <2>4. \A j \in JobIds \ {n} : job'[j].state = "reserved" <=> job'[j].reserver # NoConn
    BY <1>7, PartsTypes DEF OwnersHold
  <2> QED BY <2>1, <2>2, <2>3, <2>4, <1>3, <1>7 DEF OwnersHold
<1>10. PutsHold(job', conn', nextId')
  <2>1. ASSUME NEW e \in Conns PROVE PutHolds(job', conn'[e], nextId')
    <3>1. PutHolds(job, conn[e], nextId) /\ conn[e].inJob \in JobIds \cup {0}
      BY <1>1, PartsTypes DEF PutsHold, Conn
    <3>2. CASE e = c
      BY <3>2, <3>1, <1>0, <1>2, <1>3, <1>4, <1>7 DEF PutHolds
    <3>3. CASE e # c
      <4>1. conn'[e] = conn[e]
        BY <3>3, <1>7
      <4>2. conn[e].inJob # 0 =>
               conn[e].inJob \in JobIds \ {n} /\ conn[e].inJob <= nextId'
        <5>1. CASE conn[e].inJob = 0
          BY <5>1
        <5>2. CASE conn[e].inJob # 0
          <6>1. conn[e].inJob \in JobIds /\ conn[e].inJob <= nextId
            BY <5>2, <3>1 DEF PutHolds
          <6>2. conn[e].inJob \in Nat
            BY <6>1, PartsTypes
          <6> QED BY <6>1, <6>2, <1>0, <1>1, <1>2
        <5> QED BY <5>1, <5>2
      <4> QED BY <4>1, <4>2, <3>1, <1>7 DEF PutHolds
    <3> QED BY <3>2, <3>3
  <2>2. \A e \in Conns \ {c} : conn'[e].inJob # n
    <3>1. \A e \in Conns : conn[e].inJob # 0 => conn[e].inJob <= nextId
      BY PartsTypes DEF PutsHold, PutHolds
    <3> QED BY <3>1, <1>2, <1>7
  <2>3. \A e, f \in Conns : conn'[e].inJob = conn'[f].inJob /\ conn'[e].inJob # 0 => e = f
    <3>1. \A e, f \in Conns : conn[e].inJob = conn[f].inJob /\ conn[e].inJob # 0 => e = f
      BY PartsTypes DEF PutsHold
    <3> QED BY <3>1, <2>2, <1>4, <1>7
  <2>4. \A j \in JobIds : job'[j].state # "invalid" => j <= nextId'
    <3>1. \A j \in JobIds : job[j].state # "invalid" => j <= nextId
      BY PartsTypes DEF PutsHold
    <3> QED BY <3>1, <1>0, <1>1, <1>2, <1>3, <1>7, PartsTypes
  <2> QED BY <2>1, <2>3, <2>4 DEF PutsHold
<1>11. \A j \in JobIds : StoreHolds(job'[j], saved'[j])
  BY <1>0, <1>3, <1>5, <1>7, PartsTypes DEF StoreHolds
<1>12. TypeOK'
  BY <1>0, <1>2, <1>6 DEF Parts, TypeOK
<1>13. tube'[Default].live
  BY <1>0, PartsTypes
<1> QED BY <1>8, <1>9, <1>10, <1>11, <1>12, <1>13 DEF Parts, Good

\* The end of a put, good or bad: its id was nobody's but this connection's.
LEMMA PutEnds ==
    ASSUME Parts, NEW c \in Conns, conn[c].phase = "data",
           conn' = [conn EXCEPT ![c].phase = "command", ![c].inJob = 0],
           nextId' = nextId,
           \A k \in JobIds \ {conn[c].inJob} : job'[k] = job[k]
    PROVE  /\ conn[c].inJob \in JobIds
           /\ job[conn[c].inJob].state = "invalid"
           /\ job[conn[c].inJob].tube = conn[c].use
           /\ conn[c].use \in Tubes /\ tube[conn[c].use].live
           /\ conn' \in [Conns -> Conn]
           /\ \A t \in Tubes : SameRefs(conn, conn', t)
           /\ \A e \in Conns : conn'[e].reserved = conn[e].reserved
           /\ PutsHold(job', conn', nextId')
<1> DEFINE j == conn[c].inJob
           cl == [conn[c] EXCEPT !.phase = "command", !.inJob = 0]
<1>1. /\ conn \in [Conns -> Conn] /\ conn[c] \in Conn /\ conn[c].use \in Tubes
      /\ \A e \in Conns : conn[e].inJob \in JobIds \cup {0}
  BY DEF Parts, TypeOK, Conn
<1>2. /\ \A e \in Conns : PutHolds(job, conn[e], nextId)
      /\ \A e, f \in Conns : conn[e].inJob = conn[f].inJob /\ conn[e].inJob # 0 => e = f
      /\ \A k \in JobIds : job[k].state # "invalid" => k <= nextId
  BY PartsTypes DEF PutsHold
<1>3. /\ j \in JobIds /\ job[j].state = "invalid" /\ job[j].tube = conn[c].use
      /\ j <= nextId /\ j # 0
  BY <1>1, <1>2 DEF PutHolds
<1>4. tube[conn[c].use].live
  <2>1. c \in Users(conn, conn[c].use)
    BY DEF Users
  <2> QED BY <2>1, <1>1, PartsTypes DEF MapHolds, TubeHolds
<1>5. /\ cl \in Conn /\ cl.phase = "command" /\ cl.inJob = 0 /\ cl.use = conn[c].use
      /\ cl.watch = conn[c].watch /\ cl.reserved = conn[c].reserved
  BY <1>1 DEF Conn, Phases
<1>6. conn' = [conn EXCEPT ![c] = cl]
  BY <1>1
<1> HIDE DEF cl, j
<1>7. /\ conn' \in [Conns -> Conn] /\ conn'[c] = cl
      /\ \A e \in Conns \ {c} : conn'[e] = conn[e]
  BY <1>1, <1>5, <1>6
<1>8. \A t \in Tubes : SameRefs(conn, conn', t)
  <2>1. \A e \in Conns : /\ conn'[e].use = conn[e].use
                         /\ conn'[e].watch = conn[e].watch
                         /\ conn'[e].phase = "closed" <=> conn[e].phase = "closed"
    BY <1>5, <1>7
  <2> QED BY <2>1, RefsFrame
<1>9. \A e \in Conns : conn'[e].reserved = conn[e].reserved
  BY <1>5, <1>7
<1>10. PutsHold(job', conn', nextId')
  <2>1. ASSUME NEW e \in Conns PROVE PutHolds(job', conn'[e], nextId')
    <3>1. CASE e = c
      BY <3>1, <1>5, <1>7 DEF PutHolds
    <3>2. CASE e # c
      <4>1. conn'[e] = conn[e] /\ PutHolds(job, conn[e], nextId)
        BY <3>2, <1>2, <1>7
      <4>2. conn[e].inJob # j
        BY <3>2, <1>2, <1>3 DEF j
      <4>3. conn[e].inJob # 0 => job'[conn[e].inJob] = job[conn[e].inJob]
        BY <4>2, <1>1 DEF j
      <4> QED BY <4>1, <4>3 DEF PutHolds
    <3> QED BY <3>1, <3>2
  <2>2. \A e, f \in Conns : conn'[e].inJob = conn'[f].inJob /\ conn'[e].inJob # 0 => e = f
    BY <1>2, <1>5, <1>7
  <2>3. \A k \in JobIds : job'[k].state # "invalid" => k <= nextId'
    BY <1>2, <1>3 DEF j
  <2> QED BY <2>1, <2>2, <2>3 DEF PutsHold
<1> QED BY <1>1, <1>3, <1>4, <1>7, <1>8, <1>9, <1>10 DEF j

\* EXPECTED_CRLF: the put ends and its job stays out of the index.
LEMMA BadBodyStep ==
    ASSUME Parts, NEW c \in Conns, badBody(c)
    PROVE  Parts'
<1> DEFINE j == conn[c].inJob
<1>0. /\ conn[c].phase = "data" /\ job' = [job EXCEPT ![j] = NoJob]
      /\ conn' = [conn EXCEPT ![c].phase = "command", ![c].inJob = 0]
      /\ UNCHANGED <<nextId, tube, count, saved, drain, doomed>>
  BY DEF badBody
<1>1. job \in [JobIds -> Job] /\ NoJob \in Job /\ NoJob.state = "invalid"
      /\ NoJob.reserver = NoConn
  BY TubesAssumption DEF Parts, TypeOK, NoJob, Job, JobStates, DelayKinds
<1>2. \A k \in JobIds \ {j} : job'[k] = job[k]
  BY <1>0, <1>1
<1>3. /\ j \in JobIds /\ job[j].state = "invalid"
      /\ conn' \in [Conns -> Conn] /\ \A t \in Tubes : SameRefs(conn, conn', t)
      /\ \A e \in Conns : conn'[e].reserved = conn[e].reserved
      /\ PutsHold(job', conn', nextId')
  BY <1>0, <1>2, PutEnds
<1> HIDE DEF j
<1>4. job'[j] = NoJob /\ job' \in [JobIds -> Job]
  BY <1>0, <1>1, <1>3
<1>5. MapHolds(tube', job', conn')
  <2>1. \A k \in JobIds : Undisturbed(job, job', k)
    BY <1>1, <1>2, <1>3, <1>4 DEF SameFiling, Undisturbed
  <2>2. \A t \in Tubes : SameBook(tube[t], tube'[t])
    BY <1>0 DEF SameBook, Parts, TypeOK
  <2>3. tube' \in [Tubes -> Tube]
    BY <1>0 DEF Parts, TypeOK
  <2> QED BY <2>1, <2>2, <2>3, <1>3, PartsTypes, MapFrame
<1>6. OwnersHold(job', conn')
  <2>1. \A e \in Conns : j \notin conn[e].reserved
    BY <1>3, PartsTypes DEF OwnersHold
  <2>2. ASSUME NEW k \in JobIds \ {j}, NEW e \in Conns
        PROVE  k \in conn'[e].reserved <=> job'[k].state = "reserved" /\ job'[k].reserver = e
    BY <1>2, <1>3, PartsTypes DEF OwnersHold
  <2>3. \A k \in JobIds \ {j} : job'[k].state = "reserved" <=> job'[k].reserver # NoConn
    BY <1>2, PartsTypes DEF OwnersHold
  <2> QED BY <2>1, <2>2, <2>3, <1>1, <1>3, <1>4 DEF OwnersHold
<1>7. \A k \in JobIds : StoreHolds(job'[k], saved'[k])
  BY <1>0, <1>1, <1>2, <1>3, <1>4, PartsTypes DEF StoreHolds
<1>8. TypeOK'
  BY <1>0, <1>3, <1>4 DEF Parts, TypeOK
<1>9. tube'[Default].live
  BY <1>0, PartsTypes
<1> QED BY <1>3, <1>5, <1>6, <1>7, <1>8, <1>9 DEF Parts, Good

\* The body is complete: the job enters the index, a queue of the tube the
\* connection uses, which that connection keeps in the map, and storage.
LEMMA FinishPutStep ==
    ASSUME Parts, NEW c \in Conns, finishPut(c)
    PROVE  Parts'
<1> DEFINE j == conn[c].inJob
           t == conn[c].use
<1>0. PICK d \in IF job[j].delay = "at" THEN {"none", "some"} ELSE {job[j].delay} :
         LET jobs == [job EXCEPT ![j].state = Queue(d), ![j].delay = d]
         IN  /\ job'   = jobs
             /\ tube'  = enqueueJob(tube, j, jobs)
             /\ count' = Enter(count, Queue(d), {j}, jobs)
             /\ saved' = [saved EXCEPT ![j] = Image(jobs[j])]
  BY DEF finishPut
<1> DEFINE s == Queue(d)
           jb == [job[j] EXCEPT !.state = s, !.delay = d]
<1>1. /\ conn[c].phase = "data"
      /\ conn' = [conn EXCEPT ![c].phase = "command", ![c].inJob = 0]
      /\ UNCHANGED <<nextId, drain, doomed>>
  BY DEF finishPut
<1>2. job \in [JobIds -> Job] /\ saved \in [JobIds -> Saved] /\ count \in [Counters -> Int]
  BY DEF Parts, TypeOK
<1>3. \A k \in JobIds \ {j} : job'[k] = job[k]
  BY <1>0, <1>2
<1>4. /\ j \in JobIds /\ job[j].state = "invalid" /\ job[j].tube = t
      /\ t \in Tubes /\ tube[t].live
      /\ conn' \in [Conns -> Conn] /\ \A u \in Tubes : SameRefs(conn, conn', u)
      /\ \A e \in Conns : conn'[e].reserved = conn[e].reserved
      /\ PutsHold(job', conn', nextId')
  BY <1>1, <1>3, PutEnds
<1>5. job[j] \in Job /\ d \in DelayKinds
  BY <1>2, <1>4 DEF Job, DelayKinds
<1>6. s \in {"ready", "delayed"}
  BY DEF Queue
<1>7. /\ jb \in Job /\ jb.state = s /\ jb.tube = t /\ jb.delay = d
      /\ jb.reserver = job[j].reserver
      /\ jb.attempts \in Nat /\ jb.pri \in Nat
  BY <1>4, <1>5, <1>6 DEF Job, JobStates
<1>8. /\ job' = [job EXCEPT ![j] = jb] /\ tube' = enqueueJob(tube, j, job')
      /\ count' = Enter(count, s, {j}, job') /\ saved' = [saved EXCEPT ![j] = Image(job'[j])]
  BY <1>0, <1>2, <1>4
<1> HIDE DEF j, t, s, jb
<1>9. job'[j] = jb /\ job' \in [JobIds -> Job]
  BY <1>2, <1>4, <1>7, <1>8
<1>10. MapHolds(tube', job', conn')
  <2> DEFINE r == [tube[t] EXCEPT !.tombstoned = FALSE]
             T == [tube EXCEPT ![t] = r]
             T2 == [T EXCEPT ![t] = Link(@, s, j, job')]
  <2>0. tube \in [Tubes -> Tube]
    BY DEF Parts, TypeOK
  <2>1. SameBook(tube[t], r) /\ \A u \in Tubes : SameBook(tube[u], tube[u])
    BY <2>0, <1>4, TubesAssumption, EditBook
  <2>2. tube' = T2
    BY <2>0, <1>4, <1>7, <1>8, <1>9 DEF enqueueJob, s
  <2> HIDE DEF r
  <2>3. T \in [Tubes -> Tube] /\ \A u \in Tubes : SameBook(tube[u], T[u])
    BY <2>0, <2>1, <1>4 DEF SameBook
  <2>4. \A k \in JobIds : Undisturbed(job, job, k)
    BY DEF Undisturbed, SameFiling
  <2>5. \A u \in Tubes : SameRefs(conn, conn, u)
    BY DEF SameRefs
  <2>6. T[t].live
    BY <2>3, <1>4 DEF SameBook
  <2> HIDE DEF T
  <2>7. MapHolds(T, job, conn)
    BY <2>3, <2>4, <2>5, PartsTypes, MapFrame
  <2>8. MapHolds(T2, job', conn)
    <3>1. \A k \in JobIds \ {j} : SameFiling(job, job', k)
      BY <1>3 DEF SameFiling, j
    <3>2. s \in QueueStates /\ job'[j].state = s /\ job'[j].tube = t
      BY <1>6, <1>7, <1>9 DEF QueueStates
    <3> QED BY <3>1, <3>2, <2>6, <2>7, <1>4, MapLink
  <2>9. MapHolds(T2, job', conn')
    <3>1. T2 \in [Tubes -> Tube] /\ \A u \in Tubes : SameBook(T2[u], T2[u])
      BY <2>8 DEF MapHolds, SameBook
    <3>2. \A k \in JobIds : Undisturbed(job', job', k)
      BY DEF Undisturbed, SameFiling
    <3> HIDE DEF T2
    <3> QED BY <3>1, <3>2, <2>8, <1>4, MapFrame
  <2> QED BY <2>2, <2>9
<1>11. OwnersHold(job', conn')
  <2>1. \A e \in Conns : j \notin conn[e].reserved
    BY <1>4, PartsTypes DEF OwnersHold
  <2>2. ASSUME NEW k \in JobIds \ {j}, NEW e \in Conns
        PROVE  k \in conn'[e].reserved <=> job'[k].state = "reserved" /\ job'[k].reserver = e
    BY <1>3, <1>4, PartsTypes DEF OwnersHold, j
  <2>3. \A k \in JobIds \ {j} : job'[k].state = "reserved" <=> job'[k].reserver # NoConn
    BY <1>3, PartsTypes DEF OwnersHold, j
  <2>4. jb.state # "reserved" /\ jb.reserver = NoConn
    BY <1>4, <1>6, <1>7, PartsTypes DEF OwnersHold
  <2> QED BY <2>1, <2>2, <2>3, <2>4, <1>4, <1>9 DEF OwnersHold
<1>12. saved' \in [JobIds -> Saved] /\ \A k \in JobIds : StoreHolds(job'[k], saved'[k])
  <2>1. Image(jb) \in Saved /\ StoreHolds(jb, Image(jb))
    BY <1>4, <1>5, <1>6, <1>7 DEF Image, Saved, StoreHolds
  <2>2. saved'[j] = Image(jb) /\ \A k \in JobIds \ {j} : saved'[k] = saved[k]
    BY <1>2, <1>4, <1>8, <1>9
  <2>3. \A k \in JobIds \ {j} : StoreHolds(job'[k], saved'[k])
    BY <2>2, <1>3, PartsTypes DEF j
  <2>4. saved' \in [JobIds -> Saved]
    BY <2>1, <1>2, <1>8, <1>9
  <2> QED BY <2>1, <2>2, <2>3, <2>4, <1>9
<1>13. count' \in [Counters -> Int]
  <2> DEFINE J == {j}
  <2>1. J \subseteq JobIds /\ s \in QueueStates
    BY <1>4, <1>6 DEF QueueStates
  <2> HIDE DEF J
  <2>2. Entered(Enter(count, s, J, job'), count, s, J)
    BY <2>1, <1>2, CtProps
  <2> QED BY <2>2, <1>8 DEF Entered, J
<1>14. TypeOK'
  <2>1. tube' \in [Tubes -> Tube]
    BY <1>10 DEF MapHolds
  <2> QED BY <2>1, <1>1, <1>4, <1>9, <1>12, <1>13 DEF Parts, TypeOK
<1>15. tube'[Default].live
  <2>1. tube[Default].live /\ tube \in [Tubes -> Tube] /\ Default \in Tubes
    BY PartsTypes DEF TypeOK
  <2>2. CASE Default # t
    BY <2>1, <2>2, <1>7, <1>8, <1>9 DEF enqueueJob
  <2>3. CASE Default = t
    <3>1. ~Elsewhere(job', j, t)
      BY <1>6, <1>7, <1>9 DEF Elsewhere
    <3> QED BY <3>1, <2>3, <1>4, <1>10 DEF MapHolds, TubeHolds
  <2> QED BY <2>2, <2>3
<1> QED BY <1>4, <1>10, <1>11, <1>12, <1>14, <1>15 DEF Parts, Good

-----------------------------------------------------------------------------
(* Jobs that are reserved. *)

\* Steps on jobs of the index leave the puts in progress alone.
LEMMA PutsFrame ==
    ASSUME NEW jobs, NEW jobs2, NEW conns, NEW conns2, NEW next,
           PutsHold(jobs, conns, next),
           \A e \in Conns : /\ conns2[e].inJob = conns[e].inJob
                            /\ conns[e].inJob \in JobIds \cup {0}
                            /\ conns2[e].use = conns[e].use
                            /\ conns2[e].phase = "data" <=> conns[e].phase = "data"
                            /\ conns2[e].phase = "closed" =>
                                  conns2[e].reserved = {} /\ conns2[e].watch = {},
           \A k \in JobIds : /\ jobs[k].state = "invalid" =>
                                   jobs2[k].state = "invalid" /\ jobs2[k].tube = jobs[k].tube
    PROVE  PutsHold(jobs2, conns2, next)
<1>1. ASSUME NEW e \in Conns PROVE PutHolds(jobs2, conns2[e], next)
  <2>1. PutHolds(jobs, conns[e], next)
    BY DEF PutsHold
  <2> QED BY <2>1 DEF PutHolds
<1> QED BY <1>1 DEF PutsHold

\* reserve, a blocked reserve that wakes and reserve-job.
LEMMA TakeStep ==
    ASSUME Parts, NEW c \in Conns, conn[c].phase \in {"command", "waiting"},
           NEW j \in JobIds, job[j].state \in {"ready", "buried", "delayed"},
           NEW T \in [Tubes -> Tube], \A u \in Tubes : SameBook(tube[u], T[u]),
           Take(c, j, T)
    PROVE  Parts'
<1> DEFINE s == job[j].state
           t == job[j].tube
           jb == [job[j] EXCEPT !.state = "reserved", !.reserver = c]
           cl == [conn[c] EXCEPT !.reserved = @ \cup {j}, !.phase = "command"]
<1>1. /\ job \in [JobIds -> Job] /\ conn \in [Conns -> Conn] /\ count \in [Counters -> Int]
      /\ \A e \in Conns : conn[e].inJob \in JobIds \cup {0}
      /\ job[j] \in Job /\ conn[c] \in Conn /\ t \in Tubes
  BY DEF Parts, TypeOK, Conn, Job
<1>2. s \in QueueStates /\ "reserved" \in QueueStates
  BY DEF QueueStates
<1>3. /\ jb \in Job /\ jb.state = "reserved" /\ jb.reserver = c /\ jb.tube = t
      /\ jb.pri = job[j].pri /\ jb.delay = job[j].delay /\ jb.attempts = job[j].attempts
  BY <1>1 DEF Job, JobStates
<1>4. /\ cl \in Conn /\ cl.reserved = conn[c].reserved \cup {j} /\ cl.phase = "command"
      /\ cl.use = conn[c].use /\ cl.watch = conn[c].watch /\ cl.inJob = conn[c].inJob
  BY <1>1 DEF Conn, Phases
<1>5. /\ job' = [job EXCEPT ![j] = jb] /\ conn' = [conn EXCEPT ![c] = cl]
      /\ tube' = [T EXCEPT ![t] = Link(Unlink(@, s, j), "reserved", j, job)]
      /\ count' = Enter(Leave(count, s, {j}, job), "reserved", {j}, job)
      /\ UNCHANGED <<nextId, saved, drain, doomed>>
  BY <1>1 DEF Take
<1> HIDE DEF jb, cl, t
<1>6. /\ job'[j] = jb /\ \A k \in JobIds \ {j} : job'[k] = job[k]
      /\ conn'[c] = cl /\ \A e \in Conns \ {c} : conn'[e] = conn[e]
      /\ job' \in [JobIds -> Job] /\ conn' \in [Conns -> Conn]
  BY <1>1, <1>3, <1>4, <1>5
<1>7. \A e \in Conns : /\ conn'[e].use = conn[e].use /\ conn'[e].watch = conn[e].watch
                       /\ conn'[e].inJob = conn[e].inJob
                       /\ conn'[e].phase = "closed" <=> conn[e].phase = "closed"
                       /\ conn'[e].phase = "data" <=> conn[e].phase = "data"
  BY <1>4, <1>6
<1>8. MapHolds(tube', job', conn') /\ tube'[Default].live
  <2>1. MapHolds(T, job, conn)
    <3>1. \A k \in JobIds : Undisturbed(job, job, k)
      BY DEF Undisturbed, SameFiling
    <3>2. \A u \in Tubes : SameRefs(conn, conn, u)
      BY DEF SameRefs
    <3> QED BY <3>1, <3>2, PartsTypes, MapFrame
  <2>0. PICK s2 \in QueueStates : s2 = "reserved"
    BY <1>2
  <2>2. /\ job[j].state = s /\ job[j].tube = t
        /\ job'[j].state = s2 /\ job'[j].tube = t
        /\ \A k \in JobIds \ {j} : SameFiling(job, job', k)
    BY <2>0, <1>3, <1>6 DEF SameFiling, t
  <2> DEFINE T2 == Moved(T, t, s, s2, j, job)
  <2> HIDE DEF s
  <2>3. MapHolds(T2, job', conn) /\ SameLive(T, T2)
    <3>1. job \in [JobIds -> Job] /\ t \in Tubes /\ s \in QueueStates
      BY <1>1, <1>2
    <3> QED BY <3>1, <2>0, <2>1, <2>2, Relocate
  <2>4. tube' = T2
    BY <2>0, <1>5 DEF Moved
  <2> HIDE DEF T2
  <2>5. MapHolds(tube', job', conn')
    <3>1. \A u \in Tubes : SameRefs(conn, conn', u)
      BY <1>7, RefsFrame
    <3>2. \A k \in JobIds : Undisturbed(job', job', k)
      BY DEF Undisturbed, SameFiling
    <3>3. T2 \in [Tubes -> Tube] /\ \A u \in Tubes : SameBook(T2[u], T2[u])
      BY <2>3 DEF MapHolds, SameBook
    <3> QED BY <3>1, <3>2, <3>3, <2>3, <2>4, MapFrame
  <2>6. T[Default].live
    BY PartsTypes DEF SameBook
  <2> QED BY <2>3, <2>4, <2>5, <2>6, TubesAssumption DEF SameLive
<1>9. OwnersHold(job', conn')
  <2>1. \A e \in Conns : j \notin conn[e].reserved
    BY <1>2, PartsTypes DEF OwnersHold
  <2>2. ASSUME NEW k \in JobIds \ {j}, NEW e \in Conns
        PROVE  k \in conn'[e].reserved <=> job'[k].state = "reserved" /\ job'[k].reserver = e
    BY <1>4, <1>6, PartsTypes DEF OwnersHold
  <2>3. \A k \in JobIds \ {j} : job'[k].state = "reserved" <=> job'[k].reserver # NoConn
    BY <1>6, PartsTypes DEF OwnersHold
  <2>4. \A e \in Conns : j \in conn'[e].reserved <=> e = c
    BY <2>1, <1>4, <1>6
  <2> QED BY <2>2, <2>3, <2>4, <1>3, <1>6, ConnsAssumption DEF OwnersHold
<1>10. PutsHold(job', conn', nextId')
  <2>1. \A e \in Conns : conn'[e].phase = "closed" =>
                            conn'[e].reserved = {} /\ conn'[e].watch = {}
    BY <1>4, <1>6, PartsTypes DEF PutsHold, PutHolds
  <2>2. \A k \in JobIds : job[k].state = "invalid" =>
                             job'[k].state = "invalid" /\ job'[k].tube = job[k].tube
    BY <1>6
  <2>3. nextId' = nextId /\ PutsHold(job, conn, nextId)
    BY <1>5, PartsTypes
  <2>4. \A e \in Conns : /\ conn'[e].inJob = conn[e].inJob
                         /\ conn[e].inJob \in JobIds \cup {0}
                         /\ conn'[e].use = conn[e].use
                         /\ conn'[e].phase = "data" <=> conn[e].phase = "data"
                         /\ conn'[e].phase = "closed" =>
                               conn'[e].reserved = {} /\ conn'[e].watch = {}
    BY <2>1, <1>1, <1>7
  <2> QED BY <2>2, <2>3, <2>4, PutsFrame
<1>11. \A k \in JobIds : StoreHolds(job'[k], saved'[k])
  <2>1. saved' = saved /\ \A k \in JobIds : StoreHolds(job[k], saved[k])
    BY <1>5, PartsTypes
  <2>2. StoreHolds(job'[j], saved[j])
    <3>1. StoreHolds(job[j], saved[j])
      BY <2>1
    <3> QED BY <3>1, <1>3, <1>6 DEF StoreHolds, t
  <2> QED BY <2>1, <2>2, <1>6
<1>12. count' \in [Counters -> Int]
  <2> DEFINE J == {j}
  <2>1. J \subseteq JobIds
    OBVIOUS
  <2> HIDE DEF J, s
  <2>2. Left(Leave(count, s, J, job), count, s, J)
    BY <2>1, <1>1, <1>2, CtProps
  <2>3. Leave(count, s, J, job) \in [Counters -> Int]
    BY <2>2 DEF Left
  <2>4. Entered(Enter(Leave(count, s, J, job), "reserved", J, job),
                Leave(count, s, J, job), "reserved", J)
    BY <2>1, <2>3, <1>2, CtProps
  <2> QED BY <2>4, <1>5 DEF Entered, J
<1>13. TypeOK'
  <2>1. tube' \in [Tubes -> Tube]
    BY <1>8 DEF MapHolds
  <2> QED BY <2>1, <1>5, <1>6, <1>12 DEF Parts, TypeOK
<1> QED BY <1>8, <1>9, <1>10, <1>11, <1>13 DEF Parts, Good

\* The pauses found to be over, and the tubes looked at.
LEMMA ReopenedBook ==
    ASSUME Parts, NEW c \in Conns, NEW E \in Elapsed(c)
    PROVE  /\ Reopened(E) \in [Tubes -> Tube]
           /\ \A u \in Tubes : SameBook(tube[u], Reopened(E)[u])
<1>1. tube \in [Tubes -> Tube]
  BY DEF Parts, TypeOK
<1>2. ASSUME NEW u \in Tubes PROVE SameBook(tube[u], Reopened(E)[u])
  <2> DEFINE r == [tube[u] EXCEPT !.paused = FALSE]
  <2>1. SameBook(tube[u], r) /\ SameBook(tube[u], tube[u])
    BY <1>1, TubesAssumption, EditBook
  <2> QED BY <2>1 DEF Reopened
<1>3. \A u \in Tubes : Reopened(E)[u] \in Tube
  BY <1>2 DEF SameBook
<1> QED BY <1>2, <1>3 DEF Reopened

\* A reserve that finds a job hands out one that is ready in a watched tube.
LEMMA FindJobStep ==
    ASSUME Parts, NEW c \in Conns, conn[c].phase \in {"command", "waiting"},
           NEW E \in Elapsed(c), findJobForConn(c, E)
    PROVE  Parts'
<1> DEFINE ts == OpenTubes(c, E)
<1>1. PICK t0 \in ts : tube[t0].ready # {}
  BY DEF findJobForConn, OpenTubes
<1>2. ts \subseteq Tubes
  BY DEF Parts, TypeOK, Conn, OpenTubes
<1>3. /\ \A t \in ts : tube[t].ready \subseteq JobIds
      /\ \A j \in JobIds : job[j].pri \in Nat
  BY <1>2 DEF Parts, TypeOK, Tube, Job
<1> HIDE DEF ts
<1>4. PICK t \in ts : Best(ts) \in tube[t].ready
  BY <1>1, <1>3, BestIsReady
<1>5. Best(ts) \in JobIds /\ job[Best(ts)].state = "ready"
  BY <1>2, <1>3, <1>4, PartsTypes DEF MapHolds, TubeHolds, FiledIn
<1>6. Take(c, Best(ts), Reopened(E))
  BY DEF findJobForConn, ts
<1> QED BY <1>5, <1>6, ReopenedBook, TakeStep

\* A reserve that finds nothing changes the phase and reopens tubes at most.
LEMMA LookStep ==
    ASSUME Parts, NEW c \in Conns, conn[c].phase \in {"command", "waiting"},
           NEW E \in Elapsed(c), NEW next \in {"command", "waiting"},
           tube' = Reopened(E), conn' = [conn EXCEPT ![c].phase = next],
           UNCHANGED <<job, nextId, count, saved, drain, doomed>>
    PROVE  Parts'
<1>1. conn \in [Conns -> Conn]
  BY DEF Parts, TypeOK
<1>2. /\ conn' \in [Conns -> Conn]
      /\ \A d \in Conns : /\ conn'[d].use = conn[d].use /\ conn'[d].watch = conn[d].watch
                          /\ conn'[d].reserved = conn[d].reserved
                          /\ conn'[d].inJob = conn[d].inJob
                          /\ conn[d].inJob \in JobIds \cup {0}
                          /\ conn'[d].phase = "closed" <=> conn[d].phase = "closed"
                          /\ conn'[d].phase = "data" <=> conn[d].phase = "data"
  BY <1>1 DEF Conn, Phases
<1>3. \A t \in Tubes : SameRefs(conn, conn', t)
  BY <1>2, RefsFrame
<1>4. tube' \in [Tubes -> Tube] /\ \A t \in Tubes : SameBook(tube[t], tube'[t])
  BY ReopenedBook
<1>5. MapHolds(tube', job', conn')
  <2>1. \A j \in JobIds : Undisturbed(job, job', j)
    BY DEF SameFiling, Undisturbed
  <2> QED BY <2>1, <1>3, <1>4, PartsTypes, MapFrame
<1>6. OwnersHold(job', conn')
  BY <1>2, PartsTypes DEF OwnersHold
<1>7. PutsHold(job', conn', nextId')
  <2>1. \A e \in Conns : conn'[e].phase = "closed" =>
                            conn'[e].reserved = {} /\ conn'[e].watch = {}
    BY <1>2, PartsTypes DEF PutsHold, PutHolds
  <2> QED BY <2>1, <1>2, PartsTypes, PutsFrame
<1>8. TypeOK'
  BY <1>2, <1>4 DEF Parts, TypeOK
<1>9. tube'[Default].live /\ \A j \in JobIds : StoreHolds(job'[j], saved'[j])
  BY <1>4, PartsTypes DEF SameBook
<1> QED BY <1>5, <1>6, <1>7, <1>8, <1>9 DEF Parts, Good

\* reserve, reserve-with-timeout 0 and a blocked reserve that looks again.
LEMMA ReserveStep ==
    ASSUME Parts, NEW c \in Conns, doReserve(c) \/ doReserveImmediate(c) \/ checkWait(c)
    PROVE  Parts'
<1>1. conn[c].phase \in {"command", "waiting"}
  BY DEF doReserve, doReserveImmediate, checkWait, Commanding
<1>2. PICK E \in Elapsed(c) :
         \/ findJobForConn(c, E)
         \/ \E next \in {"command", "waiting"} :
               /\ tube' = Reopened(E) /\ conn' = [conn EXCEPT ![c].phase = next]
               /\ UNCHANGED <<job, nextId, count, saved, drain, doomed>>
  BY DEF doReserve, doReserveImmediate, checkWait, NothingReady
<1> QED BY <1>1, <1>2, FindJobStep, LookStep

\* reserve-job takes a ready, delayed or buried job by its id.
LEMMA ReserveJobStep ==
    ASSUME Parts, NEW c \in Conns, NEW j \in JobIds, handleReserveJob(c, j)
    PROVE  Parts'
<1>1. tube \in [Tubes -> Tube] /\ \A u \in Tubes : SameBook(tube[u], tube[u])
  BY DEF Parts, TypeOK, SameBook
<1> QED BY <1>1, TakeStep DEF handleReserveJob, Commanding

-----------------------------------------------------------------------------
(* Jobs whose reservation ends, and deleted jobs. *)

\* What a step does to the job table when it changes job j only.
OnlyJob(j) == job' \in [JobIds -> Job] /\ \A k \in JobIds \ {j} : job'[k] = job[k]

\* unreserveJob takes the job off its connection's list and nothing else.
LEMMA UnreserveConn ==
    ASSUME Parts, NEW c \in Conns, NEW j \in JobIds, Unreserve(c, j)
    PROVE  /\ conn' \in [Conns -> Conn]
           /\ \A e \in Conns : /\ conn'[e].use = conn[e].use /\ conn'[e].watch = conn[e].watch
                               /\ conn'[e].inJob = conn[e].inJob
                               /\ conn[e].inJob \in JobIds \cup {0}
                               /\ conn'[e].phase = conn[e].phase
                               /\ conn'[e].reserved = IF e = c THEN conn[e].reserved \ {j}
                                                               ELSE conn[e].reserved
           /\ \A t \in Tubes : SameRefs(conn, conn', t)
           /\ nextId' = nextId /\ drain' = drain /\ doomed' \in SUBSET JobIds
<1>0. conn \in [Conns -> Conn] /\ doomed \in SUBSET JobIds
  BY DEF Parts, TypeOK
<1> DEFINE cl == [conn[c] EXCEPT !.reserved = @ \ {j}]
<1>1. conn' = [conn EXCEPT ![c] = cl]
  BY DEF Unreserve
<1>2. /\ cl \in Conn /\ cl.use = conn[c].use /\ cl.watch = conn[c].watch
      /\ cl.inJob = conn[c].inJob /\ cl.phase = conn[c].phase
      /\ cl.reserved = conn[c].reserved \ {j}
  BY <1>0 DEF Conn
<1>3. \A e \in Conns : conn[e].inJob \in JobIds \cup {0}
  BY <1>0 DEF Conn
<1> HIDE DEF cl
<1>4. conn' \in [Conns -> Conn] /\ conn'[c] = cl /\ \A e \in Conns \ {c} : conn'[e] = conn[e]
  BY <1>0, <1>1, <1>2
<1>5. \A e \in Conns : /\ conn'[e].use = conn[e].use /\ conn'[e].watch = conn[e].watch
                       /\ conn'[e].inJob = conn[e].inJob
                       /\ conn'[e].phase = conn[e].phase
                       /\ conn'[e].reserved = IF e = c THEN conn[e].reserved \ {j}
                                                       ELSE conn[e].reserved
  BY <1>2, <1>4
<1>6. \A t \in Tubes : SameRefs(conn, conn', t)
  BY <1>5, RefsFrame
<1>7. nextId' = nextId /\ drain' = drain /\ doomed' \in SUBSET JobIds
  BY <1>0 DEF Unreserve
<1> QED BY <1>3, <1>4, <1>5, <1>6, <1>7

\* The job is nobody's any more; ownership of the others is as before.
LEMMA UnreserveOwners ==
    ASSUME Parts, NEW c \in Conns, NEW j \in JobIds, Unreserve(c, j), OnlyJob(j),
           job[j].state = "reserved" => job[j].reserver = c,
           job'[j].state # "reserved", job'[j].reserver = NoConn
    PROVE  OwnersHold(job', conn')
<1>1. \A e \in Conns : conn'[e].reserved = IF e = c THEN conn[e].reserved \ {j}
                                                    ELSE conn[e].reserved
  BY UnreserveConn
<1>2. \A k \in JobIds :
         /\ \A e \in Conns : k \in conn[e].reserved <=>
                               job[k].state = "reserved" /\ job[k].reserver = e
         /\ job[k].state = "reserved" <=> job[k].reserver # NoConn
  BY PartsTypes DEF OwnersHold
<1>3. ASSUME NEW e \in Conns PROVE j \notin conn'[e].reserved
  <2>1. CASE e = c
    BY <2>1, <1>1
  <2>2. CASE e # c
    <3>1. j \notin conn[e].reserved
      BY <2>2, <1>2
    <3> QED BY <3>1, <2>2, <1>1
  <2> QED BY <2>1, <2>2
<1>4. ASSUME NEW k \in JobIds \ {j}
      PROVE  /\ \A e \in Conns : k \in conn'[e].reserved <=>
                                   job'[k].state = "reserved" /\ job'[k].reserver = e
             /\ job'[k].state = "reserved" <=> job'[k].reserver # NoConn
  <2>1. job'[k] = job[k]
    BY DEF OnlyJob
  <2>2. \A e \in Conns : k \in conn'[e].reserved <=> k \in conn[e].reserved
    BY <1>1
  <2> QED BY <2>1, <2>2, <1>2
<1> QED BY <1>3, <1>4 DEF OwnersHold

\* The end of a reservation leaves the puts in progress alone.
LEMMA UnreservePuts ==
    ASSUME Parts, NEW c \in Conns, NEW j \in JobIds, Unreserve(c, j), OnlyJob(j),
           job[j].state # "invalid"
    PROVE  PutsHold(job', conn', nextId')
<1>1. \A e \in Conns : /\ conn'[e].inJob = conn[e].inJob
                       /\ conn[e].inJob \in JobIds \cup {0}
                       /\ conn'[e].use = conn[e].use
                       /\ conn'[e].phase = "data" <=> conn[e].phase = "data"
                       /\ conn'[e].phase = "closed" =>
                             conn'[e].reserved = {} /\ conn'[e].watch = {}
  <2>1. \A e \in Conns : conn[e].phase = "closed" => conn[e].reserved = {} /\ conn[e].watch = {}
    BY PartsTypes DEF PutsHold, PutHolds
  <2>2. SUFFICES ASSUME NEW e \in Conns
                 PROVE  /\ conn'[e].inJob = conn[e].inJob
                        /\ conn[e].inJob \in JobIds \cup {0}
                        /\ conn'[e].use = conn[e].use
                        /\ conn'[e].phase = "data" <=> conn[e].phase = "data"
                        /\ conn'[e].phase = "closed" =>
                              conn'[e].reserved = {} /\ conn'[e].watch = {}
    OBVIOUS
  <2>3. /\ conn'[e].use = conn[e].use /\ conn'[e].watch = conn[e].watch
        /\ conn'[e].inJob = conn[e].inJob /\ conn[e].inJob \in JobIds \cup {0}
        /\ conn'[e].phase = conn[e].phase
        /\ conn'[e].reserved \subseteq conn[e].reserved
    BY UnreserveConn
  <2> QED BY <2>1, <2>3
<1>2. \A k \in JobIds : job[k].state = "invalid" =>
                           job'[k].state = "invalid" /\ job'[k].tube = job[k].tube
  BY DEF OnlyJob
<1>3. nextId' = nextId /\ PutsHold(job, conn, nextId)
  BY UnreserveConn, PartsTypes
<1> QED BY <1>1, <1>2, <1>3, PutsFrame

\* A tube map that is in order for the old connections is for the new ones.
LEMMA UnreserveMap ==
    ASSUME Parts, NEW c \in Conns, NEW j \in JobIds, Unreserve(c, j),
           NEW T, NEW jobs, MapHolds(T, jobs, conn)
    PROVE  MapHolds(T, jobs, conn')
<1>1. \A t \in Tubes : SameRefs(conn, conn', t)
  BY UnreserveConn
<1>2. T \in [Tubes -> Tube] /\ \A u \in Tubes : SameBook(T[u], T[u])
  BY DEF MapHolds, SameBook
<1>3. \A k \in JobIds : Undisturbed(jobs, jobs, k)
  BY DEF Undisturbed, SameFiling
<1> QED BY <1>1, <1>2, <1>3, MapFrame

\* delete, and the drop of a job of a tombstoned tube.
LEMMA ForgetStep ==
    ASSUME Parts, NEW c \in Conns, NEW j \in JobIds, Unreserve(c, j),
           job[j].state # "invalid",
           job[j].state = "reserved" => job[j].reserver = c,
           NEW s, s = job[j].state, Forget(j, s)
    PROVE  Parts'
<1> DEFINE t == job[j].tube
           T1 == [tube EXCEPT ![t] = Unlink(@, s, j)]
<1>0. /\ job' = [job EXCEPT ![j] = NoJob] /\ tube' = gcTube(T1, {t})
      /\ count' = Leave(count, s, {j}, job) /\ saved' = [saved EXCEPT ![j] = NoImage]
  BY DEF Forget
<1>1. /\ job \in [JobIds -> Job] /\ saved \in [JobIds -> Saved] /\ count \in [Counters -> Int]
      /\ tube \in [Tubes -> Tube] /\ t \in Tubes /\ s \in QueueStates
  BY DEF Parts, TypeOK, Job, JobStates, QueueStates
<1>2. /\ NoJob \in Job /\ NoJob.state = "invalid" /\ NoJob.reserver = NoConn
      /\ NoImage \in Saved /\ NoImage.stored = FALSE
  BY TubesAssumption DEF NoJob, Job, JobStates, DelayKinds, NoImage, Saved
<1>3. OnlyJob(j) /\ job'[j] = NoJob
  BY <1>0, <1>1, <1>2 DEF OnlyJob
<1> HIDE DEF t
<1>4. MapHolds(tube', job', conn') /\ tube'[Default].live
  <2>1. /\ job[j].state = s /\ job[j].tube = t /\ job'[j].state = "invalid"
        /\ \A k \in JobIds \ {j} : SameFiling(job, job', k)
    BY <1>2, <1>3 DEF t, OnlyJob, SameFiling
  <2>2. MapHolds(T1, job', conn)
    BY <2>1, <1>1, PartsTypes, MapUnlink
  <2>3. SameLive(tube, T1)
    BY <1>1, LiveKept
  <2> HIDE DEF T1
  <2>4. \A k \in JobIds : job'[k].state \in JobStates
    BY <1>3 DEF OnlyJob, Job
  <2>5. MapHolds(tube', job', conn)
    BY <2>2, <2>4, <1>0, MapGc
  <2>6. tube'[Default] = T1[Default]
    BY <1>0, TubesAssumption DEF gcTube
  <2>7. tube'[Default].live
    BY <2>3, <2>6, PartsTypes DEF SameLive
  <2> QED BY <2>5, <2>7, UnreserveMap
<1>5. OwnersHold(job', conn')
  BY <1>2, <1>3, UnreserveOwners
<1>6. PutsHold(job', conn', nextId')
  BY <1>3, UnreservePuts
<1>7. /\ saved' \in [JobIds -> Saved] /\ saved'[j] = NoImage
      /\ \A k \in JobIds \ {j} : saved'[k] = saved[k]
  BY <1>0, <1>1, <1>2
<1>8. \A k \in JobIds : StoreHolds(job'[k], saved'[k])
  <2>1. StoreHolds(job'[j], saved'[j])
    BY <1>2, <1>3, <1>7 DEF StoreHolds
  <2>2. \A k \in JobIds \ {j} : StoreHolds(job'[k], saved'[k])
    BY <1>3, <1>7, PartsTypes DEF OnlyJob
  <2> QED BY <2>1, <2>2
<1>9. count' \in [Counters -> Int]
  <2> DEFINE J == {j}
  <2>1. J \subseteq JobIds
    OBVIOUS
  <2> HIDE DEF J
  <2>2. Left(Leave(count, s, J, job), count, s, J)
    BY <2>1, <1>1, CtProps
  <2> QED BY <2>2, <1>0 DEF Left, J
<1>10. TypeOK'
  <2>1. tube' \in [Tubes -> Tube] /\ conn' \in [Conns -> Conn]
    BY <1>4, UnreserveConn DEF MapHolds
  <2>2. job' \in [JobIds -> Job] /\ nextId' \in 1 .. MaxId + 1 /\ drain' \in BOOLEAN
        /\ doomed' \in SUBSET JobIds
    BY <1>3, UnreserveConn DEF OnlyJob, Parts, TypeOK
  <2> QED BY <2>1, <2>2, <1>7, <1>9 DEF TypeOK
<1> QED BY <1>4, <1>5, <1>6, <1>8, <1>10 DEF Parts, Good

\* A reserved job that goes to a container of a tube of the map T, in which it
\* is not filed any more.
LEMMA BecomesStep ==
    ASSUME Parts, NEW c \in Conns, NEW j \in JobIds, Unreserve(c, j),
           job[j].state = "reserved", job[j].reserver = c,
           NEW r \in Job, NEW s \in {"ready", "delayed", "buried"}, NEW T,
           MapHolds(T, [job EXCEPT ![j] = NoJob], conn),
           T[r.tube].live, T[Default].live,
           Becomes(j, r, s, T),
           \/ Store(j)
           \/ /\ saved' = saved
              /\ r.tube = job[j].tube /\ r.pri = job[j].pri /\ r.delay = job[j].delay
              /\ job[j].attempts <= r.attempts
    PROVE  Parts'
<1> DEFINE t == r.tube
           jb == [r EXCEPT !.state = s, !.reserver = NoConn]
           jobs1 == [job EXCEPT ![j] = NoJob]
           T2 == [T EXCEPT ![t] = Link(@, s, j, job')]
<1>1. /\ job \in [JobIds -> Job] /\ saved \in [JobIds -> Saved] /\ count \in [Counters -> Int]
      /\ t \in Tubes /\ s \in QueueStates /\ "reserved" \in QueueStates
  BY DEF Parts, TypeOK, Job, QueueStates
<1>2. /\ jb \in Job /\ jb.state = s /\ jb.reserver = NoConn /\ jb.tube = t
      /\ jb.pri = r.pri /\ jb.delay = r.delay /\ jb.attempts = r.attempts
      /\ jb.attempts \in Nat /\ jb.pri \in Nat /\ jb.delay \in DelayKinds
  BY DEF Job, JobStates
<1>3. /\ job' = [job EXCEPT ![j] = jb] /\ tube' = T2
      /\ count' = Enter(Leave(count, "reserved", {j}, job), s, {j}, job')
  BY DEF Becomes
<1> HIDE DEF jb, t
<1>4. OnlyJob(j) /\ job'[j] = jb
  BY <1>1, <1>2, <1>3 DEF OnlyJob
<1>5. MapHolds(tube', job', conn') /\ tube'[Default].live
  <2>1. /\ jobs1[j].state = "invalid"
        /\ \A k \in JobIds \ {j} : SameFiling(jobs1, job', k)
    BY <1>1, <1>4 DEF NoJob, OnlyJob, SameFiling
  <2>2. job'[j].state = s /\ job'[j].tube = t /\ T[t].live
    BY <1>2, <1>4 DEF t
  <2> HIDE DEF jobs1
  <2>3. MapHolds(T, jobs1, conn)
    BY DEF jobs1
  <2>4. MapHolds(T2, job', conn)
    BY <2>1, <2>2, <2>3, <1>1, MapLink
  <2>5. SameLive(T, T2)
    BY <2>3, <1>1, LiveKept DEF MapHolds
  <2> HIDE DEF T2
  <2>6. tube'[Default].live
    BY <2>5, <1>3, TubesAssumption DEF SameLive
  <2> QED BY <2>4, <2>6, <1>3, UnreserveMap
<1>6. OwnersHold(job', conn')
  BY <1>2, <1>4, UnreserveOwners
<1>7. PutsHold(job', conn', nextId')
  BY <1>4, UnreservePuts
<1>8. saved' \in [JobIds -> Saved] /\ \A k \in JobIds : StoreHolds(job'[k], saved'[k])
  <2>0. \A k \in JobIds : StoreHolds(job[k], saved[k])
    BY PartsTypes
  <2>1. CASE Store(j)
    <3>1. Image(jb) \in Saved /\ StoreHolds(jb, Image(jb))
      BY <1>1, <1>2 DEF Image, Saved, StoreHolds
    <3>2. saved' = [saved EXCEPT ![j] = Image(jb)]
      BY <2>1, <1>4 DEF Store
    <3>3. /\ saved'[j] = Image(jb) /\ saved' \in [JobIds -> Saved]
          /\ \A k \in JobIds \ {j} : saved'[k] = saved[k]
      BY <3>1, <3>2, <1>1
    <3>4. \A k \in JobIds \ {j} : StoreHolds(job'[k], saved'[k])
      BY <3>3, <2>0, <1>4 DEF OnlyJob
    <3> QED BY <3>1, <3>3, <3>4, <1>4
  <2>2. CASE /\ saved' = saved
             /\ r.tube = job[j].tube /\ r.pri = job[j].pri /\ r.delay = job[j].delay
             /\ job[j].attempts <= r.attempts
    <3>1. saved[j].attempts \in Nat /\ job[j].attempts \in Nat
      BY <1>1 DEF Saved, Job
    <3>2. StoreHolds(job[j], saved[j])
      BY <2>0
    <3>3. StoreHolds(jb, saved[j])
      BY <3>1, <3>2, <2>2, <1>2 DEF StoreHolds, t
    <3>4. \A k \in JobIds \ {j} : StoreHolds(job'[k], saved'[k])
      BY <2>0, <2>2, <1>4 DEF OnlyJob
    <3> QED BY <3>3, <3>4, <2>2, <1>1, <1>4
  <2> QED BY <2>1, <2>2
<1>9. count' \in [Counters -> Int]
  <2> DEFINE J == {j}
             ct1 == Leave(count, "reserved", J, job)
  <2>1. J \subseteq JobIds
    OBVIOUS
  <2> HIDE DEF J
  <2>2. Left(ct1, count, "reserved", J)
    BY <2>1, <1>1, CtProps
  <2>3. ct1 \in [Counters -> Int]
    BY <2>2 DEF Left
  <2>4. count' = Enter(ct1, s, J, job')
    BY <1>3 DEF J
  <2> HIDE DEF ct1
  <2>5. Entered(Enter(ct1, s, J, job'), ct1, s, J)
    BY <2>1, <2>3, <1>1, CtProps
  <2> QED BY <2>4, <2>5 DEF Entered
<1>10. TypeOK'
  <2>1. tube' \in [Tubes -> Tube] /\ conn' \in [Conns -> Conn]
    BY <1>5, UnreserveConn DEF MapHolds
  <2>2. job' \in [JobIds -> Job] /\ nextId' \in 1 .. MaxId + 1 /\ drain' \in BOOLEAN
        /\ doomed' \in SUBSET JobIds
    BY <1>4, UnreserveConn DEF OnlyJob, Parts, TypeOK
  <2> QED BY <2>1, <2>2, <1>8, <1>9 DEF TypeOK
<1> QED BY <1>5, <1>6, <1>7, <1>8, <1>10 DEF Parts, Good

\* The tube map once a reserved job has left its tube.
LEMMA UnreservedMap ==
    ASSUME Parts, NEW j \in JobIds, job[j].state = "reserved"
    PROVE  /\ MapHolds(Unreserved(j), [job EXCEPT ![j] = NoJob], conn)
           /\ SameLive(tube, Unreserved(j))
           /\ job[j].tube \in Tubes /\ tube[job[j].tube].live
<1> DEFINE t == job[j].tube
           jobs1 == [job EXCEPT ![j] = NoJob]
           s == "reserved"
           T1 == [tube EXCEPT ![t] = Unlink(@, s, j)]
<1>1. job \in [JobIds -> Job] /\ tube \in [Tubes -> Tube] /\ t \in Tubes /\ s \in QueueStates
  BY DEF Parts, TypeOK, Job, QueueStates
<1>2. /\ jobs1[j].state = "invalid" /\ job[j].state = s /\ job[j].tube = t
      /\ \A k \in JobIds \ {j} : SameFiling(job, jobs1, k)
  BY <1>1 DEF NoJob, SameFiling
<1>3. Unreserved(j) = T1
  BY DEF Unreserved
<1> HIDE DEF jobs1, t, s
<1>4. MapHolds(T1, jobs1, conn)
  BY <1>1, <1>2, PartsTypes, MapUnlink
<1>5. SameLive(tube, T1)
  BY <1>1, LiveKept
<1>6. tube[t].live
  <2>1. ~Elsewhere(job, j, t)
    BY <1>2 DEF Elsewhere
  <2> QED BY <2>1, <1>1, PartsTypes DEF MapHolds, TubeHolds
<1> QED BY <1>1, <1>3, <1>4, <1>5, <1>6 DEF jobs1, t

\* The job goes back to, or is buried in, the tube it came from.
LEMMA BackStep ==
    ASSUME Parts, NEW c \in Conns, NEW j \in JobIds, Unreserve(c, j),
           job[j].state = "reserved", job[j].reserver = c,
           NEW r \in Job, r.tube = job[j].tube, NEW s \in {"ready", "delayed", "buried"},
           Becomes(j, r, s, Unreserved(j)),
           \/ Store(j)
           \/ /\ saved' = saved
              /\ r.pri = job[j].pri /\ r.delay = job[j].delay
              /\ job[j].attempts <= r.attempts
    PROVE  Parts'
<1>1. MapHolds(Unreserved(j), [job EXCEPT ![j] = NoJob], conn)
  BY UnreservedMap
<1>2. Unreserved(j)[r.tube].live /\ Unreserved(j)[Default].live
  BY UnreservedMap, PartsTypes DEF SameLive
<1>3. \/ Store(j)
      \/ /\ saved' = saved
         /\ r.tube = job[j].tube /\ r.pri = job[j].pri /\ r.delay = job[j].delay
         /\ job[j].attempts <= r.attempts
  OBVIOUS
<1> QED BY <1>1, <1>2, <1>3, BecomesStep

\* The job goes to the dead-letter tube, which makeTube puts into the map.
LEMMA DeadLetterStep ==
    ASSUME Parts, NEW c \in Conns, NEW j \in JobIds, Unreserve(c, j),
           job[j].state = "reserved", job[j].reserver = c,
           NEW r \in Job, checkDeadLetter(j, r)
    PROVE  Parts'
<1> DEFINE dead == tube[r.tube].dead
           T == makeTube(Unreserved(j), dead)
           q == [r EXCEPT !.tube = dead]
           jobs1 == [job EXCEPT ![j] = NoJob]
<1>1. dead \in Tubes /\ r.tube \in Tubes
  BY DEF Parts, TypeOK, Tube, Job
<1>2. q \in Job /\ q.tube = dead
  BY <1>1 DEF Job
<1>3. Becomes(j, q, "buried", T) /\ Store(j)
  BY DEF checkDeadLetter
<1> HIDE DEF dead, q
<1>4. MapHolds(Unreserved(j), jobs1, conn) /\ Unreserved(j)[Default].live
  BY UnreservedMap, PartsTypes DEF SameLive
<1> HIDE DEF jobs1
<1>5. MapHolds(T, jobs1, conn) /\ T[dead].live
  BY <1>1, <1>4, MapMake
<1>6. T[Default].live
  BY <1>1, <1>4, NewTubeProps, TubesAssumption DEF makeTube, MapHolds
<1> HIDE DEF T
<1> QED BY <1>2, <1>3, <1>5, <1>6, BecomesStep DEF jobs1

\* A failed delivery counts one attempt and keeps the job's tube.
LEMMA FailedType ==
    ASSUME Parts, NEW j \in JobIds, NEW p \in Nat, NEW d \in DelayKinds
    PROVE  /\ Failed(j) \in Job /\ Failed(j).tube = job[j].tube
           /\ Failed(j).pri = job[j].pri /\ Failed(j).delay = job[j].delay
           /\ job[j].attempts <= Failed(j).attempts
           /\ [Failed(j) EXCEPT !.pri = p, !.delay = d] \in Job
           /\ [Failed(j) EXCEPT !.pri = p, !.delay = d].tube = job[j].tube
           /\ [job[j] EXCEPT !.pri = p] \in Job
           /\ [job[j] EXCEPT !.pri = p].tube = job[j].tube
<1> DEFINE n == IF job[j].attempts < AttemptCap THEN job[j].attempts + 1
                                                ELSE job[j].attempts
<1>1. job[j] \in Job /\ job[j].attempts \in Nat
  BY DEF Parts, TypeOK, Job
<1>2. n \in Nat /\ job[j].attempts <= n
  BY <1>1
<1>3. Failed(j) = [job[j] EXCEPT !.attempts = n]
  BY DEF Failed
<1> HIDE DEF n
<1>4. /\ Failed(j) \in Job /\ Failed(j).tube = job[j].tube
      /\ Failed(j).pri = job[j].pri /\ Failed(j).delay = job[j].delay
      /\ Failed(j).attempts = n
  BY <1>1, <1>2, <1>3 DEF Job
<1>5. /\ [Failed(j) EXCEPT !.pri = p, !.delay = d] \in Job
      /\ [Failed(j) EXCEPT !.pri = p, !.delay = d].tube = job[j].tube
  BY <1>4 DEF Job
<1>6. /\ [job[j] EXCEPT !.pri = p] \in Job
      /\ [job[j] EXCEPT !.pri = p].tube = job[j].tube
  BY <1>1 DEF Job
<1> QED BY <1>2, <1>4, <1>5, <1>6

\* delete: the job leaves its container, the index and storage.
LEMMA DeleteStep ==
    ASSUME Parts, NEW c \in Conns, NEW j \in JobIds, handleDelete(c, j)
    PROVE  Parts'
<1>1. /\ Unreserve(c, j) /\ job[j].state # "invalid" /\ Forget(j, job[j].state)
      /\ job[j].state = "reserved" => job[j].reserver = c
  BY DEF handleDelete
<1> QED BY <1>1, ForgetStep

\* release: dropped under a tombstone, dead-lettered, or queued again.
LEMMA ReleaseStep ==
    ASSUME Parts, NEW c \in Conns, NEW j \in JobIds, NEW p \in Pris,
           NEW d \in Delays \ {"at"}, handleRelease(c, j, p, d)
    PROVE  Parts'
<1> DEFINE r == [Failed(j) EXCEPT !.pri = p, !.delay = d]
<1>1. Unreserve(c, j) /\ job[j].state = "reserved" /\ job[j].reserver = c
  BY DEF handleRelease, Holds
<1>2. p \in Nat /\ d \in DelayKinds /\ Queue(d) \in {"ready", "delayed"}
  BY InputAssumption DEF Queue
<1>3. r \in Job /\ r.tube = job[j].tube
  BY <1>2, FailedType
<1>4. \/ Forget(j, "reserved")
      \/ checkDeadLetter(j, r)
      \/ Becomes(j, r, Queue(d), Unreserved(j)) /\ Store(j)
  BY DEF handleRelease
<1> HIDE DEF r
<1>5. CASE Forget(j, "reserved")
  BY <1>1, <1>5, ForgetStep
<1>6. CASE checkDeadLetter(j, r)
  BY <1>1, <1>3, <1>6, DeadLetterStep
<1>7. CASE Becomes(j, r, Queue(d), Unreserved(j)) /\ Store(j)
  <2>1. Queue(d) \in {"ready", "delayed", "buried"}
    BY <1>2
  <2> QED BY <2>1, <1>1, <1>3, <1>7, BackStep
<1> QED BY <1>4, <1>5, <1>6, <1>7

\* bury: dropped under a tombstone, or appended to the buried list.
LEMMA BuryStep ==
    ASSUME Parts, NEW c \in Conns, NEW j \in JobIds, NEW p \in Pris, handleBury(c, j, p)
    PROVE  Parts'
<1> DEFINE r == [job[j] EXCEPT !.pri = p]
<1>1. Unreserve(c, j) /\ job[j].state = "reserved" /\ job[j].reserver = c
  BY DEF handleBury, Holds
<1>2. r \in Job /\ r.tube = job[j].tube
  BY InputAssumption, FailedType DEF DelayKinds
<1>3. \/ Forget(j, "reserved")
      \/ Becomes(j, r, "buried", Unreserved(j)) /\ Store(j)
  BY DEF handleBury
<1> HIDE DEF r
<1>4. CASE Forget(j, "reserved")
  BY <1>1, <1>4, ForgetStep
<1>5. CASE Becomes(j, r, "buried", Unreserved(j)) /\ Store(j)
  BY <1>1, <1>2, <1>5, BackStep
<1> QED BY <1>3, <1>4, <1>5

\* A TTR that runs out: dropped, dead-lettered, or ready again.
LEMMA ExpireStep ==
    ASSUME Parts, NEW j \in JobIds, tickExpire(j)
    PROVE  Parts'
<1> DEFINE r == Failed(j)
<1>1. job[j].state = "reserved" /\ job[j].reserver \in Conns
  <2>1. job[j].reserver \in Conns \cup {NoConn}
    BY DEF Parts, TypeOK, Job
  <2> QED BY <2>1, PartsTypes DEF tickExpire, OwnersHold
<1>2. PICK c \in Conns : Unreserve(c, j) /\ job[j].reserver = c
  BY <1>1 DEF tickExpire
<1>3. /\ r \in Job /\ r.tube = job[j].tube /\ r.pri = job[j].pri
      /\ r.delay = job[j].delay /\ job[j].attempts <= r.attempts
  BY FailedType DEF DelayKinds
<1>4. \/ Forget(j, "reserved")
      \/ checkDeadLetter(j, r)
      \/ Becomes(j, r, "ready", Unreserved(j)) /\ saved' = saved
  BY DEF tickExpire
<1> HIDE DEF r
<1>5. CASE Forget(j, "reserved")
  BY <1>1, <1>2, <1>5, ForgetStep
<1>6. CASE checkDeadLetter(j, r)
  BY <1>1, <1>2, <1>3, <1>6, DeadLetterStep
<1>7. CASE Becomes(j, r, "ready", Unreserved(j)) /\ saved' = saved
  BY <1>1, <1>2, <1>3, <1>7, BackStep
<1> QED BY <1>4, <1>5, <1>6, <1>7

-----------------------------------------------------------------------------
(* Jobs that turn ready, and tubes that are emptied. *)

\* The jobs of K, all in state s of tube t, move to its ready heap.
LEMMA MakeReadyStep ==
    ASSUME Parts, NEW t \in Tubes, NEW tb, NEW s \in {"buried", "delayed"}, NEW K,
           K \subseteq JobIds, \A k \in K : job[k].state = s /\ job[k].tube = t,
           Without(tb, tube[t], s, K), MakeReady(t, tb, s, K)
    PROVE  Parts'
<1> DEFINE r == ReadyAgain(tb, s, K, job)
<1>0. /\ job' = [j \in JobIds |-> IF j \in K THEN [job[j] EXCEPT !.state = "ready"] ELSE job[j]]
      /\ tube' = [tube EXCEPT ![t] = r]
      /\ count' = Enter(Leave(count, s, K, job), "ready", K, job)
      /\ saved' = [j \in JobIds |-> IF j \in K THEN Image(job[j]) ELSE saved[j]]
      /\ UNCHANGED <<nextId, conn, drain, doomed>>
  BY DEF MakeReady, ReadyAgain
<1>1. /\ job \in [JobIds -> Job] /\ saved \in [JobIds -> Saved] /\ count \in [Counters -> Int]
      /\ tube \in [Tubes -> Tube] /\ conn \in [Conns -> Conn]
      /\ s \in QueueStates /\ "ready" \in QueueStates
  BY DEF Parts, TypeOK, QueueStates
<1>2. ASSUME NEW k \in K
      PROVE  /\ job'[k] \in Job /\ job'[k].state = "ready" /\ job'[k].tube = t
             /\ job'[k].reserver = job[k].reserver /\ job'[k].pri = job[k].pri
             /\ job'[k].delay = job[k].delay /\ job'[k].attempts = job[k].attempts
             /\ saved'[k] = Image(job[k])
  BY <1>0, <1>1 DEF Job, JobStates
<1>3. \A k \in JobIds \ K : job'[k] = job[k] /\ saved'[k] = saved[k]
  BY <1>0
<1>4. job' \in [JobIds -> Job]
  <2>1. \A k \in JobIds : job'[k] \in Job
    BY <1>1, <1>2, <1>3
  <2> QED BY <2>1, <1>0
<1> HIDE DEF r
<1>5. MapHolds(tube', job', conn') /\ tube'[Default].live
  <2>1. TubeHolds(tube[t], t, job, conn)
    BY PartsTypes DEF MapHolds
  <2>2. TurnReady(job, job', t, s, K)
    BY <1>2, <1>3 DEF SameFiling, TurnReady
  <2>3. TubeHolds(r, t, job', conn)
    <3>1. TubeHolds(ReadyAgain(tb, s, K, job), t, job', conn)
      BY <2>1, <2>2, ReadyHolds
    <3> QED BY <3>1 DEF r
  <2>4. \A k \in JobIds :
           \/ SameFiling(job, job', k)
           \/ job[k].tube = t /\ (job'[k].tube = t \/ job'[k].state = "invalid")
    BY <2>2 DEF TurnReady
  <2>5. MapHolds(tube', job', conn)
    BY <2>3, <2>4, <1>0, PartsTypes, MapOne
  <2>6. r.live = tube[t].live
    BY DEF r, ReadyAgain, Without, Tube
  <2>7. tube'[Default].live
    BY <2>6, <1>0, <1>1, PartsTypes
  <2> QED BY <2>5, <2>7, <1>0
<1>6. OwnersHold(job', conn')
  <2>1. \A k \in JobIds : job'[k].state = "reserved" <=> job[k].state = "reserved"
    BY <1>2, <1>3
  <2>2. \A k \in JobIds : job'[k].reserver = job[k].reserver
    BY <1>2, <1>3
  <2> QED BY <2>1, <2>2, <1>0, PartsTypes DEF OwnersHold
<1>7. PutsHold(job', conn', nextId')
  <2>1. conn' = conn /\ nextId' = nextId /\ PutsHold(job, conn, nextId)
    BY <1>0, PartsTypes
  <2>2. \A k \in JobIds : job[k].state = "invalid" =>
                             job'[k].state = "invalid" /\ job'[k].tube = job[k].tube
    BY <1>3
  <2>3. \A e \in Conns : /\ conn[e].inJob \in JobIds \cup {0}
                         /\ conn[e].phase = "closed" =>
                               conn[e].reserved = {} /\ conn[e].watch = {}
    BY <1>1, PartsTypes DEF Conn, PutsHold, PutHolds
  <2>4. PutsHold(job', conn, nextId)
    BY <2>1, <2>2, <2>3, PutsFrame
  <2> QED BY <2>1, <2>4
<1>8. saved' \in [JobIds -> Saved] /\ \A k \in JobIds : StoreHolds(job'[k], saved'[k])
  <2>1. ASSUME NEW k \in K PROVE saved'[k] \in Saved /\ StoreHolds(job'[k], saved'[k])
    <3>1. job[k] \in Job
      BY <1>1
    <3>2. Image(job[k]) \in Saved
      BY <3>1 DEF Job, Image, Saved
    <3>3. StoreHolds(job'[k], Image(job[k]))
      <4>1. /\ job'[k].state = "ready" /\ job'[k].tube = job[k].tube
            /\ job'[k].pri = job[k].pri /\ job'[k].delay = job[k].delay
            /\ job'[k].attempts = job[k].attempts /\ job[k].attempts \in Nat
        BY <3>1, <1>2 DEF Job
      <4>2. /\ Image(job[k]).stored /\ Image(job[k]).tube = job[k].tube
            /\ Image(job[k]).pri = job[k].pri /\ Image(job[k]).delay = job[k].delay
            /\ Image(job[k]).attempts = job[k].attempts
        BY DEF Image
      <4> QED BY <4>1, <4>2 DEF StoreHolds
    <3> QED BY <3>2, <3>3, <1>2
  <2>2. ASSUME NEW k \in JobIds \ K PROVE saved'[k] \in Saved /\ StoreHolds(job'[k], saved'[k])
    BY <1>1, <1>3, PartsTypes
  <2>3. \A k \in JobIds : saved'[k] \in Saved /\ StoreHolds(job'[k], saved'[k])
    BY <2>1, <2>2
  <2> QED BY <2>3, <1>0
<1>9. count' \in [Counters -> Int]
  <2> DEFINE ct1 == Leave(count, s, K, job)
  <2>1. Left(ct1, count, s, K)
    BY <1>1, CtProps
  <2>2. ct1 \in [Counters -> Int]
    BY <2>1 DEF Left
  <2>3. count' = Enter(ct1, "ready", K, job)
    BY <1>0
  <2> HIDE DEF ct1
  <2>4. Entered(Enter(ct1, "ready", K, job), ct1, "ready", K)
    BY <2>2, <1>1, CtProps
  <2> QED BY <2>3, <2>4 DEF Entered
<1>10. TypeOK'
  <2>1. tube' \in [Tubes -> Tube]
    BY <1>5 DEF MapHolds
  <2> QED BY <2>1, <1>0, <1>4, <1>8, <1>9 DEF Parts, TypeOK
<1> QED BY <1>5, <1>6, <1>7, <1>8, <1>10 DEF Parts, Good

\* Delayed jobs out of the delay heap, a buried job or the first buried jobs
\* out of the buried list.
LEMMA WithoutDelayed ==
    ASSUME Parts, NEW t \in Tubes, NEW K, K \subseteq tube[t].delay
    PROVE  /\ K \subseteq JobIds /\ \A k \in K : job[k].state = "delayed" /\ job[k].tube = t
           /\ Without([tube[t] EXCEPT !.delay = @ \ K], tube[t], "delayed", K)
<1>1. tube[t] \in Tube /\ TubeHolds(tube[t], t, job, conn)
  BY PartsTypes DEF MapHolds, TubeHolds
<1>2. K \subseteq JobIds /\ \A k \in K : job[k].state = "delayed" /\ job[k].tube = t
  BY <1>1 DEF TubeHolds, FiledIn, Tube
<1> DEFINE r == [tube[t] EXCEPT !.delay = @ \ K]
<1>3. /\ r \in Tube /\ r.ready = tube[t].ready /\ r.ct = tube[t].ct /\ r.live = tube[t].live
      /\ r.using = tube[t].using /\ r.watching = tube[t].watching
      /\ r.delay = tube[t].delay \ K /\ r.buried = tube[t].buried
  BY <1>1 DEF Tube
<1> HIDE DEF r
<1>4. Without(r, tube[t], "delayed", K)
  BY <1>1, <1>3 DEF Without, TubeHolds
<1> QED BY <1>2, <1>4 DEF r

\* tick moves a delayed job to the ready heap.
LEMMA PromoteStep ==
    ASSUME Parts, NEW t \in Tubes, NEW j \in JobIds, tickPromote(t, j)
    PROVE  Parts'
<1> DEFINE K == {j}
           r == [tube[t] EXCEPT !.delay = @ \ K]
<1>1. K \subseteq tube[t].delay /\ MakeReady(t, r, "delayed", K)
  BY DEF tickPromote
<1> HIDE DEF K
<1>2. /\ K \subseteq JobIds /\ \A k \in K : job[k].state = "delayed" /\ job[k].tube = t
      /\ Without(r, tube[t], "delayed", K)
  BY <1>1, WithoutDelayed
<1> HIDE DEF r
<1> QED BY <1>1, <1>2, MakeReadyStep

\* kickTube moves a prefix of the buried list, or some delayed jobs.
LEMMA KickTubeStep ==
    ASSUME Parts, NEW t \in Tubes, NEW b \in KickBounds, kickTube(t, b)
    PROVE  Parts'
<1> DEFINE tb == tube[t]
           n == Min({b, Len(tb.buried)})
<1>1. /\ tb \in Tube /\ TubeHolds(tb, t, job, conn) /\ tb.buried \in Seq(JobIds)
      /\ IsInjective(tb.buried)
  BY PartsTypes DEF MapHolds, TubeHolds, Tube
<1>2. Len(tb.buried) \in Nat /\ b \in Nat
  BY <1>1, InputAssumption
<1>3. n \in Nat /\ n <= Len(tb.buried)
  BY <1>2, MinOfTwo
<1> HIDE DEF n
<1>4. CASE /\ n > 0
           /\ MakeReady(t, [tb EXCEPT !.buried = SubSeq(@, n + 1, Len(@))], "buried",
                        ToSet(SubSeq(tb.buried, 1, n)))
  <2> DEFINE u == SubSeq(tb.buried, 1, n)
             v == SubSeq(tb.buried, n + 1, Len(tb.buried))
             K == ToSet(u)
             r == [tb EXCEPT !.buried = v]
  <2>1. n \in 1 .. Len(tb.buried)
    BY <1>2, <1>3, <1>4
  <2>2. /\ u \in Seq(JobIds) /\ v \in Seq(JobIds)
        /\ Len(u) = n /\ Len(v) = Len(tb.buried) - n
        /\ IsInjective(u) /\ IsInjective(v)
        /\ ToSet(v) = ToSet(tb.buried) \ K /\ K \subseteq ToSet(tb.buried)
    BY <2>1, <1>1, SplitList
  <2>3. MakeReady(t, r, "buried", K)
    BY <1>4
  <2>4. Cardinality(K) = n
    <3> HIDE DEF u
    <3> QED BY <2>2, CardOfList
  <2>5. ToSet(tb.buried) \subseteq JobIds
    BY <1>1 DEF ToSet
  <2> HIDE DEF u, v
  <2>6. K \subseteq JobIds /\ \A k \in K : job[k].state = "buried" /\ job[k].tube = t
    BY <2>2, <2>5, <1>1 DEF TubeHolds, FiledIn
  <2>7. /\ r \in Tube /\ r.ready = tb.ready /\ r.ct = tb.ct /\ r.live = tb.live
        /\ r.using = tb.using /\ r.watching = tb.watching
        /\ r.delay = tb.delay /\ r.buried = v
    BY <2>2, <1>1 DEF Tube
  <2> HIDE DEF r, K
  <2>8. Without(r, tb, "buried", K)
    BY <2>2, <2>4, <2>7 DEF Without
  <2> QED BY <2>3, <2>6, <2>8, MakeReadyStep
<1>5. CASE \E K \in SUBSET tb.delay : MakeReady(t, [tb EXCEPT !.delay = @ \ K], "delayed", K)
  <2>1. PICK K \in SUBSET tb.delay : MakeReady(t, [tb EXCEPT !.delay = @ \ K], "delayed", K)
    BY <1>5
  <2> DEFINE r == [tb EXCEPT !.delay = @ \ K]
  <2>2. /\ K \subseteq JobIds /\ \A k \in K : job[k].state = "delayed" /\ job[k].tube = t
        /\ Without(r, tb, "delayed", K)
    BY WithoutDelayed
  <2>3. MakeReady(t, r, "delayed", K)
    BY <2>1
  <2> HIDE DEF r
  <2> QED BY <2>2, <2>3, MakeReadyStep
<1> QED BY <1>4, <1>5 DEF kickTube, n

\* kick and kick-tube.
LEMMA KickStep ==
    ASSUME Parts, NEW c \in Conns, NEW b \in KickBounds,
           handleKick(c, b) \/ \E t \in Tubes : handleKickTube(c, t, b)
    PROVE  Parts'
<1>1. \E t \in Tubes : kickTube(t, b)
  <2>1. conn[c].use \in Tubes
    BY DEF Parts, TypeOK, Conn
  <2> QED BY <2>1 DEF handleKick, handleKickTube
<1> QED BY <1>1, KickTubeStep

\* kick-job takes one buried or delayed job out of its place.
LEMMA KickJobStep ==
    ASSUME Parts, NEW c \in Conns, NEW j \in JobIds, handleKickJob(c, j)
    PROVE  Parts'
<1> DEFINE t == job[j].tube
           tb == tube[t]
           K == {j}
<1>1. t \in Tubes /\ K \subseteq JobIds /\ Cardinality(K) = 1
  BY PartsTypes, FS_Singleton
<1>2. /\ tb \in Tube /\ TubeHolds(tb, t, job, conn) /\ tb.buried \in Seq(JobIds)
      /\ IsInjective(tb.buried)
  BY <1>1, PartsTypes DEF MapHolds, TubeHolds, Tube
<1>3. CASE /\ job[j].state = "buried"
           /\ MakeReady(t, [tb EXCEPT !.buried = RemoveFirst(@, j)], "buried", K)
  <2> DEFINE v == RemoveFirst(tb.buried, j)
             r == [tb EXCEPT !.buried = v]
  <2>1. j \in ToSet(tb.buried)
    BY <1>2, <1>3 DEF TubeHolds, FiledIn
  <2>2. /\ v \in Seq(JobIds) /\ ToSet(v) = ToSet(tb.buried) \ K /\ IsInjective(v)
        /\ Len(v) = Len(tb.buried) - 1
    BY <2>1, <1>2, RemoveList
  <2> HIDE DEF v
  <2>3. /\ r \in Tube /\ r.ready = tb.ready /\ r.ct = tb.ct /\ r.live = tb.live
        /\ r.using = tb.using /\ r.watching = tb.watching
        /\ r.delay = tb.delay /\ r.buried = v
    BY <2>2, <1>2 DEF Tube
  <2>4. MakeReady(t, r, "buried", K)
    BY <1>3 DEF v
  <2>5. \A k \in K : job[k].state = "buried" /\ job[k].tube = t
    BY <1>3
  <2> HIDE DEF r, K
  <2>6. Without(r, tb, "buried", K)
    BY <2>2, <2>3, <1>1 DEF Without
  <2> HIDE DEF t
  <2> QED BY <2>4, <2>5, <2>6, <1>1, MakeReadyStep
<1>4. CASE /\ job[j].state = "delayed"
           /\ MakeReady(t, [tb EXCEPT !.delay = @ \ K], "delayed", K)
  <2> DEFINE r == [tb EXCEPT !.delay = @ \ K]
  <2>1. K \subseteq tb.delay
    BY <1>2, <1>4 DEF TubeHolds, FiledIn
  <2> HIDE DEF K
  <2>2. \A k \in K : job[k].state = "delayed" /\ job[k].tube = t
    BY <2>1, <1>1, WithoutDelayed
  <2>3. Without(r, tb, "delayed", K) /\ MakeReady(t, r, "delayed", K)
    BY <2>1, <1>1, <1>4, WithoutDelayed
  <2> HIDE DEF r, t
  <2> QED BY <2>2, <2>3, <1>1, MakeReadyStep
<1> QED BY <1>3, <1>4 DEF handleKickJob

\* delete-tube: the ready, delayed and buried jobs of t leave the tube, the
\* index and storage; the reserved ones stay with their connections.
LEMMA DeleteTubeStep ==
    ASSUME Parts, NEW c \in Conns, NEW t \in Tubes, handleDeleteTube(c, t)
    PROVE  Parts'
<1> DEFINE tb == tube[t]
           B == ToSet(tb.buried)
           gone == tb.ready \cup tb.delay \cup B
           P1(ct) == Leave(ct, "ready", tb.ready, job)
           P2(ct) == Leave(P1(ct), "delayed", tb.delay, job)
           P3(ct) == Leave(P2(ct), "buried", B, job)
           r == [tb EXCEPT !.ready = {}, !.delay = {}, !.buried = <<>>,
                           !.ct = P3(tb.ct), !.tombstoned = TRUE]
           T1 == [tube EXCEPT ![t] = r]
<1>0. /\ job' = [j \in JobIds |-> IF j \in gone THEN NoJob ELSE job[j]]
      /\ saved' = [j \in JobIds |-> IF j \in gone THEN NoImage ELSE saved[j]]
      /\ tube' = gcTube(T1, {t}) /\ count' = P3(count)
      /\ doomed' = doomed \cup Held(t)
      /\ UNCHANGED <<nextId, conn, drain>>
  <2>1. tube' = gcTube(T1, {t})
    BY Zenon DEF handleDeleteTube, purgeTube
  <2>2. count' = P3(count)
    BY Zenon DEF handleDeleteTube, purgeTube
  <2>3. /\ job' = [j \in JobIds |-> IF j \in gone THEN NoJob ELSE job[j]]
        /\ saved' = [j \in JobIds |-> IF j \in gone THEN NoImage ELSE saved[j]]
    BY Zenon DEF handleDeleteTube, purgeTube
  <2>4. doomed' = doomed \cup Held(t) /\ UNCHANGED <<nextId, conn, drain>>
    BY Zenon DEF handleDeleteTube, purgeTube
  <2> QED BY <2>1, <2>2, <2>3, <2>4, Zenon
<1>1. /\ job \in [JobIds -> Job] /\ saved \in [JobIds -> Saved] /\ count \in [Counters -> Int]
      /\ tube \in [Tubes -> Tube] /\ conn \in [Conns -> Conn] /\ doomed \in SUBSET JobIds
  BY DEF Parts, TypeOK
<1>2. /\ tb \in Tube /\ TubeHolds(tb, t, job, conn) /\ tb.ct \in [Counters -> Int]
      /\ tb.buried \in Seq(JobIds) /\ IsInjective(tb.buried)
      /\ tb.ready \subseteq JobIds /\ tb.delay \subseteq JobIds
  BY PartsTypes DEF MapHolds, TubeHolds, Tube
<1>3. B \subseteq JobIds /\ gone \subseteq JobIds
  BY <1>2 DEF ToSet
<1>4. Cardinality(B) = Len(tb.buried) /\ Len(tb.buried) \in Nat
  BY <1>2, CardOfList
<1>5. ASSUME NEW ct \in [Counters -> Int]
      PROVE  /\ P3(ct) \in [Counters -> Int]
             /\ P3(ct)["buried"] = ct["buried"] - Len(tb.buried)
             /\ P3(ct)["reserved"] = ct["reserved"]
  <2>0. "ready" \in QueueStates /\ "delayed" \in QueueStates /\ "buried" \in QueueStates
    BY DEF QueueStates
  <2>1. Left(P1(ct), ct, "ready", tb.ready)
    BY <2>0, <1>2, CtProps
  <2> DEFINE ct1 == P1(ct)
  <2>2. ct1 \in [Counters -> Int] /\ ct1["buried"] = ct["buried"] /\ ct1["reserved"] = ct["reserved"]
    BY <2>1 DEF Left
  <2> HIDE DEF P1, ct1
  <2>3. Left(Leave(ct1, "delayed", tb.delay, job), ct1, "delayed", tb.delay)
    BY <2>0, <2>2, <1>2, CtProps
  <2> DEFINE ct2 == P2(ct)
  <2>4. ct2 \in [Counters -> Int] /\ ct2["buried"] = ct1["buried"] /\ ct2["reserved"] = ct1["reserved"]
    BY <2>3 DEF Left, ct1
  <2> HIDE DEF P2, ct2, B
  <2>5. Left(Leave(ct2, "buried", B, job), ct2, "buried", B)
    BY <2>0, <2>4, <1>3, CtProps
  <2> QED BY <2>2, <2>4, <2>5, <1>4 DEF Left, ct2
<1>6. /\ r \in Tube /\ r.ready = {} /\ r.delay = {} /\ r.buried = <<>> /\ r.ct = P3(tb.ct)
      /\ r.live = tb.live /\ r.using = tb.using /\ r.watching = tb.watching
  <2>1. P3(tb.ct) \in [Counters -> Int]
    BY <1>2, <1>5
  <2> DEFINE n == P3(tb.ct)
  <2>2. r = [tb EXCEPT !.ready = {}, !.delay = {}, !.buried = <<>>, !.ct = n, !.tombstoned = TRUE]
    OBVIOUS
  <2>3. n \in [Counters -> Int] /\ <<>> \in Seq(JobIds)
    BY <2>1
  <2> HIDE DEF n, r, tb
  <2>4. r \in Tube
    BY <2>2, <2>3, <1>2 DEF Tube
  <2>5. /\ r.ready = {} /\ r.delay = {} /\ r.buried = <<>> /\ r.ct = n
        /\ r.live = tb.live /\ r.using = tb.using /\ r.watching = tb.watching
    BY <2>2, <2>3, <1>2 DEF Tube
  <2> QED BY <2>4, <2>5 DEF n
<1>7. /\ NoJob \in Job /\ NoJob.state = "invalid" /\ NoJob.reserver = NoConn
      /\ NoImage \in Saved /\ NoImage.stored = FALSE
  BY TubesAssumption DEF NoJob, Job, JobStates, DelayKinds, NoImage, Saved
<1>8. \A k \in gone : job[k].tube = t /\ job[k].state \in {"ready", "delayed", "buried"}
  BY <1>2, <1>3 DEF TubeHolds, FiledIn
<1>9. \A k \in JobIds \ gone :
         ~(job[k].tube = t /\ job[k].state \in {"ready", "delayed", "buried"})
  BY <1>2 DEF TubeHolds, FiledIn
<1> HIDE DEF gone, r, P3
<1>10. /\ \A k \in gone : job'[k] = NoJob /\ saved'[k] = NoImage
       /\ \A k \in JobIds \ gone : job'[k] = job[k] /\ saved'[k] = saved[k]
       /\ job' \in [JobIds -> Job] /\ saved' \in [JobIds -> Saved]
  BY <1>0, <1>1, <1>3, <1>7
<1>11. TubeHolds(r, t, job', conn)
  <2>1. \A k \in JobIds : FiledIn(r, t, job', k)
    <3>1. ToSet(r.buried) = {}
      BY <1>6 DEF ToSet
    <3> QED BY <3>1, <1>6, <1>7, <1>9, <1>10 DEF FiledIn
  <2>2. HeldIn(job', t) = HeldIn(job, t)
    BY <1>7, <1>8, <1>10 DEF HeldIn
  <2>3. IsInjective(r.buried) /\ r.ct["buried"] = Len(r.buried)
    <3>1. r.ct["buried"] = tb.ct["buried"] - Len(tb.buried) /\ tb.ct["buried"] = Len(tb.buried)
      BY <1>2, <1>5, <1>6 DEF TubeHolds
    <3> QED BY <3>1, <1>4, <1>6 DEF IsInjective
  <2>4. r.ct["reserved"] = tb.ct["reserved"]
    BY <1>2, <1>5, <1>6
  <2>5. ~r.live => \A k \in JobIds : Elsewhere(job', k, t)
    BY <1>2, <1>6, <1>7, <1>10 DEF TubeHolds, Elsewhere
  <2> QED BY <2>1, <2>2, <2>3, <2>4, <2>5, <1>2, <1>6 DEF TubeHolds
<1>12. MapHolds(tube', job', conn') /\ tube'[Default].live
  <2>1. \A k \in JobIds :
           \/ SameFiling(job, job', k)
           \/ job[k].tube = t /\ (job'[k].tube = t \/ job'[k].state = "invalid")
    BY <1>7, <1>8, <1>10 DEF SameFiling
  <2>2. MapHolds(T1, job', conn)
    BY <2>1, <1>11, PartsTypes, MapOne
  <2>3. T1[Default].live
    BY <1>1, <1>6, PartsTypes
  <2> HIDE DEF T1
  <2>4. \A k \in JobIds : job'[k].state \in JobStates
    BY <1>10 DEF Job
  <2>5. MapHolds(tube', job', conn)
    BY <2>2, <2>4, <1>0, MapGc
  <2>6. tube'[Default] = T1[Default]
    BY <1>0, TubesAssumption DEF gcTube
  <2> QED BY <2>3, <2>5, <2>6, <1>0
<1>13. OwnersHold(job', conn')
  <2>1. \A k \in gone : job[k].state # "reserved" /\ job'[k].state # "reserved"
                        /\ job'[k].reserver = NoConn
    BY <1>7, <1>8, <1>10
  <2>2. \A k \in JobIds :
           /\ \A e \in Conns : k \in conn[e].reserved <=>
                                 job[k].state = "reserved" /\ job[k].reserver = e
           /\ job[k].state = "reserved" <=> job[k].reserver # NoConn
    BY PartsTypes DEF OwnersHold
  <2>3. conn' = conn
    BY <1>0
  <2>4. ASSUME NEW k \in JobIds
        PROVE  /\ \A e \in Conns : k \in conn[e].reserved <=>
                                     job'[k].state = "reserved" /\ job'[k].reserver = e
               /\ job'[k].state = "reserved" <=> job'[k].reserver # NoConn
    <3>1. CASE k \in gone
      BY <3>1, <2>1, <2>2
    <3>2. CASE k \notin gone
      BY <3>2, <2>2, <1>10
    <3> QED BY <3>1, <3>2
  <2> QED BY <2>3, <2>4 DEF OwnersHold
<1>14. PutsHold(job', conn', nextId')
  <2>1. conn' = conn /\ nextId' = nextId /\ PutsHold(job, conn, nextId)
    BY <1>0, PartsTypes
  <2>2. \A k \in JobIds : job[k].state = "invalid" =>
                             job'[k].state = "invalid" /\ job'[k].tube = job[k].tube
    BY <1>8, <1>10
  <2>3. \A e \in Conns : /\ conn[e].inJob \in JobIds \cup {0}
                         /\ conn[e].phase = "closed" =>
                               conn[e].reserved = {} /\ conn[e].watch = {}
    BY <1>1, PartsTypes DEF Conn, PutsHold, PutHolds
  <2>4. PutsHold(job', conn, nextId)
    BY <2>1, <2>2, <2>3, PutsFrame
  <2> QED BY <2>1, <2>4
<1>15. \A k \in JobIds : StoreHolds(job'[k], saved'[k])
  <2>1. \A k \in gone : StoreHolds(job'[k], saved'[k])
    BY <1>7, <1>10 DEF StoreHolds
  <2>2. \A k \in JobIds \ gone : StoreHolds(job'[k], saved'[k])
    BY <1>10, PartsTypes
  <2> QED BY <2>1, <2>2
<1>16. TypeOK'
  <2>1. tube' \in [Tubes -> Tube]
    BY <1>12 DEF MapHolds
  <2>2. count' \in [Counters -> Int]
    BY <1>0, <1>1, <1>5
  <2>3. doomed' \in SUBSET JobIds
    BY <1>0, <1>1 DEF Held
  <2> QED BY <2>1, <2>2, <2>3, <1>0, <1>10 DEF Parts, TypeOK
<1> QED BY <1>12, <1>13, <1>14, <1>15, <1>16 DEF Parts, Good

-----------------------------------------------------------------------------
(* Connections that come and change their tubes. *)

\* A step that changes connection c and reference counts, and no job.
LEMMA ConnStep ==
    ASSUME Parts, NEW c \in Conns, NEW cl \in Conn,
           conn' = [conn EXCEPT ![c] = cl], UNCHANGED <<job, nextId, count, saved, drain, doomed>>,
           cl.reserved = conn[c].reserved, cl.inJob = 0, conn[c].inJob = 0,
           cl.phase = "command",
           MapHolds(tube', job, conn'), tube'[Default].live
    PROVE  Parts'
<1>1. conn \in [Conns -> Conn] /\ PutsHold(job, conn, nextId)
  BY PartsTypes DEF TypeOK
<1>2. /\ conn' \in [Conns -> Conn] /\ conn'[c] = cl
      /\ \A e \in Conns \ {c} : conn'[e] = conn[e]
  BY <1>1
<1>3. OwnersHold(job', conn')
  <2>1. \A e \in Conns : conn'[e].reserved = conn[e].reserved
    BY <1>2
  <2> QED BY <2>1, PartsTypes DEF OwnersHold
<1>4. PutsHold(job', conn', nextId')
  <2>1. ASSUME NEW e \in Conns PROVE PutHolds(job, conn'[e], nextId)
    BY <1>1, <1>2 DEF PutsHold, PutHolds
  <2>2. \A e, f \in Conns : conn'[e].inJob = conn'[f].inJob /\ conn'[e].inJob # 0 => e = f
    BY <1>1, <1>2 DEF PutsHold
  <2> QED BY <2>1, <2>2, <1>1 DEF PutsHold
<1>5. TypeOK'
  BY <1>2 DEF Parts, TypeOK, MapHolds
<1>6. \A j \in JobIds : StoreHolds(job'[j], saved'[j])
  BY PartsTypes
<1> QED BY <1>3, <1>4, <1>5, <1>6 DEF Parts, Good

\* A new connection uses and watches the default tube.
LEMMA ConnectStep ==
    ASSUME Parts, NEW c \in Conns, Connect(c)
    PROVE  Parts'
<1> DEFINE cl == [NoClient EXCEPT !.phase = "command", !.watch = {Default}]
           d == tube[Default]
           r == [d EXCEPT !.using = d.using + 1, !.watching = d.watching + 1]
<1>0. /\ conn[c].phase = "closed" /\ conn' = [conn EXCEPT ![c] = cl]
      /\ UNCHANGED <<job, nextId, count, saved, drain, doomed>>
  BY DEF Connect
<1>1. /\ conn \in [Conns -> Conn] /\ tube \in [Tubes -> Tube] /\ Default \in Tubes
      /\ PutHolds(job, conn[c], nextId) /\ TubeHolds(d, Default, job, conn)
      /\ d \in Tube /\ d.using \in Int /\ d.watching \in Int /\ d.live
  BY PartsTypes DEF TypeOK, PutsHold, MapHolds, Tube
<1>2. tube' = [tube EXCEPT ![Default] = r]
  BY <1>1 DEF Connect, Tube
<1>3. /\ cl \in Conn /\ cl.phase = "command" /\ cl.watch = {Default} /\ cl.use = Default
      /\ cl.reserved = {} /\ cl.inJob = 0
  BY <1>1 DEF NoClient, Conn, Phases
<1>4. conn[c].reserved = {} /\ conn[c].watch = {} /\ conn[c].inJob = 0
  BY <1>0, <1>1 DEF PutHolds
<1> HIDE DEF cl
<1>5. conn'[c] = cl /\ \A e \in Conns \ {c} : conn'[e] = conn[e]
  BY <1>0, <1>1
<1>6. /\ Users(conn', Default) = Users(conn, Default) \cup {c} /\ c \notin Users(conn, Default)
      /\ Watchers(conn', Default) = Watchers(conn, Default) \cup {c}
      /\ c \notin Watchers(conn, Default)
  BY <1>0, <1>3, <1>4, <1>5 DEF Users, Watchers
<1>7. ASSUME NEW u \in Tubes \ {Default} PROVE SameRefs(conn, conn', u)
  BY <1>0, <1>3, <1>4, <1>5 DEF SameRefs, Users, Watchers
<1>8. /\ Cardinality(Users(conn', Default)) = d.using + 1
      /\ Cardinality(Watchers(conn', Default)) = d.watching + 1
  <2>1. Users(conn, Default) \subseteq Conns /\ Watchers(conn, Default) \subseteq Conns
    BY DEF Users, Watchers
  <2>2. /\ Cardinality(Users(conn, Default) \cup {c}) = Cardinality(Users(conn, Default)) + 1
        /\ Cardinality(Watchers(conn, Default) \cup {c}) = Cardinality(Watchers(conn, Default)) + 1
    BY <2>1, <1>6, ConnSets
  <2> QED BY <2>2, <1>1, <1>6 DEF TubeHolds
<1>9. Referred(d, r, d.using + 1, d.watching + 1)
  <2>1. d.using + 1 \in Int /\ d.watching + 1 \in Int
    BY <1>1
  <2> QED BY <2>1, <1>1, EditRefs
<1> HIDE DEF r
<1>10. MapHolds(tube', job, conn') /\ SameLive(tube, tube')
  <2>1. MapHolds(tube, job, conn)
    BY PartsTypes
  <2>2. Referred(d, r, Cardinality(Users(conn', Default)), Cardinality(Watchers(conn', Default)))
    BY <1>8, <1>9
  <2> QED BY <2>1, <2>2, <1>1, <1>2, <1>7, MapRefer
<1>11. tube'[Default].live
  BY <1>10, <1>1 DEF SameLive
<1> QED BY <1>0, <1>3, <1>4, <1>10, <1>11, ConnStep

\* use: the old tube loses a user and may be collected, the new one gains it.
LEMMA UseStep ==
    ASSUME Parts, NEW c \in Conns, NEW t \in Tubes, handleUse(c, t)
    PROVE  Parts'
<1> DEFINE old == conn[c].use
           cl == [conn[c] EXCEPT !.use = t]
           conns1 == [conn EXCEPT ![c].phase = "closed"]
           q == [tube[old] EXCEPT !.using = tube[old].using - 1]
           T1 == [tube EXCEPT ![old] = q]
           T2 == gcTube(T1, {old})
           T3 == makeTube(T2, t)
           r == [T3[t] EXCEPT !.using = T3[t].using + 1]
<1>1. /\ conn \in [Conns -> Conn] /\ tube \in [Tubes -> Tube] /\ Default \in Tubes
      /\ old \in Tubes /\ conn[c].phase = "command"
      /\ PutHolds(job, conn[c], nextId) /\ TubeHolds(tube[old], old, job, conn)
      /\ tube[old] \in Tube /\ tube[old].using \in Int
  BY PartsTypes DEF TypeOK, PutsHold, MapHolds, Tube, Conn, handleUse, Commanding
<1>2. /\ conn' = [conn EXCEPT ![c] = cl] /\ tube' = [T3 EXCEPT ![t] = r]
      /\ UNCHANGED <<job, nextId, count, saved, drain, doomed>>
  <2>1. conn' = [conn EXCEPT ![c] = cl] /\ UNCHANGED <<job, nextId, count, saved, drain, doomed>>
    BY DEF handleUse
  <2>2. tube' = [T3 EXCEPT ![t] = r]
    BY DEF handleUse
  <2> QED BY <2>1, <2>2
<1>3. /\ cl \in Conn /\ cl.phase = "command" /\ cl.watch = conn[c].watch /\ cl.use = t
      /\ cl.reserved = conn[c].reserved /\ cl.inJob = conn[c].inJob /\ conn[c].inJob = 0
  BY <1>1 DEF Conn, PutHolds
<1>4. /\ \A u \in Tubes : Watchers(conns1, u) = Watchers(conn, u)
      /\ \A u \in Tubes \ {old} : Users(conns1, u) = Users(conn, u)
      /\ Users(conns1, old) = Users(conn, old) \ {c} /\ c \in Users(conn, old)
  <2>1. /\ conns1[c].phase = "closed" /\ conns1[c].use = old /\ conns1[c].watch = conn[c].watch
        /\ \A e \in Conns \ {c} : conns1[e] = conn[e]
    BY <1>1 DEF Conn
  <2> HIDE DEF conns1
  <2> QED BY <2>1, <1>1 DEF Users, Watchers
<1>5. /\ conn'[c] = cl /\ \A e \in Conns \ {c} : conn'[e] = conn[e] /\ conns1[e] = conn[e]
      /\ conns1[c].phase = "closed" /\ conns1[c].watch = conn[c].watch
  BY <1>1, <1>2 DEF Conn
<1> HIDE DEF conns1, cl
<1>6. /\ \A u \in Tubes : Watchers(conn', u) = Watchers(conns1, u)
      /\ \A u \in Tubes \ {t} : Users(conn', u) = Users(conns1, u)
      /\ Users(conn', t) = Users(conns1, t) \cup {c} /\ c \notin Users(conns1, t)
  BY <1>3, <1>5 DEF Users, Watchers
<1>7. MapHolds(T1, job, conns1) /\ SameLive(tube, T1)
  <2>1. Users(conn, old) \subseteq Conns
    BY DEF Users
  <2>2. Cardinality(Users(conns1, old)) = tube[old].using - 1
    BY <2>1, <1>1, <1>4, ConnSets DEF TubeHolds
  <2>3. Cardinality(Watchers(conns1, old)) = tube[old].watching
    BY <1>1, <1>4 DEF TubeHolds
  <2>4. tube[old].using - 1 \in Int /\ tube[old].live
    BY <1>1, <1>4 DEF TubeHolds
  <2>5. Referred(tube[old], q, tube[old].using - 1, tube[old].watching)
    BY <2>4, <1>1, EditRefs
  <2>6. Referred(tube[old], q, Cardinality(Users(conns1, old)), Cardinality(Watchers(conns1, old)))
    BY <2>2, <2>3, <2>5
  <2>7. \A u \in Tubes \ {old} : SameRefs(conn, conns1, u)
    BY <1>4 DEF SameRefs
  <2>8. MapHolds(tube, job, conn)
    BY PartsTypes
  <2> HIDE DEF q, old
  <2> QED BY <2>4, <2>6, <2>7, <2>8, <1>1, MapRefer
<1> HIDE DEF T1
<1>8. MapHolds(T2, job, conns1) /\ T2[Default].live
  <2>1. MapHolds(T2, job, conns1)
    BY <1>7, PartsTypes, MapGc
  <2>2. T2[Default] = T1[Default]
    BY <1>1 DEF gcTube
  <2> QED BY <2>1, <2>2, <1>7, PartsTypes DEF SameLive
<1> HIDE DEF T2
<1>9. MapHolds(T3, job, conns1) /\ T3[t].live /\ T3[Default].live
  <2>1. MapHolds(T3, job, conns1) /\ T3[t].live
    BY <1>8, MapMake
  <2>2. T3[Default].live
    BY <1>1, <1>8, NewTubeProps DEF makeTube, MapHolds
  <2> QED BY <2>1, <2>2
<1> HIDE DEF T3
<1>10. MapHolds(tube', job, conn') /\ SameLive(T3, tube')
  <2>1. Users(conns1, t) \subseteq Conns
    BY DEF Users
  <2>2. T3[t] \in Tube /\ T3[t].using \in Int /\ TubeHolds(T3[t], t, job, conns1)
    BY <1>9 DEF MapHolds, Tube
  <2>3. Cardinality(Users(conn', t)) = T3[t].using + 1
    BY <2>1, <2>2, <1>6, ConnSets DEF TubeHolds
  <2>4. Cardinality(Watchers(conn', t)) = T3[t].watching
    BY <2>2, <1>6 DEF TubeHolds
  <2>5. T3[t].using + 1 \in Int
    BY <2>2
  <2>6. Referred(T3[t], r, T3[t].using + 1, T3[t].watching)
    BY <2>2, <2>5, EditRefs
  <2>7. Referred(T3[t], r, Cardinality(Users(conn', t)), Cardinality(Watchers(conn', t)))
    BY <2>3, <2>4, <2>6
  <2>8. \A u \in Tubes \ {t} : SameRefs(conns1, conn', u)
    BY <1>6 DEF SameRefs
  <2> HIDE DEF r
  <2> QED BY <2>7, <2>8, <1>2, <1>9, MapRefer
<1>11. tube'[Default].live
  BY <1>1, <1>9, <1>10 DEF SameLive
<1> QED BY <1>2, <1>3, <1>10, <1>11, ConnStep

\* watch: the tube may be created and gains a watcher.
LEMMA WatchStep ==
    ASSUME Parts, NEW c \in Conns, NEW t \in Tubes, handleWatch(c, t)
    PROVE  Parts'
<1> DEFINE cl == [conn[c] EXCEPT !.watch = @ \cup {t}]
           T == makeTube(tube, t)
           r == [T[t] EXCEPT !.watching = T[t].watching + 1]
<1>1. /\ conn \in [Conns -> Conn] /\ tube \in [Tubes -> Tube] /\ Default \in Tubes
      /\ conn[c].phase = "command" /\ t \notin conn[c].watch /\ PutHolds(job, conn[c], nextId)
  BY PartsTypes DEF TypeOK, PutsHold, handleWatch, Commanding
<1>2. /\ conn' = [conn EXCEPT ![c] = cl] /\ tube' = [T EXCEPT ![t] = r]
      /\ UNCHANGED <<job, nextId, count, saved, drain, doomed>>
  BY DEF handleWatch
<1>3. /\ cl \in Conn /\ cl.phase = "command" /\ cl.watch = conn[c].watch \cup {t}
      /\ cl.use = conn[c].use
      /\ cl.reserved = conn[c].reserved /\ cl.inJob = conn[c].inJob /\ conn[c].inJob = 0
  BY <1>1 DEF Conn, PutHolds
<1> HIDE DEF cl
<1>4. conn'[c] = cl /\ \A e \in Conns \ {c} : conn'[e] = conn[e]
  BY <1>1, <1>2
<1>5. /\ \A u \in Tubes : Users(conn', u) = Users(conn, u)
      /\ \A u \in Tubes \ {t} : Watchers(conn', u) = Watchers(conn, u)
      /\ Watchers(conn', t) = Watchers(conn, t) \cup {c} /\ c \notin Watchers(conn, t)
  BY <1>1, <1>3, <1>4 DEF Users, Watchers
<1>6. MapHolds(T, job, conn) /\ T[t].live /\ T[Default].live
  <2>1. MapHolds(T, job, conn) /\ T[t].live
    BY PartsTypes, MapMake
  <2>2. T[Default].live
    BY <1>1, NewTubeProps, PartsTypes DEF makeTube
  <2> QED BY <2>1, <2>2
<1> HIDE DEF T
<1>7. MapHolds(tube', job, conn') /\ SameLive(T, tube')
  <2>1. Watchers(conn, t) \subseteq Conns
    BY DEF Watchers
  <2>2. T[t] \in Tube /\ T[t].watching \in Int /\ TubeHolds(T[t], t, job, conn)
    BY <1>6 DEF MapHolds, Tube
  <2>3. Cardinality(Watchers(conn', t)) = T[t].watching + 1
    BY <2>1, <2>2, <1>5, ConnSets DEF TubeHolds
  <2>4. Cardinality(Users(conn', t)) = T[t].using
    BY <2>2, <1>5 DEF TubeHolds
  <2>5. T[t].watching + 1 \in Int
    BY <2>2
  <2>6. Referred(T[t], r, T[t].using, T[t].watching + 1)
    BY <2>2, <2>5, EditRefs
  <2>7. Referred(T[t], r, Cardinality(Users(conn', t)), Cardinality(Watchers(conn', t)))
    BY <2>3, <2>4, <2>6
  <2>8. \A u \in Tubes \ {t} : SameRefs(conn, conn', u)
    BY <1>5 DEF SameRefs
  <2> HIDE DEF r
  <2> QED BY <2>7, <2>8, <1>2, <1>6, MapRefer
<1>8. tube'[Default].live
  BY <1>1, <1>6, <1>7 DEF SameLive
<1> QED BY <1>2, <1>3, <1>7, <1>8, ConnStep

\* ignore: the tube loses a watcher and may be collected.
LEMMA IgnoreStep ==
    ASSUME Parts, NEW c \in Conns, NEW t \in Tubes, handleIgnore(c, t)
    PROVE  Parts'
<1> DEFINE cl == [conn[c] EXCEPT !.watch = @ \ {t}]
           r == [tube[t] EXCEPT !.watching = tube[t].watching - 1]
           T == [tube EXCEPT ![t] = r]
<1>1. /\ conn \in [Conns -> Conn] /\ tube \in [Tubes -> Tube] /\ Default \in Tubes
      /\ conn[c].phase = "command" /\ t \in conn[c].watch /\ PutHolds(job, conn[c], nextId)
  BY PartsTypes DEF TypeOK, PutsHold, handleIgnore, Commanding
<1>2. /\ conn' = [conn EXCEPT ![c] = cl] /\ tube' = gcTube(T, {t})
      /\ UNCHANGED <<job, nextId, count, saved, drain, doomed>>
  BY DEF handleIgnore
<1>3. /\ cl \in Conn /\ cl.phase = "command" /\ cl.watch = conn[c].watch \ {t}
      /\ cl.use = conn[c].use
      /\ cl.reserved = conn[c].reserved /\ cl.inJob = conn[c].inJob /\ conn[c].inJob = 0
  BY <1>1 DEF Conn, PutHolds
<1> HIDE DEF cl
<1>4. conn'[c] = cl /\ \A e \in Conns \ {c} : conn'[e] = conn[e]
  BY <1>1, <1>2
<1>5. /\ \A u \in Tubes : Users(conn', u) = Users(conn, u)
      /\ \A u \in Tubes \ {t} : Watchers(conn', u) = Watchers(conn, u)
      /\ Watchers(conn', t) = Watchers(conn, t) \ {c} /\ c \in Watchers(conn, t)
  BY <1>1, <1>3, <1>4 DEF Users, Watchers
<1>6. MapHolds(T, job, conn') /\ SameLive(tube, T)
  <2>1. Watchers(conn, t) \subseteq Conns
    BY DEF Watchers
  <2>2. tube[t] \in Tube /\ tube[t].watching \in Int /\ TubeHolds(tube[t], t, job, conn)
    BY PartsTypes DEF MapHolds, Tube
  <2>3. Cardinality(Watchers(conn', t)) = tube[t].watching - 1
    BY <2>1, <2>2, <1>5, ConnSets DEF TubeHolds
  <2>4. Cardinality(Users(conn', t)) = tube[t].using
    BY <2>2, <1>5 DEF TubeHolds
  <2>5. tube[t].watching - 1 \in Int
    BY <2>2
  <2>6. Referred(tube[t], r, tube[t].using, tube[t].watching - 1)
    BY <2>2, <2>5, EditRefs
  <2>7. Referred(tube[t], r, Cardinality(Users(conn', t)), Cardinality(Watchers(conn', t)))
    BY <2>3, <2>4, <2>6
  <2>8. \A u \in Tubes \ {t} : SameRefs(conn, conn', u)
    BY <1>5 DEF SameRefs
  <2>9. tube[t].live /\ MapHolds(tube, job, conn)
    BY <2>2, <1>5, PartsTypes DEF TubeHolds
  <2> HIDE DEF r
  <2> QED BY <2>7, <2>8, <2>9, MapRefer
<1> HIDE DEF T
<1>7. MapHolds(tube', job, conn')
  BY <1>2, <1>6, PartsTypes, MapGc
<1>8. tube'[Default].live
  <2>1. tube'[Default] = T[Default]
    BY <1>1, <1>2 DEF gcTube
  <2> QED BY <2>1, <1>6, PartsTypes DEF SameLive
<1> QED BY <1>2, <1>3, <1>7, <1>8, ConnStep

-----------------------------------------------------------------------------
(* Connections that go. *)

\* The tubes c refers to lose one reference each, and only those.
LEMMA RefsDropped ==
    ASSUME NEW c \in Conns, NEW t \in Tubes, NEW tb \in Tube, NEW r,
           TubeHolds(tb, t, job, conn), conn[c].phase # "closed",
           NEW conns, conns[c] = NoClient, \A e \in Conns \ {c} : conns[e] = conn[e],
           r.live = tb.live,
           r.using = tb.using - (IF t = conn[c].use THEN 1 ELSE 0),
           r.watching = tb.watching - (IF t \in conn[c].watch THEN 1 ELSE 0)
    PROVE  RefsCounted(r, t, conns)
<1>1. /\ Users(conns, t) = Users(conn, t) \ {c} /\ (c \in Users(conn, t) <=> t = conn[c].use)
      /\ Watchers(conns, t) = Watchers(conn, t) \ {c}
      /\ (c \in Watchers(conn, t) <=> t \in conn[c].watch)
  BY DEF Users, Watchers, NoClient
<1>2. Users(conn, t) \subseteq Conns /\ Watchers(conn, t) \subseteq Conns
  BY DEF Users, Watchers
<1>3. /\ tb.using = Cardinality(Users(conn, t)) /\ tb.watching = Cardinality(Watchers(conn, t))
      /\ ~tb.live => Users(conn, t) = {} /\ Watchers(conn, t) = {}
  BY DEF TubeHolds
<1>4. Cardinality(Users(conn, t)) \in Nat /\ Cardinality(Watchers(conn, t)) \in Nat
  BY <1>2, ConnSets
<1>5. r.using = Cardinality(Users(conns, t))
  <2>1. CASE t = conn[c].use
    <3>1. Cardinality(Users(conn, t) \ {c}) = Cardinality(Users(conn, t)) - 1
      BY <2>1, <1>1, <1>2, ConnSets
    <3> QED BY <2>1, <3>1, <1>1, <1>3
  <2>2. CASE t # conn[c].use
    <3>1. Users(conns, t) = Users(conn, t)
      BY <2>2, <1>1
    <3> QED BY <2>2, <3>1, <1>3, <1>4
  <2> QED BY <2>1, <2>2
<1>6. r.watching = Cardinality(Watchers(conns, t))
  <2>1. CASE t \in conn[c].watch
    <3>1. Cardinality(Watchers(conn, t) \ {c}) = Cardinality(Watchers(conn, t)) - 1
      BY <2>1, <1>1, <1>2, ConnSets
    <3> QED BY <2>1, <3>1, <1>1, <1>3
  <2>2. CASE t \notin conn[c].watch
    <3>1. Watchers(conns, t) = Watchers(conn, t)
      BY <2>2, <1>1
    <3> QED BY <2>2, <3>1, <1>3, <1>4
  <2> QED BY <2>1, <2>2
<1>7. ~r.live => Users(conns, t) = {} /\ Watchers(conns, t) = {}
  BY <1>1, <1>3
<1> QED BY <1>5, <1>6, <1>7 DEF RefsCounted

\* Quit, EOF or a read error: jobs go back or are dropped, references go.
LEMMA CloseStep ==
    ASSUME Parts, NEW c \in Conns, Close(c)
    PROVE  Parts'
<1> DEFINE R == conn[c].reserved
           dropped == {j \in R : tube[job[j].tube].tombstoned}
           back == R \ dropped
           Of(J, t) == {j \in J : job[j].tube = t}
           nct(t) == Enter(Leave(tube[t].ct, "reserved", Of(dropped, t), job),
                           "ready", Of(back, t), job)
           tu(t) == tube[t].using - (IF t = conn[c].use THEN 1 ELSE 0)
           tw(t) == tube[t].watching - (IF t \in conn[c].watch THEN 1 ELSE 0)
           cl(t) == [tube[t] EXCEPT !.ready = @ \cup Of(back, t), !.ct = nct(t),
                                    !.using = tu(t), !.watching = tw(t)]
           T1 == [t \in Tubes |-> cl(t)]
           ts == conn[c].watch \cup {conn[c].use} \cup {job[j].tube : j \in dropped}
<1>0. /\ conn[c].phase \in {"command", "data", "bucket"}
      /\ tube' = gcTube(T1, ts)
      /\ count' = Enter(Leave(count, "reserved", dropped, job), "ready", back, job)
      /\ job' = [j \in JobIds |->
                    IF j \in dropped \cup {conn[c].inJob} THEN NoJob
                    ELSE IF j \in back THEN [job[j] EXCEPT !.state = "ready", !.reserver = NoConn]
                    ELSE job[j]]
      /\ saved' = [j \in JobIds |-> IF j \in dropped THEN NoImage ELSE saved[j]]
      /\ conn' = [conn EXCEPT ![c] = NoClient]
      /\ doomed' = doomed \ R
      /\ UNCHANGED <<nextId, drain>>
  BY DEF Close, Dropped
<1>1. /\ job \in [JobIds -> Job] /\ saved \in [JobIds -> Saved] /\ count \in [Counters -> Int]
      /\ tube \in [Tubes -> Tube] /\ conn \in [Conns -> Conn] /\ doomed \in SUBSET JobIds
  BY DEF Parts, TypeOK
<1>2. /\ NoJob \in Job /\ NoJob.state = "invalid" /\ NoJob.reserver = NoConn
      /\ NoImage \in Saved /\ NoImage.stored = FALSE
      /\ NoClient \in Conn /\ NoClient.phase = "closed" /\ NoClient.reserved = {}
      /\ NoClient.watch = {} /\ NoClient.inJob = 0
  BY TubesAssumption DEF NoJob, Job, JobStates, DelayKinds, NoImage, Saved, NoClient, Conn, Phases
<1>3. R \subseteq JobIds /\ \A j \in R : job[j].state = "reserved" /\ job[j].reserver = c
  BY <1>1, PartsTypes DEF OwnersHold, Conn
<1>4. /\ dropped \subseteq JobIds /\ back \subseteq JobIds /\ dropped \cap back = {}
      /\ dropped \subseteq R /\ back \subseteq R /\ R = dropped \cup back
  BY <1>3
<1>5. /\ conn[c].inJob \notin R
      /\ \A j \in JobIds : j = conn[c].inJob => job[j].state = "invalid"
  BY <1>3, PartsTypes DEF PutsHold, PutHolds
<1>6. ASSUME NEW j \in JobIds
      PROVE  /\ j \in dropped => job'[j] = NoJob
             /\ j = conn[c].inJob => job'[j] = NoJob
             /\ j \in back => /\ job'[j].state = "ready" /\ job'[j].tube = job[j].tube
                              /\ job'[j].reserver = NoConn /\ job'[j].pri = job[j].pri
                              /\ job'[j].delay = job[j].delay /\ job'[j].attempts = job[j].attempts
             /\ j \notin R /\ j # conn[c].inJob => job'[j] = job[j]
             /\ job'[j] \in Job
             /\ saved'[j] = IF j \in dropped THEN NoImage ELSE saved[j]
  <2> HIDE DEF dropped, back, R
  <2>1. CASE j \in dropped \cup {conn[c].inJob}
    <3>1. job'[j] = NoJob /\ saved'[j] = IF j \in dropped THEN NoImage ELSE saved[j]
      BY <2>1, <1>0
    <3> QED BY <2>1, <3>1, <1>2, <1>4, <1>5
  <2>2. CASE j \notin dropped \cup {conn[c].inJob} /\ j \in back
    <3>1. /\ job'[j] = [job[j] EXCEPT !.state = "ready", !.reserver = NoConn]
          /\ saved'[j] = IF j \in dropped THEN NoImage ELSE saved[j]
      BY <2>2, <1>0
    <3>2. job[j] \in Job
      BY <1>1
    <3> QED BY <2>2, <3>1, <3>2, <1>4 DEF Job, JobStates
  <2>3. CASE j \notin dropped \cup {conn[c].inJob} /\ j \notin back
    <3>1. job'[j] = job[j] /\ saved'[j] = IF j \in dropped THEN NoImage ELSE saved[j]
      BY <2>3, <1>0
    <3> QED BY <2>3, <3>1, <1>1, <1>4
  <2> QED BY <2>1, <2>2, <2>3
<1>7. /\ conn'[c] = NoClient /\ \A e \in Conns \ {c} : conn'[e] = conn[e]
      /\ conn' \in [Conns -> Conn]
  BY <1>0, <1>1, <1>2
<1>8. ASSUME NEW t \in Tubes PROVE TubeHolds(cl(t), t, job', conn')
  <2> DEFINE tb == tube[t]
             D == Of(dropped, t)
             B == Of(back, t)
             r == cl(t)
  <2>1. tb \in Tube /\ TubeHolds(tb, t, job, conn)
    BY <1>1, PartsTypes DEF MapHolds
  <2>2. /\ D \subseteq HeldIn(job, t) /\ B \subseteq HeldIn(job, t) /\ D \cap B = {}
        /\ D \subseteq JobIds /\ B \subseteq JobIds
    BY <1>3, <1>4 DEF HeldIn
  <2>3. /\ nct(t) \in [Counters -> Int] /\ nct(t)["buried"] = tb.ct["buried"]
        /\ nct(t)["reserved"] = tb.ct["reserved"] - Cardinality(D)
    <3> DEFINE ct1 == Leave(tb.ct, "reserved", D, job)
    <3>1. "ready" \in QueueStates /\ "reserved" \in QueueStates /\ tb.ct \in [Counters -> Int]
      BY <2>1 DEF QueueStates, Tube
    <3> HIDE DEF D, B, tb
    <3>2. Left(ct1, tb.ct, "reserved", D)
      BY <3>1, <2>2, CtProps
    <3>3. /\ ct1 \in [Counters -> Int] /\ ct1["buried"] = tb.ct["buried"]
          /\ ct1["reserved"] = tb.ct["reserved"] - Cardinality(D)
      BY <3>2 DEF Left
    <3> HIDE DEF ct1
    <3>4. Entered(Enter(ct1, "ready", B, job), ct1, "ready", B)
      BY <3>1, <3>3, <2>2, CtProps
    <3>5. nct(t) = Enter(ct1, "ready", B, job)
      BY DEF ct1, B, D, tb
    <3> HIDE DEF nct
    <3> QED BY <3>3, <3>4, <3>5 DEF Entered
  <2>4. tu(t) \in Int /\ tw(t) \in Int
    BY <2>1 DEF Tube
  <2> DEFINE n == nct(t)
             u == tu(t)
             w == tw(t)
  <2>5. r = [tb EXCEPT !.ready = tb.ready \cup B, !.ct = n, !.using = u, !.watching = w]
    OBVIOUS
  <2>6. n \in [Counters -> Int] /\ u \in Int /\ w \in Int
    BY <2>3, <2>4
  <2>7. /\ n["buried"] = tb.ct["buried"] /\ n["reserved"] = tb.ct["reserved"] - Cardinality(D)
        /\ u = tb.using - (IF t = conn[c].use THEN 1 ELSE 0)
        /\ w = tb.watching - (IF t \in conn[c].watch THEN 1 ELSE 0)
    BY <2>3
  <2> HIDE DEF n, u, w, r, B, D, tb
  <2>8. /\ r \in Tube /\ r.ready = tb.ready \cup B /\ r.delay = tb.delay /\ r.buried = tb.buried
        /\ r.ct = n /\ r.using = u /\ r.watching = w /\ r.live = tb.live
    BY <2>1, <2>2, <2>5, <2>6 DEF Tube
  <2>9. HandedBack(r, tb, D, B)
    BY <2>7, <2>8 DEF HandedBack
  <2>10. RefsCounted(r, t, conn')
    <3>1. conn[c].phase # "closed"
      BY <1>0
    <3>2. r.live = tb.live /\ r.using = tb.using - (IF t = conn[c].use THEN 1 ELSE 0)
      BY <2>7, <2>8
    <3>3. r.watching = tb.watching - (IF t \in conn[c].watch THEN 1 ELSE 0)
      BY <2>7, <2>8
    <3> QED BY <3>1, <3>2, <3>3, <2>1, <1>7, RefsDropped
  <2>11. \A k \in D : job'[k].state = "invalid"
    BY <2>2, <1>2, <1>6 DEF D
  <2>12. \A k \in B : job'[k].state = "ready" /\ job'[k].tube = t
    BY <2>2, <1>6 DEF B
  <2>13. ASSUME NEW k \in JobIds \ (D \cup B)
         PROVE  \/ SameFiling(job, job', k)
                \/ Elsewhere(job, k, t) /\ Elsewhere(job', k, t)
    <3>1. CASE k = conn[c].inJob
      BY <3>1, <1>2, <1>5, <1>6 DEF Elsewhere
    <3>2. CASE k \in dropped
      BY <2>13, <3>2, <1>2, <1>6 DEF Elsewhere, D
    <3>3. CASE k \in back
      BY <2>13, <3>3, <1>6 DEF Elsewhere, B
    <3>4. CASE k \notin R /\ k # conn[c].inJob
      BY <3>4, <1>6 DEF SameFiling
    <3> QED BY <3>1, <3>2, <3>3, <3>4
  <2>14. TubeHolds(r, t, job', conn')
    BY <2>1, <2>2, <2>9, <2>10, <2>11, <2>12, <2>13, HandBackHolds
  <2> QED BY <2>14 DEF r
<1> HIDE DEF dropped, back, R, cl, ts
<1>9. \A t \in Tubes : cl(t) \in Tube
  BY <1>8 DEF TubeHolds
<1>10. MapHolds(T1, job', conn')
  BY <1>8, <1>9 DEF MapHolds
<1>11. T1[Default].live
  <2>1. tube[Default].live /\ Default \in Tubes /\ tube[Default] \in Tube
    BY <1>1, PartsTypes
  <2>2. cl(Default).live = tube[Default].live
    BY <2>1 DEF cl, Tube
  <2> QED BY <2>1, <2>2
<1> HIDE DEF T1
<1>12. MapHolds(tube', job', conn')
  <2>1. \A j \in JobIds : job'[j].state \in JobStates
    BY <1>6 DEF Job
  <2> QED BY <2>1, <1>0, <1>10, MapGc
<1>13. tube'[Default].live
  <2>1. tube'[Default] = T1[Default]
    BY <1>0, TubesAssumption DEF gcTube
  <2> QED BY <2>1, <1>11
<1>14. OwnersHold(job', conn')
  <2>1. ASSUME NEW k \in JobIds
        PROVE  /\ \A e \in Conns : k \in conn'[e].reserved <=>
                                     job'[k].state = "reserved" /\ job'[k].reserver = e
               /\ job'[k].state = "reserved" <=> job'[k].reserver # NoConn
    <3>1. /\ \A e \in Conns : k \in conn[e].reserved <=>
                                job[k].state = "reserved" /\ job[k].reserver = e
          /\ job[k].state = "reserved" <=> job[k].reserver # NoConn
      BY PartsTypes DEF OwnersHold
    <3>2. CASE k \in R \/ k = conn[c].inJob
      <4>1. job'[k].state # "reserved" /\ job'[k].reserver = NoConn
        BY <3>2, <1>2, <1>4, <1>6
      <4>2. ASSUME NEW e \in Conns PROVE k \notin conn'[e].reserved
        <5>1. CASE e = c
          BY <5>1, <1>2, <1>7
        <5>2. CASE e # c
          BY <5>2, <3>1, <3>2, <1>3, <1>5, <1>7
        <5> QED BY <5>1, <5>2
      <4> QED BY <4>1, <4>2
    <3>3. CASE k \notin R /\ k # conn[c].inJob
      <4>1. job'[k] = job[k] /\ k \notin conn[c].reserved
        BY <3>3, <1>6 DEF R
      <4> QED BY <4>1, <3>1, <1>2, <1>7
    <3> QED BY <3>2, <3>3
  <2> QED BY <2>1 DEF OwnersHold
<1>15. PutsHold(job', conn', nextId')
  <2>0. PutsHold(job, conn, nextId) /\ nextId' = nextId
    BY <1>0, PartsTypes
  <2>1. ASSUME NEW e \in Conns PROVE PutHolds(job', conn'[e], nextId)
    <3>1. CASE e = c
      BY <3>1, <1>2, <1>7 DEF PutHolds
    <3>2. CASE e # c
      <4>1. conn'[e] = conn[e] /\ PutHolds(job, conn[e], nextId) /\ conn[e].inJob \in JobIds \cup {0}
        BY <3>2, <2>0, <1>1, <1>7 DEF PutsHold, Conn
      <4>2. CASE conn[e].inJob = 0
        BY <4>1, <4>2 DEF PutHolds
      <4>3. CASE conn[e].inJob # 0
        <5>1. conn[e].inJob # conn[c].inJob /\ job[conn[e].inJob].state = "invalid"
          BY <3>2, <4>1, <4>3, <2>0 DEF PutsHold, PutHolds
        <5>2. conn[e].inJob \in JobIds \ R
          BY <4>1, <4>3, <5>1, <1>3
        <5>3. job'[conn[e].inJob] = job[conn[e].inJob]
          BY <5>1, <5>2, <1>6
        <5> QED BY <5>3, <4>1 DEF PutHolds
      <4> QED BY <4>2, <4>3
    <3> QED BY <3>1, <3>2
  <2>2. \A e, f \in Conns : conn'[e].inJob = conn'[f].inJob /\ conn'[e].inJob # 0 => e = f
    BY <2>0, <1>2, <1>7 DEF PutsHold
  <2>3. \A k \in JobIds : job'[k].state # "invalid" => job[k].state # "invalid"
    BY <1>2, <1>3, <1>4, <1>6
  <2> QED BY <2>0, <2>1, <2>2, <2>3 DEF PutsHold
<1>16. \A k \in JobIds : StoreHolds(job'[k], saved'[k])
  <2>1. ASSUME NEW k \in JobIds PROVE StoreHolds(job'[k], saved'[k])
    <3>0. StoreHolds(job[k], saved[k])
      BY PartsTypes
    <3>1. CASE k \in dropped
      BY <3>1, <1>2, <1>6 DEF StoreHolds
    <3>2. CASE k \in back
      <4>1. saved'[k] = saved[k] /\ job[k].state = "reserved"
        BY <3>2, <1>3, <1>4, <1>6
      <4> QED BY <3>0, <3>2, <4>1, <1>6 DEF StoreHolds
    <3>3. CASE k = conn[c].inJob
      <4>1. saved'[k] = saved[k] /\ job[k].state = "invalid" /\ job'[k].state = "invalid"
        BY <3>3, <1>2, <1>4, <1>5, <1>6
      <4> QED BY <3>0, <4>1 DEF StoreHolds
    <3>4. CASE k \notin R /\ k # conn[c].inJob
      <4>1. saved'[k] = saved[k] /\ job'[k] = job[k]
        BY <3>4, <1>4, <1>6
      <4> QED BY <3>0, <4>1
    <3> QED BY <3>1, <3>2, <3>3, <3>4, <1>4
  <2> QED BY <2>1
<1>17. TypeOK'
  <2>1. job' \in [JobIds -> Job] /\ saved' \in [JobIds -> Saved]
    <3>1. \A k \in JobIds : job'[k] \in Job /\ saved'[k] \in Saved
      BY <1>1, <1>2, <1>6
    <3> QED BY <3>1, <1>0
  <2>2. count' \in [Counters -> Int]
    <3> DEFINE ct1 == Leave(count, "reserved", dropped, job)
    <3>1. "ready" \in QueueStates /\ "reserved" \in QueueStates
      BY DEF QueueStates
    <3>2. Left(ct1, count, "reserved", dropped)
      BY <3>1, <1>1, <1>4, CtProps
    <3>3. ct1 \in [Counters -> Int]
      BY <3>2 DEF Left
    <3>4. count' = Enter(ct1, "ready", back, job)
      BY <1>0
    <3> HIDE DEF ct1
    <3>5. Entered(Enter(ct1, "ready", back, job), ct1, "ready", back)
      BY <3>1, <3>3, <1>4, CtProps
    <3> QED BY <3>4, <3>5 DEF Entered
  <2>3. tube' \in [Tubes -> Tube]
    BY <1>12 DEF MapHolds
  <2>4. doomed' \in SUBSET JobIds
    BY <1>0, <1>1
  <2> QED BY <2>1, <2>2, <2>3, <2>4, <1>0, <1>7 DEF Parts, TypeOK
<1> QED BY <1>12, <1>13, <1>14, <1>15, <1>16, <1>17 DEF Parts, Good

-----------------------------------------------------------------------------
(* Restart. *)

\* Recovery builds the whole state from the table it reads, whatever
\* the state was before; the id counter starts
\* above every recovered id.
LEMMA RecoverStep ==
    ASSUME NEW img \in [JobIds -> Saved], Recover(img)
    PROVE  Parts'
<1> DEFINE found == {j \in JobIds : img[j].stored}
           rec(j) == [NoJob EXCEPT !.state = Queue(img[j].delay),
                                   !.tube = img[j].tube, !.pri = img[j].pri,
                                   !.delay = img[j].delay, !.attempts = img[j].attempts]
           jobs == [j \in JobIds |-> IF j \in found THEN rec(j) ELSE NoJob]
           In(q, ts) == {j \in found : jobs[j].state = q /\ jobs[j].tube \in ts}
           Counted(ts) == Enter(Enter(NewTube.ct, "ready", In("ready", ts), jobs),
                                "delayed", In("delayed", ts), jobs)
           filled(t) == [NewTube EXCEPT !.ready = In("ready", {t}),
                                        !.delay = In("delayed", {t}), !.ct = Counted({t})]
           named(t) == t = Default \/ \E j \in found : jobs[j].tube = t
<1>0. /\ job' = jobs /\ count' = Counted(Tubes) /\ nextId' = RecoveredId(found)
      /\ tube' = [t \in Tubes |-> IF named(t) THEN filled(t) ELSE NoTube]
      /\ conn' = [c \in Conns |-> NoClient]
      /\ drain' = FALSE /\ doomed' = {} /\ saved' = img
  BY DEF Recover, LoadAllJobs
<1>1. img \in [JobIds -> Saved] /\ found \subseteq JobIds
  OBVIOUS
<1>2. /\ NoJob \in Job /\ NoJob.state = "invalid" /\ NoJob.reserver = NoConn
      /\ NoClient \in Conn /\ NoClient.phase = "closed" /\ NoClient.reserved = {}
      /\ NoClient.watch = {} /\ NoClient.inJob = 0
  BY TubesAssumption DEF NoJob, Job, JobStates, DelayKinds, NoClient, Conn, Phases
<1>3. ASSUME NEW j \in found
      PROVE  /\ rec(j) \in Job /\ rec(j).state \in {"ready", "delayed"}
             /\ rec(j).tube = img[j].tube /\ rec(j).pri = img[j].pri
             /\ rec(j).delay = img[j].delay /\ rec(j).attempts = img[j].attempts
             /\ rec(j).reserver = NoConn /\ img[j].attempts \in Nat
  <2>1. Queue(img[j].delay) \in {"ready", "delayed"}
    BY DEF Queue
  <2>2. img[j] \in Saved
    BY <1>1
  <2> DEFINE q == Queue(img[j].delay)
  <2>3. q \in JobStates
    BY <2>1 DEF JobStates
  <2> HIDE DEF q
  <2>4. rec(j) = [NoJob EXCEPT !.state = q, !.tube = img[j].tube, !.pri = img[j].pri,
                               !.delay = img[j].delay, !.attempts = img[j].attempts]
    BY DEF q
  <2>5. q \in {"ready", "delayed"}
    BY <2>1 DEF q
  <2> HIDE DEF rec
  <2> QED BY <2>2, <2>3, <2>4, <2>5, <1>2 DEF Job, Saved
<1> HIDE DEF found, rec
<1>4. /\ \A j \in found : /\ job'[j] \in Job /\ job'[j].state \in {"ready", "delayed"}
                          /\ job'[j].tube = img[j].tube /\ job'[j].pri = img[j].pri
                          /\ job'[j].delay = img[j].delay
                          /\ job'[j].attempts = img[j].attempts
                          /\ job'[j].reserver = NoConn /\ img[j].attempts \in Nat
      /\ \A j \in JobIds \ found : job'[j] = NoJob
      /\ job' \in [JobIds -> Job]
  BY <1>0, <1>1, <1>2, <1>3
<1>5. jobs = job'
  BY <1>0
<1> HIDE DEF jobs
<1>6. ASSUME NEW ts
      PROVE  /\ Counted(ts) \in [Counters -> Int]
             /\ Counted(ts)["buried"] = 0 /\ Counted(ts)["reserved"] = 0
  <2> DEFINE A == In("ready", ts)
             D == In("delayed", ts)
             ct0 == NewTube.ct
             ct1 == Enter(ct0, "ready", A, jobs)
  <2>1. A \subseteq JobIds /\ D \subseteq JobIds
    BY <1>1
  <2>2. ct0 \in [Counters -> Int] /\ ct0["buried"] = 0 /\ ct0["reserved"] = 0
    BY NewTubeProps DEF Tube
  <2>3. "ready" \in QueueStates /\ "delayed" \in QueueStates
    BY DEF QueueStates
  <2>4. Counted(ts) = Enter(ct1, "delayed", D, jobs)
    OBVIOUS
  <2> HIDE DEF A, D, ct0, In, Counted
  <2>5. Entered(ct1, ct0, "ready", A)
    BY <2>1, <2>2, <2>3, CtProps
  <2>6. ct1 \in [Counters -> Int] /\ ct1["buried"] = 0 /\ ct1["reserved"] = 0
    BY <2>2, <2>5 DEF Entered
  <2> HIDE DEF ct1
  <2>7. Entered(Enter(ct1, "delayed", D, jobs), ct1, "delayed", D)
    BY <2>1, <2>3, <2>6, CtProps
  <2> QED BY <2>4, <2>6, <2>7 DEF Entered
<1>7. ASSUME NEW t \in Tubes
      PROVE  /\ filled(t) \in Tube /\ filled(t).live
             /\ filled(t).ready = In("ready", {t}) /\ filled(t).delay = In("delayed", {t})
             /\ filled(t).buried = <<>> /\ filled(t).using = 0 /\ filled(t).watching = 0
             /\ filled(t).ct["buried"] = 0 /\ filled(t).ct["reserved"] = 0
  <2> DEFINE A == In("ready", {t})
             D == In("delayed", {t})
             n == Counted({t})
             r == filled(t)
  <2>1. A \subseteq JobIds /\ D \subseteq JobIds
    BY <1>1
  <2>2. n \in [Counters -> Int] /\ n["buried"] = 0 /\ n["reserved"] = 0
    BY <1>6
  <2>3. r = [NewTube EXCEPT !.ready = A, !.delay = D, !.ct = n]
    OBVIOUS
  <2> HIDE DEF A, D, n, r
  <2>4. r \in Tube /\ r.live /\ r.ready = A /\ r.delay = D /\ r.ct = n
        /\ r.buried = <<>> /\ r.using = 0 /\ r.watching = 0
    BY <2>1, <2>2, <2>3, NewTubeProps DEF Tube
  <2> QED BY <2>2, <2>4 DEF r, A, D
<1> HIDE DEF filled
<1>8. ASSUME NEW t \in Tubes
      PROVE  TubeHolds(tube'[t], t, job', conn')
  <2>1. HeldIn(job', t) = {}
    BY <1>2, <1>4 DEF HeldIn
  <2>2. Users(conn', t) = {} /\ Watchers(conn', t) = {}
    BY <1>0, <1>2 DEF Users, Watchers
  <2>3. Cardinality({}) = 0 /\ ToSet(<<>>) = {} /\ IsInjective(<<>>) /\ Len(<<>>) = 0
    BY FS_EmptySet DEF ToSet, IsInjective
  <2>4. CASE named(t)
    <3>1. tube'[t] = filled(t)
      BY <2>4, <1>0
    <3>2. ASSUME NEW k \in JobIds PROVE FiledIn(filled(t), t, job', k)
      <4>1. /\ k \in filled(t).ready <=> k \in found /\ job'[k].state = "ready" /\ job'[k].tube = t
            /\ k \in filled(t).delay <=> k \in found /\ job'[k].state = "delayed" /\ job'[k].tube = t
            /\ k \notin ToSet(filled(t).buried)
        BY <1>5, <1>7, <2>3
      <4>2. k \notin found => job'[k].state = "invalid"
        BY <1>2, <1>4
      <4>3. job'[k].state # "buried"
        BY <1>2, <1>4
      <4> QED BY <4>1, <4>2, <4>3 DEF FiledIn
    <3> QED BY <2>1, <2>2, <2>3, <3>1, <3>2, <1>7 DEF TubeHolds
  <2>5. CASE ~named(t)
    <3>1. tube'[t] = NoTube
      BY <2>5, <1>0
    <3>2. \A k \in JobIds : Elsewhere(job', k, t)
      BY <2>5, <1>2, <1>4, <1>5 DEF Elsewhere
    <3>3. \A k \in JobIds : FiledIn(NoTube, t, job', k)
      BY <2>3, <3>2, NewTubeProps DEF FiledIn, Elsewhere
    <3> QED BY <2>1, <2>2, <2>3, <3>1, <3>2, <3>3, NewTubeProps DEF TubeHolds
  <2> QED BY <2>4, <2>5
<1>9. MapHolds(tube', job', conn') /\ tube'[Default].live
  <2>1. tube' \in [Tubes -> Tube]
    BY <1>0, <1>7, NewTubeProps
  <2>2. Default \in Tubes /\ tube'[Default] = filled(Default)
    BY <1>0, TubesAssumption
  <2> QED BY <2>1, <2>2, <1>7, <1>8 DEF MapHolds
<1>10. OwnersHold(job', conn')
  BY <1>0, <1>2, <1>4 DEF OwnersHold
<1>11. PutsHold(job', conn', nextId')
  <2>1. \A j \in found : j < nextId'
    BY <1>0, <1>1, RecoveredIdBound
  <2>2. \A j \in JobIds : job'[j].state # "invalid" => j \in found
    BY <1>2, <1>4
  <2>3. nextId' \in Nat /\ JobIds \subseteq Nat
    <3>1. nextId' \in 1 .. MaxId + 1 /\ MaxId \in Nat
      BY <1>0, <1>1, RecoveredIdBound, InputAssumption
    <3> QED BY <3>1 DEF JobIds
  <2>4. ASSUME NEW j \in JobIds, job'[j].state # "invalid" PROVE j <= nextId'
    <3>1. j < nextId' /\ j \in Nat /\ nextId' \in Nat
      BY <2>1, <2>2, <2>3, <2>4
    <3> QED BY <3>1
  <2>5. \A e \in Conns : PutHolds(job', conn'[e], nextId') /\ conn'[e].inJob = 0
    BY <1>0, <1>2 DEF PutHolds
  <2> QED BY <2>4, <2>5 DEF PutsHold
<1>12. \A j \in JobIds : StoreHolds(job'[j], saved'[j])
  <2>1. ASSUME NEW j \in found PROVE StoreHolds(job'[j], saved'[j])
    BY <1>0, <1>4 DEF StoreHolds, found
  <2>2. ASSUME NEW j \in JobIds \ found PROVE StoreHolds(job'[j], saved'[j])
    BY <1>0, <1>2, <1>4 DEF StoreHolds, found
  <2> QED BY <2>1, <2>2
<1>13. TypeOK'
  <2>1. nextId' \in 1 .. MaxId + 1
    BY <1>0, <1>1, RecoveredIdBound
  <2>2. count' \in [Counters -> Int]
    BY <1>0, <1>6
  <2>3. conn' \in [Conns -> Conn] /\ drain' \in BOOLEAN /\ doomed' \in SUBSET JobIds
    BY <1>0, <1>2
  <2> QED BY <2>1, <2>2, <2>3, <1>0, <1>1, <1>4, <1>9 DEF TypeOK, MapHolds
<1> QED BY <1>9, <1>10, <1>11, <1>12, <1>13 DEF Parts, Good

\* A restart recovers from what is stored.
LEMMA RestartStep ==
    ASSUME Parts, Restart
    PROVE  Parts'
<1>1. PICK img \in [JobIds -> Saved] : img = saved
  BY DEF Parts, TypeOK
<1>2. Recover(img)
  BY <1>1 DEF Restart
<1> QED BY <1>2, RecoverStep

-----------------------------------------------------------------------------
(* The theorems. *)

\* Every step of the broker keeps every part of the invariant.
LEMMA NextParts == Parts /\ [Next]_vars => Parts'
<1> SUFFICES ASSUME Parts, [Next]_vars PROVE Parts'
  OBVIOUS
<1>1. ASSUME NEW c \in Conns, ConnNext(c) PROVE Parts'
  BY <1>1, ConnectStep, CloseStep, UseStep, WatchStep, IgnoreStep, StartPutStep,
     BucketStep, BadBodyStep, FinishPutStep, ReserveStep DEF ConnNext
<1>2. ASSUME NEW c \in Conns, NEW j \in JobIds, JobNext(c, j) PROVE Parts'
  BY <1>2, ReserveJobStep, DeleteStep, KickJobStep, ReleaseStep, BuryStep DEF JobNext
<1>3. ASSUME NEW c \in Conns, TubeNext(c) PROVE Parts'
  BY <1>3, KickStep, DeleteTubeStep, PauseStep, SetDlqStep DEF TubeNext
<1>4. CASE tick
  BY <1>4, PromoteStep, UnpauseStep, ExpireStep DEF tick
<1>5. CASE \E on \in DrainModes : setDrain(on)
  BY <1>5, DrainStep
<1>6. CASE Restart
  BY <1>6, RestartStep
<1>7. CASE UNCHANGED vars
  BY <1>7 DEF vars, Parts, TypeOK, Good
<1> QED BY <1>1, <1>2, <1>3, <1>4, <1>5, <1>6, <1>7 DEF Next, Serve

\* Whatever the clients, the tick goroutine, the drain switch and restarts do,
\* in any order, the inductive invariant holds.
THEOREM BrokerInvariant == Spec => []IInv
<1>1. Spec => []Parts
  BY InitParts, NextParts, PTL DEF Spec
<1>2. Parts => IInv
  BY IInvParts DEF Parts
<1> QED BY <1>1, <1>2, PTL

\* Every variable keeps the type the code gives it.
THEOREM TypeCorrect == Spec => []TypeOK
<1>1. IInv => TypeOK
  BY DEF IInv
<1> QED BY <1>1, BrokerInvariant, PTL

\* A job is always in exactly the container its State names, of its tube or of
\* its Reserver, once, and the containers hold nothing else.
THEOREM JobsPlaced == Spec => []Placement
<1>1. IInv => Placement
  BY DEF IInv
<1> QED BY <1>1, BrokerInvariant, PTL

\* gcTube never removes a tube something still points to, nor the default one.
THEOREM NoTubeOrphaned == Spec => []NoOrphanTube
<1>1. IInv => NoOrphanTube
  BY DEF IInv
<1> QED BY <1>1, BrokerInvariant, PTL

\* UsingCt and WatchingCt count the connections using and watching each tube.
THEOREM RefsCorrect == Spec => []RefCountsHold
<1>1. IInv => RefCountsHold
  BY DEF IInv
<1> QED BY <1>1, BrokerInvariant, PTL

\* Storage knows exactly the jobs of the index, each with its tube, priority
\* and delay: a restart loses none and brings none back.
THEOREM StoreFollowsIndex == Spec => []StoredIsLive
<1>1. IInv => StoredIsLive
  BY DEF IInv
<1> QED BY <1>1, BrokerInvariant, PTL

\* No two jobs, filed or being put, ever share an id, across restarts too.
THEOREM IdsDistinct == Spec => []DistinctIds
<1>1. IInv => DistinctIds
  BY DEF IInv
<1> QED BY <1>1, BrokerInvariant, PTL

-----------------------------------------------------------------------------
(* How jobs come in. *)

\* A job enters the index as the end of a put in progress, and a put starts
\* with the next id, when drain mode is off.
Admits ==
    /\ \A j \in JobIds : job'[j].state # "invalid" =>
          job[j].state # "invalid" \/ \E c \in Conns : conn[c].inJob = j
    /\ \A c \in Conns : \/ conn'[c].inJob \in {0, conn[c].inJob}
                        \/ conn'[c].inJob = nextId' /\ nextId' # nextId
    /\ nextId' = nextId \/ (nextId' = nextId + 1 /\ ~drain)

\* Steps that begin no put: the jobs of the index after them were there before.
NoPut ==
    /\ \A j \in JobIds : job'[j].state # "invalid" => job[j].state # "invalid"
    /\ \A c \in Conns : conn'[c].inJob \in {0, conn[c].inJob}
    /\ nextId' = nextId

\* A step that neither starts a put nor files a job admits none.
LEMMA NoPutAdmits == NoPut => Admits
BY DEF NoPut, Admits

\* The parts of the invariant the lemmas below read.
LEMMA AdmitFacts ==
    ASSUME Parts
    PROVE  /\ job \in [JobIds -> Job] /\ conn \in [Conns -> Conn] /\ nextId \in Nat
           /\ \A t \in Tubes : /\ \A j \in tube[t].ready : j \in JobIds /\ job[j].state = "ready"
                               /\ \A j \in tube[t].delay : j \in JobIds /\ job[j].state = "delayed"
                               /\ \A j \in ToSet(tube[t].buried) : j \in JobIds /\ job[j].state = "buried"
           /\ \A c \in Conns : \A j \in conn[c].reserved : j \in JobIds /\ job[j].state = "reserved"
<1>1. TypeOK /\ Placement
  BY IInvParts DEF Parts, IInv
<1>2. job \in [JobIds -> Job] /\ conn \in [Conns -> Conn] /\ nextId \in Nat
  BY <1>1, InputAssumption DEF TypeOK
<1>3. \A t \in Tubes : /\ tube[t].ready \subseteq JobIds /\ tube[t].delay \subseteq JobIds
                       /\ ToSet(tube[t].buried) \subseteq JobIds
  <2>1. ASSUME NEW t \in Tubes
        PROVE  tube[t].ready \subseteq JobIds /\ tube[t].delay \subseteq JobIds /\ tube[t].buried \in Seq(JobIds)
    BY <1>1 DEF TypeOK, Tube
  <2> QED BY <2>1 DEF ToSet
<1>4. \A c \in Conns : conn[c].reserved \subseteq JobIds
  BY <1>2 DEF Conn
<1> QED BY <1>1, <1>2, <1>3, <1>4 DEF Placement, Holds

\* A reservation admits nothing.
LEMMA TakeAdmits ==
    ASSUME Parts, NEW c \in Conns, NEW j \in JobIds, job[j].state # "invalid", NEW T, Take(c, j, T)
    PROVE  NoPut
<1>1. job \in [JobIds -> Job] /\ conn \in [Conns -> Conn]
  BY AdmitFacts
<1>2. /\ job' = [job EXCEPT ![j].state = "reserved", ![j].reserver = c]
      /\ conn' = [conn EXCEPT ![c].reserved = @ \cup {j}, ![c].phase = "command"]
      /\ nextId' = nextId
  BY DEF Take
<1>3. \A k \in JobIds : job'[k].state # "invalid" => job[k].state # "invalid"
  BY <1>1, <1>2 DEF Job
<1>4. \A d \in Conns : conn'[d].inJob = conn[d].inJob
  BY <1>1, <1>2 DEF Conn
<1> QED BY <1>2, <1>3, <1>4 DEF NoPut

\* Nor does reserve.
LEMMA FindAdmits ==
    ASSUME Parts, NEW c \in Conns, NEW E, findJobForConn(c, E)
    PROVE  NoPut
<1> DEFINE ts == OpenTubes(c, E)
<1>1. PICK t0 \in ts : tube[t0].ready # {}
  BY DEF findJobForConn, OpenTubes
<1>2. ts \subseteq Tubes
  BY DEF Parts, TypeOK, Conn, OpenTubes
<1>3. /\ \A t \in ts : tube[t].ready \subseteq JobIds
      /\ \A j \in JobIds : job[j].pri \in Nat
  BY <1>2 DEF Parts, TypeOK, Tube, Job
<1> HIDE DEF ts
<1>4. PICK t \in ts : Best(ts) \in tube[t].ready
  BY <1>1, <1>3, BestIsReady
<1>5. Best(ts) \in JobIds /\ job[Best(ts)].state = "ready"
  BY <1>2, <1>4, AdmitFacts
<1>6. Take(c, Best(ts), Reopened(E))
  BY DEF findJobForConn, ts
<1> QED BY <1>5, <1>6, TakeAdmits

\* Nor does a closing connection.
LEMMA CloseAdmits ==
    ASSUME Parts, NEW c \in Conns, Close(c)
    PROVE  NoPut
<1>1. /\ conn' = [conn EXCEPT ![c] = NoClient] /\ nextId' = nextId
      /\ job' = [j \in JobIds |->
                    IF j \in Dropped(c) \cup {conn[c].inJob} THEN NoJob
                    ELSE IF j \in conn[c].reserved \ Dropped(c)
                         THEN [job[j] EXCEPT !.state = "ready", !.reserver = NoConn]
                    ELSE job[j]]
  BY DEF Close
<1>2. \A d \in Conns : conn'[d].inJob \in {0, conn[d].inJob}
  BY <1>1, AdmitFacts DEF NoClient
<1>3. ASSUME NEW j \in JobIds, job'[j].state # "invalid" PROVE job[j].state # "invalid"
  <2>1. CASE j \in Dropped(c) \cup {conn[c].inJob}
    BY <2>1, <1>1, <1>3 DEF NoJob
  <2>2. CASE j \notin Dropped(c) \cup {conn[c].inJob} /\ j \in conn[c].reserved
    BY <2>2, AdmitFacts
  <2>3. CASE j \notin Dropped(c) \cup {conn[c].inJob} /\ j \notin conn[c].reserved
    BY <2>3, <1>1, <1>3
  <2> QED BY <2>1, <2>2, <2>3
<1> QED BY <1>1, <1>2, <1>3 DEF NoPut

\* Nor do jobs that become ready.
LEMMA ReadyAdmits ==
    ASSUME Parts, NEW t, NEW tb, NEW s, NEW K, MakeReady(t, tb, s, K),
           \A j \in K : job[j].state # "invalid"
    PROVE  NoPut
<1>1. /\ job' = [j \in JobIds |-> IF j \in K THEN [job[j] EXCEPT !.state = "ready"] ELSE job[j]]
      /\ conn' = conn /\ nextId' = nextId
  BY DEF MakeReady
<1> QED BY <1>1 DEF NoPut

\* Nor does kick.
LEMMA KickAdmits ==
    ASSUME Parts, NEW t \in Tubes, NEW b \in KickBounds, kickTube(t, b)
    PROVE  NoPut
<1> DEFINE n == Min({b, Len(tube[t].buried)})
<1>1. CASE /\ n > 0
           /\ MakeReady(t, [tube[t] EXCEPT !.buried = SubSeq(@, n + 1, Len(@))], "buried",
                        ToSet(SubSeq(tube[t].buried, 1, n)))
  <2>1. tube[t].buried \in Seq(JobIds) /\ Len(tube[t].buried) \in Nat /\ b \in Nat
    BY PartsTypes, InputAssumption DEF MapHolds, TubeHolds, Tube
  <2>2. n \in Nat /\ n <= Len(tube[t].buried)
    BY <2>1, MinOfTwo
  <2> HIDE DEF n
  <2>3. ToSet(SubSeq(tube[t].buried, 1, n)) \subseteq ToSet(tube[t].buried)
    <3>1. n \in 1 .. Len(tube[t].buried) /\ IsInjective(tube[t].buried)
      BY <2>1, <2>2, <1>1, PartsTypes DEF MapHolds, TubeHolds
    <3> QED BY <3>1, <2>1, SplitList
  <2>4. \A j \in ToSet(SubSeq(tube[t].buried, 1, n)) : job[j].state # "invalid"
    BY <2>3, AdmitFacts
  <2> QED BY <2>4, <1>1, ReadyAdmits
<1>2. CASE \E K \in SUBSET tube[t].delay : MakeReady(t, [tube[t] EXCEPT !.delay = @ \ K], "delayed", K)
  <2>1. PICK K \in SUBSET tube[t].delay : MakeReady(t, [tube[t] EXCEPT !.delay = @ \ K], "delayed", K)
    BY <1>2
  <2>2. \A j \in K : job[j].state # "invalid"
    BY AdmitFacts
  <2> QED BY <2>1, <2>2, ReadyAdmits
<1> QED BY <1>1, <1>2 DEF kickTube

\* The end of a reservation: only job j changes, and it was reserved or, for
\* delete, in some queue.
LEMMA EndAdmits ==
    ASSUME Parts, NEW c \in Conns, NEW j \in JobIds, job[j].state # "invalid", Unreserve(c, j),
           \E r : job' = [job EXCEPT ![j] = r]
    PROVE  NoPut
<1>1. \A d \in Conns : conn'[d].inJob = conn[d].inJob
  BY UnreserveConn
<1>2. nextId' = nextId
  BY DEF Unreserve
<1>3. \A k \in JobIds : job'[k].state # "invalid" => job[k].state # "invalid"
  BY AdmitFacts
<1> QED BY <1>1, <1>2, <1>3 DEF NoPut

\* A put that starts, and one that ends.
LEMMA PutAdmits ==
    ASSUME Parts, NEW c \in Conns,
           \/ \E p \in Pris, d \in Delays : startPut(c, p, d)
           \/ refusePut(c) \/ bitBucketDone(c) \/ badBody(c) \/ finishPut(c)
    PROVE  Admits
<1>0. job \in [JobIds -> Job] /\ conn \in [Conns -> Conn] /\ nextId \in Nat
  BY AdmitFacts
<1>1. ASSUME NEW p \in Pris, NEW d \in Delays, startPut(c, p, d) PROVE Admits
  <2>1. /\ nextId' = nextId + 1 /\ ~drain
        /\ job' = [job EXCEPT ![nextId'] = [NoJob EXCEPT !.tube = conn[c].use, !.pri = p, !.delay = d]]
        /\ conn' = [conn EXCEPT ![c].phase = "data", ![c].inJob = nextId']
    BY <1>1 DEF startPut, Accepting
  <2>2. \A j \in JobIds : job'[j].state # "invalid" => job[j].state # "invalid"
    BY <2>1, <1>0 DEF NoJob
  <2>3. \A e \in Conns : conn'[e].inJob = IF e = c THEN nextId' ELSE conn[e].inJob
    BY <2>1, <1>0 DEF Conn
  <2>4. nextId' # nextId
    BY <2>1, <1>0
  <2> QED BY <2>1, <2>2, <2>3, <2>4 DEF Admits
<1>2. ASSUME refusePut(c) \/ bitBucketDone(c) PROVE Admits
  <2>1. job' = job /\ nextId' = nextId /\ \E ph : conn' = [conn EXCEPT ![c].phase = ph]
    BY <1>2 DEF refusePut, bitBucketDone
  <2>2. \A e \in Conns : conn'[e].inJob = conn[e].inJob
    BY <2>1, <1>0 DEF Conn
  <2> QED BY <2>1, <2>2, NoPutAdmits DEF NoPut
<1>3. ASSUME badBody(c) PROVE Admits
  <2>1. /\ job' = [job EXCEPT ![conn[c].inJob] = NoJob] /\ nextId' = nextId
        /\ conn' = [conn EXCEPT ![c].phase = "command", ![c].inJob = 0]
    BY <1>3 DEF badBody
  <2>2. \A j \in JobIds : job'[j].state # "invalid" => job[j].state # "invalid"
    BY <2>1, <1>0 DEF NoJob
  <2>3. \A e \in Conns : conn'[e].inJob \in {0, conn[e].inJob}
    BY <2>1, <1>0 DEF Conn
  <2> QED BY <2>1, <2>2, <2>3, NoPutAdmits DEF NoPut
<1>4. ASSUME finishPut(c) PROVE Admits
  <2>1. /\ nextId' = nextId
        /\ conn' = [conn EXCEPT ![c].phase = "command", ![c].inJob = 0]
        /\ \E d : job' = [job EXCEPT ![conn[c].inJob].state = Queue(d), ![conn[c].inJob].delay = d]
    BY <1>4 DEF finishPut
  <2>2. \A j \in JobIds : j # conn[c].inJob => job'[j] = job[j]
    BY <2>1, <1>0
  <2>3. \A e \in Conns : conn'[e].inJob \in {0, conn[e].inJob}
    BY <2>1, <1>0 DEF Conn
  <2> QED BY <2>1, <2>2, <2>3 DEF Admits
<1> QED BY <1>1, <1>2, <1>3, <1>4

\* The steps of a connection while the server drains.
LEMMA ConnAdmits ==
    ASSUME Parts, NEW c \in Conns, ConnNext(c)
    PROVE  Admits
<1>0. conn \in [Conns -> Conn]
  BY AdmitFacts
<1>1. ASSUME Connect(c) PROVE Admits
  <2>1. /\ job' = job /\ nextId' = nextId
        /\ conn' = [conn EXCEPT ![c] = [NoClient EXCEPT !.phase = "command", !.watch = {Default}]]
    BY <1>1 DEF Connect
  <2>2. \A e \in Conns : conn'[e].inJob \in {0, conn[e].inJob}
    BY <2>1, <1>0 DEF NoClient
  <2> QED BY <2>1, <2>2, NoPutAdmits DEF NoPut
<1>2. ASSUME NEW t \in Tubes, handleUse(c, t) \/ handleWatch(c, t) \/ handleIgnore(c, t) PROVE Admits
  <2>1. /\ job' = job /\ nextId' = nextId
        /\ \E v : conn' = [conn EXCEPT ![c].use = v] \/ conn' = [conn EXCEPT ![c].watch = v]
    BY <1>2 DEF handleUse, handleWatch, handleIgnore
  <2>2. \A e \in Conns : conn'[e].inJob = conn[e].inJob
    BY <2>1, <1>0 DEF Conn
  <2> QED BY <2>1, <2>2, NoPutAdmits DEF NoPut
<1>3. ASSUME doReserve(c) \/ doReserveImmediate(c) \/ checkWait(c) PROVE Admits
  <2>1. PICK E \in Elapsed(c) :
           \/ findJobForConn(c, E)
           \/ \E next : conn' = [conn EXCEPT ![c].phase = next] /\ job' = job /\ nextId' = nextId
    BY <1>3 DEF doReserve, doReserveImmediate, checkWait, NothingReady
  <2>2. ASSUME NEW next, conn' = [conn EXCEPT ![c].phase = next], job' = job, nextId' = nextId
        PROVE  NoPut
    <3>1. \A e \in Conns : conn'[e].inJob = conn[e].inJob
      BY <2>2, <1>0 DEF Conn
    <3> QED BY <3>1, <2>2 DEF NoPut
  <2> QED BY <2>1, <2>2, FindAdmits, NoPutAdmits
<1>4. Close(c) => Admits
  BY CloseAdmits, NoPutAdmits
<1> QED BY <1>1, <1>2, <1>3, <1>4, PutAdmits DEF ConnNext

\* The steps on a job while the server drains.
LEMMA JobAdmits ==
    ASSUME Parts, NEW c \in Conns, NEW j \in JobIds, JobNext(c, j)
    PROVE  Admits
<1>1. ASSUME handleReserveJob(c, j) PROVE Admits
  <2>1. job[j].state # "invalid" /\ Take(c, j, tube)
    BY <1>1 DEF handleReserveJob
  <2> QED BY <2>1, TakeAdmits, NoPutAdmits
<1>2. ASSUME handleDelete(c, j) PROVE Admits
  <2>1. job[j].state # "invalid" /\ Unreserve(c, j) /\ job' = [job EXCEPT ![j] = NoJob]
    BY <1>2 DEF handleDelete, Forget
  <2> QED BY <2>1, EndAdmits, NoPutAdmits
<1>3. ASSUME handleKickJob(c, j) PROVE Admits
  <2>1. job[j].state # "invalid" /\ \E tb, s : MakeReady(job[j].tube, tb, s, {j})
    BY <1>3 DEF handleKickJob
  <2> QED BY <2>1, ReadyAdmits, NoPutAdmits
<1>4. ASSUME NEW p \in Pris, NEW d \in Delays \ {"at"}, handleRelease(c, j, p, d) PROVE Admits
  <2>1. job[j].state = "reserved" /\ Unreserve(c, j) /\ \E r : job' = [job EXCEPT ![j] = r]
    BY <1>4 DEF handleRelease, Holds, Forget, Becomes, checkDeadLetter
  <2> QED BY <2>1, EndAdmits, NoPutAdmits
<1>5. ASSUME NEW p \in Pris, handleBury(c, j, p) PROVE Admits
  <2>1. job[j].state = "reserved" /\ Unreserve(c, j) /\ \E r : job' = [job EXCEPT ![j] = r]
    BY <1>5 DEF handleBury, Holds, Forget, Becomes
  <2> QED BY <2>1, EndAdmits, NoPutAdmits
<1> QED BY <1>1, <1>2, <1>3, <1>4, <1>5 DEF JobNext

\* The steps on a tube while the server drains.
LEMMA TubeAdmits ==
    ASSUME Parts, NEW c \in Conns, TubeNext(c)
    PROVE  Admits
<1>1. ASSUME NEW b \in KickBounds, NEW t \in Tubes, handleKick(c, b) \/ handleKickTube(c, t, b)
      PROVE  Admits
  <2>1. \E u \in Tubes : kickTube(u, b)
    <3>1. conn[c].use \in Tubes
      BY AdmitFacts DEF Conn
    <3> QED BY <3>1, <1>1 DEF handleKick, handleKickTube
  <2> QED BY <2>1, KickAdmits, NoPutAdmits
<1>2. ASSUME NEW t \in Tubes, handleDeleteTube(c, t) PROVE Admits
  <2>1. /\ nextId' = nextId /\ conn' = conn
        /\ \E gone : job' = [j \in JobIds |-> IF j \in gone THEN NoJob ELSE job[j]]
    BY <1>2 DEF handleDeleteTube, purgeTube
  <2>2. \A j \in JobIds : job'[j].state # "invalid" => job[j].state # "invalid"
    BY <2>1 DEF NoJob
  <2> QED BY <2>1, <2>2, NoPutAdmits DEF NoPut
<1>3. ASSUME NEW t \in Tubes, handlePauseTube(c, t) PROVE Admits
  BY <1>3, NoPutAdmits DEF handlePauseTube, NoPut
<1>4. ASSUME NEW p \in Policies, handleSetDlq(c, p[1], p[2], p[3]) PROVE Admits
  BY <1>4, NoPutAdmits DEF handleSetDlq, NoPut
<1>5. Pausable \subseteq Tubes /\ Tubes # {}
  BY InputAssumption, TubesAssumption
<1> QED BY <1>1, <1>2, <1>3, <1>4, <1>5 DEF TubeNext

\* tick while the server drains.
LEMMA TickAdmits ==
    ASSUME Parts, tick
    PROVE  Admits
<1>1. ASSUME NEW t \in Tubes, NEW j \in JobIds, tickPromote(t, j) PROVE Admits
  <2>1. job[j].state # "invalid" /\ \E tb, s : MakeReady(t, tb, s, {j})
    BY <1>1, AdmitFacts DEF tickPromote
  <2> QED BY <2>1, ReadyAdmits, NoPutAdmits
<1>2. ASSUME NEW t \in Tubes, tickUnpause(t) PROVE Admits
  BY <1>2, NoPutAdmits DEF tickUnpause, NoPut
<1>3. ASSUME NEW j \in JobIds, tickExpire(j) PROVE Admits
  <2>1. /\ job[j].state = "reserved" /\ Unreserve(job[j].reserver, j)
        /\ \E r : job' = [job EXCEPT ![j] = r]
    BY <1>3 DEF tickExpire, Forget, Becomes, checkDeadLetter
  <2>2. job[j].reserver \in Conns
    <3>1. Placement
      BY IInvParts DEF Parts, IInv
    <3>2. job[j].reserver \in Conns \cup {NoConn}
      BY AdmitFacts DEF Job
    <3> QED BY <3>1, <3>2, <2>1 DEF Placement
  <2> QED BY <2>1, <2>2, EndAdmits, NoPutAdmits
<1> QED BY <1>1, <1>2, <1>3 DEF tick

\* No step of a running server admits a job but by a put.
LEMMA ServeAdmits ==
    ASSUME Parts, Serve
    PROVE  Admits
<1>1. ASSUME NEW on \in DrainModes, setDrain(on) PROVE Admits
  BY <1>1, NoPutAdmits DEF setDrain, NoPut
<1> QED BY <1>1, ConnAdmits, JobAdmits, TubeAdmits, TickAdmits DEF Serve

\* While drain mode is on nothing new is admitted, whatever the clients, the
\* tick goroutine and restarts do.
THEOREM DrainHolds == Spec => DrainStops
<1> DEFINE A == drain => Admitted(job', conn') \subseteq Admitted(job, conn)
<1>1. ASSUME Parts, Serve PROVE A
  <2>1. Admits /\ 0 \notin JobIds
    BY <1>1, ServeAdmits, InputAssumption DEF JobIds
  <2> QED BY <2>1 DEF Admits, Admitted
<1>2. ASSUME Parts, Restart PROVE A
  <2>1. /\ \A j \in JobIds : job'[j].state # "invalid" => saved[j].stored
        /\ \A c \in Conns : conn'[c].inJob = 0
    <3>1. /\ \A j \in JobIds : j \notin LoadAllJobs(saved) => job'[j] = NoJob
          /\ conn' = [c \in Conns |-> NoClient]
      BY <1>2 DEF Restart, Recover
    <3> QED BY <3>1 DEF LoadAllJobs, NoJob, NoClient
  <2>2. \A j \in JobIds : saved[j].stored => job[j].state # "invalid"
    BY <1>2 DEF Parts, Good, StoreHolds
  <2>3. 0 \notin JobIds
    BY InputAssumption DEF JobIds
  <2> QED BY <2>1, <2>2, <2>3 DEF Admitted
<1>3. Parts /\ [Next]_vars => [A]_vars
  BY <1>1, <1>2 DEF Next
<1> QED BY <1>3, InitParts, NextParts, PTL DEF Spec, DrainStops

-----------------------------------------------------------------------------
(* What becomes of a job in one step: the action properties of tombstones  *)
(* and of dead-lettering.                                                  *)

\* The tubes a policy may route dead letters to.
DeadTubes == {p[3] : p \in Policies}

\* What delete-tube leaves behind.  Without policies naming it, a tombstoned
\* tube holds only jobs that were reserved when it was deleted; doomed jobs are
\* reserved; and a tube with a threshold has a dead-letter tube some policy
\* names.
Doom ==
    /\ \A j \in doomed : job[j].state = "reserved"
    /\ \A t \in Tubes : tube[t].max > 0 => tube[t].dead \in DeadTubes
    /\ \A j \in Live : tube[job[j].tube].tombstoned =>
                          j \in doomed \/ job[j].tube \in DeadTubes

\* The step puts no tombstone on the tube and gives it no new policy.
TameTube(tb, tb2) ==
    /\ tb2.tombstoned => tb.tombstoned
    /\ tb2.max > 0 => tb2.max = tb.max /\ tb2.dead = tb.dead

TameMap(T, T2) == \A u \in Tubes : TameTube(T[u], T2[u])

\* Tame edits compose.
LEMMA TameTrans ==
    ASSUME NEW T, NEW T2, NEW T3, TameMap(T, T2), TameMap(T2, T3)
    PROVE  TameMap(T, T3)
<1>1. ASSUME NEW u \in Tubes PROVE TameTube(T[u], T3[u])
  <2>1. TameTube(T[u], T2[u]) /\ TameTube(T2[u], T3[u])
    BY DEF TameMap
  <2> QED BY <2>1 DEF TameTube
<1> QED BY <1>1 DEF TameMap

\* Filing and unfiling a job leave tombstone and policy alone.
LEMMA TameLink ==
    ASSUME NEW tb \in Tube, NEW s, NEW j, NEW jobs
    PROVE  /\ TameTube(tb, Link(tb, s, j, jobs))
           /\ TameTube(tb, Unlink(tb, s, j))
           /\ Link(tb, s, j, jobs).tombstoned = tb.tombstoned
BY DEF Tube, Link, Unlink, TameTube

\* A tame edit of one tube.
LEMMA TameOne ==
    ASSUME NEW T \in [Tubes -> Tube], NEW t \in Tubes, NEW r, TameTube(T[t], r)
    PROVE  TameMap(T, [T EXCEPT ![t] = r])
BY DEF TameMap, TameTube

\* A new tube in the place of a dead one is tame.
LEMMA NewTubeTame ==
    \A r \in {NewTube, NoTube} : r.tombstoned = FALSE /\ r.max = 0 /\ r.paused = FALSE
<1>1. NewTube.tombstoned = FALSE /\ NewTube.max = 0 /\ NewTube.paused = FALSE
  BY DEF NewTube
<1>2. NoTube.tombstoned = NewTube.tombstoned /\ NoTube.max = NewTube.max
      /\ NoTube.paused = NewTube.paused
  BY DEF NoTube, NewTube
<1> QED BY <1>1, <1>2

\* gcTube is tame.
LEMMA TameGc ==
    ASSUME NEW T, NEW ts
    PROVE  TameMap(T, gcTube(T, ts))
BY NewTubeTame DEF TameMap, TameTube, gcTube

\* makeTube is tame.
LEMMA TameMake ==
    ASSUME NEW T \in [Tubes -> Tube], NEW t \in Tubes
    PROVE  TameMap(T, makeTube(T, t))
BY NewTubeTame DEF TameMap, TameTube, makeTube

-----------------------------------------------------------------------------
(* The fates. *)

\* The failed deliveries of j reach the threshold of the tube it is in.
Out(j) == tube[job[j].tube].max > 0 /\ job'[j].attempts >= tube[job[j].tube].max

Stays(j) == job'[j] = job[j] /\ (j \in doomed => j \in doomed')

\* A put: the job enters the index, and whatever tombstone there was is lifted.
Arrives(j) ==
    /\ job[j].state = "invalid"
    /\ job'[j].state = "invalid" \/ ~tube'[job'[j].tube].tombstoned

\* A reserved job is deleted by its owner, or dropped under a tombstone.
Leaves(j) ==
    /\ job'[j].state = "invalid" /\ j \notin doomed'
    /\ job[j].state = "reserved" =>
          Tombstoned(j) \/ \E c \in Conns : handleDelete(c, j)

\* reserve, tick and kick: within the tube, and never from "reserved".
Shifts(j) ==
    /\ job[j].state \in {"ready", "delayed", "buried"}
    /\ job'[j].state \in {"ready", "reserved"} /\ job'[j].tube = job[j].tube

\* The reservation ends and the job goes back to its tube.
Returns(j) ==
    /\ job[j].state = "reserved" /\ ~Tombstoned(j) /\ j \notin doomed'
    /\ job'[j].state \in {"ready", "delayed", "buried"} /\ job'[j].tube = job[j].tube
    /\ job'[j].state \in {"ready", "delayed"} =>
          conn'[job[j].reserver].phase = "closed" \/ ~Out(j)

\* The reservation ends and the job is buried in the dead-letter tube.
DeadLettered(j) ==
    /\ job[j].state = "reserved" /\ ~Tombstoned(j) /\ j \notin doomed'
    /\ Out(j) /\ job'[j].state = "buried" /\ job'[j].tube = tube[job[j].tube].dead

Fate(j) == Stays(j) \/ Arrives(j) \/ Leaves(j) \/ Shifts(j) \/ Returns(j) \/ DeadLettered(j)

\* A step of the running server: a fate for each job, and a tombstone only
\* where the jobs that are left are doomed.
Fates ==
    /\ \A j \in JobIds : Fate(j)
    /\ \A j \in doomed' : j \in doomed \/ job'[j].state = "reserved"
    /\ \A t \in Tubes :
          /\ tube'[t].tombstoned =>
                \/ tube[t].tombstoned
                \/ \A j \in JobIds : job'[j].state # "invalid" /\ job'[j].tube = t => j \in doomed'
          /\ tube'[t].max > 0 => \/ tube'[t].max = tube[t].max /\ tube'[t].dead = tube[t].dead
                                 \/ tube'[t].dead \in DeadTubes

\* All that is to be shown of a step which puts no tombstone.
LEMMA TameFates ==
    ASSUME TameMap(tube, tube'), doomed' \subseteq doomed, \A j \in JobIds : Fate(j)
    PROVE  Fates
BY DEF Fates, TameMap, TameTube

\* The fates keep Doom, ...
LEMMA FatesKeepDoom ==
    ASSUME Parts, Doom, Fates, TypeOK'
    PROVE  Doom'
<1>1. ASSUME NEW j \in JobIds, j \in doomed' PROVE job'[j].state = "reserved"
  <2>1. CASE job'[j].state # "reserved"
    <3>1. j \in doomed /\ job[j].state = "reserved"
      BY <2>1, <1>1 DEF Fates, Doom
    <3> QED BY <3>1, <2>1, <1>1 DEF Fates, Fate, Stays, Arrives, Leaves, Shifts, Returns, DeadLettered
  <2> QED BY <2>1
<1>2. ASSUME NEW t \in Tubes, tube'[t].max > 0 PROVE tube'[t].dead \in DeadTubes
  BY <1>2 DEF Fates, Doom
<1>3. ASSUME NEW j \in JobIds, job'[j].state # "invalid", tube'[job'[j].tube].tombstoned,
             job'[j].tube \notin DeadTubes, job'[j].tube \in Tubes
      PROVE  j \in doomed'
  <2>1. CASE ~tube[job'[j].tube].tombstoned
    BY <2>1, <1>3 DEF Fates
  <2>2. CASE tube[job'[j].tube].tombstoned
    <3>1. job[j].state # "invalid" /\ job[j].tube = job'[j].tube => j \in doomed
      BY <2>2, <1>3 DEF Doom, Live
    <3>2. CASE Stays(j)
      BY <3>1, <3>2, <1>3 DEF Stays
    <3>3. CASE Arrives(j)
      BY <3>3, <1>3 DEF Arrives
    <3>4. CASE Leaves(j)
      BY <3>4, <1>3 DEF Leaves
    <3>5. CASE Shifts(j)
      BY <3>1, <3>5 DEF Shifts, Doom
    <3>6. CASE Returns(j)
      BY <3>6, <2>2 DEF Returns, Tombstoned
    <3>7. CASE DeadLettered(j)
      <4>1. job[j].tube \in Tubes
        BY PartsTypes
      <4>2. tube[job[j].tube].dead \in DeadTubes
        BY <4>1, <3>7 DEF DeadLettered, Out, Doom
      <4> QED BY <4>2, <3>7, <1>3 DEF DeadLettered
    <3> QED BY <3>2, <3>3, <3>4, <3>5, <3>6, <3>7 DEF Fates, Fate
  <2> QED BY <2>1, <2>2
<1>4. doomed' \subseteq JobIds /\ \A j \in JobIds : job'[j].tube \in Tubes
  BY DEF TypeOK, Job
<1> QED BY <1>1, <1>2, <1>3, <1>4 DEF Doom, Live

\* Steps that leave every job alone and put no tombstone.
LEMMA QuietFates ==
    ASSUME job' = job, doomed' = doomed, TameMap(tube, tube')
    PROVE  Fates
<1>1. \A j \in JobIds : Fate(j)
  BY DEF Fate, Stays
<1> QED BY <1>1, TameFates

\* Changing only pause or reference counts is tame.
LEMMA TameEdit ==
    ASSUME NEW tb \in Tube, NEW u, NEW w, NEW p
    PROVE  /\ TameTube(tb, [tb EXCEPT !.using = u, !.watching = w])
           /\ TameTube(tb, [tb EXCEPT !.using = u])
           /\ TameTube(tb, [tb EXCEPT !.watching = w])
           /\ TameTube(tb, [tb EXCEPT !.paused = p])
BY DEF Tube, TameTube

\* The types the lemmas below start from.
LEMMA TameTubes ==
    ASSUME Parts
    PROVE  tube \in [Tubes -> Tube] /\ job \in [JobIds -> Job] /\ conn \in [Conns -> Conn]
           /\ Default \in Tubes
BY TubesAssumption DEF Parts, TypeOK

\* connect.
LEMMA ConnectFates ==
    ASSUME Parts, NEW c \in Conns, Connect(c)
    PROVE  Fates
<1> DEFINE r == [tube[Default] EXCEPT !.using = @ + 1, !.watching = @ + 1]
<1>1. tube' = [tube EXCEPT ![Default] = r]
  BY TameTubes DEF Connect, Tube
<1>2. TameTube(tube[Default], r)
  BY TameTubes, TameEdit
<1> HIDE DEF r
<1>3. TameMap(tube, tube')
  BY <1>1, <1>2, TameTubes, TameOne
<1>4. job' = job /\ doomed' = doomed
  BY DEF Connect
<1> QED BY <1>3, <1>4, QuietFates

\* use.
LEMMA UseFates ==
    ASSUME Parts, NEW c \in Conns, NEW t \in Tubes, handleUse(c, t)
    PROVE  Fates
<1> DEFINE old  == conn[c].use
           T1   == [tube EXCEPT ![old] = [tube[old] EXCEPT !.using = @ - 1]]
           left == gcTube(T1, {old})
           T2   == makeTube(left, t)
<1>0. old \in Tubes
  BY TameTubes DEF Conn
<1>1. tube' = [T2 EXCEPT ![t] = [T2[t] EXCEPT !.using = @ + 1]] /\ job' = job /\ doomed' = doomed
  BY DEF handleUse
<1> HIDE DEF old
<1>2. T1 \in [Tubes -> Tube] /\ TameMap(tube, T1)
  <2> DEFINE r == [tube[old] EXCEPT !.using = @ - 1]
  <2>1. tube[old] \in Tube /\ tube \in [Tubes -> Tube]
    BY <1>0, TameTubes
  <2>2. r \in Tube /\ TameTube(tube[old], r)
    <3>0. tube[old].using - 1 \in Int
      BY <2>1 DEF Tube
    <3>1. r \in Tube
      BY <2>1, <3>0, EditRefs DEF Referred, SameJobs
    <3> QED BY <3>1, <2>1, TameEdit
  <2> HIDE DEF r
  <2>3. [tube EXCEPT ![old] = r] \in [Tubes -> Tube] /\ TameMap(tube, [tube EXCEPT ![old] = r])
    BY <2>1, <2>2, <1>0, TameOne
  <2> QED BY <2>3 DEF r
<1> HIDE DEF T1
<1>3. left \in [Tubes -> Tube] /\ TameMap(T1, left)
  BY <1>2, TameGc, NewTubeProps DEF gcTube
<1> HIDE DEF left
<1>4. T2 \in [Tubes -> Tube] /\ TameMap(left, T2)
  BY <1>3, TameMake, NewTubeProps DEF makeTube
<1> HIDE DEF T2
<1>5. TameMap(T2, tube')
  <2> DEFINE r == [T2[t] EXCEPT !.using = @ + 1]
  <2>1. TameTube(T2[t], r)
    BY <1>4, TameEdit
  <2> HIDE DEF r
  <2> QED BY <2>1, <1>1, <1>4, TameOne DEF r
<1>6. TameMap(tube, tube')
  <2>1. TameMap(tube, left)
    BY <1>2, <1>3, TameTrans
  <2>2. TameMap(tube, T2)
    BY <2>1, <1>4, TameTrans
  <2> QED BY <2>2, <1>5, TameTrans
<1> QED BY <1>1, <1>6, QuietFates

\* watch.
LEMMA WatchFates ==
    ASSUME Parts, NEW c \in Conns, NEW t \in Tubes, handleWatch(c, t) \/ handleIgnore(c, t)
    PROVE  Fates
<1>1. job' = job /\ doomed' = doomed
  BY DEF handleWatch, handleIgnore
<1>2. CASE handleWatch(c, t)
  <2> DEFINE T2 == makeTube(tube, t)
             r  == [T2[t] EXCEPT !.watching = @ + 1]
  <2>1. tube' = [T2 EXCEPT ![t] = r]
    BY <1>2 DEF handleWatch
  <2>2. T2 \in [Tubes -> Tube] /\ TameMap(tube, T2)
    BY TameTubes, TameMake, NewTubeProps DEF makeTube
  <2> HIDE DEF T2
  <2>3. TameTube(T2[t], r)
    BY <2>2, TameEdit
  <2> HIDE DEF r
  <2>4. TameMap(T2, tube')
    BY <2>1, <2>2, <2>3, TameOne
  <2> QED BY <2>2, <2>4, <1>1, TameTrans, QuietFates
<1>3. CASE handleIgnore(c, t)
  <2> DEFINE r  == [tube[t] EXCEPT !.watching = @ - 1]
             T2 == [tube EXCEPT ![t] = r]
  <2>1. tube' = gcTube(T2, {t})
    BY <1>3 DEF handleIgnore
  <2>2. r \in Tube /\ TameTube(tube[t], r)
    <3>0. tube[t] \in Tube /\ tube[t].watching - 1 \in Int
      BY TameTubes DEF Tube
    <3>1. r \in Tube
      BY <3>0, EditRefs DEF Referred, SameJobs
    <3> QED BY <3>1, TameTubes, TameEdit
  <2> HIDE DEF r
  <2>3. T2 \in [Tubes -> Tube] /\ TameMap(tube, T2)
    BY <2>2, TameTubes, TameOne
  <2> HIDE DEF T2
  <2>4. TameMap(T2, tube')
    BY <2>1, <2>3, TameGc
  <2> QED BY <2>3, <2>4, <1>1, TameTrans, QuietFates
<1> QED BY <1>2, <1>3

\* The settings of a tube: pause, and set-dlq, which names a tube of DeadTubes.
LEMMA SettingsFates ==
    ASSUME Parts, NEW c \in Conns, NEW t \in Tubes,
           \/ handlePauseTube(c, t)
           \/ \E p \in Policies : p[1] = t /\ handleSetDlq(c, p[1], p[2], p[3])
    PROVE  Fates
<1>1. CASE handlePauseTube(c, t)
  <2>1. PICK p : tube' = [tube EXCEPT ![t] = [tube[t] EXCEPT !.paused = p]]
    BY <1>1 DEF handlePauseTube
  <2> DEFINE r == [tube[t] EXCEPT !.paused = p]
  <2>2. TameTube(tube[t], r)
    BY TameTubes, TameEdit
  <2>3. tube' = [tube EXCEPT ![t] = r]
    BY <2>1
  <2> HIDE DEF r
  <2>4. TameMap(tube, tube')
    BY <2>2, <2>3, TameTubes, TameOne
  <2>5. job' = job /\ doomed' = doomed
    BY <1>1 DEF handlePauseTube
  <2> QED BY <2>4, <2>5, QuietFates
<1>2. ASSUME NEW p \in Policies, p[1] = t, handleSetDlq(c, p[1], p[2], p[3])
      PROVE  Fates
  <2> DEFINE T2 == makeTube(tube, t)
             d  == IF p[2] = 0 THEN Default ELSE p[3]
             r  == [T2[t] EXCEPT !.max = p[2], !.dead = d]
  <2>0. p[2] \in Nat /\ p[3] \in Tubes /\ p[3] \in DeadTubes
    <3>1. p \in Tubes \X Nat \X Tubes
      BY InputAssumption
    <3> QED BY <3>1 DEF DeadTubes
  <2>1. job' = job /\ doomed' = doomed /\ tube' = [T2 EXCEPT ![t] = r]
    BY <1>2 DEF handleSetDlq
  <2>2. T2 \in [Tubes -> Tube] /\ TameMap(tube, T2)
    BY TameTubes, TameMake, NewTubeProps DEF makeTube
  <2> HIDE DEF T2
  <2>3. /\ r.tombstoned = T2[t].tombstoned /\ r.max = p[2]
        /\ r.max > 0 => r.dead \in DeadTubes
    BY <2>0, <2>2, TameTubes DEF Tube
  <2> HIDE DEF r
  <2>4. \A j \in JobIds : Fate(j)
    BY <2>1 DEF Fate, Stays
  <2>5. ASSUME NEW u \in Tubes
        PROVE  /\ tube'[u].tombstoned => tube[u].tombstoned
               /\ tube'[u].max > 0 => \/ tube'[u].max = tube[u].max /\ tube'[u].dead = tube[u].dead
                                      \/ tube'[u].dead \in DeadTubes
    <3>1. TameTube(tube[u], T2[u])
      BY <2>2 DEF TameMap
    <3> QED BY <3>1, <2>1, <2>2, <2>3 DEF TameTube
  <2> QED BY <2>1, <2>4, <2>5 DEF Fates
<1> QED BY <1>1, <1>2

\* reserve and reserve-job: the job moves within its tube.
LEMMA TakeFates ==
    ASSUME Parts, NEW c \in Conns, NEW j \in JobIds, job[j].state \in {"ready", "delayed", "buried"},
           NEW T \in [Tubes -> Tube], TameMap(tube, T), Take(c, j, T)
    PROVE  Fates
<1>1. /\ job' = [job EXCEPT ![j].state = "reserved", ![j].reserver = c] /\ doomed' = doomed
      /\ tube' = [T EXCEPT ![job[j].tube] =
                     Link(Unlink(@, job[j].state, j), "reserved", j, job)]
  BY DEF Take
<1>2. job[j].tube \in Tubes /\ job[j].state \in QueueStates
  BY PartsTypes DEF QueueStates
<1>3. \A k \in JobIds : Fate(k)
  <2>1. Shifts(j)
    BY <1>1, TameTubes DEF Shifts, Job
  <2>2. \A k \in JobIds \ {j} : Stays(k)
    BY <1>1, TameTubes DEF Stays
  <2> QED BY <2>1, <2>2 DEF Fate
<1>4. TameMap(tube, tube')
  <2> DEFINE u == job[j].tube
             m == Unlink(T[u], job[j].state, j)
             r == Link(m, "reserved", j, job)
  <2>1. m \in Tube
    BY <1>2, UnlinkProps DEF Unlinked
  <2>2. TameTube(T[u], m)
    BY <1>2, TameLink
  <2>3. tube' = [T EXCEPT ![u] = r]
    BY <1>1
  <2> HIDE DEF m
  <2>4. TameTube(m, r)
    BY <2>1, TameLink
  <2> HIDE DEF r
  <2>5. TameTube(T[u], r)
    BY <2>2, <2>4 DEF TameTube
  <2>6. TameMap(T, tube')
    BY <2>3, <2>5, <1>2, TameOne
  <2> QED BY <2>6, TameTrans
<1> QED BY <1>1, <1>3, <1>4, TameFates

\* isPaused clears the pause of tubes and nothing else.
LEMMA TameReopened ==
    ASSUME Parts, NEW E
    PROVE  Reopened(E) \in [Tubes -> Tube] /\ TameMap(tube, Reopened(E))
<1>1. ASSUME NEW u \in Tubes
      PROVE  Reopened(E)[u] \in Tube /\ TameTube(tube[u], Reopened(E)[u])
  <2>1. tube[u] \in Tube
    BY TameTubes
  <2>2. [tube[u] EXCEPT !.paused = FALSE] \in Tube
    BY <2>1 DEF Tube
  <2> QED BY <2>1, <2>2, TameEdit DEF Reopened, TameTube
<1> QED BY <1>1 DEF Reopened, TameMap

\* reserve in all its forms.
LEMMA ReserveFates ==
    ASSUME Parts, NEW c \in Conns, doReserve(c) \/ doReserveImmediate(c) \/ checkWait(c)
    PROVE  Fates
<1>1. PICK E \in Elapsed(c) :
         \/ findJobForConn(c, E)
         \/ tube' = Reopened(E) /\ job' = job /\ doomed' = doomed
  BY DEF doReserve, doReserveImmediate, checkWait, NothingReady
<1>2. CASE tube' = Reopened(E) /\ job' = job /\ doomed' = doomed
  BY <1>2, TameReopened, QuietFates
<1>3. CASE findJobForConn(c, E)
  <2> DEFINE ts == OpenTubes(c, E)
  <2>1. PICK t0 \in ts : tube[t0].ready # {}
    BY <1>3 DEF findJobForConn, OpenTubes
  <2>2. ts \subseteq Tubes
    BY DEF Parts, TypeOK, Conn, OpenTubes
  <2>3. /\ \A t \in ts : tube[t].ready \subseteq JobIds
        /\ \A j \in JobIds : job[j].pri \in Nat
    BY <2>2 DEF Parts, TypeOK, Tube, Job
  <2>4. Take(c, Best(ts), Reopened(E))
    BY <1>3 DEF findJobForConn
  <2> HIDE DEF ts
  <2>5. PICK t \in ts : Best(ts) \in tube[t].ready
    BY <2>1, <2>3, BestIsReady
  <2>6. Best(ts) \in JobIds /\ job[Best(ts)].state = "ready"
    BY <2>2, <2>5, AdmitFacts
  <2> QED BY <2>4, <2>6, TameReopened, TakeFates
<1> QED BY <1>1, <1>2, <1>3

\* put: the job arrives, and its tube is not tombstoned any more.
LEMMA PutFates ==
    ASSUME Parts, NEW c \in Conns,
           \/ \E p \in Pris, d \in Delays : startPut(c, p, d)
           \/ badBody(c) \/ finishPut(c)
    PROVE  Fates
<1>0. TameMap(tube, tube)
  BY DEF TameMap, TameTube
<1>1. ASSUME NEW p \in Pris, NEW d \in Delays, startPut(c, p, d) PROVE Fates
  <2>1. /\ job' = [job EXCEPT ![nextId'] = [NoJob EXCEPT !.tube = conn[c].use, !.pri = p, !.delay = d]]
        /\ nextId' = nextId + 1 /\ tube' = tube /\ doomed' = doomed
    BY <1>1 DEF startPut
  <2>2. nextId \in Nat /\ \A j \in JobIds : job[j].state # "invalid" => j <= nextId
    BY PartsTypes, AdmitFacts DEF PutsHold
  <2>3. ASSUME NEW j \in JobIds PROVE Fate(j)
    <3>1. CASE j = nextId'
      <4>1. job[j].state = "invalid"
        BY <2>1, <2>2, <3>1
      <4>2. job'[j].state = "invalid"
        BY <2>1, <3>1, TameTubes DEF NoJob
      <4> QED BY <4>1, <4>2 DEF Fate, Arrives
    <3>2. CASE j # nextId'
      BY <3>2, <2>1, TameTubes DEF Fate, Stays
    <3> QED BY <3>1, <3>2
  <2> QED BY <2>1, <2>3, <1>0, TameFates
<1> DEFINE j == conn[c].inJob
<1>2. ASSUME conn[c].phase = "data"
      PROVE  j \in JobIds /\ job[j].state = "invalid" /\ job[j].tube \in Tubes
  <2>1. j # 0 /\ job[j].state = "invalid"
    BY <1>2, PartsTypes DEF PutsHold, PutHolds
  <2>2. j \in JobIds \cup {0}
    BY TameTubes DEF Conn
  <2> QED BY <2>1, <2>2, PartsTypes
<1>3. ASSUME badBody(c) PROVE Fates
  <2>1. /\ job' = [job EXCEPT ![j] = NoJob] /\ tube' = tube /\ doomed' = doomed
        /\ conn[c].phase = "data"
    BY <1>3 DEF badBody
  <2> HIDE DEF j
  <2>2. Arrives(j) /\ \A k \in JobIds \ {j} : Stays(k)
    BY <2>1, <1>2, TameTubes DEF Arrives, Stays, NoJob
  <2>3. \A k \in JobIds : Fate(k)
    BY <2>2 DEF Fate
  <2> QED BY <2>1, <2>3, <1>0, TameFates
<1>4. ASSUME finishPut(c) PROVE Fates
  <2>1. PICK d : /\ job' = [job EXCEPT ![j].state = Queue(d), ![j].delay = d]
                 /\ tube' = enqueueJob(tube, j, job')
    BY <1>4 DEF finishPut
  <2>2. doomed' = doomed /\ conn[c].phase = "data"
    BY <1>4 DEF finishPut
  <2> HIDE DEF j
  <2>3. j \in JobIds /\ job[j].state = "invalid" /\ job[j].tube \in Tubes
    BY <2>2, <1>2
  <2>4. job'[j].tube = job[j].tube
    BY <2>1, <2>3, TameTubes DEF Job
  <2> DEFINE t == job[j].tube
             m == [tube[t] EXCEPT !.tombstoned = FALSE]
             r == Link(m, Queue(job'[j].delay), j, job')
  <2>5. tube' = [tube EXCEPT ![t] = r]
    BY <2>1, <2>4 DEF enqueueJob
  <2>6. m \in Tube /\ m.tombstoned = FALSE /\ TameTube(tube[t], m)
    <3>1. tube[t] \in Tube
      BY <2>3, TameTubes
    <3> QED BY <3>1 DEF Tube, TameTube
  <2> HIDE DEF m
  <2>7. r.tombstoned = FALSE /\ TameTube(m, r)
    BY <2>6, TameLink
  <2> HIDE DEF r
  <2>8. TameTube(tube[t], r)
    BY <2>6, <2>7 DEF TameTube
  <2>9. TameMap(tube, tube') /\ tube'[t] = r
    BY <2>3, <2>5, <2>8, TameTubes, TameOne
  <2>10. Arrives(j)
    BY <2>3, <2>4, <2>7, <2>9 DEF Arrives
  <2>11. \A k \in JobIds \ {j} : Stays(k)
    BY <2>1, <2>2, TameTubes DEF Stays
  <2>12. \A k \in JobIds : Fate(k)
    BY <2>10, <2>11 DEF Fate
  <2> QED BY <2>2, <2>9, <2>12, TameFates
<1> QED BY <1>1, <1>3, <1>4

\* A closing connection drops the jobs of tombstoned tubes and puts the other
\* ones back.
LEMMA CloseFates ==
    ASSUME Parts, NEW c \in Conns, Close(c)
    PROVE  Fates
<1>1. /\ conn' = [conn EXCEPT ![c] = NoClient] /\ doomed' = doomed \ conn[c].reserved
      /\ job' = [j \in JobIds |->
                    IF j \in Dropped(c) \cup {conn[c].inJob} THEN NoJob
                    ELSE IF j \in conn[c].reserved \ Dropped(c)
                         THEN [job[j] EXCEPT !.state = "ready", !.reserver = NoConn]
                    ELSE job[j]]
  BY DEF Close
<1>2. TameMap(tube, tube')
  <2> DEFINE dropped == Dropped(c)
             back    == conn[c].reserved \ dropped
             Of(J, t) == {j \in J : job[j].tube = t}
             R(t) == tube[t].ready \cup Of(back, t)
             C(t) == Enter(Leave(tube[t].ct, "reserved", Of(dropped, t), job),
                           "ready", Of(back, t), job)
             U(t) == tube[t].using - (IF t = conn[c].use THEN 1 ELSE 0)
             W(t) == tube[t].watching - (IF t \in conn[c].watch THEN 1 ELSE 0)
             ts == conn[c].watch \cup {conn[c].use} \cup {job[j].tube : j \in dropped}
             T2 == [t \in Tubes |->
                       [tube[t] EXCEPT !.ready = R(t), !.ct = C(t), !.using = U(t), !.watching = W(t)]]
  <2>1. tube' = gcTube(T2, ts)
    BY DEF Close
  <2> HIDE DEF R, C, U, W, ts
  <2>2. ASSUME NEW t \in Tubes PROVE TameTube(tube[t], T2[t])
    <3>1. tube[t] \in Tube
      BY TameTubes
    <3> QED BY <3>1 DEF Tube, TameTube
  <2>3. TameMap(tube, T2)
    BY <2>2 DEF TameMap
  <2> HIDE DEF T2
  <2>4. TameMap(T2, tube')
    BY <2>1, TameGc
  <2> QED BY <2>3, <2>4, TameTrans
<1>3. ASSUME NEW j \in JobIds PROVE Fate(j)
  <2>1. CASE j \in Dropped(c)
    <3>1. j \in conn[c].reserved /\ Tombstoned(j)
      BY <2>1 DEF Dropped, Tombstoned
    <3>2. job'[j].state = "invalid" /\ j \notin doomed'
      BY <2>1, <3>1, <1>1 DEF NoJob
    <3> QED BY <3>1, <3>2 DEF Fate, Leaves
  <2>2. CASE j = conn[c].inJob /\ j \notin Dropped(c)
    <3>1. job'[j].state = "invalid"
      BY <2>2, <1>1 DEF NoJob
    <3>2. job[j].state = "invalid"
      BY <2>2, PartsTypes DEF PutsHold, PutHolds
    <3> QED BY <3>1, <3>2 DEF Fate, Arrives
  <2>3. CASE j # conn[c].inJob /\ j \in conn[c].reserved \ Dropped(c)
    <3>1. job[j].state = "reserved" /\ job[j].reserver = c /\ ~Tombstoned(j) /\ j \notin doomed'
      BY <2>3, <1>1, PartsTypes DEF OwnersHold, Dropped, Tombstoned
    <3>2. job'[j] = [job[j] EXCEPT !.state = "ready", !.reserver = NoConn]
      BY <2>3, <1>1
    <3>3. job'[j].state = "ready" /\ job'[j].tube = job[j].tube
      BY <3>2, TameTubes DEF Job
    <3>4. conn'[c].phase = "closed"
      BY <1>1, TameTubes DEF NoClient
    <3> QED BY <3>1, <3>3, <3>4 DEF Fate, Returns
  <2>4. CASE j # conn[c].inJob /\ j \notin conn[c].reserved
    <3>1. j \notin Dropped(c)
      BY <2>4 DEF Dropped
    <3> QED BY <2>4, <3>1, <1>1 DEF Fate, Stays
  <2> QED BY <2>1, <2>2, <2>3, <2>4
<1> QED BY <1>1, <1>2, <1>3, TameFates

\* tick and kick: the jobs of K become ready where they are.
LEMMA ReadyFates ==
    ASSUME Parts, NEW t \in Tubes, NEW tb, NEW s, NEW K, MakeReady(t, tb, s, K),
           TameTube(tube[t], tb), tb \in Tube,
           \A j \in K : job[j].state \in {"delayed", "buried"}
    PROVE  Fates
<1>1. /\ job' = [j \in JobIds |-> IF j \in K THEN [job[j] EXCEPT !.state = "ready"] ELSE job[j]]
      /\ doomed' = doomed
      /\ tube' = [tube EXCEPT ![t] =
                     [tb EXCEPT !.ready = @ \cup K,
                                !.ct = Enter(Leave(@, s, K, job), "ready", K, job)]]
  BY DEF MakeReady
<1>2. ASSUME NEW j \in JobIds PROVE Fate(j)
  <2>1. CASE j \in K
    BY <2>1, <1>1, TameTubes DEF Fate, Shifts, Job
  <2>2. CASE j \notin K
    BY <2>2, <1>1 DEF Fate, Stays
  <2> QED BY <2>1, <2>2
<1>3. TameMap(tube, tube')
  <2> DEFINE ct2 == Enter(Leave(tb.ct, s, K, job), "ready", K, job)
             r == [tb EXCEPT !.ready = @ \cup K, !.ct = ct2]
  <2>1. tube' = [tube EXCEPT ![t] = r]
    BY <1>1
  <2> HIDE DEF ct2
  <2>2. TameTube(tube[t], r)
    BY DEF Tube, TameTube
  <2> HIDE DEF r
  <2> QED BY <2>1, <2>2, TameTubes, TameOne
<1> QED BY <1>1, <1>2, <1>3, TameFates

\* Taking jobs out of a queue is tame.
LEMMA TameWithout ==
    ASSUME NEW tb \in Tube
    PROVE  /\ \A D \in SUBSET JobIds :
                 [tb EXCEPT !.delay = D] \in Tube /\ TameTube(tb, [tb EXCEPT !.delay = D])
           /\ \A b \in Seq(JobIds) :
                 [tb EXCEPT !.buried = b] \in Tube /\ TameTube(tb, [tb EXCEPT !.buried = b])
<1>1. ASSUME NEW D \in SUBSET JobIds PROVE [tb EXCEPT !.delay = D] \in Tube
  BY DEF Tube
<1>2. ASSUME NEW b \in Seq(JobIds) PROVE [tb EXCEPT !.buried = b] \in Tube
  BY DEF Tube
<1>3. ASSUME NEW D, NEW b
      PROVE  TameTube(tb, [tb EXCEPT !.delay = D]) /\ TameTube(tb, [tb EXCEPT !.buried = b])
  BY DEF Tube, TameTube
<1> QED BY <1>1, <1>2, <1>3

\* kick and kick-tube.
LEMMA KickFates ==
    ASSUME Parts, NEW t \in Tubes, NEW b \in KickBounds, kickTube(t, b)
    PROVE  Fates
<1> DEFINE n == Min({b, Len(tube[t].buried)})
<1>0. /\ tube[t] \in Tube /\ tube[t].buried \in Seq(JobIds) /\ Len(tube[t].buried) \in Nat /\ b \in Nat
      /\ tube[t].delay \subseteq JobIds
  BY PartsTypes, InputAssumption DEF MapHolds, TubeHolds, Tube
<1>1. CASE /\ n > 0
           /\ MakeReady(t, [tube[t] EXCEPT !.buried = SubSeq(@, n + 1, Len(@))], "buried",
                        ToSet(SubSeq(tube[t].buried, 1, n)))
  <2>2. n \in Nat /\ n <= Len(tube[t].buried)
    BY <1>0, MinOfTwo
  <2> HIDE DEF n
  <2>3. ToSet(SubSeq(tube[t].buried, 1, n)) \subseteq ToSet(tube[t].buried)
    <3>1. n \in 1 .. Len(tube[t].buried) /\ IsInjective(tube[t].buried)
      BY <1>0, <2>2, <1>1, PartsTypes DEF MapHolds, TubeHolds
    <3> QED BY <3>1, <1>0, SplitList
  <2>4. \A j \in ToSet(SubSeq(tube[t].buried, 1, n)) : job[j].state \in {"delayed", "buried"}
    BY <2>3, AdmitFacts
  <2> DEFINE rest == SubSeq(tube[t].buried, n + 1, Len(tube[t].buried))
             tb == [tube[t] EXCEPT !.buried = rest]
             K == ToSet(SubSeq(tube[t].buried, 1, n))
  <2>5. rest \in Seq(JobIds)
    BY <1>0, <2>2
  <2>6. MakeReady(t, tb, "buried", K)
    BY <1>1
  <2> HIDE DEF rest, K
  <2>7. tb \in Tube /\ TameTube(tube[t], tb)
    BY <1>0, <2>5, TameWithout
  <2> HIDE DEF tb
  <2> QED BY <2>4, <2>6, <2>7, ReadyFates DEF K
<1>2. CASE \E K \in SUBSET tube[t].delay : MakeReady(t, [tube[t] EXCEPT !.delay = @ \ K], "delayed", K)
  <2>1. PICK K \in SUBSET tube[t].delay : MakeReady(t, [tube[t] EXCEPT !.delay = @ \ K], "delayed", K)
    BY <1>2
  <2>2. \A j \in K : job[j].state \in {"delayed", "buried"}
    BY AdmitFacts
  <2> DEFINE tb == [tube[t] EXCEPT !.delay = @ \ K]
  <2>3. tb \in Tube /\ TameTube(tube[t], tb)
    <3>1. tube[t].delay \ K \in SUBSET JobIds
      BY <1>0
    <3> QED BY <3>1, <1>0, TameWithout
  <2>4. MakeReady(t, tb, "delayed", K)
    BY <2>1
  <2> HIDE DEF tb
  <2> QED BY <2>2, <2>3, <2>4, ReadyFates
<1> QED BY <1>1, <1>2 DEF kickTube

\* A delay that is over.
LEMMA PromoteFates ==
    ASSUME Parts, NEW t \in Tubes, NEW j \in JobIds, tickPromote(t, j)
    PROVE  Fates
<1> DEFINE tb == [tube[t] EXCEPT !.delay = @ \ {j}]
<1>1. MakeReady(t, tb, "delayed", {j}) /\ j \in tube[t].delay
  BY DEF tickPromote
<1>2. tube[t] \in Tube /\ tube[t].delay \ {j} \in SUBSET JobIds
  BY TameTubes DEF Tube
<1>3. tb \in Tube /\ TameTube(tube[t], tb)
  BY <1>2, TameWithout
<1>4. \A k \in {j} : job[k].state \in {"delayed", "buried"}
  BY <1>1, AdmitFacts
<1> HIDE DEF tb
<1> QED BY <1>1, <1>3, <1>4, ReadyFates

\* kick-job.
LEMMA KickJobFates ==
    ASSUME Parts, NEW c \in Conns, NEW j \in JobIds, handleKickJob(c, j)
    PROVE  Fates
<1> DEFINE t == job[j].tube
<1>1. /\ t \in Tubes /\ tube[t] \in Tube /\ tube[t].delay \ {j} \in SUBSET JobIds
      /\ RemoveFirst(tube[t].buried, j) \in Seq(JobIds)
  <2>1. t \in Tubes
    BY PartsTypes
  <2>2. tube[t] \in Tube
    BY <2>1, TameTubes
  <2>3. tube[t].delay \in SUBSET JobIds /\ tube[t].buried \in Seq(JobIds)
    BY <2>2 DEF Tube
  <2> QED BY <2>1, <2>2, <2>3, RemoveList
<1> DEFINE tb1 == [tube[t] EXCEPT !.buried = RemoveFirst(@, j)]
           tb2 == [tube[t] EXCEPT !.delay = @ \ {j}]
<1>2. tb1 \in Tube /\ TameTube(tube[t], tb1) /\ tb2 \in Tube /\ TameTube(tube[t], tb2)
  BY <1>1, TameWithout
<1>3. \/ job[j].state = "buried" /\ MakeReady(t, tb1, "buried", {j})
      \/ job[j].state = "delayed" /\ MakeReady(t, tb2, "delayed", {j})
  BY DEF handleKickJob
<1>4. \A k \in {j} : job[k].state \in {"delayed", "buried"}
  BY <1>3
<1> HIDE DEF tb1, tb2, t
<1> QED BY <1>1, <1>2, <1>3, <1>4, ReadyFates

\* The end of a reservation: job j changes and is doomed no more; the others
\* stay.
LEMMA EndFates ==
    ASSUME Parts, NEW c \in Conns, NEW j \in JobIds, Unreserve(c, j), OnlyJob(j),
           TameMap(tube, tube'), Fate(j)
    PROVE  Fates
<1>1. doomed' = doomed \ {j}
  BY DEF Unreserve
<1>2. \A k \in JobIds \ {j} : Stays(k)
  BY <1>1 DEF OnlyJob, Stays
<1>3. \A k \in JobIds : Fate(k)
  BY <1>2 DEF Fate
<1> QED BY <1>1, <1>3, TameFates

\* The job is deleted.
LEMMA ForgetFates ==
    ASSUME Parts, NEW c \in Conns, NEW j \in JobIds, NEW s \in QueueStates, Unreserve(c, j), Forget(j, s),
           job[j].state = "reserved" => Tombstoned(j) \/ \E d \in Conns : handleDelete(d, j)
    PROVE  Fates
<1> DEFINE t == job[j].tube
           m == Unlink(tube[t], s, j)
           T2 == [tube EXCEPT ![t] = m]
<1>1. job' = [job EXCEPT ![j] = NoJob] /\ tube' = gcTube(T2, {t})
  BY DEF Forget
<1>2. t \in Tubes /\ tube[t] \in Tube
  BY PartsTypes, TameTubes
<1>3. TameTube(tube[t], m)
  BY <1>2, TameLink
<1> HIDE DEF m
<1>4. TameMap(tube, T2)
  BY <1>2, <1>3, TameTubes, TameOne
<1> HIDE DEF T2
<1>5. TameMap(tube, tube')
  <2>1. TameMap(T2, tube')
    BY <1>1, TameGc
  <2> QED BY <2>1, <1>4, TameTrans
<1>6. OnlyJob(j) /\ job'[j] = NoJob
  <2>1. NoJob \in Job
    BY TubesAssumption DEF NoJob, Job, JobStates, DelayKinds
  <2> QED BY <2>1, <1>1, TameTubes DEF OnlyJob
<1>7. Fate(j)
  <2>1. job'[j].state = "invalid"
    BY <1>6 DEF NoJob
  <2>2. j \notin doomed'
    BY DEF Unreserve
  <2> QED BY <2>1, <2>2 DEF Fate, Leaves
<1> QED BY <1>5, <1>6, <1>7, EndFates

\* What Becomes does to the job and the tubes, whatever it turns into.
LEMMA BecomesTame ==
    ASSUME Parts, NEW j \in JobIds, NEW r \in Job, NEW s \in QueueStates,
           NEW T \in [Tubes -> Tube], TameMap(tube, T), Becomes(j, r, s, T)
    PROVE  /\ TameMap(tube, tube') /\ OnlyJob(j)
           /\ job'[j].state = s /\ job'[j].tube = r.tube /\ job'[j].attempts = r.attempts
<1> DEFINE new  == [r EXCEPT !.state = s, !.reserver = NoConn]
           jobs == [job EXCEPT ![j] = new]
           m    == Link(T[r.tube], s, j, jobs)
<1>1. job' = jobs /\ tube' = [T EXCEPT ![r.tube] = m]
  BY DEF Becomes
<1>2. r.tube \in Tubes
  BY DEF Job
<1>3. /\ new \in Job /\ new.state = s /\ new.tube = r.tube /\ new.attempts = r.attempts
  BY DEF Job, JobStates, QueueStates
<1> HIDE DEF new
<1>4. OnlyJob(j) /\ job'[j] = new
  BY <1>1, <1>3, TameTubes DEF OnlyJob
<1> HIDE DEF jobs
<1>5. TameTube(T[r.tube], m)
  BY <1>2, TameLink
<1> HIDE DEF m
<1>6. TameMap(T, tube')
  BY <1>1, <1>2, <1>5, TameOne
<1> QED BY <1>3, <1>4, <1>6, TameTrans

\* The end of a reservation is tame.
LEMMA TameUnreserved ==
    ASSUME Parts, NEW j \in JobIds
    PROVE  Unreserved(j) \in [Tubes -> Tube] /\ TameMap(tube, Unreserved(j))
<1> DEFINE t == job[j].tube
           m == Unlink(tube[t], "reserved", j)
<1>1. t \in Tubes /\ tube[t] \in Tube /\ "reserved" \in QueueStates
  BY PartsTypes, TameTubes DEF QueueStates
<1>2. m \in Tube /\ TameTube(tube[t], m)
  BY <1>1, TameLink, UnlinkProps DEF Unlinked
<1>3. Unreserved(j) = [tube EXCEPT ![t] = m]
  BY DEF Unreserved
<1> HIDE DEF m, t
<1>4. tube \in [Tubes -> Tube]
  BY TameTubes
<1>5. [tube EXCEPT ![t] = m] \in [Tubes -> Tube] /\ TameMap(tube, [tube EXCEPT ![t] = m])
  BY <1>1, <1>2, <1>4, TameOne
<1> QED BY <1>3, <1>5

\* Back to its own tube: the threshold is not reached, or it is buried.
LEMMA BackFates ==
    ASSUME Parts, NEW c \in Conns, NEW j \in JobIds, NEW r \in Job, r.tube = job[j].tube,
           job[j].state = "reserved", ~Tombstoned(j), Unreserve(c, j),
           NEW s \in {"ready", "delayed", "buried"}, s # "buried" => ~Exhausted(r),
           Becomes(j, r, s, Unreserved(j))
    PROVE  Fates
<1>0. s \in QueueStates
  BY DEF QueueStates
<1>1. /\ TameMap(tube, tube') /\ OnlyJob(j)
      /\ job'[j].state = s /\ job'[j].tube = r.tube /\ job'[j].attempts = r.attempts
  BY <1>0, TameUnreserved, BecomesTame
<1>2. s # "buried" => ~Out(j)
  BY <1>1 DEF Out, Exhausted
<1>3. j \notin doomed'
  BY DEF Unreserve
<1>4. Returns(j)
  BY <1>1, <1>2, <1>3 DEF Returns
<1> QED BY <1>1, <1>4, EndFates DEF Fate

\* The job is buried in the dead-letter tube.
LEMMA DeadFates ==
    ASSUME Parts, NEW c \in Conns, NEW j \in JobIds, NEW r \in Job, r.tube = job[j].tube,
           job[j].state = "reserved", ~Tombstoned(j), Unreserve(c, j), checkDeadLetter(j, r)
    PROVE  Fates
<1> DEFINE dead == tube[r.tube].dead
           r2 == [r EXCEPT !.tube = dead]
           T2 == makeTube(Unreserved(j), dead)
<1>1. Exhausted(r) /\ Becomes(j, r2, "buried", T2)
  BY DEF checkDeadLetter
<1>2. dead \in Tubes
  <2>1. r.tube \in Tubes
    BY DEF Job
  <2>2. tube[r.tube] \in Tube
    BY <2>1, TameTubes
  <2> QED BY <2>2 DEF Tube
<1>D. dead = tube[job[j].tube].dead
  OBVIOUS
<1> HIDE DEF dead
<1>3. r2 \in Job /\ r2.tube = dead /\ r2.attempts = r.attempts
  BY <1>2 DEF Job
<1>4. T2 \in [Tubes -> Tube] /\ TameMap(tube, T2)
  <2>1. Unreserved(j) \in [Tubes -> Tube] /\ TameMap(tube, Unreserved(j))
    BY TameUnreserved
  <2>2. T2 \in [Tubes -> Tube] /\ TameMap(Unreserved(j), T2)
    BY <2>1, <1>2, TameMake, NewTubeProps DEF makeTube
  <2> HIDE DEF T2
  <2> QED BY <2>1, <2>2, TameTrans
<1> HIDE DEF r2, T2
<1>5. "buried" \in QueueStates
  BY DEF QueueStates
<1>6. /\ TameMap(tube, tube') /\ OnlyJob(j)
      /\ job'[j].state = "buried" /\ job'[j].tube = dead /\ job'[j].attempts = r.attempts
  BY <1>1, <1>3, <1>4, <1>5, BecomesTame
<1>7. Out(j) /\ j \notin doomed'
  BY <1>1, <1>6 DEF Out, Exhausted, Unreserve
<1>8. DeadLettered(j)
  BY <1>6, <1>7, <1>D DEF DeadLettered
<1> QED BY <1>6, <1>8, EndFates DEF Fate

\* release.
LEMMA ReleaseFates ==
    ASSUME Parts, NEW c \in Conns, NEW j \in JobIds, NEW p \in Pris,
           NEW d \in Delays \ {"at"}, handleRelease(c, j, p, d)
    PROVE  Fates
<1> DEFINE r == [Failed(j) EXCEPT !.pri = p, !.delay = d]
<1>1. Unreserve(c, j) /\ job[j].state = "reserved" /\ "reserved" \in QueueStates
  BY DEF handleRelease, Holds, QueueStates
<1>2. p \in Nat /\ d \in DelayKinds /\ Queue(d) \in {"ready", "delayed", "buried"}
  BY InputAssumption DEF Queue
<1>3. r \in Job /\ r.tube = job[j].tube
  BY <1>2, FailedType
<1>4. \/ Tombstoned(j) /\ Forget(j, "reserved")
      \/ ~Tombstoned(j) /\ checkDeadLetter(j, r)
      \/ ~Tombstoned(j) /\ ~Exhausted(r) /\ Becomes(j, r, Queue(d), Unreserved(j))
  BY DEF handleRelease
<1> HIDE DEF r
<1>5. CASE Tombstoned(j) /\ Forget(j, "reserved")
  BY <1>1, <1>5, ForgetFates
<1>6. CASE ~Tombstoned(j) /\ checkDeadLetter(j, r)
  BY <1>1, <1>3, <1>6, DeadFates
<1>7. CASE ~Tombstoned(j) /\ ~Exhausted(r) /\ Becomes(j, r, Queue(d), Unreserved(j))
  BY <1>1, <1>2, <1>3, <1>7, BackFates
<1> QED BY <1>4, <1>5, <1>6, <1>7

\* bury.
LEMMA BuryFates ==
    ASSUME Parts, NEW c \in Conns, NEW j \in JobIds, NEW p \in Pris, handleBury(c, j, p)
    PROVE  Fates
<1> DEFINE r == [job[j] EXCEPT !.pri = p]
<1>1. Unreserve(c, j) /\ job[j].state = "reserved" /\ "reserved" \in QueueStates
  BY DEF handleBury, Holds, QueueStates
<1>2. r \in Job /\ r.tube = job[j].tube
  BY InputAssumption, FailedType DEF DelayKinds
<1>3. \/ Tombstoned(j) /\ Forget(j, "reserved")
      \/ ~Tombstoned(j) /\ Becomes(j, r, "buried", Unreserved(j))
  BY DEF handleBury
<1> HIDE DEF r
<1>4. CASE Tombstoned(j) /\ Forget(j, "reserved")
  BY <1>1, <1>4, ForgetFates
<1>5. CASE ~Tombstoned(j) /\ Becomes(j, r, "buried", Unreserved(j))
  BY <1>1, <1>2, <1>5, BackFates
<1> QED BY <1>3, <1>4, <1>5

\* The end of a TTR.
LEMMA ExpireFates ==
    ASSUME Parts, NEW j \in JobIds, tickExpire(j)
    PROVE  Fates
<1> DEFINE r == Failed(j)
<1>1. job[j].state = "reserved" /\ job[j].reserver \in Conns /\ "reserved" \in QueueStates
  <2>1. job[j].reserver \in Conns \cup {NoConn}
    BY DEF Parts, TypeOK, Job
  <2> QED BY <2>1, PartsTypes DEF tickExpire, OwnersHold, QueueStates
<1>2. PICK c \in Conns : Unreserve(c, j)
  BY <1>1 DEF tickExpire
<1>3. r \in Job /\ r.tube = job[j].tube
  BY FailedType DEF DelayKinds
<1>4. \/ Tombstoned(j) /\ Forget(j, "reserved")
      \/ ~Tombstoned(j) /\ checkDeadLetter(j, r)
      \/ ~Tombstoned(j) /\ ~Exhausted(r) /\ Becomes(j, r, "ready", Unreserved(j))
  BY DEF tickExpire
<1> HIDE DEF r
<1>5. CASE Tombstoned(j) /\ Forget(j, "reserved")
  BY <1>1, <1>2, <1>5, ForgetFates
<1>6. CASE ~Tombstoned(j) /\ checkDeadLetter(j, r)
  BY <1>1, <1>2, <1>3, <1>6, DeadFates
<1>7. CASE ~Tombstoned(j) /\ ~Exhausted(r) /\ Becomes(j, r, "ready", Unreserved(j))
  BY <1>1, <1>2, <1>3, <1>7, BackFates
<1> QED BY <1>4, <1>5, <1>6, <1>7

\* delete.
LEMMA DeleteFates ==
    ASSUME Parts, NEW c \in Conns, NEW j \in JobIds, handleDelete(c, j)
    PROVE  Fates
<1>1. Unreserve(c, j) /\ Forget(j, job[j].state) /\ job[j].state \in QueueStates
  BY PartsTypes DEF handleDelete, JobStates, QueueStates
<1> QED BY <1>1, ForgetFates

\* delete-tube: what is left in the tube is reserved, and doomed from now on.
LEMMA DeleteTubeFates ==
    ASSUME Parts, Doom, NEW c \in Conns, NEW t \in Tubes, handleDeleteTube(c, t)
    PROVE  Fates
<1> DEFINE gone == tube[t].ready \cup tube[t].delay \cup ToSet(tube[t].buried)
<1>1. /\ job' = [j \in JobIds |-> IF j \in gone THEN NoJob ELSE job[j]]
      /\ doomed' = doomed \cup Held(t)
  BY DEF handleDeleteTube, purgeTube
<1>2. ASSUME NEW j \in JobIds
      PROVE  j \in gone <=> job[j].tube = t /\ job[j].state \in {"ready", "delayed", "buried"}
  BY PartsTypes DEF MapHolds, TubeHolds, FiledIn
<1> HIDE DEF gone
<1>3. ASSUME NEW j \in JobIds PROVE Fate(j)
  <2>1. CASE j \in gone
    <3>1. job'[j].state = "invalid" /\ job[j].state # "reserved"
      BY <2>1, <1>1, <1>2 DEF NoJob
    <3>2. j \notin doomed'
      BY <3>1, <1>1 DEF Doom, Held
    <3> QED BY <3>1, <3>2 DEF Fate, Leaves
  <2>2. CASE j \notin gone
    BY <2>2, <1>1 DEF Fate, Stays
  <2> QED BY <2>1, <2>2
<1>4. \A j \in doomed' : j \in doomed \/ job'[j].state = "reserved"
  <2>1. ASSUME NEW j \in Held(t) PROVE job'[j].state = "reserved"
    <3>1. j \in JobIds /\ job[j].state = "reserved" /\ j \notin gone
      BY <1>2 DEF Held
    <3> QED BY <3>1, <1>1
  <2> QED BY <2>1, <1>1
<1>5. ASSUME NEW j \in JobIds, job'[j].state # "invalid", job'[j].tube = t PROVE j \in doomed'
  <2>1. j \notin gone /\ job'[j] = job[j]
    BY <1>1, <1>5 DEF NoJob
  <2>2. job[j].state = "reserved"
    BY <2>1, <1>2, <1>5, PartsTypes DEF JobStates
  <2> QED BY <2>1, <2>2, <1>1, <1>5 DEF Held
<1>6. ASSUME NEW u \in Tubes
      PROVE  /\ u # t => (tube'[u].tombstoned => tube[u].tombstoned)
             /\ tube'[u].max > 0 => tube'[u].max = tube[u].max /\ tube'[u].dead = tube[u].dead
  <2> DEFINE tb == tube[t]
             Purged(ct) == Leave(Leave(Leave(ct, "ready", tb.ready, job),
                                       "delayed", tb.delay, job),
                                 "buried", ToSet(tb.buried), job)
             n == Purged(tb.ct)
             r == [tb EXCEPT !.ready = {}, !.delay = {}, !.buried = <<>>,
                             !.ct = n, !.tombstoned = TRUE]
             T2 == [tube EXCEPT ![t] = r]
  <2>1. tube' = gcTube(T2, {t})
    BY DEF handleDeleteTube, purgeTube
  <2> HIDE DEF n
  <2>2. r.max = tb.max /\ r.dead = tb.dead
    BY TameTubes DEF Tube
  <2> HIDE DEF r
  <2>3. TameMap(T2, tube')
    BY <2>1, TameGc
  <2>4. TameTube(T2[u], tube'[u])
    BY <2>3 DEF TameMap
  <2>5. T2[u] = IF u = t THEN r ELSE tube[u]
    BY TameTubes
  <2> QED BY <2>2, <2>4, <2>5 DEF TameTube
<1> QED BY <1>3, <1>4, <1>5, <1>6 DEF Fates

\* Every step of a running server gives every job one of the fates.
LEMMA ServeFates ==
    ASSUME Parts, Doom, Serve
    PROVE  Fates
<1>0. TameMap(tube, tube) /\ Pausable \subseteq Tubes
  BY InputAssumption DEF TameMap, TameTube
<1>1. ASSUME NEW c \in Conns, ConnNext(c) PROVE Fates
  <2>1. ASSUME refusePut(c) \/ bitBucketDone(c) PROVE Fates
    BY <2>1, <1>0, QuietFates DEF refusePut, bitBucketDone
  <2> QED BY <2>1, <1>1, ConnectFates, CloseFates, UseFates, WatchFates, PutFates,
             ReserveFates DEF ConnNext
<1>2. ASSUME NEW c \in Conns, NEW j \in JobIds, JobNext(c, j) PROVE Fates
  <2>1. ASSUME handleReserveJob(c, j) PROVE Fates
    <3>1. TameMap(tube, tube) /\ tube \in [Tubes -> Tube]
      BY <1>0, TameTubes
    <3>2. job[j].state \in {"ready", "delayed", "buried"} /\ Take(c, j, tube)
      BY <2>1 DEF handleReserveJob
    <3> QED BY <3>1, <3>2, TakeFates
  <2> QED BY <2>1, <1>2, DeleteFates, KickJobFates, ReleaseFates, BuryFates DEF JobNext
<1>3. ASSUME NEW c \in Conns, TubeNext(c) PROVE Fates
  <2>1. ASSUME NEW b \in KickBounds, handleKick(c, b) \/ \E t \in Tubes : handleKickTube(c, t, b)
        PROVE  Fates
    <3>1. \E u \in Tubes : kickTube(u, b)
      BY <2>1, TameTubes DEF handleKick, handleKickTube, Conn
    <3> QED BY <3>1, KickFates
  <2>2. ASSUME NEW p \in Policies, handleSetDlq(c, p[1], p[2], p[3]) PROVE Fates
    <3>1. p \in Tubes \X Nat \X Tubes
      BY InputAssumption
    <3>2. p[1] \in Tubes
      BY <3>1
    <3> QED BY <2>2, <3>2, SettingsFates
  <2>3. ASSUME NEW t \in Pausable, handlePauseTube(c, t) PROVE Fates
    BY <2>3, <1>0, SettingsFates
  <2> QED BY <2>1, <2>2, <2>3, <1>3, DeleteTubeFates DEF TubeNext
<1>4. CASE tick
  <2>1. ASSUME NEW t \in Tubes, tickUnpause(t) PROVE Fates
    <3> DEFINE r == [tube[t] EXCEPT !.paused = FALSE]
    <3>1. tube' = [tube EXCEPT ![t] = r] /\ job' = job /\ doomed' = doomed
      BY <2>1 DEF tickUnpause
    <3>2. TameTube(tube[t], r)
      BY TameTubes, TameEdit
    <3> HIDE DEF r
    <3>3. TameMap(tube, tube')
      BY <3>1, <3>2, TameTubes, TameOne
    <3> QED BY <3>1, <3>3, QuietFates
  <2> QED BY <2>1, <1>4, PromoteFates, ExpireFates DEF tick
<1>5. ASSUME NEW on \in DrainModes, setDrain(on) PROVE Fates
  BY <1>5, <1>0, QuietFates DEF setDrain
<1> QED BY <1>1, <1>2, <1>3, <1>4, <1>5 DEF Serve

\* A restart: nothing is doomed, tombstoned or under a policy any more, every
\* job of the index is queued in its tube, and nobody is connected.
LEMMA RestartFates ==
    ASSUME Parts, Restart
    PROVE  /\ doomed' = {}
           /\ \A t \in Tubes : ~tube'[t].tombstoned /\ tube'[t].max = 0
           /\ \A t \in Tubes \ {Default} : tube'[t].live =>
                 \E j \in JobIds : job'[j].state # "invalid" /\ job'[j].tube = t
           /\ \A j \in Live : job'[j].state \in {"ready", "delayed"} /\ job'[j].tube = job[j].tube
           /\ \A c \in Conns : conn'[c].phase = "closed"
<1> DEFINE found == LoadAllJobs(saved)
           rec(j) == [NoJob EXCEPT !.state = Queue(saved[j].delay),
                                   !.tube = saved[j].tube, !.pri = saved[j].pri,
                                   !.delay = saved[j].delay,
                                   !.attempts = saved[j].attempts]
           jobs  == [j \in JobIds |-> IF j \in found THEN rec(j) ELSE NoJob]
           In(q, ts) == {j \in found : jobs[j].state = q /\ jobs[j].tube \in ts}
           Counted(ts) == Enter(Enter(NewTube.ct, "ready", In("ready", ts), jobs),
                                "delayed", In("delayed", ts), jobs)
           named(t) == t = Default \/ \E j \in found : jobs[j].tube = t
           filled(t) == [NewTube EXCEPT !.ready = In("ready", {t}),
                                        !.delay = In("delayed", {t}), !.ct = Counted({t})]
<1>0. /\ job' = jobs
      /\ tube' = [t \in Tubes |-> IF named(t) THEN filled(t) ELSE NoTube]
      /\ conn' = [c \in Conns |-> NoClient] /\ doomed' = {}
  BY DEF Restart, Recover
<1>1. ASSUME NEW j \in found
      PROVE  rec(j).state \in {"ready", "delayed"} /\ rec(j).tube = saved[j].tube
  BY DEF NoJob, Queue
<1>2. found = Live /\ \A j \in Live : saved[j].tube = job[j].tube
  BY PartsTypes DEF StoreHolds, LoadAllJobs, Live
<1> HIDE DEF found, rec
<1>3. \A j \in Live : job'[j].state \in {"ready", "delayed"} /\ job'[j].tube = job[j].tube
  BY <1>0, <1>1, <1>2 DEF Live
<1>4. ASSUME NEW t \in Tubes
      PROVE  /\ ~tube'[t].tombstoned /\ tube'[t].max = 0
             /\ t # Default /\ tube'[t].live =>
                  \E j \in JobIds : job'[j].state # "invalid" /\ job'[j].tube = t
  <2>1. filled(t).tombstoned = FALSE /\ filled(t).max = 0
    <3> HIDE DEF In, Counted
    <3> QED BY DEF NewTube
  <2>2. ~NoTube.live
    BY NewTubeProps
  <2> HIDE DEF filled
  <2>3. t # Default /\ tube'[t].live => \E j \in Live : job'[j].tube = t
    BY <2>2, <1>0, <1>2 DEF Live
  <2>4. ~tube'[t].tombstoned /\ tube'[t].max = 0
    BY <2>1, <1>0, NewTubeTame
  <2> QED BY <2>3, <2>4, <1>3 DEF Live
<1>5. \A c \in Conns : conn'[c].phase = "closed"
  BY <1>0 DEF NoClient
<1> QED BY <1>0, <1>3, <1>4, <1>5

\* What the theorems below rest on.
LEMMA DoomHolds == Spec => [](Parts /\ Doom)
<1>1. Init => Parts /\ Doom
  <2> SUFFICES ASSUME Init PROVE Doom
    BY InitParts
  <2>1. \A t \in Tubes : tube[t].max = 0
    BY NewTubeTame DEF Init
  <2>2. Live = {} /\ doomed = {}
    BY DEF Init, Live, NoJob
  <2> QED BY <2>1, <2>2 DEF Doom
<1>2. Parts /\ Doom /\ [Next]_vars => Parts' /\ Doom'
  <2> SUFFICES ASSUME Parts, Doom, [Next]_vars PROVE Parts' /\ Doom'
    OBVIOUS
  <2>1. Parts' /\ TypeOK'
    BY NextParts DEF Parts
  <2>2. CASE Serve
    BY <2>1, <2>2, ServeFates, FatesKeepDoom
  <2>3. CASE Restart
    <3>1. \A j \in JobIds : job'[j].tube \in Tubes
      BY <2>1 DEF TypeOK, Job
    <3> QED BY <2>1, <2>3, <3>1, RestartFates DEF Doom, Live
  <2>4. CASE UNCHANGED vars
    BY <2>1, <2>4 DEF vars, Doom, Live
  <2> QED BY <2>1, <2>2, <2>3, <2>4 DEF Next
<1> QED BY <1>1, <1>2, PTL DEF Spec

\* Outside the dead-letter tubes, a tombstoned tube holds reserved jobs only.
DeletedIsEmpty ==
    \A t \in Tubes \ DeadTubes : tube[t].tombstoned =>
        tube[t].ready = {} /\ tube[t].delay = {} /\ tube[t].buried = <<>>

\* Doom says what DeletedIsEmpty says.
LEMMA DoomEmpties == Parts /\ Doom => DeletedIsEmpty
<1> SUFFICES ASSUME Parts, Doom, NEW t \in Tubes \ DeadTubes, tube[t].tombstoned
             PROVE  tube[t].ready = {} /\ tube[t].delay = {} /\ tube[t].buried = <<>>
  BY DEF DeletedIsEmpty
<1>1. \A j \in JobIds : job[j].tube = t => job[j].state \in {"invalid", "reserved"}
  BY DEF Doom, Live
<1>2. TubeHolds(tube[t], t, job, conn)
  BY PartsTypes DEF MapHolds
<1>3. tube[t].ready \subseteq JobIds /\ tube[t].delay \subseteq JobIds /\ tube[t].buried \in Seq(JobIds)
  BY <1>2 DEF TubeHolds, Tube
<1>4. \A j \in JobIds : j \notin tube[t].ready /\ j \notin tube[t].delay /\ j \notin ToSet(tube[t].buried)
  BY <1>1, <1>2 DEF TubeHolds, FiledIn
<1>5. tube[t].buried = <<>>
  <2>1. ToSet(tube[t].buried) \subseteq JobIds
    BY <1>3 DEF ToSet
  <2>2. ToSet(tube[t].buried) = {}
    BY <2>1, <1>4
  <2>3. Len(tube[t].buried) = 0
    BY <2>2, <1>2, <1>3, CardOfList, FS_EmptySet DEF TubeHolds
  <2> QED BY <2>3, <1>3
<1> QED BY <1>3, <1>4, <1>5

\* Whatever the policies: a tube no policy names as a dead-letter tube holds,
\* once deleted, reserved jobs only.
THEOREM DeletedStaysEmpty == Spec => []DeletedIsEmpty
BY DoomHolds, DoomEmpties, PTL

\* Without dead-letter policies, every tombstoned tube holds reserved jobs only.
THEOREM TombstonesHold ==
    ASSUME Policies = {}
    PROVE  Spec => []TombstonedIsEmpty
<1>1. DeletedIsEmpty => TombstonedIsEmpty
  BY DEF DeletedIsEmpty, TombstonedIsEmpty, DeadTubes
<1> QED BY <1>1, DeletedStaysEmpty, PTL

\* A reserved job of a tube no policy names as a dead-letter tube is destroyed
\* only by its owner's delete or because its tube was deleted while it was
\* reserved.
DroppedLawfully ==
    [][\A j \in JobIds :
          job[j].state = "reserved" /\ job'[j].state = "invalid" /\ job[j].tube \notin DeadTubes =>
             j \in doomed \/ \E c \in Conns : handleDelete(c, j)]_vars

\* A reserved job that disappears was deleted by its owner or doomed.
LEMMA DropLawful ==
    ASSUME Parts, Doom, Next, NEW j \in JobIds, job[j].state = "reserved",
           job'[j].state = "invalid", job[j].tube \notin DeadTubes
    PROVE  j \in doomed \/ \E c \in Conns : handleDelete(c, j)
<1>1. CASE Serve
  <2>1. Fate(j)
    BY <1>1, ServeFates DEF Fates
  <2>2. Leaves(j)
    BY <2>1 DEF Fate, Stays, Arrives, Shifts, Returns, DeadLettered
  <2>3. Tombstoned(j) => j \in doomed
    BY DEF Doom, Live, Tombstoned
  <2> QED BY <2>2, <2>3 DEF Leaves
<1>2. CASE Restart
  BY <1>2, RestartFates DEF Live
<1> QED BY <1>1, <1>2 DEF Next

\* Whatever the policies, no job outside the dead-letter tubes is lost: not by
\* release, bury, TTR expiry, disconnect, tube deletion or restart.
THEOREM NoJobLost == Spec => DroppedLawfully
<1>1. Parts /\ Doom /\ [Next]_vars =>
         [\A j \in JobIds :
            job[j].state = "reserved" /\ job'[j].state = "invalid" /\ job[j].tube \notin DeadTubes =>
               j \in doomed \/ \E c \in Conns : handleDelete(c, j)]_vars
  BY DropLawful
<1> QED BY <1>1, DoomHolds, PTL DEF Spec, DroppedLawfully

\* Without dead-letter policies this is so in every tube.
THEOREM DropsHold ==
    ASSUME Policies = {}
    PROVE  Spec => DroppedOnlyIfDoomed
<1>1. \A j : job[j].tube \notin DeadTubes
  BY DEF DeadTubes
<1>2. Parts /\ Doom /\ [Next]_vars =>
         [\A j \in JobIds :
            job[j].state = "reserved" /\ job'[j].state = "invalid" =>
               j \in doomed \/ \E c \in Conns : handleDelete(c, j)]_vars
  BY <1>1, DropLawful
<1> QED BY <1>2, DoomHolds, PTL DEF Spec, DroppedOnlyIfDoomed

\* What holds of DoomedNeverReturns: a doomed job comes back only when a put
\* has lifted the tombstone of its tube meanwhile (enqueueJob), or by a restart.
DoomedReturnsOnlyIfLifted ==
    [][\A j \in doomed :
          \/ job'[j].state \in {"reserved", "invalid"}
          \/ ~tube[job[j].tube].tombstoned
          \/ Restart]_vars

\* A job reserved when its tube was deleted comes back only after a put has
\* lifted the tombstone, or by a restart, whatever the policies.
THEOREM DoomedStayGone == Spec => DoomedReturnsOnlyIfLifted
<1>1. ASSUME Parts, Doom, Next, NEW j \in doomed
      PROVE  \/ job'[j].state \in {"reserved", "invalid"}
             \/ ~tube[job[j].tube].tombstoned
             \/ Restart
  <2>1. CASE Serve
    <3>1. j \in JobIds /\ job[j].state = "reserved"
      BY <1>1 DEF Parts, TypeOK, Doom
    <3>2. Fate(j)
      BY <1>1, <2>1, <3>1, ServeFates DEF Fates
    <3> QED BY <3>1, <3>2 DEF Fate, Stays, Arrives, Leaves, Shifts, Returns, DeadLettered, Tombstoned
  <2> QED BY <2>1, <1>1 DEF Next
<1>2. Parts /\ Doom /\ [Next]_vars =>
         [\A j \in doomed :
            \/ job'[j].state \in {"reserved", "invalid"}
            \/ ~tube[job[j].tube].tombstoned
            \/ Restart]_vars
  BY <1>1
<1> QED BY <1>2, DoomHolds, PTL DEF Spec, DoomedReturnsOnlyIfLifted

\* A job changes tube by dead-lettering only, when its failed deliveries reach
\* the threshold, and one that reaches it is not queued again.
THEOREM DeadLettersHold == Spec => DeadLetterPolicy
<1> DEFINE Lawful(j) ==
             LET from == tube[job[j].tube]
                 out  == from.max > 0 /\ job'[j].attempts >= from.max
             IN  /\ job'[j].state # "invalid" /\ job'[j].tube # job[j].tube =>
                       out /\ job'[j].tube = from.dead /\ job'[j].state = "buried"
                 /\ job[j].state = "reserved" /\ job'[j].state \in {"ready", "delayed"}
                    /\ conn'[job[j].reserver].phase # "closed" => ~out
<1>1. ASSUME Parts, Doom, Next, NEW j \in Live PROVE Lawful(j)
  <2>0. j \in JobIds /\ job[j].state # "invalid"
    BY DEF Live
  <2>1. CASE Serve
    <3>1. Fate(j)
      BY <1>1, <2>0, <2>1, ServeFates DEF Fates
    <3>2. CASE Stays(j)
      BY <3>2 DEF Stays
    <3>3. CASE Leaves(j)
      BY <3>3 DEF Leaves
    <3>4. CASE Shifts(j)
      BY <3>4 DEF Shifts
    <3>5. CASE Returns(j)
      BY <3>5 DEF Returns, Out
    <3>6. CASE DeadLettered(j)
      BY <3>6 DEF DeadLettered, Out
    <3> QED BY <3>1, <3>2, <3>3, <3>4, <3>5, <3>6, <2>0 DEF Fate, Arrives
  <2>2. CASE Restart
    <3>1. job'[j].tube = job[j].tube /\ \A c \in Conns : conn'[c].phase = "closed"
      BY <1>1, <2>2, RestartFates
    <3>2. job[j].state = "reserved" => job[j].reserver \in Conns
      <4>1. job[j].reserver \in Conns \cup {NoConn}
        BY <1>1, <2>0, TameTubes DEF Job
      <4> QED BY <4>1, <1>1, <2>0, PartsTypes DEF OwnersHold
    <3> QED BY <3>1, <3>2
  <2> QED BY <2>1, <2>2, <1>1 DEF Next
<1>2. Parts /\ Doom /\ [Next]_vars => [\A j \in Live : Lawful(j)]_vars
  BY <1>1
<1> QED BY <1>2, DoomHolds, PTL DEF Spec, DeadLetterPolicy

-----------------------------------------------------------------------------
(* Tube GC. *)

\* A step that empties t, in the eyes of gcTube, takes it out of the map.
Kept(t) ==
    tube[t].live /\ tube[t].max = 0 /\ ~Collectable(tube[t]) =>
       ~(tube'[t].live /\ Collectable(tube'[t]))

\* What a tube holds, and who refers to it, keeps it.
LEMMA OccupiedTube ==
    ASSUME NEW tb, NEW t, NEW jobs, NEW conns, TubeHolds(tb, t, jobs, conns)
    PROVE  /\ \A j \in JobIds : jobs[j].state \in QueueStates /\ jobs[j].tube = t => ~Collectable(tb)
           /\ \A c \in Conns : c \in Users(conns, t) \cup Watchers(conns, t) => ~Collectable(tb)
<1>0. tb \in Tube /\ tb.buried \in Seq(JobIds)
  BY DEF TubeHolds, Tube
<1>1. ASSUME NEW j \in JobIds, jobs[j].state \in QueueStates, jobs[j].tube = t PROVE ~Collectable(tb)
  <2>1. CASE jobs[j].state = "ready" \/ jobs[j].state = "delayed"
    BY <2>1, <1>1 DEF TubeHolds, FiledIn, Collectable
  <2>2. CASE jobs[j].state = "buried"
    <3>1. j \in ToSet(tb.buried)
      BY <2>2, <1>1 DEF TubeHolds, FiledIn
    <3>2. Len(tb.buried) # 0
      BY <3>1, <1>0 DEF ToSet
    <3> QED BY <3>2 DEF TubeHolds, Collectable
  <2>3. CASE jobs[j].state = "reserved"
    <3>1. j \in HeldIn(jobs, t) /\ HeldIn(jobs, t) \subseteq JobIds
      BY <2>3, <1>1 DEF HeldIn
    <3>2. IsFiniteSet(HeldIn(jobs, t)) /\ Cardinality(HeldIn(jobs, t)) \in Nat
      BY <3>1, JobSetsFinite
    <3>3. Cardinality(HeldIn(jobs, t)) # 0
      BY <3>1, <3>2, FS_EmptySet
    <3> QED BY <3>2, <3>3 DEF TubeHolds, Collectable
  <2> QED BY <2>1, <2>2, <2>3, <1>1 DEF QueueStates
<1>2. ASSUME NEW c \in Conns, c \in Users(conns, t) \cup Watchers(conns, t) PROVE ~Collectable(tb)
  <2>1. /\ IsFiniteSet(Users(conns, t)) /\ IsFiniteSet(Watchers(conns, t))
    BY ConnsAssumption, FS_Subset DEF Users, Watchers
  <2>2. Cardinality(Users(conns, t)) # 0 \/ Cardinality(Watchers(conns, t)) # 0
    BY <1>2, <2>1, FS_EmptySet
  <2> QED BY <2>2 DEF TubeHolds, Collectable
<1> QED BY <1>1, <1>2

\* The same, after a step.
LEMMA OccupiedAfter ==
    ASSUME Parts', NEW t \in Tubes
    PROVE  /\ \A j \in JobIds : job'[j].state # "invalid" /\ job'[j].tube = t => ~Collectable(tube'[t])
           /\ \A c \in Conns : \/ conn'[c].phase # "closed" /\ conn'[c].use = t
                               \/ t \in conn'[c].watch
                               => ~Collectable(tube'[t])
<1>1. TubeHolds(tube'[t], t, job', conn')
  BY DEF Parts, Good, MapHolds
<1>2. \A j \in JobIds : job'[j].state # "invalid" => job'[j].state \in QueueStates
  BY DEF Parts, TypeOK, Job, JobStates, QueueStates
<1> QED BY <1>1, <1>2, OccupiedTube DEF Users, Watchers

\* gcTube leaves no collectable tube among those it is called for.
LEMMA GcDone ==
    ASSUME NEW T, NEW ts, NEW t \in Tubes \ {Default}
    PROVE  /\ t \in ts => ~(gcTube(T, ts)[t].live /\ Collectable(gcTube(T, ts)[t]))
           /\ t \notin ts => gcTube(T, ts)[t] = T[t]
BY NewTubeProps DEF gcTube

\* A step that leaves the tubes alone.
LEMMA KeptAlone ==
    ASSUME NEW t, Collectable(tube'[t]) => Collectable(tube[t])
    PROVE  Kept(t)
BY DEF Kept

\* connect, use, watch and ignore.
LEMMA RefsKept ==
    ASSUME Parts, Parts', NEW c \in Conns, NEW t \in Tubes \ {Default}, NEW u \in Tubes,
           Connect(c) \/ handleUse(c, u) \/ handleWatch(c, u) \/ handleIgnore(c, u)
    PROVE  Kept(t)
<1>0. conn[c] \in Conn
  BY TameTubes
<1>1. CASE Connect(c)
  BY <1>1, TameTubes, KeptAlone DEF Connect
<1>2. CASE handleUse(c, u)
  <2> DEFINE old  == conn[c].use
             T1   == [tube EXCEPT ![old].using = @ - 1]
             left == gcTube(T1, {old})
             T2   == makeTube(left, u)
  <2>1. tube' = [T2 EXCEPT ![u].using = @ + 1] /\ conn' = [conn EXCEPT ![c].use = u]
        /\ conn[c].phase = "command"
    BY <1>2 DEF handleUse, Commanding
  <2>2. CASE t = u
    <3>1. conn'[c].phase # "closed" /\ conn'[c].use = t
      BY <2>1, <2>2, <1>0, TameTubes DEF Conn
    <3> QED BY <3>1, OccupiedAfter DEF Kept
  <2>3. CASE t # u
    <3>1. tube'[t] = left[t]
      BY <2>1, <2>3 DEF makeTube, gcTube
    <3>2. T1[t] = IF t = old THEN T1[t] ELSE tube[t]
      BY TameTubes
    <3> HIDE DEF T1
    <3>3. t \in {old} \/ left[t] = T1[t]
      BY GcDone
    <3> QED BY <3>1, <3>2, <3>3, GcDone DEF Kept
  <2> QED BY <2>2, <2>3
<1>3. CASE handleWatch(c, u)
  <2>1. tube' = [makeTube(tube, u) EXCEPT ![u].watching = @ + 1]
        /\ conn' = [conn EXCEPT ![c].watch = @ \cup {u}]
    BY <1>3 DEF handleWatch
  <2>2. CASE t = u
    <3>1. t \in conn'[c].watch
      BY <2>1, <2>2, <1>0, TameTubes DEF Conn
    <3> QED BY <3>1, OccupiedAfter DEF Kept
  <2>3. CASE t # u
    BY <2>1, <2>3, TameTubes, KeptAlone DEF makeTube
  <2> QED BY <2>2, <2>3
<1>4. CASE handleIgnore(c, u)
  <2> DEFINE T1 == [tube EXCEPT ![u].watching = @ - 1]
  <2>1. tube' = gcTube(T1, {u})
    BY <1>4 DEF handleIgnore
  <2>2. t # u => T1[t] = tube[t]
    BY TameTubes
  <2> HIDE DEF T1
  <2> QED BY <2>1, <2>2, GcDone DEF Kept
<1> QED BY <1>1, <1>2, <1>3, <1>4

\* A closing connection offers every tube it touched to gcTube.
LEMMA CloseKept ==
    ASSUME Parts, NEW c \in Conns, NEW t \in Tubes \ {Default}, Close(c)
    PROVE  Kept(t)
<1> DEFINE dropped == Dropped(c)
           back    == conn[c].reserved \ dropped
           Of(J, u) == {j \in J : job[j].tube = u}
           ct2(u) == Enter(Leave(tube[u].ct, "reserved", Of(dropped, u), job),
                           "ready", Of(back, u), job)
           U(u) == tube[u].using - (IF u = conn[c].use THEN 1 ELSE 0)
           W(u) == tube[u].watching - (IF u \in conn[c].watch THEN 1 ELSE 0)
           ts == conn[c].watch \cup {conn[c].use} \cup {job[j].tube : j \in dropped}
           r(u) == [tube[u] EXCEPT !.ready = @ \cup Of(back, u), !.ct = ct2(u),
                                   !.using = U(u), !.watching = W(u)]
           T2 == [u \in Tubes |-> r(u)]
<1>1. tube' = gcTube(T2, ts)
  BY DEF Close
<1>2. CASE t \in ts
  <2> HIDE DEF T2, ts
  <2> QED BY <1>1, <1>2, GcDone DEF Kept
<1>3. CASE t \notin ts
  <2>1. tube'[t] = r(t)
    <3>1. T2[t] = r(t)
      OBVIOUS
    <3> HIDE DEF T2, ts, r
    <3> QED BY <3>1, <1>1, <1>3, GcDone
  <2>2. Of(dropped, t) = {} /\ Of(back, t) \subseteq JobIds
    BY <1>3, TameTubes DEF Conn
  <2>3. tube[t] \in Tube /\ tube[t].ct \in [Counters -> Int] /\ tube[t].using \in Int /\ tube[t].watching \in Int
    BY TameTubes DEF Tube
  <2>4. U(t) = tube[t].using /\ W(t) = tube[t].watching
    BY <1>3, <2>3
  <2>5. ct2(t)["buried"] = tube[t].ct["buried"] /\ ct2(t)["reserved"] = tube[t].ct["reserved"]
    <3> DEFINE ct1 == Leave(tube[t].ct, "reserved", {}, job)
               B == Of(back, t)
    <3>1. ct2(t) = Enter(ct1, "ready", B, job) /\ B \subseteq JobIds
      BY <2>2
    <3>2. "reserved" \in QueueStates /\ "ready" \in QueueStates /\ {} \subseteq JobIds
          /\ Cardinality({}) = 0
      BY FS_EmptySet DEF QueueStates
    <3> HIDE DEF B, ct2
    <3>3. Left(ct1, tube[t].ct, "reserved", {})
      BY <2>3, <3>2, CtProps
    <3>4. ct1 \in [Counters -> Int] /\ ct1["buried"] = tube[t].ct["buried"]
          /\ ct1["reserved"] = tube[t].ct["reserved"]
      BY <3>2, <3>3, <2>3 DEF Left, Counters
    <3> HIDE DEF ct1
    <3>5. Entered(ct2(t), ct1, "ready", B)
      BY <3>1, <3>2, <3>4, CtProps
    <3> QED BY <3>4, <3>5 DEF Entered
  <2> HIDE DEF ct2, U, W
  <2>6. /\ r(t).ready = tube[t].ready \cup Of(back, t) /\ r(t).delay = tube[t].delay /\ r(t).ct = ct2(t)
        /\ r(t).using = U(t) /\ r(t).watching = W(t)
    BY <2>3 DEF Tube
  <2> HIDE DEF r
  <2>7. Collectable(r(t)) => Collectable(tube[t])
    BY <2>4, <2>5, <2>6 DEF Collectable
  <2> QED BY <2>1, <2>7, KeptAlone
<1> QED BY <1>2, <1>3

\* A reopened, paused or reconfigured tube is as collectable as before.
LEMMA EditCollectable ==
    ASSUME NEW tb \in Tube
    PROVE  /\ \A p : Collectable([tb EXCEPT !.paused = p]) <=> Collectable(tb)
           /\ \A m, d : Collectable([tb EXCEPT !.max = m, !.dead = d]) <=> Collectable(tb)
BY DEF Tube, Collectable

\* A reservation leaves its tube occupied.
LEMMA TakeKept ==
    ASSUME Parts, Parts', NEW c \in Conns, NEW j \in JobIds, NEW T \in [Tubes -> Tube], Take(c, j, T),
           NEW t \in Tubes, Collectable(T[t]) => Collectable(tube[t])
    PROVE  Kept(t)
<1>1. /\ job' = [job EXCEPT ![j].state = "reserved", ![j].reserver = c]
      /\ \E r : tube' = [T EXCEPT ![job[j].tube] = r]
  BY DEF Take
<1>2. CASE t = job[j].tube
  <2>1. job'[j].state # "invalid" /\ job'[j].tube = t
    BY <1>1, <1>2, TameTubes DEF Job
  <2> QED BY <2>1, OccupiedAfter DEF Kept
<1>3. CASE t # job[j].tube
  BY <1>1, <1>3, KeptAlone
<1> QED BY <1>2, <1>3

\* reserve in all its forms.
LEMMA ReserveKept ==
    ASSUME Parts, Parts', NEW c \in Conns, NEW t \in Tubes,
           doReserve(c) \/ doReserveImmediate(c) \/ checkWait(c)
    PROVE  Kept(t)
<1>1. PICK E \in Elapsed(c) : findJobForConn(c, E) \/ tube' = Reopened(E)
  BY DEF doReserve, doReserveImmediate, checkWait, NothingReady
<1>2. Reopened(E) \in [Tubes -> Tube] /\ (Collectable(Reopened(E)[t]) => Collectable(tube[t]))
  <2>1. tube[t] \in Tube
    BY TameTubes
  <2>2. Reopened(E)[t] = tube[t] \/ Reopened(E)[t] = [tube[t] EXCEPT !.paused = FALSE]
    BY DEF Reopened
  <2> QED BY <2>1, <2>2, TameReopened, EditCollectable
<1>3. CASE findJobForConn(c, E)
  <2> DEFINE ts == OpenTubes(c, E)
  <2>1. PICK t0 \in ts : tube[t0].ready # {}
    BY <1>3 DEF findJobForConn, OpenTubes
  <2>2. ts \subseteq Tubes
    BY DEF Parts, TypeOK, Conn, OpenTubes
  <2>3. /\ \A u \in ts : tube[u].ready \subseteq JobIds
        /\ \A j \in JobIds : job[j].pri \in Nat
    BY <2>2 DEF Parts, TypeOK, Tube, Job
  <2>4. Take(c, Best(ts), Reopened(E))
    BY <1>3 DEF findJobForConn
  <2> HIDE DEF ts
  <2>5. PICK u \in ts : Best(ts) \in tube[u].ready
    BY <2>1, <2>3, BestIsReady
  <2>6. Best(ts) \in JobIds
    BY <2>3, <2>5
  <2> QED BY <2>4, <2>6, <1>2, TakeKept
<1>4. CASE tube' = Reopened(E)
  BY <1>2, <1>4, KeptAlone
<1> QED BY <1>1, <1>3, <1>4

\* A put, and a reservation that ends with the job in its own tube.
LEMMA FiledKept ==
    ASSUME Parts, Parts', NEW j \in JobIds, NEW t \in Tubes,
           job'[j].state # "invalid", job'[j].tube = job[j].tube,
           t # job[j].tube => tube'[t] = tube[t]
    PROVE  Kept(t)
<1>1. CASE t = job[j].tube
  BY <1>1, OccupiedAfter DEF Kept
<1>2. CASE t # job[j].tube
  BY <1>2, KeptAlone
<1> QED BY <1>1, <1>2

\* A put leaves its tube occupied.
LEMMA FinishKept ==
    ASSUME Parts, Parts', NEW c \in Conns, NEW t \in Tubes, finishPut(c)
    PROVE  Kept(t)
<1> DEFINE j == conn[c].inJob
<1>1. PICK d : /\ job' = [job EXCEPT ![j].state = Queue(d), ![j].delay = d]
               /\ tube' = enqueueJob(tube, j, job')
  BY DEF finishPut
<1>2. j \in JobIds
  <2>1. j # 0 /\ j \in JobIds \cup {0}
    BY PartsTypes, TameTubes DEF finishPut, PutsHold, PutHolds, Conn
  <2> QED BY <2>1
<1> HIDE DEF j
<1>3. job'[j].state # "invalid" /\ job'[j].tube = job[j].tube
  BY <1>1, <1>2, TameTubes DEF Job, Queue
<1>4. t # job[j].tube => tube'[t] = tube[t]
  BY <1>1, <1>3, TameTubes DEF enqueueJob
<1> QED BY <1>2, <1>3, <1>4, FiledKept

\* A deleted job's tube is offered to gcTube.
LEMMA ForgetKept ==
    ASSUME Parts, NEW j \in JobIds, NEW s, NEW t \in Tubes \ {Default}, Forget(j, s)
    PROVE  Kept(t)
<1> DEFINE u == job[j].tube
           T2 == [tube EXCEPT ![u] = Unlink(@, s, j)]
<1>1. tube' = gcTube(T2, {u})
  BY DEF Forget
<1>2. t # u => T2[t] = tube[t]
  BY TameTubes
<1> HIDE DEF T2, u
<1> QED BY <1>1, <1>2, GcDone DEF Kept

\* A job that goes back occupies its tube.
LEMMA BackKept ==
    ASSUME Parts, Parts', NEW j \in JobIds, NEW r \in Job, r.tube = job[j].tube, NEW t \in Tubes,
           NEW s \in {"ready", "delayed", "buried"}, Becomes(j, r, s, Unreserved(j))
    PROVE  Kept(t)
<1>1. /\ job' = [job EXCEPT ![j] = [r EXCEPT !.state = s, !.reserver = NoConn]]
      /\ \E m : tube' = [Unreserved(j) EXCEPT ![job[j].tube] = m]
  BY DEF Becomes
<1>2. job'[j].state # "invalid" /\ job'[j].tube = job[j].tube
  BY <1>1, TameTubes DEF Job
<1>3. t # job[j].tube => tube'[t] = tube[t]
  BY <1>1, TameTubes DEF Unreserved
<1> QED BY <1>2, <1>3, FiledKept

\* Dead-lettering may empty the tube the job comes from: it has a threshold.
LEMMA DeadKept ==
    ASSUME Parts, Parts', NEW j \in JobIds, NEW r \in Job, r.tube = job[j].tube, NEW t \in Tubes,
           checkDeadLetter(j, r)
    PROVE  Kept(t)
<1> DEFINE dead == tube[r.tube].dead
<1>1. /\ job' = [job EXCEPT ![j] = [[r EXCEPT !.tube = dead] EXCEPT !.state = "buried", !.reserver = NoConn]]
      /\ \E m : tube' = [makeTube(Unreserved(j), dead) EXCEPT ![[r EXCEPT !.tube = dead].tube] = m]
      /\ tube[r.tube].max > 0
  BY DEF checkDeadLetter, Becomes, Exhausted
<1>2. [r EXCEPT !.tube = dead].tube = dead
  BY DEF Job
<1> HIDE DEF dead
<1>3. job'[j].state # "invalid" /\ job'[j].tube = dead
  BY <1>1, TameTubes DEF Job
<1>4. CASE t = job[j].tube
  BY <1>1, <1>4 DEF Kept
<1>5. CASE t = dead
  BY <1>3, <1>5, OccupiedAfter DEF Kept
<1>6. CASE t # job[j].tube /\ t # dead
  <2>1. tube'[t] = tube[t]
    BY <1>1, <1>2, <1>6, TameTubes DEF makeTube, Unreserved
  <2> QED BY <2>1, KeptAlone
<1> QED BY <1>4, <1>5, <1>6

\* tick and kick: a tube with a job that turned ready is not empty, and one
\* whose kick found nothing is as it was.
LEMMA ReadyKept ==
    ASSUME Parts, Parts', NEW t \in Tubes, NEW u \in Tubes, NEW tb, NEW s, NEW K, MakeReady(u, tb, s, K),
           K \subseteq JobIds, \A j \in K : job[j].tube = u,
           K = {} => s = "delayed" /\ tb = [tube[u] EXCEPT !.delay = @ \ K]
    PROVE  Kept(t)
<1>1. /\ job' = [j \in JobIds |-> IF j \in K THEN [job[j] EXCEPT !.state = "ready"] ELSE job[j]]
      /\ tube' = [tube EXCEPT ![u] =
                     [tb EXCEPT !.ready = @ \cup K,
                                !.ct = Enter(Leave(@, s, K, job), "ready", K, job)]]
  BY DEF MakeReady
<1>2. CASE t # u
  BY <1>1, <1>2, TameTubes, KeptAlone
<1>3. CASE t = u /\ K # {}
  <2>1. PICK j \in K : TRUE
    BY <1>3
  <2>2. j \in JobIds /\ job'[j].state # "invalid" /\ job'[j].tube = t
    BY <2>1, <1>1, <1>3, TameTubes DEF Job
  <2> QED BY <2>2, OccupiedAfter DEF Kept
<1>4. CASE t = u /\ K = {}
  <2> DEFINE ct1 == Leave(tube[t].ct, "delayed", {}, job)
             ct2 == Enter(ct1, "ready", {}, job)
             m == [tube[t] EXCEPT !.delay = @ \ {}]
             r == [m EXCEPT !.ready = @ \cup {}, !.ct = ct2]
  <2>1. tube[t] \in Tube /\ tube[t].ct \in [Counters -> Int]
    BY TameTubes DEF Tube
  <2>2. m \in Tube /\ m.ct = tube[t].ct /\ m.delay = tube[t].delay /\ m.ready = tube[t].ready
        /\ m.using = tube[t].using /\ m.watching = tube[t].watching
    BY <2>1 DEF Tube
  <2>3. tube'[t] = r
    <3>1. tb = m /\ s = "delayed" /\ K = {}
      BY <1>4
    <3> HIDE DEF m
    <3> QED BY <3>1, <1>1, <1>4, <2>2, TameTubes
  <2>4. "delayed" \in QueueStates /\ "ready" \in QueueStates /\ {} \subseteq JobIds /\ Cardinality({}) = 0
    BY FS_EmptySet DEF QueueStates
  <2>5. Left(ct1, tube[t].ct, "delayed", {})
    BY <2>1, <2>4, CtProps
  <2>6. ct1 \in [Counters -> Int] /\ ct1["buried"] = tube[t].ct["buried"]
        /\ ct1["reserved"] = tube[t].ct["reserved"]
    BY <2>5 DEF Left
  <2> HIDE DEF ct1, m
  <2>7. Entered(ct2, ct1, "ready", {})
    BY <2>4, <2>6, CtProps
  <2>8. ct2["buried"] = tube[t].ct["buried"] /\ ct2["reserved"] = tube[t].ct["reserved"]
    BY <2>6, <2>7 DEF Entered
  <2> HIDE DEF ct2
  <2>9. /\ r.ready = m.ready \cup {} /\ r.delay = m.delay /\ r.ct = ct2
        /\ r.using = m.using /\ r.watching = m.watching
    BY <2>2 DEF Tube
  <2> HIDE DEF r
  <2>10. Collectable(r) => Collectable(tube[t])
    BY <2>2, <2>8, <2>9 DEF Collectable
  <2> QED BY <2>3, <2>10, KeptAlone
<1> QED BY <1>2, <1>3, <1>4

\* kick and kick-tube.
LEMMA KickKept ==
    ASSUME Parts, Parts', NEW t \in Tubes, NEW u \in Tubes, NEW b \in KickBounds, kickTube(u, b)
    PROVE  Kept(t)
<1> DEFINE n == Min({b, Len(tube[u].buried)})
<1>0. /\ tube[u] \in Tube /\ tube[u].buried \in Seq(JobIds) /\ Len(tube[u].buried) \in Nat /\ b \in Nat
      /\ tube[u].delay \subseteq JobIds /\ IsInjective(tube[u].buried)
      /\ \A j \in JobIds : FiledIn(tube[u], u, job, j)
  BY PartsTypes, InputAssumption DEF MapHolds, TubeHolds, Tube
<1>1. CASE /\ n > 0
           /\ MakeReady(u, [tube[u] EXCEPT !.buried = SubSeq(@, n + 1, Len(@))], "buried",
                        ToSet(SubSeq(tube[u].buried, 1, n)))
  <2> DEFINE front == SubSeq(tube[u].buried, 1, n)
  <2>1. n \in Nat /\ n <= Len(tube[u].buried)
    BY <1>0, MinOfTwo
  <2> HIDE DEF n
  <2>2. n \in 1 .. Len(tube[u].buried)
    BY <1>0, <1>1, <2>1
  <2>3. ToSet(front) \subseteq ToSet(tube[u].buried)
    BY <2>2, <1>0, SplitList
  <2>4. ToSet(front) # {}
    <3>1. Len(front) = n /\ front \in Seq(JobIds)
      BY <2>2, <1>0
    <3> HIDE DEF front
    <3>2. 1 \in DOMAIN front
      BY <3>1, <2>2
    <3> QED BY <3>2 DEF ToSet
  <2>5. ToSet(tube[u].buried) \subseteq JobIds
    BY <1>0 DEF ToSet
  <2>6. ToSet(front) \subseteq JobIds /\ \A j \in ToSet(front) : job[j].tube = u
    BY <2>3, <2>5, <1>0 DEF FiledIn
  <2> QED BY <2>4, <2>6, <1>1, ReadyKept
<1>2. CASE \E K \in SUBSET tube[u].delay : MakeReady(u, [tube[u] EXCEPT !.delay = @ \ K], "delayed", K)
  <2>1. PICK K \in SUBSET tube[u].delay : MakeReady(u, [tube[u] EXCEPT !.delay = @ \ K], "delayed", K)
    BY <1>2
  <2>2. K \subseteq JobIds /\ \A j \in K : job[j].tube = u
    BY <1>0 DEF FiledIn
  <2> QED BY <2>1, <2>2, ReadyKept
<1> QED BY <1>1, <1>2 DEF kickTube

\* One job becomes ready.
LEMMA OneReadyKept ==
    ASSUME Parts, Parts', NEW t \in Tubes, NEW j \in JobIds, NEW tb, NEW s,
           MakeReady(job[j].tube, tb, s, {j})
    PROVE  Kept(t)
<1>1. job[j].tube \in Tubes
  BY PartsTypes
<1> QED BY <1>1, ReadyKept

\* delete-tube offers its tube to gcTube.
LEMMA DeleteTubeKept ==
    ASSUME Parts, NEW c \in Conns, NEW u \in Tubes, NEW t \in Tubes \ {Default}, handleDeleteTube(c, u)
    PROVE  Kept(t)
<1>1. PICK r : tube' = gcTube([tube EXCEPT ![u] = r], {u})
  BY DEF handleDeleteTube, purgeTube
<1> DEFINE T2 == [tube EXCEPT ![u] = r]
<1>2. tube' = gcTube(T2, {u}) /\ (t # u => T2[t] = tube[t])
  BY <1>1, TameTubes
<1> HIDE DEF T2
<1> QED BY <1>2, GcDone DEF Kept

\* pause-tube, the end of a pause and set-dlq.
LEMMA SettingsKept ==
    ASSUME Parts, NEW c, NEW u \in Tubes, NEW t \in Tubes, NEW m, NEW d,
           handlePauseTube(c, u) \/ tickUnpause(u) \/ handleSetDlq(c, u, m, d)
    PROVE  Kept(t)
<1>1. tube[t] \in Tube /\ tube \in [Tubes -> Tube]
  BY TameTubes
<1>2. CASE handlePauseTube(c, u) \/ tickUnpause(u)
  <2>1. PICK p : tube' = [tube EXCEPT ![u] = [tube[u] EXCEPT !.paused = p]]
    BY <1>2 DEF handlePauseTube, tickUnpause
  <2>2. tube'[t] = tube[t] \/ tube'[t] = [tube[t] EXCEPT !.paused = p]
    BY <2>1, <1>1
  <2> QED BY <2>2, <1>1, EditCollectable, KeptAlone
<1>3. CASE handleSetDlq(c, u, m, d)
  <2> DEFINE e == IF m = 0 THEN Default ELSE d
  <2>1. tube' = [makeTube(tube, u) EXCEPT ![u].max = m, ![u].dead = e]
    BY <1>3 DEF handleSetDlq
  <2> HIDE DEF e
  <2>2. CASE t # u \/ ~tube[u].live
    BY <2>1, <2>2, <1>1 DEF Kept, makeTube
  <2>3. CASE t = u /\ tube[u].live
    <3>1. tube' = [tube EXCEPT ![u].max = m, ![u].dead = e]
      BY <2>1, <2>3 DEF makeTube
    <3>2. tube'[t] = [tube[t] EXCEPT !.max = m, !.dead = e]
      BY <3>1, <2>3, <1>1 DEF Tube
    <3>3. Collectable([tube[t] EXCEPT !.max = m, !.dead = e]) <=> Collectable(tube[t])
      BY <1>1, EditCollectable
    <3> QED BY <3>2, <3>3, KeptAlone
  <2> QED BY <2>2, <2>3
<1> QED BY <1>2, <1>3

\* The end of a reservation.
LEMMA EndKept ==
    ASSUME Parts, Parts', NEW j \in JobIds, NEW t \in Tubes \ {Default}, NEW c \in Conns,
           \/ handleDelete(c, j)
           \/ \E p \in Pris, d \in Delays \ {"at"} : handleRelease(c, j, p, d)
           \/ \E p \in Pris : handleBury(c, j, p)
           \/ tickExpire(j)
    PROVE  Kept(t)
<1>1. CASE handleDelete(c, j)
  BY <1>1, ForgetKept DEF handleDelete
<1>2. ASSUME NEW p \in Pris, NEW d \in Delays \ {"at"}, handleRelease(c, j, p, d) PROVE Kept(t)
  <2> DEFINE r == [Failed(j) EXCEPT !.pri = p, !.delay = d]
  <2>1. p \in Nat /\ d \in DelayKinds /\ Queue(d) \in {"ready", "delayed", "buried"}
    BY InputAssumption DEF Queue
  <2>2. r \in Job /\ r.tube = job[j].tube
    BY <2>1, FailedType
  <2>3. Forget(j, "reserved") \/ checkDeadLetter(j, r) \/ Becomes(j, r, Queue(d), Unreserved(j))
    BY <1>2 DEF handleRelease
  <2> HIDE DEF r
  <2> QED BY <2>1, <2>2, <2>3, ForgetKept, DeadKept, BackKept
<1>3. ASSUME NEW p \in Pris, handleBury(c, j, p) PROVE Kept(t)
  <2> DEFINE r == [job[j] EXCEPT !.pri = p]
  <2>1. r \in Job /\ r.tube = job[j].tube
    BY InputAssumption, FailedType DEF DelayKinds
  <2>2. Forget(j, "reserved") \/ Becomes(j, r, "buried", Unreserved(j))
    BY <1>3 DEF handleBury
  <2> HIDE DEF r
  <2> QED BY <2>1, <2>2, ForgetKept, BackKept
<1>4. CASE tickExpire(j)
  <2>1. Failed(j) \in Job /\ Failed(j).tube = job[j].tube
    BY FailedType DEF DelayKinds
  <2>2. \/ Forget(j, "reserved") \/ checkDeadLetter(j, Failed(j))
        \/ Becomes(j, Failed(j), "ready", Unreserved(j))
    BY <1>4 DEF tickExpire
  <2> QED BY <2>1, <2>2, ForgetKept, DeadKept, BackKept
<1> QED BY <1>1, <1>2, <1>3, <1>4

\* Every step, tube by tube.
LEMMA NextKept ==
    ASSUME Parts, Next, NEW t \in Tubes \ {Default}
    PROVE  Kept(t)
<1>0. Parts' /\ Pausable \subseteq Tubes /\ conn \in [Conns -> Conn]
  BY NextParts, InputAssumption, TameTubes
<1>1. ASSUME NEW c \in Conns, ConnNext(c) PROVE Kept(t)
  <2>1. ASSUME \/ \E p \in Pris, d \in Delays : startPut(c, p, d)
               \/ refusePut(c) \/ bitBucketDone(c) \/ badBody(c)
        PROVE  Kept(t)
    BY <2>1, KeptAlone DEF startPut, refusePut, bitBucketDone, badBody
  <2>2. Default \in Tubes
    BY TubesAssumption
  <2> QED BY <2>1, <2>2, <1>0, <1>1, RefsKept, CloseKept, FinishKept, ReserveKept DEF ConnNext
<1>2. ASSUME NEW c \in Conns, NEW j \in JobIds, JobNext(c, j) PROVE Kept(t)
  <2>1. ASSUME handleReserveJob(c, j) PROVE Kept(t)
    BY <2>1, <1>0, TameTubes, TakeKept DEF handleReserveJob
  <2>2. ASSUME handleKickJob(c, j) PROVE Kept(t)
    BY <2>2, <1>0, OneReadyKept DEF handleKickJob
  <2> QED BY <2>1, <2>2, <1>0, <1>2, EndKept DEF JobNext
<1>3. ASSUME NEW c \in Conns, TubeNext(c) PROVE Kept(t)
  <2>1. ASSUME NEW b \in KickBounds, handleKick(c, b) \/ \E u \in Tubes : handleKickTube(c, u, b)
        PROVE  Kept(t)
    <3>1. \E u \in Tubes : kickTube(u, b)
      BY <2>1, <1>0 DEF handleKick, handleKickTube, Conn
    <3> QED BY <3>1, <1>0, KickKept
  <2>2. ASSUME NEW p \in Policies, handleSetDlq(c, p[1], p[2], p[3]) PROVE Kept(t)
    <3>1. p \in Tubes \X Nat \X Tubes
      BY InputAssumption
    <3>2. p[1] \in Tubes
      BY <3>1
    <3> QED BY <2>2, <3>2, SettingsKept
  <2>3. ASSUME NEW u \in Pausable, handlePauseTube(c, u) PROVE Kept(t)
    BY <2>3, <1>0, SettingsKept
  <2> QED BY <2>1, <2>2, <2>3, <1>3, DeleteTubeKept DEF TubeNext
<1>4. CASE tick
  <2>1. ASSUME NEW u \in Tubes, tickUnpause(u) PROVE Kept(t)
    BY <2>1, SettingsKept
  <2>2. ASSUME NEW u \in Tubes, NEW j \in JobIds, tickPromote(u, j) PROVE Kept(t)
    <3>1. job[j].tube = u
      BY <2>2, PartsTypes DEF tickPromote, MapHolds, TubeHolds, FiledIn
    <3> QED BY <3>1, <2>2, <1>0, OneReadyKept DEF tickPromote
  <2>3. ASSUME NEW j \in JobIds, tickExpire(j) PROVE Kept(t)
    <3>1. job[j].reserver \in Conns
      <4>1. job[j].reserver \in Conns \cup {NoConn}
        BY TameTubes DEF Job
      <4> QED BY <4>1, <2>3, PartsTypes DEF tickExpire, OwnersHold
    <3> QED BY <3>1, <2>3, <1>0, EndKept
  <2> QED BY <2>1, <2>2, <2>3, <1>4 DEF tick
<1>5. ASSUME NEW on \in DrainModes, setDrain(on) PROVE Kept(t)
  BY <1>5, KeptAlone DEF setDrain
<1>6. CASE Restart
  <2>1. tube'[t].live => \E j \in JobIds : job'[j].state # "invalid" /\ job'[j].tube = t
    BY <1>6, RestartFates
  <2> QED BY <2>1, <1>0, OccupiedAfter DEF Kept
<1> QED BY <1>1, <1>2, <1>3, <1>4, <1>5, <1>6 DEF Next, Serve

\* Whatever the policies: gcTube is called at every step that can make a tube
\* without a dead-letter threshold collectable.
CollectedUnlessPolicy ==
    [][\A t \in Tubes \ {Default} :
          tube[t].live /\ tube[t].max = 0 /\ ~Collectable(tube[t]) =>
             ~(tube'[t].live /\ Collectable(tube'[t]))]_vars

\* No step leaves an emptied tube without a threshold in the map.
THEOREM GcIsTimely == Spec => CollectedUnlessPolicy
<1>1. Parts /\ [Next]_vars =>
         [\A t \in Tubes \ {Default} :
            tube[t].live /\ tube[t].max = 0 /\ ~Collectable(tube[t]) =>
               ~(tube'[t].live /\ Collectable(tube'[t]))]_vars
  BY NextKept DEF Kept
<1> QED BY <1>1, InitParts, NextParts, PTL DEF Spec, CollectedUnlessPolicy

\* Without dead-letter policies, no step leaves an emptied tube in the map.
THEOREM GcHoldsWithoutPolicies ==
    ASSUME Policies = {}
    PROVE  Spec => EmptyTubeCollected
<1>1. Parts /\ Doom /\ [Next]_vars =>
         [\A t \in Tubes \ {Default} :
            tube[t].live /\ ~Collectable(tube[t]) =>
               ~(tube'[t].live /\ Collectable(tube'[t]))]_vars
  <2> SUFFICES ASSUME Parts, Doom, Next, NEW t \in Tubes \ {Default}, tube[t].live, ~Collectable(tube[t])
               PROVE  ~(tube'[t].live /\ Collectable(tube'[t]))
    OBVIOUS
  <2>1. tube[t].max \in Nat
    BY TameTubes DEF Tube
  <2>2. tube[t].max = 0
    BY <2>1 DEF Doom, DeadTubes
  <2> QED BY <2>2, NextKept DEF Kept
<1> QED BY <1>1, DoomHolds, PTL DEF Spec, EmptyTubeCollected
=============================================================================
