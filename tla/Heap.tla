-------------------------------- MODULE Heap --------------------------------
(***************************************************************************)
(* The binary heap of heap.go, with the comparator and the position        *)
(* callback the tubes give it (tube.go): the array, the index every job    *)
(* keeps of its own place in it, and the two sift loops one swap at a      *)
(* time.  The callers hold Server.mu: an operation runs to its end before  *)
(* the next one begins.  Indices count from 0, as in the code.             *)
(***************************************************************************)
EXTENDS Integers

CONSTANTS Items,    \* job ids
          Keys,     \* priorities or deadlines
          NoItem    \* the zero value of T

ASSUME ItemAssumption == Items \subseteq Nat /\ NoItem \notin Items
ASSUME KeyAssumption == Keys \subseteq Int

VARIABLES items,    \* items, a function on 0 .. size - 1
          size,     \* len(items)
          pos,      \* readyIdx or delayIdx of every job
          key,      \* Pri or DeadlineAt of every job
          pc,       \* the loop that runs, "idle" between operations
          k,        \* its index
          back,     \* where siftUp starts when siftDown is over, -1: nowhere
          ret       \* what the last operation returned

vars == <<items, size, pos, key, pc, k, back, ret>>

\* jobPriLess and jobDelayLess: the key first, then the id.
jobLess(a, b) == \/ key[a] < key[b]
                 \/ key[a] = key[b] /\ a < b

Less(i, j) == jobLess(items[i], items[j])

parent(i) == (i - 1) \div 2
left(i) == 2 * i + 1
right(i) == 2 * i + 2
-----------------------------------------------------------------------------
(* The operations up to their loops.                                        *)

Sift(loop, i, b) == pc' = loop /\ k' = i /\ back' = b

\* Append, note the index, sift towards the root.
Push(x, v) ==
    /\ pc = "idle" /\ pos[x] = -1
    /\ key' = [key EXCEPT ![x] = v]
    /\ items' = [i \in 0 .. size |-> IF i = size THEN x ELSE items[i]]
    /\ size' = size + 1
    /\ pos' = [pos EXCEPT ![x] = size]
    /\ Sift("siftDown", size, -1)
    /\ ret' = NoItem

\* The array without its last place, which moves to place i, and the indices
\* that go with it.
Fill(i) ==
    /\ items' = [j \in 0 .. size - 2 |-> IF j = i THEN items[size - 1] ELSE items[j]]
    /\ size' = size - 1
    /\ pos' = IF i = size - 1
              THEN [pos EXCEPT ![items[i]] = -1]
              ELSE [pos EXCEPT ![items[i]] = -1, ![items[size - 1]] = i]

Pop ==
    /\ pc = "idle" /\ size > 0
    /\ Fill(0)
    /\ ret' = items[0]
    /\ IF size = 1 THEN pc' = "idle" /\ UNCHANGED <<k, back>>
                   ELSE Sift("siftUp", 0, -1)
    /\ UNCHANGED key

Peek ==
    /\ pc = "idle" /\ size > 0
    /\ ret' = items[0]
    /\ UNCHANGED <<items, size, pos, key, pc, k, back>>

\* Pop and Peek of an empty heap.
Zero ==
    /\ pc = "idle" /\ size = 0
    /\ ret' = NoItem
    /\ UNCHANGED <<items, size, pos, key, pc, k, back>>

\* Slip: the last place is no special case.
RemoveAnyPlace(x) ==
    /\ pc = "idle" /\ pos[x] \in 0 .. size - 1
    /\ Fill(pos[x])
    /\ Sift("siftDown", pos[x], pos[x])
    /\ ret' = NoItem
    /\ UNCHANGED key

\* Slip: the job that fills the gap can only be too large.
RemoveOneLoop(x) ==
    /\ pc = "idle" /\ pos[x] \in 0 .. size - 1
    /\ Fill(pos[x])
    /\ IF pos[x] = size - 1 THEN pc' = "idle" /\ UNCHANGED <<k, back>>
                            ELSE Sift("siftUp", pos[x], -1)
    /\ ret' = NoItem
    /\ UNCHANGED key

\* Remove(j.readyIdx): both loops, from the same place.
Remove(x) ==
    /\ pc = "idle" /\ pos[x] \in 0 .. size - 1
    /\ Fill(pos[x])
    /\ IF pos[x] = size - 1 THEN pc' = "idle" /\ UNCHANGED <<k, back>>
                            ELSE Sift("siftDown", pos[x], pos[x])
    /\ ret' = NoItem
    /\ UNCHANGED key

\* Of a job that is not in the heap.
RemoveNothing(x) ==
    /\ pc = "idle" /\ pos[x] \notin 0 .. size - 1
    /\ ret' = NoItem
    /\ UNCHANGED <<items, size, pos, key, pc, k, back>>

\* The key of a job in the heap changes and Fix restores the order.
Fix(x, v) ==
    /\ pc = "idle" /\ pos[x] \in 0 .. size - 1
    /\ key' = [key EXCEPT ![x] = v]
    /\ Sift("siftDown", pos[x], pos[x])
    /\ ret' = NoItem
    /\ UNCHANGED <<items, size, pos>>
-----------------------------------------------------------------------------
(* The loops.                                                               *)

\* Slip: one of the two jobs is not told where it is.
swapTellsOne(i, j) ==
    /\ items' = [items EXCEPT ![i] = items[j], ![j] = items[i]]
    /\ pos' = [pos EXCEPT ![items[j]] = i]

swap(i, j) ==
    /\ items' = [items EXCEPT ![i] = items[j], ![j] = items[i]]
    /\ pos' = [pos EXCEPT ![items[j]] = i, ![items[i]] = j]

siftDown ==
    /\ pc = "siftDown" /\ k > 0 /\ Less(k, parent(k))
    /\ swap(k, parent(k))
    /\ k' = parent(k)
    /\ UNCHANGED <<size, key, pc, back, ret>>

\* The loop is over; Push returns, Remove and Fix go on from where it began.
siftDownEnds ==
    /\ pc = "siftDown" /\ (k > 0 => ~Less(k, parent(k)))
    /\ IF back = -1 THEN Sift("idle", 0, -1) ELSE Sift("siftUp", back, -1)
    /\ UNCHANGED <<items, size, pos, key, ret>>

\* Slip: the right child is compared with the parent.
smallestOfParent(i) ==
    LET l == IF left(i) < size /\ Less(left(i), i) THEN left(i) ELSE i
    IN  IF right(i) < size /\ Less(right(i), i) THEN right(i) ELSE l

\* The smaller child when one is smaller than its parent.
smallest(i) ==
    LET l == IF left(i) < size /\ Less(left(i), i) THEN left(i) ELSE i
    IN  IF right(i) < size /\ Less(right(i), l) THEN right(i) ELSE l

siftUp ==
    /\ pc = "siftUp" /\ smallest(k) # k
    /\ swap(k, smallest(k))
    /\ k' = smallest(k)
    /\ UNCHANGED <<size, key, pc, back, ret>>

siftUpEnds ==
    /\ pc = "siftUp" /\ smallest(k) = k
    /\ Sift("idle", 0, -1)
    /\ UNCHANGED <<items, size, pos, key, ret>>
-----------------------------------------------------------------------------
Init ==
    /\ items = [i \in 0 .. -1 |-> NoItem]
    /\ size = 0
    /\ pos = [x \in Items |-> -1]
    /\ key \in [Items -> Keys]
    /\ pc = "idle" /\ k = 0 /\ back = -1
    /\ ret = NoItem

Operation ==
    \/ \E x \in Items, v \in Keys : Push(x, v) \/ Fix(x, v)
    \/ Pop \/ Peek \/ Zero
    \/ \E x \in Items : Remove(x) \/ RemoveNothing(x)

Loop == siftDown \/ siftDownEnds \/ siftUp \/ siftUpEnds

Next == Operation \/ Loop

Spec == Init /\ [][Next]_vars
-----------------------------------------------------------------------------
(* Properties.                                                              *)

TypeOK ==
    /\ size \in Nat
    /\ items \in [0 .. size - 1 -> Items]
    /\ pos \in [Items -> Int]
    /\ key \in [Items -> Keys]
    /\ pc \in {"idle", "siftDown", "siftUp"}
    /\ k \in Nat /\ (pc # "idle" => k < size)
    /\ back \in Nat \cup {-1} /\ back < size
    /\ pc # "siftDown" => back = -1
    /\ ret \in Items \cup {NoItem}

\* Every job in the array knows its place there, at every swap, and every
\* other knows that it is in none: Remove(j.readyIdx) takes out j and no other.
PositionsHold ==
    /\ \A i \in 0 .. size - 1 : pos[items[i]] = i
    /\ \A x \in Items : pos[x] # -1 => pos[x] \in 0 .. size - 1 /\ items[pos[x]] = x

\* Is place i in order with the place above it?
InOrder(i) == ~Less(i, parent(i))

\* Between two operations no job is smaller than the one above it.
HeapOrder == pc = "idle" => \A i \in 1 .. size - 1 : InOrder(i)

\* What keeps the order while siftDown runs: only place k may be smaller than
\* the place above it; the places below k are in order with the place above k
\* and, once the loop has moved, with k.
DownOrder ==
    pc = "siftDown" =>
        /\ back # -1 => k <= back
        /\ \A i \in 1 .. size - 1 : i # k /\ parent(i) # k => InOrder(i)
        /\ \A i \in 1 .. size - 1 : parent(i) = k =>
              /\ k > 0 => ~Less(i, parent(k))
              /\ k # back => InOrder(i)

\* While siftUp runs: only the places below k may be smaller than the place
\* above them, and they are in order with the place above k.
UpOrder ==
    pc = "siftUp" =>
        /\ \A i \in 1 .. size - 1 : parent(i) # k => InOrder(i)
        /\ \A i \in 1 .. size - 1 : parent(i) = k /\ k > 0 => ~Less(i, parent(k))

\* The order at every step of the loops.
SiftOrder == HeapOrder /\ DownOrder /\ UpOrder

\* The heap is the queue the broker takes it for: the members change with the
\* first step of an operation, and Pop and Peek return the least of them.
members == {items[i] : i \in 0 .. size - 1}
Queue == INSTANCE PriorityQueue
IsPriorityQueue == Queue!Spec
=============================================================================
