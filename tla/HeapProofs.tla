----------------------------- MODULE HeapProofs -----------------------------
(***************************************************************************)
(* Proofs about the heap, for any number of jobs and any keys.             *)
(***************************************************************************)
EXTENDS Heap, WellFoundedInduction, TLAPS

(* Arithmetic of the tree, and the order of the jobs.                       *)

LEMMA ParentFacts ==
  ASSUME NEW i \in Nat, i > 0
  PROVE  /\ parent(i) \in Nat /\ parent(i) < i
         /\ i = left(parent(i)) \/ i = right(parent(i))
BY DEF parent, left, right

LEMMA ChildFacts ==
  ASSUME NEW i \in Nat
  PROVE  /\ left(i) \in Nat /\ right(i) \in Nat
         /\ left(i) > i /\ right(i) > i
         /\ parent(left(i)) = i /\ parent(right(i)) = i
BY DEF parent, left, right

\* The comparators of the tubes are strict total orders on the jobs.
LEMMA LessFacts ==
  ASSUME key \in [Items -> Keys], NEW a \in Items, NEW b \in Items, NEW c \in Items
  PROVE  /\ ~jobLess(a, a)
         /\ jobLess(a, b) => ~jobLess(b, a)
         /\ ~jobLess(b, a) /\ ~jobLess(c, b) => ~jobLess(c, a)
<1>1. a \in Int /\ b \in Int /\ c \in Int
  BY ItemAssumption
<1>2. key[a] \in Int /\ key[b] \in Int /\ key[c] \in Int
  BY KeyAssumption
<1>3. QED
  BY <1>1, <1>2 DEF jobLess
-----------------------------------------------------------------------------
(* Types and positions.                                                     *)

Placed == TypeOK /\ PositionsHold

\* A swap of two places.
LEMMA PlacedSwap ==
  ASSUME Placed, NEW i \in 0 .. size - 1, NEW j \in 0 .. size - 1, i # j, swap(i, j)
  PROVE  /\ items' \in [0 .. size - 1 -> Items]
         /\ pos' \in [Items -> Int]
         /\ items'[i] = items[j] /\ items'[j] = items[i]
         /\ \A n \in 0 .. size - 1 : n # i /\ n # j => items'[n] = items[n]
         /\ \A n \in 0 .. size - 1 : pos'[items'[n]] = n
         /\ \A x \in Items : pos'[x] # -1 => pos'[x] \in 0 .. size - 1 /\ items'[pos'[x]] = x
<1> USE DEF Placed
<1>1. items \in [0 .. size - 1 -> Items] /\ pos \in [Items -> Int] /\ size \in Nat
  BY DEF TypeOK
<1>2. /\ items' \in [0 .. size - 1 -> Items]
      /\ items'[i] = items[j] /\ items'[j] = items[i]
      /\ \A n \in 0 .. size - 1 : n # i /\ n # j => items'[n] = items[n]
  BY <1>1 DEF swap
<1>3. items[i] # items[j] /\ pos[items[i]] = i /\ pos[items[j]] = j
  BY DEF PositionsHold
<1>4. /\ pos' \in [Items -> Int]
      /\ pos'[items[j]] = i /\ pos'[items[i]] = j
      /\ \A x \in Items : x # items[i] /\ x # items[j] => pos'[x] = pos[x]
  BY <1>1, <1>3 DEF swap
<1>5. ASSUME NEW n \in 0 .. size - 1 PROVE pos'[items'[n]] = n
  <2>1. CASE n = i \/ n = j
    BY <2>1, <1>2, <1>4
  <2>2. CASE n # i /\ n # j
    <3>1. items[n] # items[i] /\ items[n] # items[j] /\ pos[items[n]] = n /\ items[n] \in Items
      BY <2>2, <1>1, <1>3 DEF PositionsHold
    <3>2. QED
      BY <3>1, <2>2, <1>2, <1>4
  <2>3. QED
    BY <2>1, <2>2
<1>6. ASSUME NEW x \in Items, pos'[x] # -1
      PROVE  pos'[x] \in 0 .. size - 1 /\ items'[pos'[x]] = x
  <2>1. CASE x = items[i] \/ x = items[j]
    BY <2>1, <1>2, <1>4
  <2>2. CASE x # items[i] /\ x # items[j]
    <3>1. pos'[x] = pos[x] /\ pos[x] \in 0 .. size - 1 /\ items[pos[x]] = x
      BY <2>2, <1>4, <1>6 DEF PositionsHold
    <3>2. pos[x] # i /\ pos[x] # j
      BY <3>1, <2>2
    <3>3. QED
      BY <3>1, <3>2, <1>2
  <2>3. QED
    BY <2>1, <2>2
<1>7. QED
  BY <1>2, <1>4, <1>5, <1>6

\* The last job moves to place i.
LEMMA PlacedFill ==
  ASSUME Placed, NEW i \in 0 .. size - 1, Fill(i)
  PROVE  /\ size' \in Nat /\ size' = size - 1
         /\ items' \in [0 .. size' - 1 -> Items]
         /\ pos' \in [Items -> Int]
         /\ i < size' => items'[i] = items[size - 1]
         /\ \A n \in 0 .. size' - 1 : n # i => items'[n] = items[n]
         /\ PositionsHold'
<1> USE DEF Placed
<1>1. items \in [0 .. size - 1 -> Items] /\ pos \in [Items -> Int] /\ size \in Nat /\ size > 0
  BY DEF TypeOK
<1>2. /\ size' \in Nat /\ size' = size - 1
      /\ items' \in [0 .. size' - 1 -> Items]
      /\ i < size' => items'[i] = items[size - 1]
      /\ \A n \in 0 .. size' - 1 : n # i => items'[n] = items[n]
  BY <1>1 DEF Fill
<1>3. /\ pos' \in [Items -> Int]
      /\ pos'[items[i]] = -1
      /\ \A x \in Items : x # items[i] /\ x # items[size - 1] => pos'[x] = pos[x]
      /\ i # size - 1 => pos'[items[size - 1]] = i
  <2>1. size - 1 \in 0 .. size - 1 /\ items[i] \in Items /\ items[size - 1] \in Items
    BY <1>1
  <2>2. CASE i = size - 1
    BY <1>1, <2>1, <2>2 DEF Fill
  <2>3. CASE i # size - 1
    <3>1. items[i] # items[size - 1]
      BY <2>1, <2>3 DEF PositionsHold
    <3>2. QED
      BY <1>1, <2>1, <2>3, <3>1 DEF Fill
  <2>4. QED
    BY <2>2, <2>3
<1>4. ASSUME NEW n \in 0 .. size' - 1 PROVE pos'[items'[n]] = n
  <2>1. n \in 0 .. size - 1 /\ n # size - 1 /\ size - 1 \in 0 .. size - 1
    BY <1>1, <1>2
  <2>2. CASE n = i
    BY <2>1, <2>2, <1>2, <1>3
  <2>3. CASE n # i
    <3>1. items[n] # items[i] /\ items[n] # items[size - 1] /\ pos[items[n]] = n /\ items[n] \in Items
      BY <2>1, <2>3, <1>1 DEF PositionsHold
    <3>2. QED
      BY <3>1, <2>3, <1>2, <1>3
  <2>4. QED
    BY <2>2, <2>3
<1>5. ASSUME NEW x \in Items, pos'[x] # -1
      PROVE  pos'[x] \in 0 .. size' - 1 /\ items'[pos'[x]] = x
  <2>1. x # items[i]
    BY <1>3, <1>5
  <2>2. CASE x = items[size - 1]
    <3>1. i # size - 1
      BY <2>1, <2>2
    <3>2. QED
      BY <3>1, <2>2, <1>1, <1>2, <1>3
  <2>3. CASE x # items[size - 1]
    <3>1. pos'[x] = pos[x] /\ pos[x] \in 0 .. size - 1 /\ items[pos[x]] = x
      BY <2>1, <2>3, <1>3, <1>5 DEF PositionsHold
    <3>2. pos[x] # i /\ pos[x] # size - 1
      BY <3>1, <2>1, <2>3
    <3>3. QED
      BY <3>1, <3>2, <1>1, <1>2
  <2>4. QED
    BY <2>2, <2>3
<1>6. QED
  BY <1>2, <1>3, <1>4, <1>5 DEF PositionsHold
-----------------------------------------------------------------------------
(* The order, action by action.                                             *)

HInv == Placed /\ SiftOrder

\* Facts about an array that the steps below use: a place of the heap holds a
\* job, and a place above the root's children is a place.
LEMMA Places ==
  ASSUME TypeOK, NEW i \in 0 .. size - 1
  PROVE  /\ i \in Nat /\ items[i] \in Items
         /\ i > 0 => parent(i) \in 0 .. size - 1 /\ parent(i) < i
<1>1. i \in Nat /\ items[i] \in Items /\ size \in Nat
  BY DEF TypeOK
<1>2. QED
  BY <1>1, ParentFacts

LEMMA InvInit == Init => HInv
<1> SUFFICES ASSUME Init PROVE HInv
  OBVIOUS
<1>1. TypeOK
  BY DEF Init, TypeOK
<1>2. PositionsHold
  BY DEF Init, PositionsHold
<1>3. SiftOrder
  BY DEF Init, SiftOrder, HeapOrder, DownOrder, UpOrder
<1>4. QED
  BY <1>1, <1>2, <1>3 DEF HInv, Placed

LEMMA InvPush ==
  ASSUME HInv, NEW x \in Items, NEW v \in Keys, Push(x, v)
  PROVE  HInv'
<1> USE DEF HInv, Placed
<1>1. size \in Nat /\ items \in [0 .. size - 1 -> Items] /\ pos \in [Items -> Int] /\ key \in [Items -> Keys]
  BY DEF TypeOK
<1>2. /\ size' = size + 1 /\ key' \in [Items -> Keys] /\ pos' \in [Items -> Int]
      /\ items' \in [0 .. size' - 1 -> Items]
      /\ items'[size] = x /\ \A n \in 0 .. size - 1 : items'[n] = items[n]
      /\ pos'[x] = size /\ \A y \in Items : y # x => pos'[y] = pos[y]
      /\ \A y \in Items : y # x => key'[y] = key[y]
      /\ pc' = "siftDown" /\ k' = size /\ back' = -1 /\ ret' = NoItem
  BY <1>1 DEF Push, Sift
<1>3. \A n \in 0 .. size - 1 : items[n] # x
  BY DEF Push, PositionsHold
<1>4. TypeOK'
  BY <1>1, <1>2 DEF TypeOK
<1>5. PositionsHold'
  <2>1. ASSUME NEW n \in 0 .. size' - 1 PROVE pos'[items'[n]] = n
    <3>1. CASE n = size
      BY <3>1, <1>2
    <3>2. CASE n \in 0 .. size - 1
      BY <3>2, <1>1, <1>2, <1>3 DEF PositionsHold
    <3>3. QED
      BY <3>1, <3>2, <1>1, <1>2
  <2>2. ASSUME NEW y \in Items, pos'[y] # -1
        PROVE  pos'[y] \in 0 .. size' - 1 /\ items'[pos'[y]] = y
    <3>1. CASE y = x
      BY <3>1, <1>1, <1>2
    <3>2. CASE y # x
      <4>1. pos'[y] = pos[y] /\ pos[y] \in 0 .. size - 1 /\ items[pos[y]] = y
        BY <3>2, <2>2, <1>2 DEF PositionsHold
      <4>2. QED
        BY <4>1, <1>1, <1>2
    <3>3. QED
      BY <3>1, <3>2
  <2>3. QED
    BY <2>1, <2>2 DEF PositionsHold
<1>6. DownOrder'
  <2>1. ASSUME NEW i \in 1 .. size' - 1, i # size PROVE InOrder(i)'
    <3>1. i \in 1 .. size - 1 /\ i \in 0 .. size - 1
      BY <2>1, <1>1, <1>2
    <3>2. parent(i) \in 0 .. size - 1
      BY <3>1, Places
    <3>3. ~jobLess(items[i], items[parent(i)])
      BY <3>1 DEF SiftOrder, HeapOrder, InOrder, Less, Push
    <3>4. key'[items[i]] = key[items[i]] /\ key'[items[parent(i)]] = key[items[parent(i)]]
      BY <3>1, <3>2, <1>1, <1>2, <1>3
    <3>5. items'[i] = items[i] /\ items'[parent(i)] = items[parent(i)]
      BY <3>1, <3>2, <1>2
    <3>6. QED
      BY <3>3, <3>4, <3>5 DEF InOrder, Less, jobLess
  <2>2. ASSUME NEW i \in 1 .. size' - 1, parent(i) = size PROVE FALSE
    <3>1. i \in Nat /\ i > 0 /\ i <= size
      BY <1>1, <1>2
    <3>2. QED
      BY <3>1, <2>2, ParentFacts, <1>1
  <2>3. QED
    BY <2>1, <2>2, <1>2 DEF DownOrder
<1>7. HeapOrder' /\ UpOrder'
  BY <1>2 DEF HeapOrder, UpOrder
<1>8. QED
  BY <1>4, <1>5, <1>6, <1>7 DEF SiftOrder

\* After a Fill every place whose own job and whose job above did not change
\* is still in order.
LEMMA FillOrder ==
  ASSUME HInv, pc = "idle", NEW i \in 0 .. size - 1, Fill(i), key' = key
  PROVE  /\ \A n \in 1 .. size' - 1 : n # i /\ parent(n) # i => InOrder(n)'
         /\ \A n \in 1 .. size' - 1 : parent(n) = i /\ i > 0 => ~Less(n, parent(i))'
<1> USE DEF HInv
<1>1. /\ size \in Nat /\ size' \in Nat /\ size' = size - 1
      /\ \A n \in 0 .. size' - 1 : n # i => items'[n] = items[n]
  BY PlacedFill DEF Placed, TypeOK
<1>2. TypeOK /\ key \in [Items -> Keys]
  BY DEF Placed, TypeOK
<1>3. \A n \in 1 .. size - 1 : ~jobLess(items[n], items[parent(n)])
  BY DEF SiftOrder, HeapOrder, InOrder, Less
<1>4. ASSUME NEW n \in 1 .. size' - 1, n # i, parent(n) # i PROVE InOrder(n)'
  <2>1. n \in 0 .. size - 1 /\ n \in 1 .. size - 1 /\ n \in 0 .. size' - 1
    BY <1>1
  <2>2. parent(n) \in 0 .. size' - 1
    BY <2>1, <1>1, <1>2, Places
  <2>3. items'[n] = items[n] /\ items'[parent(n)] = items[parent(n)]
    BY <2>1, <2>2, <1>1, <1>4
  <2>4. QED
    BY <2>1, <2>3, <1>3 DEF InOrder, Less, jobLess
<1>5. ASSUME NEW n \in 1 .. size' - 1, parent(n) = i, i > 0 PROVE ~Less(n, parent(i))'
  <2>1. n \in 0 .. size - 1 /\ n \in 1 .. size - 1 /\ n \in 0 .. size' - 1 /\ i \in 1 .. size - 1
    BY <1>1, <1>5
  <2>2. i < n /\ parent(i) \in 0 .. size - 1 /\ parent(i) < i
    BY <2>1, <1>2, <1>5, Places
  <2>3. items'[n] = items[n] /\ items'[parent(i)] = items[parent(i)]
    BY <2>1, <2>2, <1>1
  <2>4. ~jobLess(items[n], items[i]) /\ ~jobLess(items[i], items[parent(i)])
    BY <2>1, <1>3, <1>5
  <2>5. items[n] \in Items /\ items[i] \in Items /\ items[parent(i)] \in Items
    BY <2>1, <2>2, <1>2, Places
  <2>6. ~jobLess(items[n], items[parent(i)])
    BY <2>4, <2>5, <1>2, LessFacts
  <2>7. QED
    BY <2>3, <2>6 DEF Less, jobLess
<1>6. QED
  BY <1>4, <1>5

LEMMA InvPop ==
  ASSUME HInv, Pop
  PROVE  HInv'
<1> USE DEF HInv
<1>1. /\ size \in Nat /\ size > 0 /\ 0 \in 0 .. size - 1 /\ key' = key /\ pc = "idle" /\ Fill(0)
      /\ items[0] \in Items /\ back = -1
  BY DEF Pop, Placed, TypeOK
<1>2. /\ size' \in Nat /\ size' = size - 1
      /\ items' \in [0 .. size' - 1 -> Items] /\ pos' \in [Items -> Int] /\ PositionsHold'
  BY <1>1, PlacedFill
<1>3. \A n \in 1 .. size' - 1 : n # 0 /\ parent(n) # 0 => InOrder(n)'
  BY <1>1, FillOrder
<1>4. CASE size = 1
  <2>1. pc' = "idle" /\ k' = k /\ back' = back /\ ret' = items[0] /\ size' = 0
    BY <1>2, <1>4 DEF Pop
  <2>2. TypeOK'
    BY <1>1, <1>2, <2>1 DEF TypeOK, Placed
  <2>3. SiftOrder'
    BY <2>1 DEF SiftOrder, HeapOrder, DownOrder, UpOrder
  <2>4. QED
    BY <1>2, <2>2, <2>3 DEF Placed
<1>5. CASE size # 1
  <2>1. pc' = "siftUp" /\ k' = 0 /\ back' = -1 /\ ret' = items[0]
    BY <1>5 DEF Pop, Sift
  <2>2. TypeOK'
    BY <1>1, <1>2, <1>5, <2>1 DEF TypeOK, Placed
  <2>3. SiftOrder'
    BY <1>3, <2>1 DEF SiftOrder, HeapOrder, DownOrder, UpOrder
  <2>4. QED
    BY <1>2, <2>2, <2>3 DEF Placed
<1>6. QED
  BY <1>4, <1>5

LEMMA InvRemove ==
  ASSUME HInv, NEW x \in Items, Remove(x)
  PROVE  HInv'
<1> USE DEF HInv
<1>0. PICK i \in 0 .. size - 1 : i = pos[x]
  BY DEF Remove
<1>1. /\ size \in Nat /\ i \in 0 .. size - 1 /\ key' = key /\ pc = "idle" /\ Fill(i) /\ back = -1
      /\ ret' = NoItem
      /\ i = size - 1 => pc' = "idle" /\ k' = k /\ back' = back
      /\ i # size - 1 => pc' = "siftDown" /\ k' = i /\ back' = i
  BY <1>0 DEF Remove, Placed, TypeOK, Sift
<1>2. /\ size' \in Nat /\ size' = size - 1
      /\ items' \in [0 .. size' - 1 -> Items] /\ pos' \in [Items -> Int] /\ PositionsHold'
  BY <1>1, PlacedFill
<1>3. /\ \A n \in 1 .. size' - 1 : n # i /\ parent(n) # i => InOrder(n)'
      /\ \A n \in 1 .. size' - 1 : parent(n) = i /\ i > 0 => ~jobLess(items[n], items[parent(i)])'
  BY <1>1, FillOrder DEF Less
<1>4. CASE i = size - 1
  <2>1. pc' = "idle" /\ k' = k /\ back' = back
    BY <1>1, <1>4
  <2>2. TypeOK'
    BY <1>1, <1>2, <2>1 DEF TypeOK, Placed
  <2>3. ASSUME NEW n \in 1 .. size' - 1 PROVE InOrder(n)'
    <3>1. n # i /\ n \in Nat /\ n > 0 /\ n < i
      BY <1>1, <1>2, <1>4
    <3>2. parent(n) # i
      BY <3>1, ParentFacts, <1>1
    <3>3. QED
      BY <3>1, <3>2, <1>3
  <2>4. SiftOrder'
    BY <2>1, <2>3 DEF SiftOrder, HeapOrder, DownOrder, UpOrder
  <2>5. QED
    BY <1>2, <2>2, <2>4 DEF Placed
<1>5. CASE i # size - 1
  <2>1. pc' = "siftDown" /\ k' = i /\ back' = i
    BY <1>1, <1>5
  <2>2. TypeOK'
    <3>1. i \in Nat /\ i < size'
      BY <1>0, <1>1, <1>2, <1>5
    <3>2. QED
      BY <3>1, <1>1, <1>2, <2>1 DEF TypeOK, Placed
  <2>3. SiftOrder'
    <3>1. HeapOrder' /\ UpOrder'
      BY <2>1 DEF HeapOrder, UpOrder
    <3>2. k' = i /\ back' = i /\ (back' # -1 => k' <= back')
      BY <1>1, <2>1
    <3>3. \A n \in 1 .. size' - 1 : n # k' /\ parent(n) # k' => InOrder(n)'
      BY <1>3, <3>2
    <3>4. \A n \in 1 .. size' - 1 : parent(n) = k' /\ k' > 0 => ~jobLess(items[n], items[parent(k)])'
      BY <1>3, <3>2
    <3>5. DownOrder'
      BY <3>2, <3>3, <3>4 DEF DownOrder, Less
    <3>6. QED
      BY <3>1, <3>5 DEF SiftOrder
  <2>4. QED
    BY <1>2, <2>2, <2>3 DEF Placed
<1>6. QED
  BY <1>4, <1>5

LEMMA InvFix ==
  ASSUME HInv, NEW x \in Items, NEW v \in Keys, Fix(x, v)
  PROVE  HInv'
<1> USE DEF HInv
<1>0. PICK i \in 0 .. size - 1 : i = pos[x]
  BY DEF Fix
<1>1. /\ size \in Nat /\ i \in Nat /\ i < size /\ TypeOK /\ PositionsHold /\ key \in [Items -> Keys]
      /\ pc = "idle"
      /\ pc' = "siftDown" /\ k' = i /\ back' = i /\ ret' = NoItem
      /\ items' = items /\ size' = size /\ pos' = pos /\ key' = [key EXCEPT ![x] = v]
  BY <1>0 DEF Fix, Placed, TypeOK, Sift
<1>2. TypeOK' /\ PositionsHold'
  BY <1>1 DEF TypeOK, PositionsHold
<1>3. items[i] = x /\ \A n \in 0 .. size - 1 : n # i => items[n] # x
  BY <1>0, <1>1 DEF PositionsHold, TypeOK
<1>4. \A n \in 1 .. size - 1 : ~jobLess(items[n], items[parent(n)])
  BY <1>1 DEF SiftOrder, HeapOrder, InOrder, Less
<1>5. ASSUME NEW n \in 1 .. size - 1, n # i, parent(n) # i PROVE InOrder(n)'
  <2>1. n \in 0 .. size - 1 /\ parent(n) \in 0 .. size - 1
    BY <1>1, Places
  <2>2. items[n] \in Items /\ items[parent(n)] \in Items
    BY <2>1, <1>1, Places
  <2>3. key'[items[n]] = key[items[n]] /\ key'[items[parent(n)]] = key[items[parent(n)]]
    BY <2>1, <2>2, <1>1, <1>3, <1>5
  <2>4. QED
    BY <2>3, <1>1, <1>4 DEF InOrder, Less, jobLess
<1>6. ASSUME NEW n \in 1 .. size - 1, parent(n) = i, i > 0
      PROVE  ~jobLess(items[n], items[parent(i)])'
  <2>1. n \in 0 .. size - 1 /\ i \in 1 .. size - 1 /\ i < n
    BY <1>1, <1>6, Places
  <2>2. parent(i) \in 0 .. size - 1 /\ parent(i) < i
    BY <2>1, <1>1, Places
  <2>3. items[n] \in Items /\ items[parent(i)] \in Items /\ items[i] \in Items
    BY <2>1, <2>2, <1>1, Places
  <2>4. ~jobLess(items[n], items[i]) /\ ~jobLess(items[i], items[parent(i)])
    BY <2>1, <1>4, <1>6
  <2>5. ~jobLess(items[n], items[parent(i)])
    BY <2>3, <2>4, <1>1, LessFacts
  <2>6. key'[items[n]] = key[items[n]] /\ key'[items[parent(i)]] = key[items[parent(i)]]
    BY <2>1, <2>2, <2>3, <1>1, <1>3
  <2>7. QED
    BY <2>5, <2>6, <1>1 DEF jobLess
<1>7. SiftOrder'
  <2>1. HeapOrder' /\ UpOrder'
    BY <1>1 DEF HeapOrder, UpOrder
  <2>2. k' = i /\ back' = i /\ (back' # -1 => k' <= back') /\ size' = size
    BY <1>1
  <2>3. \A n \in 1 .. size' - 1 : n # k' /\ parent(n) # k' => InOrder(n)'
    BY <1>5, <2>2
  <2>4. \A n \in 1 .. size' - 1 : parent(n) = k' /\ k' > 0 => ~jobLess(items[n], items[parent(k)])'
    BY <1>6, <2>2
  <2>5. DownOrder'
    BY <2>2, <2>3, <2>4 DEF DownOrder, Less
  <2>6. QED
    BY <2>1, <2>5 DEF SiftOrder
<1>8. QED
  BY <1>2, <1>7 DEF Placed

\* One swap towards the root.
LEMMA InvSiftDown ==
  ASSUME HInv, siftDown
  PROVE  HInv'
<1> USE DEF HInv
<1>0. PICK q \in Nat, p \in Nat : q = k /\ p = parent(k)
  BY ParentFacts DEF siftDown, Placed, TypeOK
<1>1. /\ TypeOK /\ key \in [Items -> Keys] /\ size \in Nat
      /\ q > 0 /\ q \in 0 .. size - 1 /\ p \in 0 .. size - 1 /\ p < q /\ parent(q) = p
      /\ jobLess(items[q], items[p])
      /\ pc = "siftDown" /\ pc' = "siftDown" /\ k' = p /\ back' = back
      /\ size' = size /\ key' = key /\ ret' = ret /\ swap(q, p)
  <2>1. TypeOK /\ key \in [Items -> Keys] /\ size \in Nat /\ q > 0 /\ q \in 0 .. size - 1
    BY <1>0 DEF Placed, TypeOK, siftDown
  <2>2. p \in 0 .. size - 1 /\ p < q
    BY <2>1, <1>0, Places
  <2>3. QED
    BY <2>1, <2>2, <1>0 DEF siftDown, Less
<1>2. /\ items' \in [0 .. size - 1 -> Items] /\ pos' \in [Items -> Int]
      /\ items'[q] = items[p] /\ items'[p] = items[q]
      /\ \A n \in 0 .. size - 1 : n # q /\ n # p => items'[n] = items[n]
      /\ \A n \in 0 .. size - 1 : pos'[items'[n]] = n
      /\ \A x \in Items : pos'[x] # -1 => pos'[x] \in 0 .. size - 1 /\ items'[pos'[x]] = x
  BY <1>1, PlacedSwap
<1>3. TypeOK'
  BY <1>1, <1>2 DEF TypeOK
<1>4. PositionsHold'
  BY <1>1, <1>2 DEF PositionsHold
<1>5. /\ back # -1 => q <= back
      /\ \A n \in 1 .. size - 1 : n # q /\ parent(n) # q => ~jobLess(items[n], items[parent(n)])
      /\ \A n \in 1 .. size - 1 : parent(n) = q => ~jobLess(items[n], items[p])
  BY <1>0, <1>1 DEF SiftOrder, DownOrder, InOrder, Less
<1>6. \A n \in 0 .. size - 1 : items[n] \in Items
  BY <1>1 DEF TypeOK
<1>7. ASSUME NEW n \in 1 .. size - 1, n # p, parent(n) # p
      PROVE  ~jobLess(items'[n], items'[parent(n)])
  <2>1. n \in 0 .. size - 1 /\ parent(n) \in 0 .. size - 1 /\ n # q
    BY <1>1, <1>7, Places
  <2>2. CASE parent(n) = q
    BY <2>1, <2>2, <1>2, <1>5, <1>7
  <2>3. CASE parent(n) # q
    BY <2>1, <2>3, <1>2, <1>5, <1>7
  <2>4. QED
    BY <2>2, <2>3
<1>8. ASSUME NEW n \in 1 .. size - 1, parent(n) = p
      PROVE  /\ p > 0 => ~jobLess(items'[n], items'[parent(p)])
             /\ ~jobLess(items'[n], items'[p])
  <2>1. n \in 0 .. size - 1 /\ p < n
    BY <1>1, <1>8, Places
  <2>2. n # q => items'[n] = items[n] /\ ~jobLess(items[n], items[p])
    BY <2>1, <1>1, <1>2, <1>5, <1>8
  <2>3. n = q => items'[n] = items[p]
    BY <1>2
  <2>4. ~jobLess(items'[n], items[p]) /\ items'[n] \in Items
    BY <2>1, <2>2, <2>3, <1>1, <1>2, <1>6, LessFacts
  <2>5. ~jobLess(items'[n], items'[p])
    <3>1. ~jobLess(items[p], items[q])
      BY <1>1, <1>6, LessFacts
    <3>2. ~jobLess(items'[n], items[q])
      BY <3>1, <2>4, <1>1, <1>6, LessFacts
    <3>3. QED
      BY <3>2, <1>2
  <2>6. ASSUME p > 0 PROVE ~jobLess(items'[n], items'[parent(p)])
    <3>1. p \in 1 .. size - 1 /\ parent(p) \in 0 .. size - 1 /\ parent(p) < p
      BY <2>6, <1>1, Places
    <3>2. ~jobLess(items[p], items[parent(p)])
      BY <3>1, <1>1, <1>5
    <3>3. items'[parent(p)] = items[parent(p)]
      BY <3>1, <1>1, <1>2
    <3>4. ~jobLess(items'[n], items[parent(p)])
      BY <3>1, <3>2, <2>4, <1>1, <1>6, LessFacts
    <3>5. QED
      BY <3>3, <3>4
  <2>7. QED
    BY <2>5, <2>6
<1>9. SiftOrder'
  <2>1. HeapOrder' /\ UpOrder'
    BY <1>1 DEF HeapOrder, UpOrder
  <2>2. k' = p /\ size' = size /\ key' = key /\ (back' # -1 => k' <= back')
    BY <1>1, <1>5 DEF TypeOK
  <2>3. \A n \in 1 .. size' - 1 : n # k' /\ parent(n) # k' => InOrder(n)'
    BY <1>7, <2>2 DEF InOrder, Less, jobLess
  <2>4. \A n \in 1 .. size' - 1 : parent(n) = k' => (k' > 0 => ~Less(n, parent(k))') /\ InOrder(n)'
    BY <1>8, <2>2 DEF InOrder, Less, jobLess
  <2>5. DownOrder'
    BY <2>2, <2>3, <2>4 DEF DownOrder
  <2>6. QED
    BY <2>1, <2>5 DEF SiftOrder
<1>10. QED
  BY <1>3, <1>4, <1>9 DEF Placed

\* siftDown is over.
LEMMA InvSiftDownEnds ==
  ASSUME HInv, siftDownEnds
  PROVE  HInv'
<1> USE DEF HInv
<1>0. PICK q \in Nat, b \in Int : q = k /\ b = back
  BY DEF Placed, TypeOK
<1>1. /\ TypeOK /\ key \in [Items -> Keys] /\ size \in Nat /\ q < size /\ b < size /\ pc = "siftDown"
      /\ items' = items /\ pos' = pos /\ key' = key /\ size' = size /\ ret' = ret
      /\ q > 0 => ~jobLess(items[q], items[parent(q)])
      /\ b \in Nat \cup {-1} /\ (b # -1 => q <= b)
      /\ b = -1 => pc' = "idle" /\ k' = 0 /\ back' = -1
      /\ b # -1 => pc' = "siftUp" /\ k' = b /\ back' = -1
  BY <1>0 DEF siftDownEnds, Placed, TypeOK, Less, Sift, SiftOrder, DownOrder
<1>2. TypeOK'
  <2>1. CASE b = -1
    BY <1>1, <2>1 DEF TypeOK
  <2>2. CASE b # -1
    BY <1>1, <2>2 DEF TypeOK
  <2>3. QED
    BY <2>1, <2>2
<1>3. PositionsHold'
  BY <1>1 DEF Placed, PositionsHold
<1>4. /\ \A n \in 1 .. size - 1 : n # q /\ parent(n) # q => ~jobLess(items[n], items[parent(n)])
      /\ \A n \in 1 .. size - 1 : parent(n) = q =>
            /\ q > 0 => ~jobLess(items[n], items[parent(q)])
            /\ q # b => ~jobLess(items[n], items[parent(n)])
  BY <1>0, <1>1 DEF SiftOrder, DownOrder, InOrder, Less
<1>5. ASSUME NEW n \in 1 .. size - 1, parent(n) # b PROVE ~jobLess(items[n], items[parent(n)])
  <2>1. CASE n = q
    BY <2>1, <1>1
  <2>2. CASE n # q /\ parent(n) = q
    BY <2>2, <1>4, <1>5
  <2>3. CASE n # q /\ parent(n) # q
    BY <2>3, <1>4
  <2>4. QED
    BY <2>1, <2>2, <2>3
<1>6. ASSUME NEW n \in 1 .. size - 1, parent(n) = b, b > 0
      PROVE  ~jobLess(items[n], items[parent(b)])
  <2>1. b # -1 /\ b \in Nat /\ q <= b /\ b \in 1 .. size - 1 /\ b \in 0 .. size - 1 /\ n \in 0 .. size - 1
    BY <1>1, <1>6
  <2>2. b < n /\ parent(b) \in 0 .. size - 1 /\ parent(b) < b
    BY <2>1, <1>1, <1>6, Places
  <2>3. CASE q = b
    BY <2>1, <2>3, <1>4, <1>6
  <2>4. CASE q # b
    <3>1. ~jobLess(items[n], items[b])
      BY <2>1, <2>2, <2>4, <1>4, <1>6
    <3>2. ~jobLess(items[b], items[parent(b)])
      BY <2>1, <2>2, <1>5
    <3>3. items[n] \in Items /\ items[b] \in Items /\ items[parent(b)] \in Items
      BY <2>1, <2>2, <1>1, Places
    <3>4. QED
      BY <3>1, <3>2, <3>3, <1>1, LessFacts
  <2>5. QED
    BY <2>3, <2>4
<1>7. SiftOrder'
  <2>1. CASE b = -1
    <3>1. ASSUME NEW n \in 1 .. size - 1 PROVE ~jobLess(items[n], items[parent(n)])
      BY <2>1, <1>5, ParentFacts
    <3>2. QED
      BY <3>1, <2>1, <1>1 DEF SiftOrder, HeapOrder, DownOrder, UpOrder, InOrder, Less, jobLess
  <2>2. CASE b # -1
    <3>1. pc' = "siftUp" /\ k' = b
      BY <2>2, <1>1
    <3>2. HeapOrder' /\ DownOrder'
      BY <3>1 DEF HeapOrder, DownOrder
    <3>3. \A n \in 1 .. size' - 1 : parent(n) # k' => InOrder(n)'
      BY <3>1, <1>5, <1>1 DEF InOrder, Less, jobLess
    <3>4. \A n \in 1 .. size' - 1 : parent(n) = k' /\ k' > 0 => ~Less(n, parent(k))'
      BY <3>1, <1>6, <1>1 DEF Less, jobLess
    <3>5. QED
      BY <3>2, <3>3, <3>4 DEF UpOrder, SiftOrder
  <2>3. QED
    BY <2>1, <2>2
<1>8. QED
  BY <1>2, <1>3, <1>7 DEF Placed

\* The place siftUp swaps with: below k, smaller than k, and not larger than
\* the other place below k.  When there is none, both are in order with k.
LEMMA SmallestFacts ==
  ASSUME TypeOK, NEW q \in 0 .. size - 1
  PROVE  /\ smallest(q) \in 0 .. size - 1
         /\ smallest(q) # q => /\ smallest(q) > 0 /\ parent(smallest(q)) = q
                               /\ jobLess(items[smallest(q)], items[q])
         /\ \A n \in 1 .. size - 1 : parent(n) = q => ~jobLess(items[n], items[smallest(q)])
<1>1. /\ q \in Nat /\ size \in Nat /\ key \in [Items -> Keys]
      /\ \A n \in 0 .. size - 1 : items[n] \in Items
  BY DEF TypeOK
<1>2. /\ left(q) \in Nat /\ right(q) \in Nat /\ left(q) > q /\ right(q) > q
      /\ parent(left(q)) = q /\ parent(right(q)) = q
  BY <1>1, ChildFacts
<1>3. \A n \in 1 .. size - 1 : parent(n) = q => n = left(q) \/ n = right(q)
  BY ParentFacts
<1> DEFINE l == IF left(q) < size /\ Less(left(q), q) THEN left(q) ELSE q
<1>4. /\ l \in 0 .. size - 1 /\ (l # q => l = left(q) /\ jobLess(items[l], items[q]))
      /\ left(q) < size => ~jobLess(items[left(q)], items[l])
      /\ ~jobLess(items[q], items[l])
  <2>1. CASE left(q) < size /\ Less(left(q), q)
    <3>1. l = left(q) /\ left(q) \in 0 .. size - 1 /\ jobLess(items[l], items[q])
      BY <2>1, <1>1, <1>2 DEF Less
    <3>2. ~jobLess(items[l], items[l]) /\ ~jobLess(items[q], items[l])
      BY <3>1, <1>1, LessFacts
    <3>3. QED
      BY <3>1, <3>2
  <2>2. CASE ~(left(q) < size /\ Less(left(q), q))
    <3>1. l = q
      BY <2>2
    <3>2. ~jobLess(items[q], items[q])
      BY <1>1, LessFacts
    <3>3. QED
      BY <3>1, <3>2, <2>2, <1>1 DEF Less
  <2>3. QED
    BY <2>1, <2>2
<1>5. smallest(q) = IF right(q) < size /\ Less(right(q), l) THEN right(q) ELSE l
  BY DEF smallest
<1> HIDE DEF l
<1>6. CASE right(q) < size /\ Less(right(q), l)
  <2>1. /\ smallest(q) = right(q) /\ right(q) \in 0 .. size - 1 /\ jobLess(items[right(q)], items[l])
    BY <1>5, <1>6, <1>1, <1>2 DEF Less
  <2>2. items[right(q)] \in Items /\ items[l] \in Items /\ items[q] \in Items
    BY <2>1, <1>1, <1>4
  <2>3. ~jobLess(items[l], items[right(q)])
    BY <2>1, <2>2, <1>1, LessFacts
  <2>4. jobLess(items[right(q)], items[q])
    <3>1. CASE l = q
      BY <3>1, <2>1
    <3>2. CASE l # q
      <4>1. jobLess(items[l], items[q])
        BY <3>2, <1>4
      <4>2. ~jobLess(items[right(q)], items[q]) => ~jobLess(items[l], items[q])
        BY <2>2, <2>3, <1>1, LessFacts
      <4>3. QED
        BY <4>1, <4>2
    <3>3. QED
      BY <3>1, <3>2
  <2>5. ASSUME NEW n \in 1 .. size - 1, parent(n) = q PROVE ~jobLess(items[n], items[right(q)])
    <3>1. CASE n = right(q)
      BY <3>1, <2>2, <1>1, LessFacts
    <3>2. CASE n = left(q)
      <4>1. ~jobLess(items[n], items[l]) /\ items[n] \in Items
        BY <3>2, <1>1, <1>4
      <4>2. QED
        BY <4>1, <2>2, <2>3, <1>1, LessFacts
    <3>3. QED
      BY <3>1, <3>2, <2>5, <1>3
  <2>6. QED
    BY <2>1, <2>4, <2>5, <1>1, <1>2
<1>7. CASE ~(right(q) < size /\ Less(right(q), l))
  <2>1. smallest(q) = l
    BY <1>5, <1>7
  <2>2. ASSUME NEW n \in 1 .. size - 1, parent(n) = q PROVE ~jobLess(items[n], items[l])
    <3>1. n = left(q) \/ n = right(q)
      BY <2>2, <1>3
    <3>2. QED
      BY <3>1, <1>1, <1>4, <1>7 DEF Less
  <2>3. l # q => l > 0 /\ parent(l) = q
    BY <1>1, <1>2, <1>4
  <2>4. QED
    BY <2>1, <2>2, <2>3, <1>4
<1>8. QED
  BY <1>6, <1>7

\* One swap away from the root.
LEMMA InvSiftUp ==
  ASSUME HInv, siftUp
  PROVE  HInv'
<1> USE DEF HInv
<1>a. TypeOK /\ key \in [Items -> Keys] /\ size \in Nat /\ k \in 0 .. size - 1
  BY DEF Placed, TypeOK, siftUp
<1>0. PICK q \in 0 .. size - 1, s \in 0 .. size - 1 : q = k /\ s = smallest(k)
  BY <1>a, SmallestFacts
<1>1. /\ q # s /\ s > 0 /\ parent(s) = q /\ jobLess(items[s], items[q]) /\ q < s /\ q \in Nat /\ s \in Nat
      /\ \A n \in 1 .. size - 1 : parent(n) = q => ~jobLess(items[n], items[s])
      /\ pc = "siftUp" /\ pc' = "siftUp" /\ k' = s /\ back' = back
      /\ size' = size /\ key' = key /\ ret' = ret /\ swap(q, s)
  <2>1. q # s
    BY <1>0 DEF siftUp
  <2>2. /\ s > 0 /\ parent(s) = q /\ jobLess(items[s], items[q])
        /\ \A n \in 1 .. size - 1 : parent(n) = q => ~jobLess(items[n], items[s])
    BY <2>1, <1>0, <1>a, SmallestFacts
  <2>3. q < s
    BY <2>2, <1>a, Places
  <2>4. QED
    BY <2>1, <2>2, <2>3, <1>0, <1>a DEF siftUp
<1>2. /\ items' \in [0 .. size - 1 -> Items] /\ pos' \in [Items -> Int]
      /\ items'[q] = items[s] /\ items'[s] = items[q]
      /\ \A n \in 0 .. size - 1 : n # q /\ n # s => items'[n] = items[n]
      /\ \A n \in 0 .. size - 1 : pos'[items'[n]] = n
      /\ \A x \in Items : pos'[x] # -1 => pos'[x] \in 0 .. size - 1 /\ items'[pos'[x]] = x
  BY <1>1, PlacedSwap
<1>3. TypeOK'
  <2>1. s \in Nat /\ s < size
    BY <1>0, <1>a
  <2>2. QED
    BY <2>1, <1>a, <1>1, <1>2 DEF TypeOK
<1>4. PositionsHold'
  BY <1>1, <1>2 DEF PositionsHold
<1>5. /\ \A n \in 1 .. size - 1 : parent(n) # q => ~jobLess(items[n], items[parent(n)])
      /\ q > 0 => ~jobLess(items[s], items[parent(q)])
  BY <1>0, <1>1 DEF SiftOrder, UpOrder, InOrder, Less
<1>6. ASSUME NEW n \in 1 .. size - 1, parent(n) # s
      PROVE  ~jobLess(items'[n], items'[parent(n)])
  <2>1. n \in 0 .. size - 1 /\ parent(n) \in 0 .. size - 1 /\ parent(n) < n
    BY <1>a, Places
  <2>2. CASE n = s
    BY <2>2, <1>a, <1>1, <1>2, LessFacts DEF TypeOK
  <2>3. CASE n # s /\ parent(n) = q
    BY <2>1, <2>3, <1>1, <1>2
  <2>4. CASE n = q
    BY <2>1, <2>4, <1>1, <1>2, <1>5
  <2>5. CASE n # s /\ n # q /\ parent(n) # q
    BY <2>1, <2>5, <1>2, <1>5, <1>6
  <2>6. QED
    BY <2>2, <2>3, <2>4, <2>5
<1>7. ASSUME NEW n \in 1 .. size - 1, parent(n) = s
      PROVE  ~jobLess(items'[n], items'[parent(s)])
  <2>1. n \in 0 .. size - 1 /\ s < n
    BY <1>a, <1>7, Places
  <2>2. QED
    BY <2>1, <1>1, <1>2, <1>5, <1>7
<1>8. SiftOrder'
  <2>1. HeapOrder' /\ DownOrder'
    BY <1>1 DEF HeapOrder, DownOrder
  <2>2. k' = s /\ size' = size /\ key' = key
    BY <1>1
  <2>3. \A n \in 1 .. size' - 1 : parent(n) # k' => InOrder(n)'
    BY <1>6, <2>2 DEF InOrder, Less, jobLess
  <2>4. \A n \in 1 .. size' - 1 : parent(n) = k' /\ k' > 0 => ~Less(n, parent(k))'
    BY <1>7, <2>2 DEF Less, jobLess
  <2>5. QED
    BY <2>1, <2>3, <2>4 DEF UpOrder, SiftOrder
<1>9. QED
  BY <1>3, <1>4, <1>8 DEF Placed

LEMMA InvSiftUpEnds ==
  ASSUME HInv, siftUpEnds
  PROVE  HInv'
<1> USE DEF HInv
<1>1. /\ TypeOK /\ size \in Nat /\ k \in 0 .. size - 1 /\ smallest(k) = k /\ pc = "siftUp"
      /\ items' = items /\ pos' = pos /\ key' = key /\ size' = size /\ ret' = ret
      /\ pc' = "idle" /\ k' = 0 /\ back' = -1
  BY DEF siftUpEnds, Placed, TypeOK, Sift
<1>2. TypeOK' /\ PositionsHold'
  BY <1>1 DEF Placed, TypeOK, PositionsHold
<1>3. \A n \in 1 .. size - 1 : parent(n) = k => ~jobLess(items[n], items[k])
  BY <1>1, SmallestFacts
<1>4. \A n \in 1 .. size - 1 : ~jobLess(items[n], items[parent(n)])
  BY <1>1, <1>3 DEF SiftOrder, UpOrder, InOrder, Less
<1>5. SiftOrder'
  BY <1>1, <1>4 DEF SiftOrder, HeapOrder, DownOrder, UpOrder, InOrder, Less, jobLess
<1>6. QED
  BY <1>2, <1>5 DEF Placed

\* Steps that change nothing but what was returned.
LEMMA InvSame ==
  ASSUME HInv, UNCHANGED <<items, size, pos, key, pc, k, back>>, ret' \in Items \cup {NoItem}
  PROVE  HInv'
BY DEF HInv, Placed, TypeOK, PositionsHold, SiftOrder, HeapOrder, DownOrder, UpOrder,
       InOrder, Less, jobLess

LEMMA InvStep == HInv /\ [Next]_vars => HInv'
<1> SUFFICES ASSUME HInv, [Next]_vars PROVE HInv'
  OBVIOUS
<1>1. CASE \E x \in Items, v \in Keys : Push(x, v) \/ Fix(x, v)
  BY <1>1, InvPush, InvFix
<1>2. CASE Pop
  BY <1>2, InvPop
<1>3. CASE Peek
  <2>1. items[0] \in Items
    BY <1>3 DEF Peek, HInv, Placed, TypeOK
  <2>2. QED
    BY <1>3, <2>1, InvSame DEF Peek
<1>4. CASE Zero
  BY <1>4, InvSame DEF Zero
<1>5. CASE \E x \in Items : Remove(x) \/ RemoveNothing(x)
  <2>1. ASSUME NEW x \in Items, RemoveNothing(x) PROVE HInv'
    BY <2>1, InvSame DEF RemoveNothing
  <2>2. QED
    BY <1>5, <2>1, InvRemove
<1>6. CASE Loop
  BY <1>6, InvSiftDown, InvSiftDownEnds, InvSiftUp, InvSiftUpEnds DEF Loop
<1>7. CASE UNCHANGED vars
  <2>1. ret' \in Items \cup {NoItem} /\ UNCHANGED <<items, size, pos, key, pc, k, back>>
    BY <1>7 DEF vars, HInv, Placed, TypeOK
  <2>2. QED
    BY <2>1, InvSame
<1>8. QED
  BY <1>1, <1>2, <1>3, <1>4, <1>5, <1>6, <1>7 DEF Next, Operation

LEMMA InvAlways == Spec => []HInv
BY InvInit, InvStep, PTL DEF Spec

\* The array, the loops' index and the place they go back to keep their types:
\* no loop runs out of the array.
THEOREM HeapTypes == Spec => []TypeOK
<1>1. HInv => TypeOK
  BY DEF HInv, Placed
<1>2. QED
  BY <1>1, InvAlways, PTL

\* Every job knows its place at every swap of every loop (heap.go's setIdx).
THEOREM HeapPositions == Spec => []PositionsHold
<1>1. HInv => PositionsHold
  BY DEF HInv, Placed
<1>2. QED
  BY <1>1, InvAlways, PTL

\* The order of the array at every step: Push, Pop, Remove and Fix leave a heap.
THEOREM HeapIsOrdered == Spec => []SiftOrder
<1>1. HInv => SiftOrder
  BY DEF HInv
<1>2. QED
  BY <1>1, InvAlways, PTL
-----------------------------------------------------------------------------
(* The heap implements the priority queue.                                  *)

\* Between operations the root is least: of the places with a job smaller
\* than the root's, the first would be smaller than the place above it.
LEMMA RootIsLeast ==
  ASSUME HInv, pc = "idle", size > 0
  PROVE  \A i \in 0 .. size - 1 : ~jobLess(items[i], items[0])
<1> DEFINE Bad == {i \in 0 .. size - 1 : jobLess(items[i], items[0])}
<1>1. TypeOK /\ size \in Nat /\ key \in [Items -> Keys] /\ 0 \in 0 .. size - 1
  BY DEF HInv, Placed, TypeOK
<1>2. SUFFICES ASSUME Bad # {} PROVE FALSE
  OBVIOUS
<1>3. Bad \subseteq Nat
  OBVIOUS
<1>4. PICK f \in Bad : \A j \in Bad : <<j, f>> \notin OpToRel(<, Nat)
  BY <1>2, <1>3, WFMin, NatLessThanWellFounded
<1>5. f \in 0 .. size - 1 /\ jobLess(items[f], items[0])
  BY <1>4
<1>6. f # 0
  BY <1>1, <1>5, LessFacts, Places
<1>7. parent(f) \in 0 .. size - 1 /\ parent(f) < f /\ f \in 1 .. size - 1
  BY <1>1, <1>5, <1>6, Places
<1>8. ~jobLess(items[f], items[parent(f)])
  BY <1>7 DEF HInv, SiftOrder, HeapOrder, InOrder, Less
<1>9. parent(f) \notin Bad
  <2>1. <<parent(f), f>> \in OpToRel(<, Nat)
    BY <1>5, <1>7 DEF OpToRel
  <2>2. QED
    BY <2>1, <1>4
<1>10. ~jobLess(items[parent(f)], items[0])
  BY <1>7, <1>9
<1>11. ~jobLess(items[f], items[0])
  BY <1>1, <1>5, <1>7, <1>8, <1>10, LessFacts, Places
<1>12. QED
  BY <1>5, <1>11

\* The members are the jobs that have a place.
LEMMA MembersPlaced == Placed => members = {x \in Items : pos[x] # -1}
<1>0. SUFFICES ASSUME Placed PROVE members = {x \in Items : pos[x] # -1}
  OBVIOUS
<1>1. ASSUME NEW x \in members PROVE x \in Items /\ pos[x] # -1
  <2>1. PICK i \in 0 .. size - 1 : x = items[i]
    BY DEF members
  <2>2. QED
    BY <1>0, <2>1 DEF Placed, TypeOK, PositionsHold
<1>2. ASSUME NEW x \in Items, pos[x] # -1 PROVE x \in members
  BY <1>0, <1>2 DEF Placed, PositionsHold, members
<1>3. QED
  BY <1>1, <1>2

\* What a Fill and a swap do to the members.
LEMMA MembersFill ==
  ASSUME Placed, NEW i \in 0 .. size - 1, Fill(i)
  PROVE  {x \in Items : pos'[x] # -1} = {x \in Items : pos[x] # -1} \ {items[i]}
<1>1. items \in [0 .. size - 1 -> Items] /\ pos \in [Items -> Int] /\ size \in Nat /\ size - 1 \in 0 .. size - 1
  BY DEF Placed, TypeOK
<1>2. pos[items[size - 1]] = size - 1 /\ pos[items[i]] = i /\ items[i] \in Items /\ items[size - 1] \in Items
  BY <1>1 DEF Placed, PositionsHold
<1>3. ASSUME NEW x \in Items PROVE pos'[x] # -1 <=> pos[x] # -1 /\ x # items[i]
  <2>1. CASE i = size - 1
    BY <2>1, <1>1, <1>2 DEF Fill
  <2>2. CASE i # size - 1
    BY <2>2, <1>1, <1>2 DEF Fill
  <2>3. QED
    BY <2>1, <2>2
<1>4. QED
  BY <1>3

LEMMA MembersSwap ==
  ASSUME Placed, NEW i \in 0 .. size - 1, NEW j \in 0 .. size - 1, swap(i, j)
  PROVE  {x \in Items : pos'[x] # -1} = {x \in Items : pos[x] # -1}
<1>1. items \in [0 .. size - 1 -> Items] /\ pos \in [Items -> Int]
  BY DEF Placed, TypeOK
<1>2. pos[items[j]] = j /\ pos[items[i]] = i /\ items[i] \in Items /\ items[j] \in Items
  BY <1>1 DEF Placed, PositionsHold
<1>3. ASSUME NEW x \in Items PROVE pos'[x] # -1 <=> pos[x] # -1
  BY <1>1, <1>2 DEF swap
<1>4. QED
  BY <1>3

\* The root is the least of the members.
LEMMA RootOfQueue ==
  ASSUME HInv, pc = "idle", size > 0
  PROVE  Queue!Least(items[0])
<1>1. 0 \in 0 .. size - 1
  BY DEF HInv, Placed, TypeOK
<1>2. items[0] \in members
  BY <1>1 DEF members
<1>3. ASSUME NEW y \in members PROVE ~Queue!Less(y, items[0])
  <2>1. PICK i \in 0 .. size - 1 : y = items[i]
    BY DEF members
  <2>2. QED
    BY <2>1, RootIsLeast DEF Queue!Less, jobLess
<1>4. QED
  BY <1>2, <1>3 DEF Queue!Least

LEMMA QueueStep ==
  ASSUME HInv, HInv', [Next]_vars
  PROVE  [Queue!Next]_(Queue!vars)
<1>0. Placed /\ Placed' /\ TypeOK
  BY DEF HInv, Placed
<1>1. members = {x \in Items : pos[x] # -1}
  BY <1>0, MembersPlaced
<1>2. members' = {x \in Items : pos'[x] # -1}
  <2>1. (members = {x \in Items : pos[x] # -1})'
    BY <1>0, MembersPlaced, PTL
  <2>2. QED
    BY <2>1
<1>3. ASSUME NEW x \in Items, NEW v \in Keys, Push(x, v) PROVE Queue!Push
  <2>1. pos \in [Items -> Int] /\ size \in Nat
    BY <1>0 DEF TypeOK
  <2>2. x \in Items \ members
    BY <1>1, <1>3 DEF Push
  <2>3. members' = members \cup {x}
    BY <1>1, <1>2, <1>3, <2>1 DEF Push
  <2>4. key' = [key EXCEPT ![x] = v] /\ ret' = NoItem
    BY <1>3 DEF Push
  <2>5. QED
    BY <2>2, <2>3, <2>4 DEF Queue!Push
<1>4. ASSUME NEW x \in Items, NEW v \in Keys, Fix(x, v) PROVE Queue!Fix
  <2>1. x \in members /\ members' = members
    BY <1>1, <1>2, <1>4 DEF Fix
  <2>2. key' = [key EXCEPT ![x] = v] /\ ret' = NoItem
    BY <1>4 DEF Fix
  <2>3. QED
    BY <2>1, <2>2 DEF Queue!Fix
<1>5. CASE Pop
  <2>1. Queue!Least(items[0])
    BY <1>5, RootOfQueue DEF Pop
  <2>2. 0 \in 0 .. size - 1 /\ Fill(0) /\ ret' = items[0] /\ key' = key
    BY <1>0, <1>5 DEF Pop, TypeOK
  <2>3. members' = members \ {items[0]}
    BY <1>0, <1>1, <1>2, <2>2, MembersFill
  <2>4. items[0] \in members
    BY <2>1 DEF Queue!Least
  <2>5. QED
    BY <2>1, <2>2, <2>3, <2>4 DEF Queue!Next, Queue!Pop
<1>6. CASE Peek
  <2>1. Queue!Least(items[0])
    BY <1>6, RootOfQueue DEF Peek
  <2>2. items[0] \in members
    BY <2>1 DEF Queue!Least
  <2>3. members' = members /\ ret' = items[0] /\ key' = key
    BY <1>1, <1>2, <1>6 DEF Peek
  <2>4. QED
    BY <2>1, <2>2, <2>3 DEF Queue!Next, Queue!Peek
<1>7. CASE Zero
  <2>1. members = {} /\ members' = {}
    BY <1>7 DEF Zero, members
  <2>2. QED
    BY <1>7, <2>1 DEF Zero, Queue!Next, Queue!Empty
<1>8. ASSUME NEW x \in Items, Remove(x) PROVE Queue!Remove
  <2>1. PICK i \in 0 .. size - 1 : i = pos[x]
    BY <1>8 DEF Remove
  <2>2. Fill(i) /\ ret' = NoItem /\ key' = key
    BY <1>8, <2>1 DEF Remove
  <2>3. items[i] = x
    BY <1>0, <2>1 DEF Placed, PositionsHold, TypeOK
  <2>4. members' = members \ {x}
    BY <1>0, <1>1, <1>2, <2>2, <2>3, MembersFill
  <2>5. QED
    BY <2>2, <2>4 DEF Queue!Remove
<1>9. ASSUME NEW x \in Items, RemoveNothing(x) PROVE Queue!Remove
  <2>1. x \notin members
    BY <1>0, <1>1, <1>9 DEF RemoveNothing, Placed, PositionsHold
  <2>2. members' = members /\ ret' = NoItem /\ key' = key
    BY <1>1, <1>2, <1>9 DEF RemoveNothing
  <2>3. members' = members \ {x}
    BY <2>1, <2>2
  <2>4. QED
    BY <2>2, <2>3 DEF Queue!Remove
<1>10. CASE siftDown \/ siftUp
  <2>1. \E i \in 0 .. size - 1, j \in 0 .. size - 1 : swap(i, j)
    <3>1. size \in Nat /\ k \in 0 .. size - 1
      BY <1>0, <1>10 DEF TypeOK, siftDown, siftUp
    <3>2. (k > 0 => parent(k) \in 0 .. size - 1) /\ smallest(k) \in 0 .. size - 1
      BY <1>0, <3>1, Places, SmallestFacts
    <3>3. QED
      BY <1>10, <3>1, <3>2 DEF siftDown, siftUp
  <2>2. members' = members
    BY <1>0, <1>1, <1>2, <2>1, MembersSwap
  <2>3. key' = key /\ ret' = ret
    BY <1>10 DEF siftDown, siftUp
  <2>4. QED
    BY <2>2, <2>3 DEF Queue!vars
<1>11. CASE siftDownEnds \/ siftUpEnds \/ UNCHANGED vars
  <2>1. pos' = pos /\ key' = key /\ ret' = ret
    BY <1>11 DEF siftDownEnds, siftUpEnds, vars
  <2>2. members' = members
    BY <1>1, <1>2, <2>1
  <2>3. QED
    BY <2>1, <2>2 DEF Queue!vars
<1>12. QED
  BY <1>3, <1>4, <1>5, <1>6, <1>7, <1>8, <1>9, <1>10, <1>11
     DEF Next, Operation, Loop, Queue!Next

\* The heap is a priority queue: whatever loops run in it, its operations are
\* those of a set from which Pop and Peek give the least.
THEOREM HeapIsQueue == Spec => IsPriorityQueue
<1>1. Init => Queue!Init
  BY DEF Init, Queue!Init, members
<1>2. QED
  BY <1>1, InvAlways, QueueStep, PTL DEF Spec, IsPriorityQueue, Queue!Spec
=============================================================================
