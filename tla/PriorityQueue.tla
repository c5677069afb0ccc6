--------------------------- MODULE PriorityQueue ----------------------------
(***************************************************************************)
(* What the broker takes a heap for: a set of jobs, each with the key it   *)
(* was filed under (priority in the ready queue, deadline in the delay     *)
(* queue), from which Pop and Peek give the least.                         *)
(***************************************************************************)
EXTENDS Integers

CONSTANTS Items,    \* job ids
          Keys,     \* priorities or deadlines
          NoItem    \* what Pop and Peek of an empty queue return

VARIABLES members,  \* what the queue holds
          key,      \* the key of every job
          ret       \* what the last operation returned

vars == <<members, key, ret>>

\* The key first, then the id.
Less(a, b) == \/ key[a] < key[b]
              \/ key[a] = key[b] /\ a < b

Least(x) == x \in members /\ \A y \in members : ~Less(y, x)

Init == members = {} /\ key \in [Items -> Keys] /\ ret = NoItem

Push == \E x \in Items \ members, v \in Keys :
            /\ members' = members \cup {x}
            /\ key' = [key EXCEPT ![x] = v]
            /\ ret' = NoItem

Pop == \E x \in members :
            /\ Least(x)
            /\ members' = members \ {x}
            /\ ret' = x
            /\ UNCHANGED key

Peek == \E x \in members :
            /\ Least(x)
            /\ ret' = x
            /\ UNCHANGED <<members, key>>

Empty == members = {} /\ ret' = NoItem /\ UNCHANGED <<members, key>>

Remove == \E x \in Items :
            /\ members' = members \ {x}
            /\ ret' = NoItem
            /\ UNCHANGED key

Fix == \E x \in members, v \in Keys :
            /\ key' = [key EXCEPT ![x] = v]
            /\ ret' = NoItem
            /\ UNCHANGED members

Next == Push \/ Pop \/ Peek \/ Empty \/ Remove \/ Fix

Spec == Init /\ [][Next]_vars
=============================================================================
