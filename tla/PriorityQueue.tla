---------------------------- MODULE PriorityQueue ----------------------------
(***************************************************************************)
(* What a minimizing priority queue promises the search over a kd tree,    *)
(* without arrays or heaps: a set of entries of which one with a smallest  *)
(* key is taken out (engine/src/minpq.h).                                  *)
(***************************************************************************)
EXTENDS Integers

CONSTANTS
    Data,       \* what is queued: pointers to kd tree nodes, each queued once
    Keys,       \* int
    Nobody      \* nothing was taken out yet

Node == [data: Data, key: Keys]

VARIABLES
    queue,      \* the entries
    taken       \* the last entry taken out

vars == <<queue, taken>>

Queued(q) == {e.data : e \in q}
Smallest(q) == {e \in q : \A o \in q : e.key <= o.key}

Init ==
    /\ queue = {}
    /\ taken = Nobody

Insert(e) ==
    /\ e.data \notin Queued(queue)
    /\ queue' = queue \union {e}
    /\ UNCHANGED taken

ExtractMin ==
    \E e \in Smallest(queue) : queue' = queue \ {e} /\ taken' = e

\* Released after a search, or lost because it could not grow.
Discard ==
    /\ queue' = {}
    /\ UNCHANGED taken

Next ==
    \/ \E e \in Node : Insert(e)
    \/ ExtractMin
    \/ Discard

Spec == Init /\ [][Next]_vars
=============================================================================
