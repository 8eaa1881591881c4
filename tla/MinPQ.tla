-------------------------------- MODULE MinPQ --------------------------------
(***************************************************************************)
(* The minimizing priority queue of engine/src/minpq.c, a binary heap in   *)
(* an array that doubles when it is full (array_double of utils.c).  An    *)
(* insert and an extract are steps: the first assignment, then one step    *)
(* per turn of the loop of decrease_pq_node_key, or per call of            *)
(* restore_minpq_order.  Between them runs a search that holds the queue   *)
(* alone, so nothing interleaves; the steps are what the order of the heap *)
(* has to survive.                                                         *)
(*                                                                         *)
(* An insert first gives the element the key INT_MAX and then decreases it *)
(* to the one asked for: as no int is above INT_MAX, that is an assignment.*)
(***************************************************************************)
EXTENDS Integers

CONSTANTS
    Data,       \* pointers to kd tree nodes: each is queued at most once
    Keys,       \* the ints used as keys
    InitAlloc,  \* MINPQ_INIT_NALLOCD, 512 in the code
    MaxSize,    \* bound on the number of elements
    Nobody      \* nothing was extracted, and the content of unused cells

Node == [data: Data, key: Keys]

ASSUME KeysAssumption == Keys \subseteq Int
ASSUME InitAllocAssumption == InitAlloc \in Nat \ {0}
ASSUME NobodyAssumption == Nobody \notin Node

VARIABLES
    pq_array,   \* the cells 0..nallocd-1
    nallocd,
    n,
    op,         \* "idle", in an insert ("up"), in an extract ("down"), or
                \* "failed": an insert could not grow the array
    i,          \* the cell the loop or the recursion is at
    data        \* the element the last extract returns

vars == <<pq_array, nallocd, n, op, i, data>>

parent(j) == (j - 1) \div 2
left(j) == 2 * j + 1

\* Mutant of the next: the left child again.
RightFromOne(j) == 2 * j + 1

right(j) == 2 * j + 2

\* While an element is on its way up it is there, but n does not count it yet.
Size == IF op = "failed" THEN 0 ELSE IF op = "up" THEN n + 1 ELSE n
Elements == {pq_array[j] : j \in 0..(Size - 1)}

\* calloc
Cells(size) == [j \in 0..(size - 1) |-> Nobody]

\* Mutant of the next: allocates one cell more.
GrownByOne == [j \in 0..(2 * nallocd - 1) |->
                 IF j <= nallocd /\ j > 0 THEN pq_array[j - 1] ELSE Nobody]

\* realloc
Grown == [j \in 0..(2 * nallocd - 1) |->
            IF j < nallocd THEN pq_array[j] ELSE Nobody]

Swapped(j, k) == [pq_array EXCEPT ![j] = pq_array[k], ![k] = pq_array[j]]

-----------------------------------------------------------------------------

\* minpq_init
Init ==
    /\ pq_array = Cells(InitAlloc)
    /\ nallocd = InitAlloc
    /\ n = 0
    /\ op = "idle"
    /\ i = 0
    /\ data = Nobody

\* Mutant of the next: finds the array full one insert too late.
InsertLate(e) ==
    /\ op = "idle"
    /\ n < MaxSize
    /\ e.data \notin {x.data : x \in Elements}
    /\ IF n > nallocd
       THEN /\ nallocd' = 2 * nallocd
            /\ pq_array' = [Grown EXCEPT ![n] = e]
       ELSE /\ UNCHANGED nallocd
            /\ pq_array' = [pq_array EXCEPT ![n] = e]
    /\ op' = "up"
    /\ i' = n
    /\ UNCHANGED <<n, data>>

\* minpq_insert up to the loop of decrease_pq_node_key.
InsertBegins(e) ==
    /\ op = "idle"
    /\ n < MaxSize
    /\ e.data \notin {x.data : x \in Elements}
    /\ IF n = nallocd
       THEN /\ nallocd' = 2 * nallocd
            /\ pq_array' = [Grown EXCEPT ![n] = e]
       ELSE /\ UNCHANGED nallocd
            /\ pq_array' = [pq_array EXCEPT ![n] = e]
    /\ op' = "up"
    /\ i' = n
    /\ UNCHANGED <<n, data>>

\* realloc gave nothing: array_double frees the array and returns 0.
InsertFails ==
    /\ op = "idle"
    /\ n = nallocd
    /\ pq_array' = Cells(0)
    /\ nallocd' = 0
    /\ op' = "failed"
    /\ i' = 0
    /\ UNCHANGED <<n, data>>

BelowParent == i > 0 /\ pq_array[i].key < pq_array[parent(i)].key

\* A turn of the loop.
MoveUp ==
    /\ op = "up"
    /\ BelowParent
    /\ pq_array' = Swapped(parent(i), i)
    /\ i' = parent(i)
    /\ UNCHANGED <<nallocd, n, op, data>>

\* The loop ends, and min_pq->n++.
InsertEnds ==
    /\ op = "up"
    /\ ~BelowParent
    /\ n' = n + 1
    /\ op' = "idle"
    /\ i' = 0
    /\ UNCHANGED <<pq_array, nallocd, data>>

\* minpq_extract_min up to restore_minpq_order.
ExtractBegins ==
    /\ op = "idle"
    /\ n >= 1
    /\ data' = pq_array[0]
    /\ n' = n - 1
    /\ pq_array' = [pq_array EXCEPT ![0] = pq_array[n - 1]]
    /\ op' = "down"
    /\ i' = 0
    /\ UNCHANGED nallocd

\* The least of cell i and its children; of equal ones the first.
MinChild ==
    LET l == left(i)
        r == right(i)
        m == IF l < n /\ pq_array[l].key < pq_array[i].key THEN l ELSE i
    IN  IF r < n /\ pq_array[r].key < pq_array[m].key THEN r ELSE m

\* restore_minpq_order( pq_array, i, n ), which calls itself for the child...
MoveDown ==
    /\ op = "down"
    /\ MinChild # i
    /\ pq_array' = Swapped(i, MinChild)
    /\ i' = MinChild
    /\ UNCHANGED <<nallocd, n, op, data>>

\* ... or returns.
ExtractEnds ==
    /\ op = "down"
    /\ MinChild = i
    /\ op' = "idle"
    /\ i' = 0
    /\ UNCHANGED <<pq_array, nallocd, n, data>>

\* minpq_release, and minpq_init for the next search.
Release ==
    /\ op \in {"idle", "failed"}
    /\ pq_array' = Cells(InitAlloc)
    /\ nallocd' = InitAlloc
    /\ n' = 0
    /\ op' = "idle"
    /\ i' = 0
    /\ UNCHANGED data

Next ==
    \/ \E e \in Node : InsertBegins(e)
    \/ InsertFails
    \/ MoveUp
    \/ InsertEnds
    \/ ExtractBegins
    \/ MoveDown
    \/ ExtractEnds
    \/ Release

Spec == Init /\ [][Next]_vars

-----------------------------------------------------------------------------
(* Properties.                                                             *)

\* The cells in use are allocated and hold elements, and the loops work on one
\* of them: no insert writes behind the array (minpq.c:77-92).
TypeOK ==
    /\ op \in {"idle", "up", "down", "failed"}
    /\ n \in Nat
    /\ nallocd \in Nat
    /\ Size <= nallocd
    /\ pq_array \in [0..(nallocd - 1) -> Node \union {Nobody}]
    /\ \A j \in 0..(Size - 1) : pq_array[j] \in Node
    /\ i \in Nat
    /\ Size > 0 => i < Size
    /\ op # "failed" => nallocd > 0
    /\ data \in Node \union {Nobody}

\* No cell of 1..last holds a smaller key than its parent.
Ordered(cells, last) ==
    \A j \in 1..last : cells[parent(j)].key <= cells[j].key

\* Whenever no operation is under way the heap is in order: each loop repairs
\* the one place its operation broke (minpq.c:179-194, 205-226).
HeapOrder == op = "idle" => Ordered(pq_array, n - 1)

PQ == INSTANCE PriorityQueue WITH
    queue <- Elements,
    taken <- data

\* The heap is a priority queue: what an extract returns is an element with a
\* smallest key, and no operation loses or doubles an element, the growth of
\* the array included (minpq.c:72-144, utils.c:189-205).
ImplementsPriorityQueue == PQ!Spec
=============================================================================
