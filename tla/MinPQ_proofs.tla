---------------------------- MODULE MinPQ_proofs ----------------------------
(***************************************************************************)
(* Proofs about MinPQ, for every set of keys, every initial allocation and *)
(* every bound on the size: the cells in use are allocated, the heap is in *)
(* order whenever no operation is under way, and the heap implements a     *)
(* priority queue.                                                         *)
(***************************************************************************)
EXTENDS MinPQ, WellFoundedInduction, TLAPS

\* While an element moves up, its cell is the only one that may be smaller
\* than its parent, and nothing below it is smaller than what is above it.
OrderedButAt(cells, last, hole) ==
    \A j \in 1..last :
        /\ j # hole => cells[parent(j)].key <= cells[j].key
        /\ hole > 0 /\ parent(j) = hole => cells[parent(hole)].key <= cells[j].key

\* While one moves down, only its children may be smaller than their parent.
OrderedButBelow(cells, last, hole) ==
    \A j \in 1..last :
        /\ parent(j) # hole => cells[parent(j)].key <= cells[j].key
        /\ hole > 0 /\ parent(j) = hole => cells[parent(hole)].key <= cells[j].key

UpOrder == op = "up" => OrderedButAt(pq_array, n, i)
DownOrder == op = "down" => OrderedButBelow(pq_array, n - 1, i)

\* No element is in two cells.
Distinct ==
    \A j, k \in 0..(Size - 1) : pq_array[j].data = pq_array[k].data => j = k

IInv == TypeOK /\ HeapOrder /\ UpOrder /\ DownOrder /\ Distinct

-----------------------------------------------------------------------------
(* Cells and their parents.                                                *)

\* The two children of a cell are the cells whose parent it is.
LEMMA Parents ==
    ASSUME NEW j \in Nat, j > 0
    PROVE  /\ parent(j) \in Nat
           /\ parent(j) < j
           /\ \A k \in Nat : parent(j) = k <=> j = left(k) \/ j = right(k)
BY DEF parent, left, right

\* A swap exchanges two cells and leaves the others.
LEMMA Swap ==
    ASSUME TypeOK, NEW a \in 0..(Size - 1), NEW b \in 0..(Size - 1),
           pq_array' = Swapped(a, b)
    PROVE  /\ pq_array' \in [0..(nallocd - 1) -> Node \union {Nobody}]
           /\ pq_array'[a] = pq_array[b]
           /\ pq_array'[b] = pq_array[a]
           /\ \A j \in 0..(Size - 1) : j # a /\ j # b => pq_array'[j] = pq_array[j]
<1>1. Size \in Nat /\ Size <= nallocd /\ nallocd \in Nat
  BY DEF TypeOK, Size
<1>2. a \in 0..(nallocd - 1) /\ b \in 0..(nallocd - 1)
  BY <1>1
<1> QED
  BY <1>1, <1>2 DEF TypeOK, Swapped

\* A swap keeps the elements, and keeps them distinct.
LEMMA SwapKeepsElements ==
    ASSUME TypeOK, Distinct, NEW a \in 0..(Size - 1), NEW b \in 0..(Size - 1),
           pq_array' = Swapped(a, b), Size' = Size
    PROVE  /\ Elements' = Elements
           /\ Distinct'
           /\ \A j \in 0..(Size - 1) : pq_array'[j] \in Node
<1> DEFINE at(j) == IF j = a THEN b ELSE IF j = b THEN a ELSE j
<1>1. \A j \in 0..(Size - 1) : /\ at(j) \in 0..(Size - 1)
                               /\ at(at(j)) = j
                               /\ pq_array'[j] = pq_array[at(j)]
  BY Swap
<1> HIDE DEF at
<1>2. ASSUME NEW e
      PROVE  e \in Elements' <=> e \in Elements
  <2>1. e \in Elements' => e \in Elements
    BY <1>1 DEF Elements
  <2>2. ASSUME e \in Elements
        PROVE  e \in Elements'
    <3>1. PICK j \in 0..(Size - 1) : e = pq_array[j]
      BY <2>2 DEF Elements
    <3>2. at(j) \in 0..(Size - 1) /\ e = pq_array'[at(j)]
      BY <1>1, <3>1
    <3> QED
      BY <3>2 DEF Elements
  <2> QED
    BY <2>1, <2>2
<1>3. Distinct'
  <2> SUFFICES ASSUME NEW j \in 0..(Size - 1), NEW k \in 0..(Size - 1),
                      pq_array'[j].data = pq_array'[k].data
               PROVE  j = k
    BY DEF Distinct
  <2>1. at(j) = at(k)
    BY <1>1 DEF Distinct
  <2> QED
    BY <1>1, <2>1
<1>4. \A j \in 0..(Size - 1) : pq_array'[j] \in Node
  BY <1>1 DEF TypeOK
<1> QED
  BY <1>2, <1>3, <1>4

\* Keys of cells in use can be compared.
LEMMA KeysAreInts ==
    ASSUME TypeOK
    PROVE  \A j \in 0..(Size - 1) : pq_array[j].key \in Int
BY KeysAssumption DEF TypeOK, Node

\* MinChild is the cell or one of its children, and none of them is smaller.
LEMMA MinChildIsLeast ==
    ASSUME TypeOK, op = "down", n > 0
    PROVE  /\ MinChild \in 0..(n - 1)
           /\ MinChild # i => /\ parent(MinChild) = i
                              /\ MinChild > 0
                              /\ pq_array[MinChild].key < pq_array[i].key
           /\ pq_array[MinChild].key <= pq_array[i].key
           /\ \A j \in 1..(n - 1) : parent(j) = i =>
                  pq_array[MinChild].key <= pq_array[j].key
<1> DEFINE l == left(i)
           r == right(i)
           m == IF l < n /\ pq_array[l].key < pq_array[i].key THEN l ELSE i
<1>1. Size = n /\ n \in Nat /\ i \in 0..(n - 1)
  BY DEF TypeOK, Size
<1>2. \A j \in 0..(n - 1) : pq_array[j].key \in Int
  BY <1>1, KeysAreInts
<1>3. l \in Nat /\ r \in Nat /\ l > 0 /\ r > 0 /\ l # i /\ r # i /\ l # r
  BY <1>1 DEF left, right
<1>4. MinChild = IF r < n /\ pq_array[r].key < pq_array[m].key THEN r ELSE m
  BY DEF MinChild
<1>5. parent(l) = i /\ parent(r) = i
  BY <1>1, <1>3, Parents
<1>6. m \in {i, l} /\ m \in 0..(n - 1)
  BY <1>1, <1>3
<1>7. /\ l < n => pq_array[m].key <= pq_array[l].key
      /\ pq_array[m].key <= pq_array[i].key
      /\ m # i => pq_array[m].key < pq_array[i].key
  BY <1>1, <1>2, <1>3
<1> HIDE DEF m, l, r
<1>8. /\ MinChild \in {i, l, r} /\ MinChild \in 0..(n - 1)
      /\ pq_array[MinChild].key <= pq_array[m].key
      /\ r < n => pq_array[MinChild].key <= pq_array[r].key
      /\ MinChild # m => pq_array[MinChild].key < pq_array[m].key
  BY <1>1, <1>2, <1>3, <1>4, <1>6
<1>9. MinChild # i => pq_array[MinChild].key < pq_array[i].key
  BY <1>1, <1>2, <1>6, <1>7, <1>8
<1>10. ASSUME NEW j \in 1..(n - 1), parent(j) = i
       PROVE  pq_array[MinChild].key <= pq_array[j].key
  <2>1. j = l \/ j = r
    BY <1>1, <1>10, Parents DEF l, r
  <2> QED
    BY <1>1, <1>2, <1>3, <1>6, <1>7, <1>8, <2>1
<1>11. pq_array[MinChild].key <= pq_array[i].key
  BY <1>1, <1>2, <1>6, <1>7, <1>8
<1> QED
  BY <1>1, <1>3, <1>5, <1>8, <1>9, <1>10, <1>11

-----------------------------------------------------------------------------
(* What one swap does to the order.                                        *)

\* Where the cells a and b of an array are exchanged.
Exchanged(new, old, last, a, b) ==
    /\ new[a] = old[b] /\ new[b] = old[a]
    /\ \A j \in 0..last : j # a /\ j # b => new[j] = old[j]

IntKeys(cells, last) == \A j \in 0..last : cells[j].key \in Int

\* Exchanging a cell with its larger parent moves the place out of order up.
LEMMA RaiseKeepsOrder ==
    ASSUME NEW last \in Nat, NEW hole \in 1..last, NEW old, NEW new,
           IntKeys(old, last), OrderedButAt(old, last, hole),
           old[hole].key < old[parent(hole)].key,
           Exchanged(new, old, last, parent(hole), hole)
    PROVE  OrderedButAt(new, last, parent(hole))
<1> DEFINE p == parent(hole)
<1>1. p \in 0..last /\ p < hole
  BY Parents
<1> SUFFICES ASSUME NEW j \in 1..last
             PROVE  /\ j # p => new[parent(j)].key <= new[j].key
                    /\ p > 0 /\ parent(j) = p => new[parent(p)].key <= new[j].key
  BY DEF OrderedButAt
<1>2. parent(j) \in 0..last /\ parent(j) < j
  BY Parents
<1>3. /\ j # hole => old[parent(j)].key <= old[j].key
      /\ parent(j) = hole => old[p].key <= old[j].key
  BY DEF OrderedButAt
<1>4. p > 0 => old[parent(p)].key <= old[p].key /\ parent(p) \in 0..last /\ parent(p) < p
  <2> SUFFICES ASSUME p > 0
               PROVE  old[parent(p)].key <= old[p].key /\ parent(p) \in 0..last /\ parent(p) < p
    OBVIOUS
  <2>1. p \in 1..last /\ p # hole /\ p \in Nat
    BY <1>1
  <2>2. old[parent(p)].key <= old[p].key
    BY <2>1 DEF OrderedButAt
  <2>3. parent(p) \in Nat /\ parent(p) < p
    BY <2>1, Parents
  <2> QED
    BY <1>1, <2>2, <2>3
<1>5. old[hole].key < old[p].key /\ new[p] = old[hole] /\ new[hole] = old[p]
      /\ \A k \in 0..last : k # p /\ k # hole => new[k] = old[k]
  BY DEF Exchanged
<1> HIDE DEF p
<1>6. j # p => new[parent(j)].key <= new[j].key
  <2>1. CASE j = hole
    BY <1>1, <1>5, <2>1 DEF IntKeys, p
  <2>2. CASE j # hole
    BY <1>1, <1>2, <1>3, <1>5, <2>2 DEF IntKeys
  <2> QED
    BY <2>1, <2>2
<1>7. p > 0 /\ parent(j) = p => new[parent(p)].key <= new[j].key
  BY <1>1, <1>2, <1>3, <1>4, <1>5 DEF IntKeys
<1> QED
  BY <1>6, <1>7 DEF p

\* Exchanging a cell with the smaller of its children moves it down.
LEMMA LowerKeepsOrder ==
    ASSUME NEW last \in Nat, NEW hole \in 0..last, NEW child \in 1..last,
           NEW old, NEW new, IntKeys(old, last),
           OrderedButBelow(old, last, hole), parent(child) = hole,
           old[child].key < old[hole].key,
           \A j \in 1..last : parent(j) = hole => old[child].key <= old[j].key,
           Exchanged(new, old, last, hole, child)
    PROVE  OrderedButBelow(new, last, child)
<1> SUFFICES ASSUME NEW j \in 1..last
             PROVE  /\ parent(j) # child => new[parent(j)].key <= new[j].key
                    /\ parent(j) = child => new[parent(child)].key <= new[j].key
  BY DEF OrderedButBelow
<1>1. parent(j) \in 0..last /\ parent(j) < j /\ hole < child
  BY Parents
<1>2. parent(j) # hole => old[parent(j)].key <= old[j].key
  BY DEF OrderedButBelow
<1>3. j = hole => old[parent(j)].key <= old[child].key
  BY <1>1 DEF OrderedButBelow
<1>4. new[hole] = old[child] /\ new[child] = old[hole]
      /\ \A k \in 0..last : k # hole /\ k # child => new[k] = old[k]
  BY DEF Exchanged
<1>5. parent(j) # child => new[parent(j)].key <= new[j].key
  <2>1. CASE parent(j) = hole
    BY <1>1, <1>4, <2>1 DEF IntKeys
  <2>2. CASE parent(j) # hole /\ j = hole
    BY <1>1, <1>3, <1>4, <2>2
  <2>3. CASE parent(j) # hole /\ j # hole
    BY <1>1, <1>2, <1>4, <2>3
  <2> QED
    BY <2>1, <2>2, <2>3
<1>6. parent(j) = child => new[parent(child)].key <= new[j].key
  BY <1>1, <1>2, <1>4
<1> QED
  BY <1>5, <1>6

-----------------------------------------------------------------------------
(* The inductive invariant.                                                *)

\* The queue that minpq_init makes.
LEMMA FreshQueue ==
    ASSUME pq_array = Cells(InitAlloc), nallocd = InitAlloc, n = 0,
           op = "idle", i = 0, data \in Node \union {Nobody}
    PROVE  IInv
<1>1. Size = 0
  BY DEF Size
<1>2. TypeOK
  BY <1>1, InitAllocAssumption DEF TypeOK, Cells
<1>3. HeapOrder
  BY DEF HeapOrder, Ordered
<1>4. Distinct
  BY <1>1 DEF Distinct
<1> QED
  BY <1>2, <1>3, <1>4 DEF IInv, UpOrder, DownOrder

\* Init => IInv
LEMMA InitEstablishes == Init => IInv
BY FreshQueue DEF Init

\* What an insert does before its loop: the new element is in the last cell.
LEMMA InsertStarts ==
    ASSUME IInv, NEW e \in Node, InsertBegins(e)
    PROVE  /\ Size = n /\ Size' = n + 1 /\ op' = "up" /\ n' = n
           /\ n \in Nat /\ nallocd' \in Nat /\ nallocd' > n
           /\ pq_array' \in [0..(nallocd' - 1) -> Node \union {Nobody}]
           /\ pq_array'[n] = e
           /\ \A j \in 0..(n - 1) : pq_array'[j] = pq_array[j] /\ pq_array[j] \in Node
<1>1. /\ op = "idle" /\ op' = "up" /\ n' = n /\ Size = n /\ Size' = n + 1
      /\ n \in Nat /\ nallocd \in Nat /\ n <= nallocd
      /\ pq_array \in [0..(nallocd - 1) -> Node \union {Nobody}]
      /\ \A j \in 0..(n - 1) : pq_array[j] \in Node
  BY DEF InsertBegins, IInv, TypeOK, Size
<1>2. CASE n = nallocd
  <2>1. nallocd' = 2 * nallocd /\ pq_array' = [Grown EXCEPT ![n] = e]
    BY <1>2 DEF InsertBegins
  <2>2. nallocd > 0
    BY <1>1 DEF IInv, TypeOK
  <2>3. nallocd' \in Nat /\ nallocd' > n
    BY <1>1, <1>2, <2>1, <2>2
  <2>4. /\ Grown \in [0..(nallocd' - 1) -> Node \union {Nobody}]
        /\ \A j \in 0..(n - 1) : Grown[j] = pq_array[j]
    BY <1>1, <1>2, <2>1, <2>3 DEF Grown
  <2> QED
    BY <1>1, <2>1, <2>3, <2>4
<1>3. CASE n # nallocd
  <2>1. nallocd' = nallocd /\ pq_array' = [pq_array EXCEPT ![n] = e]
    BY <1>3 DEF InsertBegins
  <2> QED
    BY <1>1, <1>3, <2>1
<1> QED
  BY <1>2, <1>3

\* An insert begins with a heap in order but for its last cell.
LEMMA InsertBeginsKeeps ==
    ASSUME IInv, NEW e \in Node, InsertBegins(e)
    PROVE  IInv'
<1>1. /\ Size = n /\ op' = "up" /\ n' = n /\ i' = n /\ data' = data
      /\ n \in Nat /\ op = "idle"
  BY InsertStarts DEF InsertBegins
<1>a. Size' = n + 1 /\ 0..(Size' - 1) = 0..n
  BY InsertStarts
<1>b. /\ nallocd' \in Nat /\ nallocd' > n
      /\ pq_array' \in [0..(nallocd' - 1) -> Node \union {Nobody}]
  BY InsertStarts
<1>c. /\ pq_array'[n] = e
      /\ \A j \in 0..(n - 1) : pq_array'[j] = pq_array[j] /\ pq_array[j] \in Node
  BY InsertStarts
<1>2. TypeOK'
  <2>1. \A j \in 0..n : pq_array'[j] \in Node
    BY <1>1, <1>c
  <2>2. data' \in Node \union {Nobody}
    BY <1>1 DEF IInv, TypeOK
  <2>3. Size' <= nallocd' /\ i' < Size' /\ nallocd' > 0
    BY <1>1, <1>a, <1>b
  <2>4. \A j \in 0..(Size' - 1) : pq_array'[j] \in Node
    BY <1>a, <2>1
  <2> QED
    BY <1>1, <1>b, <2>2, <2>3, <2>4 DEF TypeOK
<1>3. OrderedButAt(pq_array', n, n)
  <2> SUFFICES ASSUME NEW j \in 1..n
               PROVE  /\ j # n => pq_array'[parent(j)].key <= pq_array'[j].key
                      /\ parent(j) # n
    BY DEF OrderedButAt
  <2>1. parent(j) \in 0..(n - 1)
    BY <1>1, Parents
  <2>2. j # n => pq_array[parent(j)].key <= pq_array[j].key
    BY <1>1 DEF IInv, HeapOrder, Ordered
  <2>3. j # n => j \in 0..(n - 1)
    BY <1>1
  <2> QED
    BY <1>1, <1>c, <2>1, <2>2, <2>3
<1>4. Distinct'
  <2>1. \A j \in 0..(n - 1) : pq_array[j].data # e.data
    BY <1>1 DEF InsertBegins, Elements
  <2>2. \A j, k \in 0..(n - 1) : pq_array[j].data = pq_array[k].data => j = k
    BY <1>1 DEF IInv, Distinct
  <2>3. \A j \in 0..n : j = n \/ j \in 0..(n - 1)
    BY <1>1
  <2>4. \A j, k \in 0..n : pq_array'[j].data = pq_array'[k].data => j = k
    BY <1>c, <2>1, <2>2, <2>3
  <2> QED
    BY <1>a, <2>4 DEF Distinct
<1>5. UpOrder'
  BY <1>1, <1>3 DEF UpOrder
<1> QED
  BY <1>1, <1>2, <1>4, <1>5 DEF IInv, HeapOrder, DownOrder

\* An array that could not grow is gone.
LEMMA InsertFailsKeeps == IInv /\ InsertFails => IInv'
<1> SUFFICES ASSUME IInv, InsertFails PROVE IInv'
  OBVIOUS
<1>1. Size' = 0 /\ op' = "failed"
  BY DEF InsertFails, Size
<1>2. TypeOK'
  BY <1>1 DEF InsertFails, Cells, IInv, TypeOK
<1> QED
  BY <1>1, <1>2 DEF IInv, HeapOrder, UpOrder, DownOrder, Distinct

\* A turn of the loop of decrease_pq_node_key moves the one place out of order
\* to the parent.
LEMMA MoveUpKeeps == IInv /\ MoveUp => IInv'
<1> SUFFICES ASSUME IInv, MoveUp PROVE IInv'
  OBVIOUS
<1> DEFINE p == parent(i)
<1>1. /\ op = "up" /\ op' = "up" /\ n' = n /\ i' = p /\ nallocd' = nallocd
      /\ data' = data /\ Size = n + 1 /\ Size' = n + 1 /\ n \in Nat
      /\ i \in 1..n /\ nallocd \in Nat /\ nallocd > n
      /\ pq_array[i].key < pq_array[p].key
  BY DEF MoveUp, BelowParent, IInv, TypeOK, Size
<1>2. p \in 0..(n - 1) /\ p < i
  BY <1>1, Parents
<1>3. \A j \in 0..n : pq_array[j].key \in Int
  BY <1>1, KeysAreInts DEF IInv
<1>4. pq_array' = Swapped(p, i)
  BY DEF MoveUp
<1>5. p \in 0..(Size - 1) /\ i \in 0..(Size - 1) /\ TypeOK /\ Distinct
  BY <1>1, <1>2 DEF IInv
<1>6. /\ pq_array' \in [0..(nallocd - 1) -> Node \union {Nobody}]
      /\ pq_array'[p] = pq_array[i] /\ pq_array'[i] = pq_array[p]
      /\ \A j \in 0..n : j # p /\ j # i => pq_array'[j] = pq_array[j]
  BY <1>1, <1>4, <1>5, Swap
<1>7. Distinct' /\ \A j \in 0..n : pq_array'[j] \in Node
  BY <1>1, <1>4, <1>5, SwapKeepsElements
<1>8. TypeOK'
  BY <1>1, <1>2, <1>6, <1>7 DEF IInv, TypeOK
<1>9. OrderedButAt(pq_array', n, p)
  <2>1. IntKeys(pq_array, n) /\ OrderedButAt(pq_array, n, i)
    BY <1>1, <1>3 DEF IntKeys, IInv, UpOrder
  <2>2. Exchanged(pq_array', pq_array, n, p, i)
    BY <1>6 DEF Exchanged
  <2> QED
    BY <1>1, <2>1, <2>2, RaiseKeepsOrder
<1> QED
  BY <1>1, <1>7, <1>8, <1>9 DEF IInv, HeapOrder, UpOrder, DownOrder

\* The loop ends at the root or below a parent that is not larger.
LEMMA InsertEndsKeeps == IInv /\ InsertEnds => IInv'
<1> SUFFICES ASSUME IInv, InsertEnds PROVE IInv'
  OBVIOUS
<1>1. /\ op = "up" /\ op' = "idle" /\ n' = n + 1 /\ i' = 0 /\ ~BelowParent
      /\ UNCHANGED <<pq_array, nallocd, data>>
      /\ Size = n + 1 /\ Size' = n + 1 /\ n \in Nat /\ i \in 0..n
  BY DEF InsertEnds, IInv, TypeOK, Size
<1>2. TypeOK'
  BY <1>1 DEF IInv, TypeOK
<1>3. \A j \in 0..n : pq_array[j].key \in Int
  BY <1>1, KeysAreInts DEF IInv
<1>4. ASSUME NEW j \in 1..n
      PROVE  pq_array[parent(j)].key <= pq_array[j].key
  <2>1. parent(j) \in 0..n
    BY <1>1, Parents
  <2>2. j = i => ~(pq_array[j].key < pq_array[parent(j)].key)
    BY <1>1 DEF BelowParent
  <2>3. j # i => pq_array[parent(j)].key <= pq_array[j].key
    BY <1>1 DEF IInv, UpOrder, OrderedButAt
  <2> QED
    BY <1>1, <1>3, <2>1, <2>2, <2>3
<1>5. HeapOrder'
  <2>1. Ordered(pq_array', n' - 1)
    BY <1>1, <1>4 DEF Ordered
  <2> QED
    BY <2>1 DEF HeapOrder
<1>6. Distinct'
  BY <1>1 DEF IInv, Distinct
<1> QED
  BY <1>1, <1>2, <1>5, <1>6 DEF IInv, UpOrder, DownOrder

\* An extract begins with a heap in order but below its root.
LEMMA ExtractBeginsKeeps == IInv /\ ExtractBegins => IInv'
<1> SUFFICES ASSUME IInv, ExtractBegins PROVE IInv'
  OBVIOUS
<1>1. /\ op = "idle" /\ op' = "down" /\ n' = n - 1 /\ i' = 0 /\ nallocd' = nallocd
      /\ data' = pq_array[0] /\ pq_array' = [pq_array EXCEPT ![0] = pq_array[n - 1]]
      /\ Size = n /\ Size' = n - 1 /\ n \in Nat /\ n >= 1
      /\ nallocd \in Nat /\ n <= nallocd
      /\ pq_array \in [0..(nallocd - 1) -> Node \union {Nobody}]
      /\ \A j \in 0..(n - 1) : pq_array[j] \in Node
  BY DEF ExtractBegins, IInv, TypeOK, Size
<1>2. /\ pq_array' \in [0..(nallocd - 1) -> Node \union {Nobody}]
      /\ pq_array'[0] = pq_array[n - 1]
      /\ \A j \in 1..(n - 2) : pq_array'[j] = pq_array[j]
  BY <1>1
<1>3. TypeOK'
  BY <1>1, <1>2 DEF TypeOK
<1>4. OrderedButBelow(pq_array', n - 2, 0)
  <2> SUFFICES ASSUME NEW j \in 1..(n - 2), parent(j) # 0
               PROVE  pq_array'[parent(j)].key <= pq_array'[j].key
    BY DEF OrderedButBelow
  <2>1. parent(j) \in 1..(n - 2)
    BY <1>1, Parents
  <2>2. pq_array[parent(j)].key <= pq_array[j].key
    BY <1>1 DEF IInv, HeapOrder, Ordered
  <2> QED
    BY <1>2, <2>1, <2>2
<1>5. Distinct'
  <2>1. \A j, k \in 0..(n - 1) : pq_array[j].data = pq_array[k].data => j = k
    BY <1>1 DEF IInv, Distinct
  <2>2. \A j \in 0..(n - 2) : j = 0 \/ j \in 1..(n - 2)
    BY <1>1
  <2>3. \A j, k \in 0..(n - 2) : pq_array'[j].data = pq_array'[k].data => j = k
    BY <1>1, <1>2, <2>1, <2>2
  <2> QED
    BY <1>1, <2>3 DEF Distinct
<1> QED
  BY <1>1, <1>3, <1>4, <1>5 DEF IInv, HeapOrder, UpOrder, DownOrder

\* A call of restore_minpq_order moves the place out of order to a child.
LEMMA MoveDownKeeps == IInv /\ MoveDown => IInv'
<1> SUFFICES ASSUME IInv, MoveDown PROVE IInv'
  OBVIOUS
<1> DEFINE m == MinChild
<1>1. /\ op = "down" /\ op' = "down" /\ n' = n /\ i' = m /\ nallocd' = nallocd
      /\ data' = data /\ Size = n /\ Size' = n /\ n \in Nat
      /\ nallocd \in Nat /\ n <= nallocd /\ m # i
      /\ pq_array' = Swapped(i, m)
  BY DEF MoveDown, IInv, TypeOK, Size
<1>2. n > 0
  <2> SUFFICES ASSUME n = 0 PROVE FALSE
    BY <1>1
  <2>1. ~(left(i) < n) /\ ~(right(i) < n)
    BY DEF left, right, IInv, TypeOK
  <2> QED
    BY <1>1, <2>1 DEF MinChild
<1>3. i \in 0..(n - 1)
  BY <1>1, <1>2 DEF IInv, TypeOK
<1>4. /\ m \in 1..(n - 1) /\ parent(m) = i
      /\ pq_array[m].key < pq_array[i].key
      /\ \A j \in 1..(n - 1) : parent(j) = i => pq_array[m].key <= pq_array[j].key
  BY <1>1, <1>2, MinChildIsLeast DEF IInv
<1> HIDE DEF m
<1>5. /\ pq_array' \in [0..(nallocd - 1) -> Node \union {Nobody}]
      /\ pq_array'[i] = pq_array[m] /\ pq_array'[m] = pq_array[i]
      /\ \A j \in 0..(n - 1) : j # i /\ j # m => pq_array'[j] = pq_array[j]
      /\ Distinct'
      /\ \A j \in 0..(n - 1) : pq_array'[j] \in Node
  BY <1>1, <1>3, <1>4, Swap, SwapKeepsElements DEF IInv
<1>6. TypeOK'
  BY <1>1, <1>2, <1>4, <1>5 DEF IInv, TypeOK
<1>7. OrderedButBelow(pq_array', n - 1, m)
  <2>1. IntKeys(pq_array, n - 1) /\ OrderedButBelow(pq_array, n - 1, i)
    BY <1>1, KeysAreInts DEF IntKeys, IInv, DownOrder
  <2>2. Exchanged(pq_array', pq_array, n - 1, i, m)
    BY <1>5 DEF Exchanged
  <2>3. n - 1 \in Nat
    BY <1>1, <1>2
  <2> QED
    BY <1>3, <1>4, <2>1, <2>2, <2>3, LowerKeepsOrder
<1> QED
  BY <1>1, <1>5, <1>6, <1>7 DEF IInv, HeapOrder, UpOrder, DownOrder

\* restore_minpq_order returns where no child is smaller.
LEMMA ExtractEndsKeeps == IInv /\ ExtractEnds => IInv'
<1> SUFFICES ASSUME IInv, ExtractEnds PROVE IInv'
  OBVIOUS
<1>1. /\ op = "down" /\ op' = "idle" /\ i' = 0 /\ MinChild = i
      /\ UNCHANGED <<pq_array, nallocd, n, data>>
      /\ Size = n /\ Size' = n /\ n \in Nat
  BY DEF ExtractEnds, IInv, TypeOK, Size
<1>2. TypeOK'
  BY <1>1 DEF IInv, TypeOK
<1>3. ASSUME NEW j \in 1..(n - 1)
      PROVE  pq_array[parent(j)].key <= pq_array[j].key
  <2>1. parent(j) = i => pq_array[i].key <= pq_array[j].key
    BY <1>1, MinChildIsLeast DEF IInv
  <2>2. parent(j) # i => pq_array[parent(j)].key <= pq_array[j].key
    BY <1>1 DEF IInv, DownOrder, OrderedButBelow
  <2> QED
    BY <2>1, <2>2
<1>4. HeapOrder'
  <2>1. Ordered(pq_array', n' - 1)
    BY <1>1, <1>3 DEF Ordered
  <2> QED
    BY <2>1 DEF HeapOrder
<1>5. Distinct'
  BY <1>1 DEF IInv, Distinct
<1> QED
  BY <1>1, <1>2, <1>4, <1>5 DEF IInv, UpOrder, DownOrder

\* minpq_release and minpq_init.
LEMMA ReleaseKeeps == IInv /\ Release => IInv'
<1> SUFFICES ASSUME IInv, Release PROVE IInv'
  OBVIOUS
<1>1. Size' = 0 /\ op' = "idle"
  BY DEF Release, Size
<1>2. TypeOK'
  BY <1>1, InitAllocAssumption DEF Release, Cells, IInv, TypeOK
<1>3. HeapOrder'
  BY <1>1 DEF Release, HeapOrder, Ordered
<1> QED
  BY <1>1, <1>2, <1>3 DEF IInv, UpOrder, DownOrder, Distinct

\* IInv is inductive.
LEMMA NextKeeps == IInv /\ [Next]_vars => IInv'
<1> SUFFICES ASSUME IInv, [Next]_vars PROVE IInv'
  OBVIOUS
<1>1. ASSUME NEW e \in Node, InsertBegins(e) PROVE IInv'
  BY <1>1, InsertBeginsKeeps
<1>2. CASE UNCHANGED vars
  BY <1>2 DEF vars, IInv, TypeOK, HeapOrder, UpOrder, DownOrder, Distinct, Size
<1> QED
  BY <1>1, <1>2, InsertFailsKeeps, MoveUpKeeps, InsertEndsKeeps,
     ExtractBeginsKeeps, MoveDownKeeps, ExtractEndsKeeps, ReleaseKeeps DEF Next

LEMMA Invariance == Spec => []IInv
BY InitEstablishes, NextKeeps, PTL DEF Spec

-----------------------------------------------------------------------------
(* The theorems.                                                           *)

\* The cells in use are always allocated and hold elements.
THEOREM TypeCorrect == Spec => []TypeOK
<1>1. IInv => TypeOK
  BY DEF IInv
<1> QED
  BY <1>1, Invariance, PTL

\* The heap is in order whenever no operation is under way.
THEOREM HeapOrdered == Spec => []HeapOrder
<1>1. IInv => HeapOrder
  BY DEF IInv
<1> QED
  BY <1>1, Invariance, PTL

\* No cell of a heap in order has a smaller key than the root: the least cell
\* that had would have a parent that has.
LEMMA RootIsLeast ==
    ASSUME NEW last \in Nat, NEW cells, IntKeys(cells, last),
           Ordered(cells, last)
    PROVE  \A j \in 0..last : cells[0].key <= cells[j].key
<1> SUFFICES ASSUME NEW b \in 0..last, ~(cells[0].key <= cells[b].key)
             PROVE  FALSE
  OBVIOUS
<1> DEFINE T == {j \in 0..last : cells[j].key < cells[0].key}
<1>1. T \subseteq Nat /\ b \in T
  BY DEF IntKeys
<1>2. PICK j \in T : \A k \in T : ~(<<k, j>> \in OpToRel(<, Nat))
  BY <1>1, NatLessThanWellFounded, WFMin
<1>3. \A k \in T : ~(k < j)
  BY <1>1, <1>2 DEF OpToRel
<1>4. j \in 1..last
  BY DEF IntKeys
<1>5. parent(j) \in 0..last /\ parent(j) < j
  BY <1>4, Parents
<1>6. cells[parent(j)].key <= cells[j].key
  BY <1>4 DEF Ordered
<1>7. parent(j) \in T
  BY <1>4, <1>5, <1>6 DEF IntKeys
<1> QED
  BY <1>3, <1>5, <1>7

LEMMA PQInit == Init => PQ!Init
BY DEF Init, PQ!Init, Elements, Size

\* Each step is an operation of the priority queue or changes nothing of it.
LEMMA PQStep == IInv /\ [Next]_vars => [PQ!Next]_(PQ!vars)
<1> SUFFICES ASSUME IInv, [Next]_vars
             PROVE  PQ!Next \/ UNCHANGED <<Elements, data>>
  BY DEF PQ!vars
<1>1. ASSUME NEW e \in Node, InsertBegins(e)
      PROVE  PQ!Insert(e)
  <2>1. /\ Size = n /\ Size' = n + 1 /\ n \in Nat /\ pq_array'[n] = e
        /\ \A j \in 0..(n - 1) : pq_array'[j] = pq_array[j]
    BY <1>1, InsertStarts
  <2>2. \A j \in 0..n : j = n \/ j \in 0..(n - 1)
    BY <2>1
  <2>3. Elements' = Elements \union {e}
    BY <2>1, <2>2 DEF Elements
  <2> QED
    BY <1>1, <2>3 DEF InsertBegins, PQ!Insert, PQ!Queued
<1>2. ASSUME InsertFails \/ Release
      PROVE  PQ!Discard
  <2>1. Size' = 0 /\ data' = data
    BY <1>2 DEF InsertFails, Release, Size
  <2> QED
    BY <2>1 DEF Elements, PQ!Discard
<1>3. ASSUME MoveUp
      PROVE  UNCHANGED <<Elements, data>>
  <2>1. /\ Size' = Size /\ data' = data /\ Size = n + 1 /\ i \in 1..n /\ n \in Nat
        /\ pq_array' = Swapped(parent(i), i)
    BY <1>3 DEF MoveUp, BelowParent, Size, IInv, TypeOK
  <2>2. parent(i) \in 0..(Size - 1) /\ i \in 0..(Size - 1)
    BY <2>1, Parents
  <2> QED
    BY <2>1, <2>2, SwapKeepsElements DEF IInv
<1>4. ASSUME InsertEnds \/ ExtractEnds
      PROVE  UNCHANGED <<Elements, data>>
  BY <1>4 DEF InsertEnds, ExtractEnds, Elements, Size
<1>5. ASSUME ExtractBegins
      PROVE  PQ!ExtractMin
  <2>1. /\ op = "idle" /\ n' = n - 1 /\ data' = pq_array[0] /\ Size = n /\ Size' = n - 1
        /\ pq_array' = [pq_array EXCEPT ![0] = pq_array[n - 1]]
        /\ n \in Nat /\ n >= 1 /\ n <= nallocd /\ nallocd \in Nat
        /\ pq_array \in [0..(nallocd - 1) -> Node \union {Nobody}]
    BY <1>5 DEF ExtractBegins, IInv, TypeOK, Size
  <2>2. /\ pq_array'[0] = pq_array[n - 1]
        /\ \A j \in 1..(n - 2) : pq_array'[j] = pq_array[j]
    BY <2>1
  <2>3. \A j, k \in 0..(n - 1) : pq_array[j] = pq_array[k] => j = k
    BY <2>1 DEF IInv, Distinct
  <2>4. Elements' = Elements \ {pq_array[0]}
    <3>1. ASSUME NEW x \in Elements'
          PROVE  x \in Elements \ {pq_array[0]}
      <4>1. PICK j \in 0..(n - 2) : x = pq_array'[j]
        BY <2>1 DEF Elements
      <4>2. CASE j = 0
        BY <2>1, <2>2, <2>3, <4>1, <4>2 DEF Elements
      <4>3. CASE j # 0
        BY <2>1, <2>2, <2>3, <4>1, <4>3 DEF Elements
      <4> QED
        BY <4>2, <4>3
    <3>2. ASSUME NEW x \in Elements, x # pq_array[0]
          PROVE  x \in Elements'
      <4>1. PICK j \in 1..(n - 1) : x = pq_array[j]
        BY <2>1, <3>2 DEF Elements
      <4>2. CASE j = n - 1
        BY <2>1, <2>2, <4>1, <4>2 DEF Elements
      <4>3. CASE j # n - 1
        BY <2>1, <2>2, <4>1, <4>3 DEF Elements
      <4> QED
        BY <4>2, <4>3
    <3> QED
      BY <3>1, <3>2
  <2>5. pq_array[0] \in PQ!Smallest(Elements)
    <3>1. n - 1 \in Nat /\ IntKeys(pq_array, n - 1) /\ Ordered(pq_array, n - 1)
      BY <2>1, KeysAreInts DEF IntKeys, IInv, HeapOrder
    <3>2. \A j \in 0..(n - 1) : pq_array[0].key <= pq_array[j].key
      BY <3>1, RootIsLeast
    <3> QED
      BY <2>1, <3>2 DEF PQ!Smallest, Elements
  <2> QED
    BY <2>1, <2>4, <2>5 DEF PQ!ExtractMin
<1>6. ASSUME MoveDown
      PROVE  UNCHANGED <<Elements, data>>
  <2>1. /\ Size' = Size /\ data' = data /\ Size = n /\ n \in Nat /\ op = "down"
        /\ pq_array' = Swapped(i, MinChild) /\ MinChild # i
    BY <1>6 DEF MoveDown, Size, IInv, TypeOK
  <2>2. n > 0
    <3> SUFFICES ASSUME n = 0 PROVE FALSE
      BY <2>1
    <3>1. ~(left(i) < n) /\ ~(right(i) < n)
      BY DEF left, right, IInv, TypeOK
    <3> QED
      BY <2>1, <3>1 DEF MinChild
  <2>3. MinChild \in 0..(n - 1) /\ i \in 0..(n - 1)
    BY <2>1, <2>2, MinChildIsLeast DEF IInv, TypeOK
  <2> QED
    BY <2>1, <2>3, SwapKeepsElements DEF IInv
<1>7. CASE UNCHANGED vars
  BY <1>7 DEF vars, Elements, Size
<1>8. Node = PQ!Node
  BY DEF Node, PQ!Node
<1> QED
  BY <1>1, <1>2, <1>3, <1>4, <1>5, <1>6, <1>7, <1>8 DEF Next, PQ!Next

\* What an extract returns is an element with a smallest key, and nothing is
\* lost or doubled.
THEOREM Refinement == Spec => ImplementsPriorityQueue
<1>1. PQ!Spec <=> PQ!Init /\ [][PQ!Next]_(PQ!vars)
  BY DEF PQ!Spec
<1> QED
  BY <1>1, PQInit, PQStep, Invariance, PTL DEF Spec, ImplementsPriorityQueue
=============================================================================
