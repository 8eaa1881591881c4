------------------------------- MODULE KDSearch -------------------------------
(***************************************************************************)
(* The kd tree of engine/src/kdtree.c and the best-bin-first search over   *)
(* it: what ImageDB::match asks for each feature of a query.  The tree is  *)
(* built over an array of features that it re-orders; the value a node is  *)
(* divided at is selected as RankSelect has it, and the features are       *)
(* partitioned around it, one turn of the loop a step.  A search keeps the *)
(* subtrees it passed by in a priority queue, keyed by how the query and   *)
(* the value they were divided at differ, and the distance of each feature *)
(* it examines in that feature's feature_data, where the id of its image   *)
(* was.  One search follows another over the same tree.                    *)
(*                                                                         *)
(* The queue is the PriorityQueue that MinPQ implements, so of entries     *)
(* with equal keys any may come first.  Descriptors hold integers.  Where  *)
(* two dimensions vary equally, rounding decides which the tree divides:   *)
(* either may be.                                                          *)
(***************************************************************************)
EXTENDS RankSelect

CONSTANTS
    Dims,           \* how many numbers a descriptor has: 128
    FeatureArrays,  \* the arrays a tree is built over
    Queries,        \* the descriptors searched for
    Ks,             \* how many neighbours are asked for
    MaxChecks,      \* values of max_nn_chks
    Own             \* what feature_data holds outside a search

\* kdtree_build refuses an array without features (kdtree.c:64-69), and whoever
\* asks for neighbours asks for some (ImageDB.cpp asks for two).
ASSUME KDAssumption ==
    /\ Dims \in Nat \ {0}
    /\ \A array \in FeatureArrays :
         array \in Seq([1..Dims -> Int]) /\ Len(array) > 0
    /\ \A q \in Queries : q \in [1..Dims -> Int]
    /\ \A m \in Ks : m \in Nat \ {0}
    /\ \A m \in MaxChecks : m \in Nat

VARIABLES
    features,       \* the array: descriptors
    feature_data,   \* of each feature: Own, or the bbf_data of a search
    tree,           \* node -> what expand_kd_node_subtree knows of it
    unexpanded,     \* the calls of expand_kd_node_subtree still to come
    part,           \* what assign_part_key and partition_features work with
    feat, k, max_nn_chks,  \* the arguments of kdtree_bbf_knn
    min_pq,         \* the queue
    expl, i,        \* the node explored and how many of its entries are done
    t,              \* how often the loop has been around
    nbrs,           \* the neighbours so far, nearest first
    examined,       \* history: the features whose distance was taken
    pc              \* "building", "dividing", then "searching", "descending",
                    \* "at leaf", "found", "failed"

building == <<features, tree, unexpanded, part, selection>>
arguments == <<feat, k, max_nn_chks>>
searching == <<feature_data, arguments, min_pq, expl, i, t, nbrs, examined>>
vars == <<building, searching, pc>>

\* A node is the part of the array it was made for.
Nodes == [first: Nat, n: Nat]
NodeAt(first, n) == [first |-> first, n |-> n]
Root == NodeAt(1, Len(features))
Entries(m) == m.first..(m.first + m.n - 1)
NoNode == NodeAt(1, 0)

PQ == INSTANCE PriorityQueue WITH
    Data <- Nodes, Keys <- Int, Nobody <- NoNode, queue <- min_pq, taken <- expl

-----------------------------------------------------------------------------
(* The tree.                                                               *)

Column(m, ki) == [j \in 1..m.n |-> features[m.first + j - 1][ki]]

\* n^2 times the variance, which orders as the variance does.
Spread(m, ki) ==
    LET column == Column(m, ki)
        sum == FoldLeft(LAMBDA a, b : a + b, 0, column)
        squares == FoldLeft(LAMBDA a, b : a + b * b, 0, column)
    IN  m.n * squares - sum * sum

\* assign_part_key: a dimension that varies most, the first if none varies.
PartKeys(m) ==
    IF \A ki \in 1..Dims : Spread(m, ki) = 0
    THEN {1}
    ELSE {ki \in 1..Dims : \A kj \in 1..Dims : Spread(m, kj) <= Spread(m, ki)}

LeafInfo == [leaf |-> TRUE, ki |-> 0, kv |-> 0, left |-> 0]
WithNode(new, info) ==
    [m \in DOMAIN tree \union {new} |-> IF m = new THEN info ELSE tree[m]]

KdLeft(m) == NodeAt(m.first, tree[m].left)
KdRight(m) == NodeAt(m.first + tree[m].left, m.n - tree[m].left)

\* j is how many features are up to the value, p where it was last: 0 is not set.
NoPart == [ki |-> 0, i |-> 0, j |-> 0, p |-> 0]

Init ==
    /\ features \in FeatureArrays
    /\ feature_data = [f \in 1..Len(features) |-> Own]
    /\ tree = << >>
    /\ unexpanded = <<Root>>
    /\ part = NoPart
    /\ given = [array |-> <<>>, r |-> 0] /\ calls = <<>> /\ selected = 0
    /\ feat = <<>> /\ k = 0 /\ max_nn_chks = 0
    /\ min_pq = {} /\ expl = NoNode /\ i = 0 /\ t = 0 /\ nbrs = <<>>
    /\ examined = {}
    /\ pc = "building"

node == Head(unexpanded)   \* being expanded

\* expand_kd_node_subtree of one feature.
ExpandLeaf ==
    /\ pc = "building" /\ unexpanded # <<>>
    /\ node.n <= 1
    /\ tree' = WithNode(node, LeafInfo)
    /\ unexpanded' = Tail(unexpanded)
    /\ UNCHANGED <<features, part, selection, searching, pc>>

\* assign_part_key up to its call of median_select.
AssignPartKey ==
    /\ pc = "building" /\ unexpanded # <<>>
    /\ node.n > 1
    /\ \E ki \in PartKeys(node) :
         /\ part' = [NoPart EXCEPT !.ki = ki]
         /\ given' = [array |-> Column(node, ki), r |-> MedianRank(node.n)]
         /\ calls' = <<Call(Column(node, ki), MedianRank(node.n))>>
    /\ pc' = "dividing"
    /\ UNCHANGED <<features, tree, unexpanded, selected, searching>>

\* The tree is divided at what was selected.
SelectMedian ==
    /\ pc = "dividing"
    /\ SelectStep
    /\ UNCHANGED <<features, tree, unexpanded, part, searching, pc>>

\* A turn of the loop of partition_features.
FeatureTurn ==
    /\ pc = "dividing" /\ calls = <<>>
    /\ part.i < node.n
    /\ LET x == features[node.first + part.i][part.ki] IN
       IF x <= selected
       THEN /\ features' = Exchanged(features, node.first + part.j, node.first + part.i)
            /\ part' = [part EXCEPT !.i = @ + 1, !.j = @ + 1,
                          !.p = IF x = selected THEN node.first + part.j ELSE @]
       ELSE /\ part' = [part EXCEPT !.i = @ + 1]
            /\ UNCHANGED features
    /\ UNCHANGED <<tree, unexpanded, selection, searching, pc>>

\* Mutant of the next: keeps the median on the right.
DivideAbove ==
    /\ pc = "dividing" /\ calls = <<>>
    /\ part.i = node.n
    /\ features' = Exchanged(features, part.p, node.first + part.j - 1)
    /\ IF part.j - 1 \in {0, node.n}
       THEN /\ tree' = WithNode(node, LeafInfo)
            /\ unexpanded' = Tail(unexpanded)
       ELSE /\ tree' = WithNode(node, [leaf |-> FALSE, ki |-> part.ki, kv |-> selected,
                                   left |-> part.j - 1])
            /\ unexpanded' = <<NodeAt(node.first, part.j - 1),
                               NodeAt(node.first + part.j - 1, node.n - part.j + 1)>>
                             \o Tail(unexpanded)
    /\ pc' = "building"
    /\ UNCHANGED <<part, selection, searching>>

\* The end of partition_features: a leaf if all are on one side, or else two
\* nodes, which are expanded next.
Divide ==
    /\ pc = "dividing" /\ calls = <<>>
    /\ part.i = node.n
    /\ features' = Exchanged(features, part.p, node.first + part.j - 1)
    /\ IF part.j = node.n
       THEN /\ tree' = WithNode(node, LeafInfo)
            /\ unexpanded' = Tail(unexpanded)
       ELSE /\ tree' = WithNode(node, [leaf |-> FALSE, ki |-> part.ki, kv |-> selected,
                                   left |-> part.j])
            /\ unexpanded' = <<NodeAt(node.first, part.j),
                               NodeAt(node.first + part.j, node.n - part.j)>>
                             \o Tail(unexpanded)
    /\ pc' = "building"
    /\ UNCHANGED <<part, selection, searching>>

-----------------------------------------------------------------------------
(* The search.                                                             *)

\* kdtree_bbf_knn up to its loop.
SearchBegins ==
    /\ \/ pc = "building" /\ unexpanded = <<>>
       \/ pc \in {"found", "failed"}
    /\ feat' \in Queries /\ k' \in Ks /\ max_nn_chks' \in MaxChecks
    /\ min_pq' = {[data |-> Root, key |-> 0]}
    /\ expl' = NoNode /\ i' = 0 /\ t' = 0 /\ nbrs' = <<>> /\ examined' = {}
    /\ pc' = "searching"
    /\ UNCHANGED <<building, feature_data>>

Distance(f) ==
    LET sum[d \in 0..Dims] ==
            IF d = 0 THEN 0
            ELSE sum[d - 1] + (feat[d] - features[f][d]) * (feat[d] - features[f][d])
    IN  sum[Dims]

GoesLeft(m) == feat[tree[m].ki] <= tree[m].kv
Toward(m) == IF GoesLeft(m) THEN KdLeft(m) ELSE KdRight(m)

\* Mutant of the next: passes by the side it explores.
PassedByWrong(m) == Toward(m)

PassedBy(m) == IF GoesLeft(m) THEN KdRight(m) ELSE KdLeft(m)

\* The macro ABS, of utils.h, applied to kv - x: it has no parentheses around its
\* argument, so its minus is a minus before kv.
ABS(kv, x) == IF kv - x < 0 THEN -kv - x ELSE kv - x

\* A turn of the loop, up to explore_to_leaf.
Extract ==
    /\ pc = "searching"
    /\ min_pq # {} /\ t < max_nn_chks
    /\ \E e \in PQ!Smallest(min_pq) :
         min_pq' = min_pq \ {e} /\ expl' = e.data
    /\ pc' = "descending"
    /\ UNCHANGED <<building, feature_data, arguments, i, t, nbrs, examined>>

\* A turn of the loop of explore_to_leaf.
Descend ==
    /\ pc = "descending" /\ ~tree[expl].leaf
    /\ min_pq' = min_pq \union
         {[data |-> PassedBy(expl), key |-> ABS(tree[expl].kv, feat[tree[expl].ki])]}
    /\ expl' = Toward(expl)
    /\ UNCHANGED <<building, feature_data, arguments, i, t, nbrs, examined, pc>>

ReachLeaf ==
    /\ pc = "descending" /\ tree[expl].leaf
    /\ i' = 0
    /\ pc' = "at leaf"
    /\ UNCHANGED <<building, feature_data, arguments, min_pq, expl, t, nbrs, examined>>

dist(f) == feature_data[f].d

\* Mutant of the next: stops at the first neighbour from the end.
PlaceFromFront(d) ==
    LET before == {j \in 1..Len(nbrs) : dist(nbrs[j]) > d}
    IN  IF before = {} THEN Len(nbrs) + 1 ELSE Greatest(before)

\* Behind every neighbour that is not farther.
PlaceOf(d) == Greatest({0} \union {j \in 1..Len(nbrs) : dist(nbrs[j]) <= d}) + 1

NbrsWith(f, d) ==
    [j \in 1..(IF Len(nbrs) = k THEN k ELSE Len(nbrs) + 1) |->
        IF j < PlaceOf(d) THEN nbrs[j]
        ELSE IF j = PlaceOf(d) THEN f
        ELSE nbrs[j - 1]]

\* Mutant of the next: the evicted neighbour keeps its bbf_data.
InsertWithoutRestore(f, d) ==
    LET new == [old_data |-> feature_data[f], d |-> d] IN
    IF Len(nbrs) = k /\ PlaceOf(d) > k
    THEN UNCHANGED <<nbrs, feature_data>>
    ELSE /\ nbrs' = NbrsWith(f, d)
         /\ feature_data' = [feature_data EXCEPT ![f] = new]

\* insert_into_nbr_array: when there are k already, one of them or the new
\* feature goes, and gets its own data back.
InsertIntoNbrs(f, d) ==
    LET new == [old_data |-> feature_data[f], d |-> d] IN
    IF Len(nbrs) = k /\ PlaceOf(d) > k
    THEN UNCHANGED <<nbrs, feature_data>>
    ELSE /\ nbrs' = NbrsWith(f, d)
         /\ feature_data' =
              IF Len(nbrs) = k
              THEN [feature_data EXCEPT
                      ![f] = new, ![nbrs[k]] = feature_data[nbrs[k]].old_data]
              ELSE [feature_data EXCEPT ![f] = new]

\* A turn of the loop over the entries of the leaf.
Examine ==
    /\ pc = "at leaf"
    /\ i < expl.n
    /\ LET f == expl.first + i IN
         /\ InsertIntoNbrs(f, Distance(f))
         /\ examined' = examined \union {f}
    /\ i' = i + 1
    /\ UNCHANGED <<building, arguments, min_pq, expl, t, pc>>

LeafIsDone ==
    /\ pc = "at leaf"
    /\ i = expl.n
    /\ t' = t + 1
    /\ pc' = "searching"
    /\ UNCHANGED <<building, feature_data, arguments, min_pq, expl, i, nbrs, examined>>

\* The loop that frees the bbf_data of the neighbours.
Restored ==
    [f \in 1..Len(features) |->
        IF \E j \in 1..Len(nbrs) : nbrs[j] = f THEN feature_data[f].old_data
        ELSE feature_data[f]]

SearchEnds ==
    /\ pc = "searching"
    /\ min_pq = {} \/ t >= max_nn_chks
    /\ feature_data' = Restored
    /\ pc' = "found"
    /\ UNCHANGED <<building, arguments, min_pq, expl, i, t, nbrs, examined>>

\* The queue could not grow, or malloc gave nothing for an entry.
SearchFails ==
    /\ \/ pc = "descending" /\ ~tree[expl].leaf
       \/ pc = "at leaf" /\ i < expl.n
    /\ feature_data' = Restored
    /\ nbrs' = <<>>
    /\ pc' = "failed"
    /\ UNCHANGED <<building, arguments, min_pq, expl, i, t, examined>>

Next ==
    \/ ExpandLeaf
    \/ AssignPartKey
    \/ SelectMedian
    \/ FeatureTurn
    \/ Divide
    \/ SearchBegins
    \/ Extract
    \/ Descend
    \/ ReachLeaf
    \/ Examine
    \/ LeafIsDone
    \/ SearchEnds
    \/ SearchFails

Spec == Init /\ [][Next]_vars

-----------------------------------------------------------------------------
(* Properties.                                                             *)

\* Every part of the array is divided by its node: nothing on the left is above
\* the value, nothing on the right up to it, and neither side is empty, though
\* the parts below are re-ordered after it (kdtree.c:271-287, 478-510).
TreeDividesFeatures ==
    \A m \in DOMAIN tree : ~tree[m].leaf =>
        /\ tree[m].left \in 1..(m.n - 1)
        /\ \A f \in Entries(KdLeft(m)) : features[f][tree[m].ki] <= tree[m].kv
        /\ \A f \in Entries(KdRight(m)) : features[f][tree[m].ki] > tree[m].kv

\* A node is divided at the lower median of the dimension it chose, whatever its
\* length and however many values are equal, and stays so while its parts are
\* re-ordered (kdtree.c:329-338, 351-468, 478-510).
MediansDivide ==
    \A m \in DOMAIN tree : ~tree[m].leaf =>
        HasRank(Column(m, tree[m].ki), MedianRank(m.n), tree[m].kv)

\* During a search every feature is examined already, or waits in the node that
\* is being explored, or in exactly one subtree of the queue, which has none of
\* that node's: none is missed or examined twice (kdtree.c:110-142, 529-567).
Waiting ==
    (UNION {Entries(e.data) : e \in min_pq})
      \union (CASE pc = "descending" -> Entries(expl)
                [] pc = "at leaf" -> {expl.first + j : j \in i..(expl.n - 1)}
                [] OTHER -> {})

SearchCoversTree ==
    pc \in {"searching", "descending", "at leaf"} =>
        /\ examined \union Waiting = 1..Len(features)
        /\ examined \intersect Waiting = {}
        /\ \A e, o \in min_pq :
             e # o => Entries(e.data) \intersect Entries(o.data) = {}
        /\ pc # "searching" =>
             \A e \in min_pq : Entries(e.data) \intersect Entries(expl) = {}

\* What a search returns are the nearest of the features it examined, in order,
\* as many as asked for or as there are; of all features, if it was not cut off
\* (kdtree.c:93-169, 585-640).
NeighborsAreNearest ==
    pc = "found" =>
        LET seen == IF min_pq = {} THEN 1..Len(features) ELSE examined
            got == {nbrs[j] : j \in 1..Len(nbrs)}
        IN  /\ Cardinality(got) = Len(nbrs)
            /\ Len(nbrs) = IF Cardinality(seen) < k THEN Cardinality(seen) ELSE k
            /\ \A j \in 2..Len(nbrs) : Distance(nbrs[j - 1]) <= Distance(nbrs[j])
            /\ \A f \in seen \ got, g \in got : Distance(g) <= Distance(f)

\* However a search ends, every feature has its own feature_data back: match
\* reads the id of an image from there (kdtree.c:134, 145-150, 603-626,
\* ImageDB.cpp:171-183).
FeatureDataComesBack ==
    pc \in {"found", "failed"} => \A f \in 1..Len(features) : feature_data[f] = Own

\* "Each node examined but not explored is put into a priority queue to be
\* explored later, keyed based on the distance from its partition key value to
\* the given feature's desctiptor" (kdtree.c:516-519).
KeysAreDistances ==
    \A m \in DOMAIN tree, e \in min_pq :
        ~tree[m].leaf /\ e.data \in {KdLeft(m), KdRight(m)} =>
            LET x == feat[tree[m].ki]
                kv == tree[m].kv
            IN  e.key = IF x <= kv THEN kv - x ELSE x - kv
=============================================================================
