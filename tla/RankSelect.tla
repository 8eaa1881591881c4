------------------------------ MODULE RankSelect ------------------------------
(***************************************************************************)
(* The selection of an element by its rank in engine/src/kdtree.c: median  *)
(* of medians in groups of five, partition around it, and one side of that *)
(* again.  An activation of rank_select is a record on a stack; a call in  *)
(* a return statement takes the place of its caller.  Every turn of a loop *)
(* is a step.                                                              *)
(*                                                                         *)
(* Arrays are sequences, so cell i of the code is element i + 1 here;      *)
(* ranks count from 0 as in the code.  The doubles are the integers that   *)
(* descriptors hold.                                                       *)
(***************************************************************************)
EXTENDS Integers, Sequences, SequencesExt

VARIABLES
    given,      \* what was asked for: an array and a rank
    calls,      \* the stack of activations, the innermost last
    selected    \* what the outermost returned, once the stack is empty

selection == <<given, calls, selected>>

\* "partitioning" from when the median of the medians is there; i is how many
\* elements are up to the pivot, p where the pivot was last: 0 is not set.
Call(array, r) ==
    [array |-> array, r |-> r, at |-> "sorting", m |-> 0, pivot |-> 0, i |-> 0, p |-> 0]

call == Last(calls)
size == Len(call.array)
Becomes(new) == calls' = [calls EXCEPT ![Len(calls)] = new] /\ UNCHANGED selected

Returns(x) ==
    IF Len(calls) = 1
    THEN /\ calls' = <<>>
         /\ selected' = x
    ELSE /\ calls' = [Front(calls) EXCEPT ![Len(calls) - 1] =
                          [@ EXCEPT !.at = "partitioning", !.m = 0, !.pivot = x]]
         /\ UNCHANGED selected

\* The lower median's rank.
MedianRank(length) == (length - 1) \div 2

-----------------------------------------------------------------------------

ReturnOnly ==
    /\ call.at = "sorting" /\ size = 1
    /\ Returns(call.array[1])
    /\ UNCHANGED given

Greatest(S) == CHOOSE x \in S : \A y \in S : y <= x

\* insertion_sort takes the next element behind the last of its group that is
\* not above it: a group begins after every five.
PlaceInGroup(array, m) ==
    LET start == m - (m % 5)
    IN  Greatest({start} \union {j \in (start + 1)..m : array[j] <= array[m + 1]}) + 1

Inserted(array, m) ==
    LET place == PlaceInGroup(array, m)
    IN  [j \in 1..Len(array) |->
            IF j = place THEN array[m + 1]
            ELSE IF j \in place..(m + 1) THEN array[j - 1]
            ELSE array[j]]

\* A turn of the outer loop of insertion_sort, in the groups one after the other.
SortTurn ==
    /\ call.at = "sorting" /\ size > 1
    /\ call.m < size
    /\ Becomes([call EXCEPT !.array = Inserted(call.array, call.m), !.m = @ + 1])
    /\ UNCHANGED given

\* Of each group of five, and of the rest: of even length the lower one.
Medians(array) ==
    LET gr_5 == Len(array) \div 5
        rem_elts == Len(array) % 5
        gr_tot == IF rem_elts = 0 THEN gr_5 ELSE gr_5 + 1
    IN  [g \in 1..gr_tot |->
            IF g <= gr_5 THEN array[5 * g - 2]
            ELSE array[Len(array) - rem_elts \div 2]]

\* The first recursive call.
SelectPivot ==
    /\ call.at = "sorting" /\ size > 1
    /\ call.m = size
    /\ LET medians == Medians(call.array)
       IN  calls' = Append([calls EXCEPT ![Len(calls)].at = "waiting"],
                           Call(medians, MedianRank(Len(medians))))
    /\ UNCHANGED <<given, selected>>

Exchanged(array, i, j) == [array EXCEPT ![i] = array[j], ![j] = array[i]]

\* Mutant of the next: leaves equal elements above the pivot.
PartitionTurnBelow ==
    /\ call.at = "partitioning"
    /\ call.m < size
    /\ IF call.array[call.m + 1] < call.pivot
       THEN Becomes([call EXCEPT !.array = Exchanged(call.array, call.i + 1, call.m + 1),
                                 !.i = @ + 1, !.m = @ + 1])
       ELSE Becomes([call EXCEPT !.m = @ + 1])
    /\ UNCHANGED given

\* A turn of the loop of partition_array: an element up to the pivot is exchanged
\* with the first one above it.
PartitionTurn ==
    /\ call.at = "partitioning"
    /\ call.m < size
    /\ LET x == call.array[call.m + 1] IN
       IF x <= call.pivot
       THEN Becomes([call EXCEPT !.array = Exchanged(call.array, call.i + 1, call.m + 1),
                                 !.p = IF x = call.pivot THEN call.i + 1 ELSE @,
                                 !.i = @ + 1, !.m = @ + 1])
       ELSE Becomes([call EXCEPT !.m = @ + 1])
    /\ UNCHANGED given

\* The end of partition_array: the pivot behind the elements below it.
Partitioned(c) == [c.array EXCEPT ![c.p] = c.array[c.i], ![c.i] = c.pivot]

\* Mutant of the next: keeps the rank on the right side.
SelectSideSameRank ==
    /\ call.at = "partitioning"
    /\ call.m = size
    /\ LET array == Partitioned(call)
           j == call.i - 1
       IN  IF call.r = j THEN Returns(call.pivot)
           ELSE IF call.r < j THEN Becomes(Call(SubSeq(array, 1, j), call.r))
           ELSE Becomes(Call(SubSeq(array, j + 2, size),
                             IF call.r < size - j - 1 THEN call.r ELSE size - j - 2))
    /\ UNCHANGED given

\* The end of rank_select: j, as in the code, counts from 0.
SelectSide ==
    /\ call.at = "partitioning"
    /\ call.m = size
    /\ LET array == Partitioned(call)
           j == call.i - 1
       IN  IF call.r = j THEN Returns(call.pivot)
           ELSE IF call.r < j THEN Becomes(Call(SubSeq(array, 1, j), call.r))
           ELSE Becomes(Call(SubSeq(array, j + 2, size), call.r - j - 1))
    /\ UNCHANGED given

SelectStep ==
    /\ calls # <<>>
    /\ \/ ReturnOnly
       \/ SortTurn
       \/ SelectPivot
       \/ PartitionTurn
       \/ SelectSide

SelectBegins(array, r) ==
    /\ given = [array |-> array, r |-> r]
    /\ calls = <<Call(array, r)>>
    /\ selected = 0

SelectSpec(array, r) == SelectBegins(array, r) /\ [][SelectStep]_selection

-----------------------------------------------------------------------------
(* Properties.                                                             *)

\* What "the element with zero-based rank r" means, without sorting.
Below(array, x) == {j \in 1..Len(array) : array[j] < x}
UpTo(array, x) == {j \in 1..Len(array) : array[j] <= x}
HasRank(array, r, x) ==
    /\ \E j \in 1..Len(array) : array[j] = x
    /\ Cardinality(Below(array, x)) <= r
    /\ r < Cardinality(UpTo(array, x))

\* "Returns the element from array with zero-based rank r" (kdtree.c:367),
\* whatever the length of the array and however many elements are equal.
SelectsRank == calls = <<>> => HasRank(given.array, given.r, selected)

\* partition_array sets p only where it meets the pivot and reads it at the end
\* (kdtree.c:451-466): the pivot was met by then: it is an element, though it
\* comes out of another activation.
PivotIsFound ==
    calls # <<>> /\ call.at = "partitioning" /\ call.m = size =>
        /\ call.p \in 1..call.i
        /\ call.array[call.p] = call.pivot

\* The recursion is well-founded: an activation has fewer elements than the one
\* that waits for it, and its rank is one of theirs (kdtree.c:396-409).
CallsShrink ==
    /\ \A c \in 1..Len(calls) : calls[c].r \in 0..(Len(calls[c].array) - 1)
    /\ \A c \in 2..Len(calls) : Len(calls[c].array) < Len(calls[c - 1].array)

\* What rank_select relies on from one activation to the next.
SelectionIsSound == PivotIsFound /\ CallsShrink
=============================================================================
