------------------------------- MODULE MCMinPQ -------------------------------
(***************************************************************************)
(* An instance of MinPQ that grows twice: five elements, so that a cell    *)
(* has two children and a grandparent, with keys that may be equal.        *)
(***************************************************************************)
EXTENDS MinPQ, TLC

CONSTANTS n1, n2, n3, n4, n5

\* Nothing compares the nodes, only their keys.
Symmetry == Permutations(Data)
=============================================================================
