--------------------------- MODULE MCNotePictures ---------------------------
(***************************************************************************)
(* Small instances of NotePictures.                                        *)
(***************************************************************************)
EXTENDS NotePictures, TLC

CONSTANTS r1, r2, p1, p2

Symmetry == Permutations(Requests) \union Permutations(Pictures)
=============================================================================
