----------------------------- MODULE MCNoteViews -----------------------------
(***************************************************************************)
(* A small instance of NoteViews.                                          *)
(***************************************************************************)
EXTENDS NoteViews, TLC

CONSTANTS t1, t2, u1, u2

Symmetry == Permutations(Threads) \union Permutations(Users)
=============================================================================
