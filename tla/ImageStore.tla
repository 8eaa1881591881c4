----------------------------- MODULE ImageStore -----------------------------
(***************************************************************************)
(* What the image database promises its clients, without identifiers,      *)
(* feature vectors, trees or file formats: a map from labels to the        *)
(* features of an image, a saved copy of it, and a restart that either     *)
(* brings the saved copy back exactly or refuses to serve it at all.       *)
(*                                                                         *)
(* The class is engine/src/ImageDB.hpp:40-77; the module ImageDB has its   *)
(* state and its methods and implements this one.                          *)
(***************************************************************************)
EXTENDS FiniteSets

CONSTANTS
    Names,        \* the labels a client may give an image
    Unsavable,    \* those the file format cannot hold: empty, or with a line break
    Images,       \* what is extracted from an image: its SIFT features
    Nothing       \* no image under that label

VARIABLES
    status,       \* is the process up, and did it manage to load its file
    images,       \* label -> image, in memory
    readable,     \* would a load of the file succeed now
    saved         \* label -> image, as a load would bring it back

vars == <<status, images, readable, saved>>

Empty == [n \in Names |-> Nothing]
Stored == {n \in Names : images[n] # Nothing}

Init ==
    /\ status = "down"
    /\ images = Empty
    /\ readable \in BOOLEAN
    /\ saved \in [Names -> Images \union {Nothing}]
    /\ ~readable => saved = Empty

\* A label names one image: adding a second one under it is refused.
Add(n, i) ==
    /\ status = "serving"
    /\ images[n] = Nothing
    /\ images' = [images EXCEPT ![n] = i]
    /\ UNCHANGED <<status, readable, saved>>

Remove(n) ==
    /\ status = "serving"
    /\ images[n] # Nothing
    /\ images' = [images EXCEPT ![n] = Nothing]
    /\ UNCHANGED <<status, readable, saved>>

\* A save rewrites the file in place, so there is a time without any copy...
BeginSave ==
    /\ status = "serving"
    /\ readable' = FALSE
    /\ saved' = Empty
    /\ UNCHANGED <<status, images>>

WriteOut ==
    /\ status = "serving"
    /\ readable' = (Unsavable \intersect Stored = {})
    /\ saved' = IF readable' THEN images ELSE Empty

\* ... and then a copy of exactly what is in memory.
EndSave == WriteOut /\ UNCHANGED <<status, images>>

\* The process dies; the save it was in may have got everything to the disk.
Crash ==
    /\ status' = "down"
    /\ images' = Empty
    /\ \/ UNCHANGED <<readable, saved>>
       \/ ~readable /\ WriteOut

\* A restart serves all of the saved copy or, when it cannot, none of it.
Restart ==
    /\ status = "down"
    /\ status' = IF readable THEN "serving" ELSE "broken"
    /\ images' = saved
    /\ UNCHANGED <<readable, saved>>

Next ==
    \/ \E n \in Names, i \in Images : Add(n, i)
    \/ \E n \in Names : Remove(n)
    \/ BeginSave
    \/ EndSave
    \/ Crash
    \/ Restart

Spec == Init /\ [][Next]_vars
=============================================================================
