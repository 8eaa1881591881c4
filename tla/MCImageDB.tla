------------------------------ MODULE MCImageDB ------------------------------
(***************************************************************************)
(* A small instance of ImageDB: two labels whose texts are also image ids, *)
(* one image with no features, and ids enough for two images and a remove. *)
(***************************************************************************)
EXTENDS ImageDB

CONSTANTS blank, photo

MCNumFeatures == [f \in FeatureSets |-> IF f = blank THEN 0 ELSE 2]
=============================================================================
