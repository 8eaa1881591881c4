------------------------------ MODULE MCDBTools ------------------------------
(***************************************************************************)
(* A server and one tool at a time over one file, with two labels and room *)
(* for two images, one kind of which cannot be written.                    *)
(***************************************************************************)
EXTENDS DBTools

CONSTANTS blank, photo

MCNumFeatures == [f \in FeatureSets |-> IF f = blank THEN 0 ELSE 2]
=============================================================================
