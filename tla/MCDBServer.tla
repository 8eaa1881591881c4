------------------------------ MODULE MCDBServer ------------------------------
(***************************************************************************)
(* Small instances of DBServer.  Two ids are the fewest with which a       *)
(* server that loaded a file can add an image to it.  Two labels show      *)
(* what one request does to the image of another (MCDBServerSaves), two    *)
(* images, one without features, which upload was stored                   *)
(* (MCDBServerUploads).                                                    *)
(***************************************************************************)
EXTENDS DBServer

CONSTANTS blank, photo

\* 0 stands in the text of 1 as 1 does in the text of 12.
MCPieces == [l \in Labels |-> (Labels \intersect {0}) \ {l}]
MCNumFeatures == [f \in FeatureSets |-> IF f = blank THEN 0 ELSE 2]
=============================================================================
