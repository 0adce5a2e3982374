--------------------------- MODULE MCEventStream ---------------------------
(***************************************************************************)
(* An instance of EventStream for TLC.                                     *)
(***************************************************************************)
EXTENDS EventStream

CONSTANTS p1

OnePage == {p1}
Mixed == [id \in 1..MaxEvents |-> IF id = 2 THEN "incident" ELSE "other"]
=============================================================================
