------------------------- MODULE MCOperatorMutations -------------------------
(***************************************************************************)
(* Instances of OperatorMutations for TLC.                                 *)
(***************************************************************************)
EXTENDS OperatorMutations

CONSTANTS c1, c2

TwoConsoles == {c1, c2}

OneConsole == {c1}

NotesAndClose == {"note", "close"}
=============================================================================
