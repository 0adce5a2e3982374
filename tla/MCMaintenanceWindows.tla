------------------------ MODULE MCMaintenanceWindows ------------------------
(***************************************************************************)
(* An instance of MaintenanceWindows for TLC.                              *)
(***************************************************************************)
EXTENDS MaintenanceWindows

CONSTANT c1

OneConsole == {c1}
=============================================================================
