------------------------ MODULE MCNotificationOutbox ------------------------
(***************************************************************************)
(* Instances of NotificationOutbox for TLC.                                *)
(***************************************************************************)
EXTENDS NotificationOutbox

OnOrOff == {TRUE, FALSE}
=============================================================================
