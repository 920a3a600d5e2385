------------------------- MODULE MCNotificationPump -------------------------
(***************************************************************************)
(* Small instances of NotificationPump for TLC.                            *)
(***************************************************************************)
EXTENDS NotificationPump

CONSTANTS t1, t2, none
=============================================================================
