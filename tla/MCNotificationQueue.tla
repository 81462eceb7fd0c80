------------------------ MODULE MCNotificationQueue ------------------------
(***************************************************************************)
(* Small instance of NotificationQueue: two contents, one of which may be  *)
(* announced twice.                                                        *)
(***************************************************************************)
EXTENDS NotificationQueue
=============================================================================
