------------------------ MODULE MCScanNotifications ------------------------
(***************************************************************************)
(* Small instances of ScanNotifications for TLC.                           *)
(***************************************************************************)
EXTENDS ScanNotifications
=============================================================================
