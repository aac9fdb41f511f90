---------------------------- MODULE MCSyncService ----------------------------
(* The sync service's front with two signed requests, one of them a sign-in. *)
EXTENDS SyncService
=============================================================================
