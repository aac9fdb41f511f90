-------------------------- MODULE MCLegacyCleanup --------------------------
(* Small instances of LegacyCleanup. *)
EXTENDS LegacyCleanup
=============================================================================
