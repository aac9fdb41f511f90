------------------------ MODULE MCInviteProvisioning ------------------------
(* A small instance of InviteProvisioning. *)
EXTENDS InviteProvisioning
=============================================================================
