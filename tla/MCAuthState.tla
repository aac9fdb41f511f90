---------------------------- MODULE MCAuthState ----------------------------
(* Small instances of AuthState.  Symmetry is used only where neither        *)
(* liveness nor a CHOOSE over the set is involved.                           *)
EXTENDS AuthState, TLC

AdminSymmetry == Permutations(Admins)

InviteOps  == {"create", "rotate", "update", "migrate", "sync", "delete", "restore", "purge",
               "ip_group"}
SessionOps    == {"rotate", "update", "migrate", "delete", "restore"}
=============================================================================
