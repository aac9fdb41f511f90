---------------------------- MODULE MCAllowList ----------------------------
(* Small instances of AllowList. *)
EXTENDS AllowList, TLC

Symmetry == Permutations(Networks) \cup Permutations(Invites) \cup Permutations(Requests)

MaxMisled == 1      \* bound on those who have read something old

(* The safety properties claim nothing once a call had its effect outside of  *)
(* its lease, and that is never undone: their run does not go on from there. *)
Followed == ~stray /\ Cardinality(misled) <= MaxMisled

(* Extensions, which read and write records as additions do, are followed in   *)
(* all their interleavings, but in no behaviour that has a trouble too.      *)
FollowedApart == Followed /\ (trouble > 0 => \A r \in Requests : req[r].kind # "extend")
=============================================================================
