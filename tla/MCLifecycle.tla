----------------------------- MODULE MCLifecycle ----------------------------
(* Instances of HazmatLifecycle.  The passwords are only compared. *)
EXTENDS HazmatLifecycle, TLC

Perms == Permutations(Passwords)
=============================================================================
