---------------------------- MODULE MCProvisioning ----------------------------
(* Small instances of Provisioning for TLC.                                 *)
EXTENDS Provisioning, TLC

Symmetry == Permutations(Requests) \cup Permutations(Serials) \cup Permutations(Users \ Owners)
=============================================================================
