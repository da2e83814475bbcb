------------------------------- MODULE MCRanks -------------------------------
(* Small instances of Ranks for TLC.                                        *)
EXTENDS Ranks, TLC

CONSTANTS viewer, admin

MCDefaultRanks == [id \in {viewer, admin, Owner} |->
  CASE id = viewer -> [level |-> 0, perms |-> {UserManage}]
    [] id = admin -> [level |-> 1, perms |-> {UserManage, RoleManage}]
    [] OTHER -> [level |-> 2, perms |-> {}]]
MCGrants == {{UserManage}}
MCOverrides ==
  {[extra |-> {RoleManage}, denied |-> {UserManage}]}

Symmetry == Permutations(Requests) \cup Permutations(Users)
=============================================================================
