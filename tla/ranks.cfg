SPECIFICATION Spec
CONSTANTS
 viewer = viewer
 admin = admin
 Owner = owner
 RoleIds = {viewer, admin, owner, custom}
 DefaultRanks <- MCDefaultRanks
 DefaultRank = viewer
 UserManage = um
 RoleManage = rm
 Perms = {um, rm}
 WILDCARD = all
 Progression = {admin}
 MaxRank = admin
 Users = {u1, u2}
 Grants <- MCGrants
 Levels = {1}
 Overrides <- MCOverrides
 Requests = {r1, r2}
 Quiet = TRUE
SYMMETRY Symmetry
INVARIANT TypeOK
INVARIANT CacheMatches
INVARIANT AccessFailsClosed
INVARIANT RanksExist
INVARIANT SomeOwner
