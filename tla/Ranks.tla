-------------------------------- MODULE Ranks --------------------------------
(***************************************************************************)
(* Roles, ranks and permissions: services/ranks.py, services/role_store.py,*)
(* api/v1/roles.py and the account endpoints of api/v1/users.py.           *)
(*                                                                         *)
(* The roles table is the truth; every check reads a copy in memory, RANKS *)
(* and RANK_ORDER, that reload_ranks rebuilds after an edit.  The endpoints*)
(* run on worker threads.  The copy is rebuilt in place, so between its    *)
(* steps another thread finds it empty; a comparison of two ranks looks    *)
(* them up one after the other; and what was checked is committed later.   *)
(***************************************************************************)
EXTENDS Naturals, FiniteSets, SequencesExt

CONSTANTS
  RoleIds,       (* ids a role may have                                     *)
  DefaultRanks,  (* the built-in ladder: id -> [level, perms]               *)
  Owner,         (* the built-in rank with the wildcard                     *)
  DefaultRank,   (* what an unknown rank counts as                          *)
  Perms, UserManage, RoleManage, WILDCARD,
  Progression,   (* ranks a promotion may lead to                           *)
  MaxRank,       (* auto_promote_max_rank                                   *)
  Users,
  Grants, Levels, Overrides,   (* what a request body may carry             *)
  Requests,      (* slots for requests that may be in flight at once        *)
  Quiet          (* TRUE: role edits do not overlap what depends on them    *)

Builtin == DOMAIN DefaultRanks
ASSUME RolesAssumption ==
  /\ Builtin \subseteq RoleIds /\ {Owner, DefaultRank} \subseteq Builtin
  /\ \A r \in Builtin \ {Owner} : DefaultRanks[r].level < DefaultRanks[Owner].level
ASSUME PermsAssumption == {UserManage, RoleManage} \subseteq Perms /\ WILDCARD \notin Perms
(* A level is from 0; only known permissions are stored.                   *)
ASSUME InputsAssumption ==
  /\ IsFiniteSet(RoleIds) /\ Levels \subseteq Nat /\ Grants \subseteq SUBSET Perms
  /\ DefaultRanks \in [Builtin -> [level : Nat, perms : SUBSET Perms]]
  /\ Overrides \subseteq [extra : SUBSET Perms, denied : SUBSET Perms]

VARIABLES
  table,    (* roles table: id -> [level, perms]                            *)
  cache,    (* RANKS                                                        *)
  order,    (* RANK_ORDER                                                   *)
  user,     (* users table: id -> [rank, extra, denied]                     *)
  request,  (* request slot -> what its handler is about to do              *)
  before    (* history: the table before the edit whose reload is under way *)

vars == <<table, cache, order, user, request, before>>

Put(f, k, v) == [x \in DOMAIN f \cup {k} |-> IF x = k THEN v ELSE f[x]]
Without(f, k) == [x \in DOMAIN f \ {k} |-> f[x]]
IsMap(f, D, R) == DOMAIN f \subseteq D /\ \A x \in DOMAIN f : f[x] \in R

-----------------------------------------------------------------------------
(* services/ranks.py                                                        *)

(* What a reload makes of the rows: the owner's role gets the wildcard.     *)
Cached(rows) ==
  [r \in DOMAIN rows |->
    [rows[r] EXCEPT !.perms = IF r = Owner THEN @ \cup {WILDCARD} ELSE @]]

Known(c, rank) == IF rank \in DOMAIN c THEN rank ELSE DefaultRank

RankLevel(c, rank) ==
  IF Known(c, rank) \in DOMAIN c THEN c[Known(c, rank)].level ELSE 0

(* rank_permissions reads RANKS twice: "found" is what `rank in RANKS` said, *)
(* c what RANKS is when the entry is read, the rank's or DEFAULT_RANK's.  A *)
(* found entry that is gone is a KeyError: the request fails.               *)

(* Faulty variant: without a cache the built-in defaults answer.            *)
RankPermissionsBuiltin(c, rank, found) ==
  LET entry == IF found THEN rank ELSE DefaultRank
  IN IF c = <<>> /\ rank \in Builtin THEN DefaultRanks[rank].perms
     ELSE IF entry \in DOMAIN c THEN c[entry].perms ELSE {}

RankPermissions(c, rank, found) ==
  LET entry == IF found THEN rank ELSE DefaultRank
  IN IF entry \in DOMAIN c THEN c[entry].perms ELSE {}

(* In the requests below both reads see the same RANKS: with Quiet none of  *)
(* them checks during a reload.                                             *)
EffectivePermissions(c, row) ==
  LET own == RankPermissions(c, row.rank, row.rank \in DOMAIN c)
  IN IF WILDCARD \in own THEN {WILDCARD} ELSE (own \cup row.extra) \ row.denied

HasPermission(c, row, p) == {WILDCARD, p} \cap EffectivePermissions(c, row) # {}

(* The rank above: the next of RANK_ORDER, {} at the top or if not listed.  *)
NextRank(rank) ==
  {order[i + 1] : i \in {j \in 1..(Len(order) - 1) : order[j] = rank}}

(* Orders the ids of a cache by level; the database breaks ties.            *)
Ascending(s, c) == \A i \in 2..Len(s) : c[s[i - 1]].level <= c[s[i]].level
Listings == [ids \in SUBSET RoleIds |-> SetToSeqs(ids)]
Sortings(c) == {s \in Listings[DOMAIN c] : Ascending(s, c)}

-----------------------------------------------------------------------------
(* Requests                                                                 *)

Idle == [at |-> "idle"]
At(st) == {r \in Requests : request[r].at \in st}
Reloading == At({"committed", "read", "cleared", "filled", "unordered"})
Doing(ops) == {r \in At({"judging", "checked"}) : request[r].op \in ops}
Edits == {"update_role", "create_role", "delete_role"}
Assignments == {"create_user", "set_rank"}

(* With Quiet, whoever manages roles waits until nobody else does, ranks    *)
(* are not compared during a reload, and no role is deleted while somebody  *)
(* is about to be given a rank.                                             *)
MayStart(op) == Quiet =>
  /\ op \in Edits => Doing(Edits) \cup Reloading = {}
  /\ op \notin Edits => Reloading = {}
  /\ op = "delete_role" => Doing(Assignments) = {}
  /\ op \in Assignments => Doing({"delete_role"}) = {}

(* The handler has checked what it checks; "id" is the role or the user the *)
(* commit is about, "new" what it will write.                               *)
Checked(op, id, new) == [at |-> "checked", op |-> op, id |-> id, new |-> new]

Start(r, next) ==
  /\ MayStart(next.op)
  /\ request' = [request EXCEPT ![r] = next]
  /\ UNCHANGED <<table, cache, order, user, before>>

Ready(r, ops) == request[r].at = "checked" /\ request[r].op \in ops

-----------------------------------------------------------------------------
(* Role editor                                                              *)

MayEdit(actor, level) == level < RankLevel(cache, user[actor].rank)
MayGrant(actor, perms) == \A p \in perms : HasPermission(cache, user[actor], p)
Editor(actor) == HasPermission(cache, user[actor], RoleManage)

(* PATCH /roles/{id} with permissions or a level                            *)
UpdateRole(r) ==
  \E actor \in DOMAIN user, id \in DOMAIN table \ {Owner} :
    /\ Editor(actor) /\ MayEdit(actor, table[id].level)
    /\ \/ \E perms \in Grants :
            /\ MayGrant(actor, perms)
            /\ Start(r, Checked("update_role", id, [f \in {"perms"} |-> perms]))
       \/ \E level \in Levels :
            /\ MayEdit(actor, level)
            /\ Start(r, Checked("update_role", id, [f \in {"level"} |-> level]))

(* POST /roles                                                              *)
CreateRole(r) ==
  \E actor \in DOMAIN user, id \in RoleIds \ DOMAIN table, perms \in Grants, level \in Levels :
    /\ Editor(actor) /\ MayEdit(actor, level) /\ MayGrant(actor, perms)
    /\ Start(r, Checked("create_role", id, [level |-> level, perms |-> perms]))

(* Faulty variant: the ranks in use are not looked at.                      *)
DeleteRoleInUse(r) ==
  \E actor \in DOMAIN user, id \in DOMAIN table \ Builtin :
    /\ Editor(actor) /\ MayEdit(actor, table[id].level)
    /\ Start(r, Checked("delete_role", id, <<>>))

(* Faulty variant: only the owner's role is protected.                      *)
DeleteRoleBuiltin(r) ==
  \E actor \in DOMAIN user, id \in DOMAIN table \ {Owner} :
    /\ Editor(actor) /\ MayEdit(actor, table[id].level)
    /\ \A u \in DOMAIN user : user[u].rank # id
    /\ Start(r, Checked("delete_role", id, <<>>))

(* DELETE /roles/{id}: refused for a built-in role and while it is used.    *)
DeleteRole(r) ==
  \E actor \in DOMAIN user, id \in DOMAIN table \ Builtin :
    /\ Editor(actor) /\ MayEdit(actor, table[id].level)
    /\ \A u \in DOMAIN user : user[u].rank # id
    /\ Start(r, Checked("delete_role", id, <<>>))

(* The commit.  An UPDATE or DELETE of a row that is gone and an INSERT of  *)
(* an id that exists raise: nothing is written or reloaded.                 *)
CommitRole(r) ==
  /\ Ready(r, Edits)
  /\ Quiet => At({"judging"}) = {}
  /\ LET q == request[r]
         fits == (q.id \in DOMAIN table) = (q.op # "create_role")
     IN /\ table' = IF ~fits THEN table ELSE
             CASE q.op = "delete_role" -> Without(table, q.id)
               [] q.op = "create_role" -> Put(table, q.id, q.new)
               [] OTHER -> Put(table, q.id, [f \in {"level", "perms"} |->
                    IF f \in DOMAIN q.new THEN q.new[f] ELSE table[q.id][f]])
        /\ request' = [request EXCEPT ![r] = IF fits THEN [at |-> "committed"] ELSE Idle]
        /\ before' = IF fits THEN table ELSE before
  /\ UNCHANGED <<cache, order, user>>

(* Faulty variant: the session still answers with the rows it had.          *)
ReadRowsOld(r) ==
  /\ request[r].at = "committed"
  /\ request' = [request EXCEPT ![r] = [at |-> "read", rows |-> before]]
  /\ UNCHANGED <<table, cache, order, user, before>>

(* reload_ranks: query, clear, update, clear, extend.                       *)
ReadRows(r) ==
  /\ request[r].at = "committed"
  /\ request' = [request EXCEPT ![r] = [at |-> "read", rows |-> table]]
  /\ UNCHANGED <<table, cache, order, user, before>>

ClearRanks(r) ==
  /\ request[r].at = "read"
  /\ request' = [request EXCEPT ![r].at = "cleared"]
  /\ cache' = <<>>
  /\ UNCHANGED <<table, order, user, before>>

UpdateRanks(r) ==
  /\ request[r].at = "cleared"
  /\ request' = [request EXCEPT ![r] = [at |-> "filled"]]
  /\ LET filled == Cached(request[r].rows)
     IN cache' = [x \in DOMAIN cache \cup DOMAIN filled |->
          IF x \in DOMAIN filled THEN filled[x] ELSE cache[x]]
  /\ UNCHANGED <<table, order, user, before>>

ClearOrder(r) ==
  /\ request[r].at = "filled"
  /\ request' = [request EXCEPT ![r] = [at |-> "unordered"]]
  /\ order' = <<>>
  /\ UNCHANGED <<table, cache, user, before>>

ExtendOrder(r) ==
  /\ request[r].at = "unordered"
  /\ request' = [request EXCEPT ![r] = Idle]
  /\ \E s \in Sortings(cache) : order' = order \o s
  /\ before' = IF Reloading = {r} THEN table ELSE before
  /\ UNCHANGED <<table, cache, user>>

-----------------------------------------------------------------------------
(* Accounts                                                                 *)

Manager(actor) == HasPermission(cache, user[actor], UserManage)

(* The levels of the ranks a request is about are looked up first: "given"  *)
(* must not be above the actor's rank, "held" must be strictly below.       *)
Judging(op, actor, id, new, given, held) ==
  [at |-> "judging", op |-> op, rank |-> user[actor].rank, id |-> id, new |-> new,
   given |-> {RankLevel(cache, g) : g \in given}, held |-> {RankLevel(cache, h) : h \in held}]

(* POST /users                                                              *)
CreateUser(r) ==
  \E actor \in DOMAIN user, u \in Users \ DOMAIN user, rank \in DOMAIN cache :
    /\ Manager(actor)
    /\ Start(r, Judging("create_user", actor, u, rank, {rank}, {}))

(* POST /users/{id}/rank                                                    *)
ChangeRank(r) ==
  \E actor, u \in DOMAIN user, rank \in DOMAIN cache :
    /\ Manager(actor)
    /\ Start(r, Judging("set_rank", actor, u, rank, {rank}, {user[u].rank}))

(* POST /users/{id}/promote for somebody with the points and the days       *)
Promote(r) ==
  \E actor, u \in DOMAIN user : \E rank \in NextRank(user[u].rank) \cap Progression :
    /\ Manager(actor)
    /\ Start(r, Judging("set_rank", actor, u, rank, {rank}, {}))

(* maybe_auto_promote after a command: one step, up to MaxRank.             *)
AutoPromote(r) ==
  \E u \in DOMAIN user : \E rank \in NextRank(user[u].rank) \cap Progression :
    /\ RankLevel(cache, rank) <= RankLevel(cache, MaxRank)
    /\ Start(r, Checked("set_rank", u, rank))

(* DELETE /users/{id}                                                       *)
DeleteUser(r) ==
  \E actor, u \in DOMAIN user :
    /\ Manager(actor) /\ u # actor
    /\ Start(r, Judging("delete_user", actor, u, <<>>, {}, {user[u].rank}))

(* Faulty variant: an equal rank may be managed.                            *)
CompareLoosely(r) ==
  /\ request[r].at = "judging"
  /\ Quiet => Reloading = {}
  /\ LET q == request[r]
         mine == RankLevel(cache, q.rank)
     IN request' = [request EXCEPT ![r] =
          IF (\A l \in q.given : l <= mine) /\ (\A l \in q.held : l <= mine)
            THEN Checked(q.op, q.id, q.new) ELSE Idle]
  /\ UNCHANGED <<table, cache, order, user, before>>

(* Then the actor's level is looked up and compared.                        *)
Compare(r) ==
  /\ request[r].at = "judging"
  /\ Quiet => Reloading = {}
  /\ LET q == request[r]
         mine == RankLevel(cache, q.rank)
     IN request' = [request EXCEPT ![r] =
          IF (\A l \in q.given : l <= mine) /\ (\A l \in q.held : l < mine)
            THEN Checked(q.op, q.id, q.new) ELSE Idle]
  /\ UNCHANGED <<table, cache, order, user, before>>

(* POST /users/{id}/permissions                                             *)
SetPermissions(r) ==
  \E actor, u \in DOMAIN user, o \in Overrides :
    /\ Manager(actor)
    /\ Start(r, Checked("set_permissions", u, o))

CommitUser(r) ==
  /\ Ready(r, Assignments \cup {"delete_user", "set_permissions"})
  /\ LET q == request[r]
         fits == (q.id \in DOMAIN user) = (q.op # "create_user")
     IN user' = IF ~fits THEN user ELSE
          CASE q.op = "create_user" ->
                 Put(user, q.id, [rank |-> q.new, extra |-> {}, denied |-> {}])
            [] q.op = "set_rank" -> [user EXCEPT ![q.id].rank = q.new]
            [] q.op = "delete_user" -> Without(user, q.id)
            [] OTHER -> [user EXCEPT ![q.id].extra = q.new.extra,
                                     ![q.id].denied = q.new.denied]
  /\ request' = [request EXCEPT ![r] = Idle]
  /\ UNCHANGED <<table, cache, order, before>>

-----------------------------------------------------------------------------
(* Start-up                                                                 *)

(* seed_default_roles: missing built-in roles are inserted and the          *)
(* permissions a built-in role lacks of its defaults are added.             *)
Seeded(rows) ==
  [id \in DOMAIN rows \cup Builtin |->
    IF id \notin DOMAIN rows THEN DefaultRanks[id]
    ELSE IF id \in Builtin
      THEN [rows[id] EXCEPT !.perms = @ \cup DefaultRanks[id].perms]
      ELSE rows[id]]

(* The process dies with whatever was in flight and starts again.           *)
Restart ==
  /\ table' = Seeded(table)
  /\ cache' = Cached(table')
  /\ order' \in Sortings(cache')
  /\ request' = [r \in Requests |-> Idle]
  /\ before' = table'
  /\ UNCHANGED user

(* The first boot, and the first account registered.                        *)
Init ==
  /\ table = Seeded(<<>>)
  /\ cache = Cached(table)
  /\ order \in Sortings(cache)
  /\ \E u \in Users :
       user = [x \in {u} |-> [rank |-> Owner, extra |-> {}, denied |-> {}]]
  /\ request = [r \in Requests |-> Idle]
  /\ before = table

Reload(r) == ReadRows(r) \/ ClearRanks(r) \/ UpdateRanks(r) \/ ClearOrder(r) \/ ExtendOrder(r)
Arrival(r) ==
  /\ request[r] = Idle
  /\ \/ UpdateRole(r) \/ CreateRole(r) \/ DeleteRole(r)
     \/ CreateUser(r) \/ ChangeRank(r) \/ Promote(r) \/ AutoPromote(r)
     \/ DeleteUser(r) \/ SetPermissions(r)
Handler(r) == CommitRole(r) \/ Reload(r) \/ Compare(r) \/ CommitUser(r)

Next == Restart \/ \E r \in Requests : Arrival(r) \/ Handler(r)

Spec == Init /\ [][Next]_vars

-----------------------------------------------------------------------------
(* Properties                                                               *)

AllLevels == Levels \cup {DefaultRanks[r].level : r \in Builtin}
RoleRow == [level : AllLevels, perms : SUBSET Perms]
UserRow == [rank : RoleIds, extra : SUBSET Perms, denied : SUBSET Perms]

(* Types; in particular the owner's role is never edited, and with Quiet at *)
(* most one request manages roles.                                          *)
TypeOK ==
  /\ IsMap(table, RoleIds, RoleRow) /\ Builtin \subseteq DOMAIN table
  /\ table[Owner] = DefaultRanks[Owner]
  /\ IsMap(cache, RoleIds, [level : AllLevels, perms : SUBSET (Perms \cup {WILDCARD})])
  /\ \A i \in 1..Len(order) : order[i] \in RoleIds
  /\ IsMap(user, Users, UserRow)
  /\ Quiet => Cardinality(Doing(Edits) \cup Reloading) <= 1

(* "the cache is rehydrated atomically after each change" (role_store.py):  *)
(* whenever no edit is between its commit and the end of its reload, the    *)
(* copy says what the table says, and RANK_ORDER lists it by level.         *)
CacheMatches ==
  Reloading = {} => cache = Cached(table) /\ order \in Sortings(cache)

(* Whatever a reload does between the two reads of a check by any endpoint, *)
(* an account's rank gives it nothing that the roles, before or after the   *)
(* edit, grant neither to that rank nor, if the first read did not find it, *)
(* to DEFAULT_RANK.  The first read may be of any earlier time.             *)
AccessFailsClosed ==
  \A rank \in RoleIds, found \in BOOLEAN :
    RankPermissions(cache, rank, found) \subseteq
      UNION {RankPermissions(c, rank, TRUE) \cup RankPermissions(c, rank, found) :
               c \in {Cached(before), Cached(table)}}

(* An account has its rank's permissions and its overrides: its rank gives  *)
(* it nothing that neither table grants that rank.  Just after the update a *)
(* check may have looked for the rank in the empty RANKS.                   *)
OwnRankOnly ==
  \A u \in DOMAIN user :
    LET rank == user[u].rank
        found == {rank \in DOMAIN cache} \cup {FALSE : r \in At({"filled"})}
    IN \A f \in found :
         RankPermissions(cache, rank, f) \subseteq
           UNION {RankPermissions(c, rank, TRUE) : c \in {Cached(before), Cached(table)}}

(* Nobody holds a rank without a role: delete_role refuses a rank in use    *)
(* and assignments only offer ranks of the copy.                            *)
RanksExist == \A u \in DOMAIN user : user[u].rank \in DOMAIN table

(* "No puedes borrarte a ti mismo (evita quedarse sin admins)" (users.py):  *)
(* no sequence of rank changes and deletions leaves the system without an   *)
(* owner account.                                                           *)
SomeOwner == \E u \in DOMAIN user : user[u].rank = Owner

(* "las ediciones del admin sobre permisos preexistentes sobreviven al      *)
(* upgrade" (seed_default_roles): a restart leaves existing roles alone.    *)
EditsSurviveRestart ==
  [][Restart => \A id \in DOMAIN table : table'[id] = table[id]]_vars

=============================================================================
