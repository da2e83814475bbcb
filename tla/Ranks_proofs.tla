---------------------------- MODULE Ranks_proofs ----------------------------
(***************************************************************************)
(* Machine-checked proofs about roles and ranks, for any ladder of roles,  *)
(* any users, permissions and number of requests in flight.                *)
(***************************************************************************)
EXTENDS Ranks, SequenceTheorems, FiniteSetTheorems, TLAPS

-----------------------------------------------------------------------------
(* Roles, the copy and its order                                            *)

Top == DefaultRanks[Owner].level
CopyRow == [level : AllLevels, perms : SUBSET (Perms \cup {WILDCARD})]

(* The rows of the roles table, and a copy of them: nobody but the owner    *)
(* is at the top of the ladder.                                             *)
IsRoles(rows) ==
  /\ rows = [id \in DOMAIN rows |-> rows[id]]
  /\ IsMap(rows, RoleIds, RoleRow) /\ Builtin \subseteq DOMAIN rows
  /\ rows[Owner] = DefaultRanks[Owner]
  /\ \A id \in DOMAIN rows \ {Owner} : rows[id].level < Top

IsCopy(c) == IsMap(c, RoleIds, CopyRow) /\ \A id \in DOMAIN c : c[id].level <= Top

LEMMA LevelsAreNumbers == AllLevels \subseteq Nat /\ Top \in AllLevels /\ Top \in Nat
BY RolesAssumption, InputsAssumption DEF AllLevels, Builtin, Top

LEMMA DefaultsAreRows ==
  /\ \A id \in Builtin : DefaultRanks[id] \in RoleRow
  /\ \A id \in Builtin \ {Owner} : DefaultRanks[id].level < Top
BY RolesAssumption, InputsAssumption DEF AllLevels, RoleRow, Top, Builtin

LEMMA NoCopy == DOMAIN <<>> = {} /\ IsCopy(<<>>)
<1>1. DOMAIN <<>> = {}
  BY EmptySeq, LenProperties
<1> QED
  BY <1>1 DEF IsCopy, IsMap

(* What a reload makes of the rows.                                         *)
LEMMA CachedRows ==
  ASSUME NEW rows, IsRoles(rows)
  PROVE  /\ IsCopy(Cached(rows)) /\ DOMAIN Cached(rows) = DOMAIN rows
         /\ \A id \in DOMAIN rows : Cached(rows)[id].level = rows[id].level
         /\ Cached(rows)[Owner].level = Top
         /\ \A id \in DOMAIN rows \ {Owner} : Cached(rows)[id].level < Top
<1> DEFINE copy(id) == [rows[id] EXCEPT !.perms = IF id = Owner THEN @ \cup {WILDCARD} ELSE @]
<1>1. \A id \in DOMAIN rows : copy(id) \in CopyRow /\ copy(id).level = rows[id].level
  BY DEF IsRoles, IsMap, RoleRow, CopyRow
<1>2. Cached(rows) = [id \in DOMAIN rows |-> copy(id)]
  BY DEF Cached
<1> HIDE DEF copy
<1>3. DOMAIN Cached(rows) = DOMAIN rows /\ \A id \in DOMAIN rows : Cached(rows)[id] = copy(id)
  BY <1>2
<1>4. Owner \in DOMAIN rows /\ rows[Owner].level = Top
      /\ \A id \in DOMAIN rows \ {Owner} : rows[id].level < Top
  BY RolesAssumption DEF IsRoles, Top
<1>5. \A id \in DOMAIN rows : rows[id].level <= Top
  BY <1>4, LevelsAreNumbers DEF IsRoles, IsMap, RoleRow
<1> QED
  BY <1>1, <1>3, <1>4, <1>5 DEF IsCopy, IsMap, IsRoles

LEMMA LevelInLadder ==
  ASSUME NEW c, IsCopy(c), NEW rank
  PROVE  RankLevel(c, rank) \in Nat /\ RankLevel(c, rank) <= Top
<1> DEFINE known == Known(c, rank)
<1>1. CASE known \in DOMAIN c
  <2>1. c[known] \in CopyRow /\ c[known].level <= Top
    BY <1>1 DEF IsCopy, IsMap
  <2>2. RankLevel(c, rank) = c[known].level
    BY <1>1 DEF RankLevel
  <2> HIDE DEF known
  <2> QED
    BY <2>1, <2>2, LevelsAreNumbers DEF CopyRow
<1>2. CASE known \notin DOMAIN c
  BY <1>2, LevelsAreNumbers DEF RankLevel
<1> QED
  BY <1>1, <1>2

(* An order of a copy lists its ids, each once and none above the next.     *)
LEMMA SortingsLists ==
  ASSUME NEW c, IsCopy(c), NEW s \in Sortings(c)
  PROVE  /\ s \in Seq(DOMAIN c) /\ s \in Seq(RoleIds)
         /\ \A i, j \in 1..Len(s) : i # j => s[i] # s[j]
         /\ Ascending(s, c)
<1> DEFINE n == Cardinality(DOMAIN c)
<1>1. DOMAIN c \subseteq RoleIds /\ IsFiniteSet(DOMAIN c)
  BY InputsAssumption, FS_Subset DEF IsCopy, IsMap
<1>2. n \in Nat
  BY <1>1, FS_CardinalityType
<1>3. s \in Listings[DOMAIN c] /\ Ascending(s, c)
  BY DEF Sortings
<1>4. s \in SetToSeqs(DOMAIN c)
  BY <1>1, <1>3 DEF Listings
<1>5. s \in [1..n -> DOMAIN c] /\ \A i, j \in 1..n : i # j => s[i] # s[j]
  BY <1>4 DEF SetToSeqs
<1> HIDE DEF n
<1>6. s \in Seq(DOMAIN c) /\ Len(s) = n
  BY <1>2, <1>5, SeqDef, LenProperties
<1>7. s \in Seq(RoleIds)
  BY <1>1, <1>6, SeqMonotonic
<1> QED
  BY <1>3, <1>5, <1>6, <1>7

(* Start-up adds what is missing and leaves the owner's role alone.         *)
LEMMA SeededRoles ==
  /\ IsRoles(Seeded(<<>>))
  /\ \A rows : IsRoles(rows) => IsRoles(Seeded(rows)) /\ DOMAIN Seeded(rows) = DOMAIN rows
<1>1. IsRoles(Seeded(<<>>))
  <2>1. Seeded(<<>>) = [id \in Builtin |-> DefaultRanks[id]]
    BY NoCopy DEF Seeded
  <2> QED
    BY <2>1, RolesAssumption, DefaultsAreRows DEF IsRoles, IsMap
<1>2. ASSUME NEW rows, IsRoles(rows)
      PROVE  IsRoles(Seeded(rows)) /\ DOMAIN Seeded(rows) = DOMAIN rows
  <2> DEFINE more(id) == [rows[id] EXCEPT !.perms = @ \cup DefaultRanks[id].perms]
  <2>1. /\ rows = [id \in DOMAIN rows |-> rows[id]]
        /\ \A id \in DOMAIN rows : id \in RoleIds /\ rows[id] \in RoleRow
        /\ Builtin \subseteq DOMAIN rows
        /\ rows[Owner] = DefaultRanks[Owner]
        /\ \A id \in DOMAIN rows \ {Owner} : rows[id].level < Top
    BY <1>2 DEF IsRoles, IsMap
  <2>2. \A id \in Builtin : more(id) \in RoleRow /\ more(id).level = rows[id].level
    BY <2>1, DefaultsAreRows DEF RoleRow
  <2>3. more(Owner) = DefaultRanks[Owner]
    <3>1. Owner \in Builtin /\ DefaultRanks[Owner] \in RoleRow
      BY RolesAssumption, DefaultsAreRows
    <3> QED
      BY <2>1, <3>1 DEF RoleRow
  <2>4. Seeded(rows) = [id \in DOMAIN rows |-> IF id \in Builtin THEN more(id) ELSE rows[id]]
    BY <2>1 DEF Seeded
  <2> HIDE DEF more
  <2>5. /\ DOMAIN Seeded(rows) = DOMAIN rows
        /\ Seeded(rows) = [id \in DOMAIN Seeded(rows) |-> Seeded(rows)[id]]
        /\ \A id \in DOMAIN rows :
             Seeded(rows)[id] = (IF id \in Builtin THEN more(id) ELSE rows[id])
    BY <2>4
  <2>6. \A id \in DOMAIN rows : Seeded(rows)[id] \in RoleRow
                                /\ Seeded(rows)[id].level = rows[id].level
    BY <2>1, <2>2, <2>5
  <2>7. Seeded(rows)[Owner] = DefaultRanks[Owner]
    BY <2>1, <2>3, <2>5, RolesAssumption
  <2> DEFINE seeded == Seeded(rows)
  <2> HIDE DEF seeded
  <2>8. /\ seeded = [id \in DOMAIN seeded |-> seeded[id]] /\ DOMAIN seeded = DOMAIN rows
        /\ \A id \in DOMAIN rows : seeded[id] \in RoleRow /\ seeded[id].level = rows[id].level
        /\ seeded[Owner] = DefaultRanks[Owner]
    BY <2>5, <2>6, <2>7 DEF seeded
  <2>9. IsMap(seeded, RoleIds, RoleRow) /\ Builtin \subseteq DOMAIN seeded
        /\ \A id \in DOMAIN seeded \ {Owner} : seeded[id].level < Top
    BY <2>1, <2>8 DEF IsMap
  <2>10. IsRoles(seeded) /\ DOMAIN seeded = DOMAIN rows
    BY <2>8, <2>9 DEF IsRoles
  <2> QED
    BY <2>10 DEF seeded
<1> QED
  BY <1>1, <1>2

-----------------------------------------------------------------------------
(* Requests                                                                 *)

(* What a PATCH of a role may write.                                        *)
IsChange(new) ==
  /\ DOMAIN new \subseteq {"level", "perms"}
  /\ "level" \in DOMAIN new => new["level"] \in AllLevels /\ new["level"] < Top
  /\ "perms" \in DOMAIN new => new["perms"] \in SUBSET Perms

Fits(q) ==
  \/ q.op = "update_role" /\ q.id \in RoleIds \ {Owner} /\ IsChange(q.new)
  \/ q.op = "create_role" /\ q.id \in RoleIds \ {Owner} /\ q.new \in RoleRow /\ q.new.level < Top
  \/ q.op = "delete_role" /\ q.id \in RoleIds \ Builtin
  \/ q.op \in Assignments /\ q.id \in Users /\ q.new \in RoleIds
  \/ q.op = "delete_user" /\ q.id \in Users
  \/ q.op = "set_permissions" /\ q.id \in Users
     /\ q.new \in [extra : SUBSET Perms, denied : SUBSET Perms]

Judged == Assignments \cup {"delete_user"}

RequestOK(q) ==
  \/ q = Idle
  \/ q.at = "judging" /\ q.op \in Judged /\ Fits(q)
  \/ q.at = "checked" /\ Fits(q)
  \/ q.at \in {"read", "cleared"} /\ q = [at |-> q.at, rows |-> q.rows] /\ IsRoles(q.rows)
  \/ q.at \in {"committed", "filled", "unordered"}

Editors == Doing(Edits) \cup Reloading
OneEditor == \A a, b \in Editors : a = b

TypeInv ==
  /\ IsRoles(table) /\ IsRoles(before) /\ IsCopy(cache)
  /\ order \in Seq(RoleIds)
  /\ IsMap(user, Users, UserRow)
  /\ DOMAIN request = Requests /\ \A r \in Requests : RequestOK(request[r])
  /\ Quiet => OneEditor

(* What is known of a request when its handler has begun.                   *)
Fresh(q) ==
  /\ q.at = "checked" \/ (q.at = "judging" /\ q.op \in Judged)
  /\ Fits(q)
  /\ q.op \in Assignments => q.new \in DOMAIN cache \/ (\E rank : q.new \in NextRank(rank))
  /\ q.op = "delete_role" => \A u \in DOMAIN user : user[u].rank # q.id
  /\ q.op \in {"set_rank", "delete_user"} =>
       \/ q.new \in NextRank(user[q.id].rank)
       \/ q.at = "judging" /\ RankLevel(cache, user[q.id].rank) \in q.held

Begun(r) == \E q :
  /\ Fresh(q) /\ MayStart(q.op)
  /\ request[r] = Idle /\ request' = [request EXCEPT ![r] = q]
  /\ UNCHANGED <<table, cache, order, user, before>>

LEMMA CheckedFields ==
  \A op, id, new :
    LET q == Checked(op, id, new)
    IN q.at = "checked" /\ q.op = op /\ q.id = id /\ q.new = new
BY DEF Checked

LEMMA JudgingFields ==
  \A op, actor, id, new, given, held :
    LET q == Judging(op, actor, id, new, given, held)
    IN /\ q.at = "judging" /\ q.op = op /\ q.id = id /\ q.new = new
       /\ \A h \in held : RankLevel(cache, h) \in q.held
BY DEF Judging

LEMMA NextIsRole ==
  ASSUME order \in Seq(RoleIds), NEW rank, NEW next \in NextRank(rank)
  PROVE  \E i \in 1..(Len(order) - 1) : order[i] = rank /\ next = order[i + 1]
         /\ i + 1 \in 1..Len(order) /\ next \in RoleIds
<1>1. PICK i \in 1..(Len(order) - 1) : order[i] = rank /\ next = order[i + 1]
  BY DEF NextRank
<1>2. Len(order) \in Nat
  BY LenProperties
<1>3. i + 1 \in 1..Len(order)
  BY <1>2
<1> QED
  BY <1>1, <1>3, ElementOfSeq

LEMMA Arrivals ==
  ASSUME TypeInv, NEW r \in Requests, Arrival(r)
  PROVE  Begun(r)
<1>0. /\ request[r] = Idle
      /\ \/ UpdateRole(r) \/ CreateRole(r) \/ DeleteRole(r)
         \/ CreateUser(r) \/ ChangeRank(r) \/ Promote(r) \/ AutoPromote(r)
         \/ DeleteUser(r) \/ SetPermissions(r)
  BY DEF Arrival
<1>a. /\ DOMAIN cache \subseteq RoleIds /\ DOMAIN table \subseteq RoleIds
      /\ DOMAIN user \subseteq Users /\ Owner \in DOMAIN table
      /\ \A rank : NextRank(rank) \subseteq RoleIds
  BY NextIsRole, RolesAssumption DEF TypeInv, IsCopy, IsRoles, IsMap
<1>b. \A rank : RankLevel(cache, rank) \in Nat /\ RankLevel(cache, rank) <= Top
  BY LevelInLadder DEF TypeInv
<1>c. \A actor, level : level \in Levels /\ MayEdit(actor, level) =>
        level \in AllLevels /\ level < Top
  <2> SUFFICES ASSUME NEW actor, NEW level \in Levels, MayEdit(actor, level)
               PROVE  level \in AllLevels /\ level < Top
    OBVIOUS
  <2> DEFINE l == RankLevel(cache, user[actor].rank)
  <2>1. level < l /\ l \in Nat /\ l <= Top
    BY <1>b DEF MayEdit
  <2> HIDE DEF l
  <2>2. level \in AllLevels
    BY DEF AllLevels
  <2> QED
    BY <2>1, <2>2, LevelsAreNumbers
<1>d. ASSUME NEW q, Fresh(q), Start(r, q) PROVE Begun(r)
  BY <1>0, <1>d DEF Begun, Start
<1>1. CASE UpdateRole(r)
  <2>1. PICK actor \in DOMAIN user, id \in DOMAIN table \ {Owner} :
          \/ \E perms \in Grants : Start(r, Checked("update_role", id, [f \in {"perms"} |-> perms]))
          \/ \E level \in Levels : MayEdit(actor, level)
               /\ Start(r, Checked("update_role", id, [f \in {"level"} |-> level]))
    BY <1>1 DEF UpdateRole
  <2>2. ASSUME NEW new, IsChange(new), Start(r, Checked("update_role", id, new)) PROVE Begun(r)
    <3>1. Fresh(Checked("update_role", id, new))
      BY <1>a, <2>2, CheckedFields DEF Fresh, Fits, Assignments
    <3> QED
      BY <1>d, <2>2, <3>1
  <2>3. CASE \E perms \in Grants :
          Start(r, Checked("update_role", id, [f \in {"perms"} |-> perms]))
    <3>1. PICK perms \in Grants :
            Start(r, Checked("update_role", id, [f \in {"perms"} |-> perms]))
      BY <2>3
    <3>2. IsChange([f \in {"perms"} |-> perms])
      BY InputsAssumption DEF IsChange
    <3> QED
      BY <2>2, <3>1, <3>2
  <2>4. CASE \E level \in Levels : MayEdit(actor, level)
               /\ Start(r, Checked("update_role", id, [f \in {"level"} |-> level]))
    <3>1. PICK level \in Levels : MayEdit(actor, level)
            /\ Start(r, Checked("update_role", id, [f \in {"level"} |-> level]))
      BY <2>4
    <3>2. IsChange([f \in {"level"} |-> level])
      BY <1>c, <3>1 DEF IsChange
    <3> QED
      BY <2>2, <3>1, <3>2
  <2> QED
    BY <2>1, <2>3, <2>4
<1>2. CASE CreateRole(r)
  <2>1. PICK actor \in DOMAIN user, id \in RoleIds \ DOMAIN table, perms \in Grants,
             level \in Levels :
          MayEdit(actor, level)
          /\ Start(r, Checked("create_role", id, [level |-> level, perms |-> perms]))
    BY <1>2 DEF CreateRole
  <2> DEFINE new == [level |-> level, perms |-> perms]
  <2>2. new \in RoleRow /\ new.level < Top
    BY <1>c, <2>1, InputsAssumption DEF RoleRow
  <2> HIDE DEF new
  <2>3. Fresh(Checked("create_role", id, new))
    BY <1>a, <2>2, CheckedFields DEF Fresh, Fits, Assignments
  <2>4. Start(r, Checked("create_role", id, new))
    BY <2>1 DEF new
  <2> QED
    BY <1>d, <2>3, <2>4
<1>3. CASE DeleteRole(r)
  <2>1. PICK actor \in DOMAIN user, id \in DOMAIN table \ Builtin :
          (\A u \in DOMAIN user : user[u].rank # id) /\ Start(r, Checked("delete_role", id, <<>>))
    BY <1>3 DEF DeleteRole
  <2>2. Fresh(Checked("delete_role", id, <<>>))
    BY <1>a, <2>1, CheckedFields DEF Fresh, Fits, Assignments
  <2> QED
    BY <1>d, <2>1, <2>2
<1>4. CASE CreateUser(r)
  <2>1. PICK actor \in DOMAIN user, u \in Users \ DOMAIN user, rank \in DOMAIN cache :
          Start(r, Judging("create_user", actor, u, rank, {rank}, {}))
    BY <1>4 DEF CreateUser
  <2>2. Fresh(Judging("create_user", actor, u, rank, {rank}, {}))
    BY <1>a, JudgingFields DEF Fresh, Fits, Assignments, Judged
  <2> QED
    BY <1>d, <2>1, <2>2
<1>5. CASE ChangeRank(r)
  <2>1. PICK actor \in DOMAIN user, u \in DOMAIN user, rank \in DOMAIN cache :
          Start(r, Judging("set_rank", actor, u, rank, {rank}, {user[u].rank}))
    BY <1>5 DEF ChangeRank
  <2>2. Fresh(Judging("set_rank", actor, u, rank, {rank}, {user[u].rank}))
    BY <1>a, JudgingFields DEF Fresh, Fits, Assignments, Judged
  <2> QED
    BY <1>d, <2>1, <2>2
<1>6. CASE Promote(r)
  <2>1. PICK actor \in DOMAIN user, u \in DOMAIN user : \E rank \in NextRank(user[u].rank) :
          Start(r, Judging("set_rank", actor, u, rank, {rank}, {}))
    BY <1>6 DEF Promote
  <2>2. PICK rank \in NextRank(user[u].rank) :
          Start(r, Judging("set_rank", actor, u, rank, {rank}, {}))
    BY <2>1
  <2>3. Fresh(Judging("set_rank", actor, u, rank, {rank}, {}))
    BY <1>a, JudgingFields DEF Fresh, Fits, Assignments, Judged
  <2> QED
    BY <1>d, <2>2, <2>3
<1>7. CASE AutoPromote(r)
  <2>1. PICK u \in DOMAIN user : \E rank \in NextRank(user[u].rank) :
          Start(r, Checked("set_rank", u, rank))
    BY <1>7 DEF AutoPromote
  <2>2. PICK rank \in NextRank(user[u].rank) :
          Start(r, Checked("set_rank", u, rank))
    BY <2>1
  <2>3. Fresh(Checked("set_rank", u, rank))
    BY <1>a, CheckedFields DEF Fresh, Fits, Assignments, Judged
  <2> QED
    BY <1>d, <2>2, <2>3
<1>8. CASE DeleteUser(r)
  <2>1. PICK actor \in DOMAIN user, u \in DOMAIN user :
          Start(r, Judging("delete_user", actor, u, <<>>, {}, {user[u].rank}))
    BY <1>8 DEF DeleteUser
  <2>2. Fresh(Judging("delete_user", actor, u, <<>>, {}, {user[u].rank}))
    BY <1>a, JudgingFields DEF Fresh, Fits, Assignments, Judged
  <2> QED
    BY <1>d, <2>1, <2>2
<1>9. CASE SetPermissions(r)
  <2>1. PICK actor \in DOMAIN user, u \in DOMAIN user, o \in Overrides :
          Start(r, Checked("set_permissions", u, o))
    BY <1>9 DEF SetPermissions
  <2>2. Fresh(Checked("set_permissions", u, o))
    BY <1>a, CheckedFields, InputsAssumption DEF Fresh, Fits, Assignments
  <2> QED
    BY <1>d, <2>1, <2>2
<1> QED
  BY <1>0, <1>1, <1>2, <1>3, <1>4, <1>5, <1>6, <1>7, <1>8, <1>9

-----------------------------------------------------------------------------
(* Types                                                                    *)

ReloadSteps == {"committed", "read", "cleared", "filled", "unordered"}
EditsRoles(q) == q.at \in ReloadSteps \/ (q.at \in {"judging", "checked"} /\ q.op \in Edits)

LEMMA EditorsAre ==
  /\ Editors = {r \in Requests : EditsRoles(request[r])}
  /\ Reloading = {r \in Requests : request[r].at \in ReloadSteps}
BY DEF Editors, EditsRoles, Doing, Reloading, At, ReloadSteps

LEMMA SlotChanged ==
  ASSUME DOMAIN request = Requests, NEW r \in Requests, NEW q,
         request' = [request EXCEPT ![r] = q]
  PROVE  /\ DOMAIN request' = Requests /\ request'[r] = q
         /\ \A s \in Requests : s # r => request'[s] = request[s]
OBVIOUS

LEMMA CheckedFits ==
  ASSUME NEW q, RequestOK(q)
  PROVE  /\ q.at = "checked" => Fits(q)
         /\ q.at = "judging" => q.op \in Judged /\ Fits(q)
         /\ q.at \in {"read", "cleared"} => q = [at |-> q.at, rows |-> q.rows] /\ IsRoles(q.rows)
BY DEF RequestOK, Idle

(* Putting a request on a slot keeps the requests typed, and one editor as  *)
(* long as the slot was the editor's already or there was none.             *)
LEMMA SlotKeepsTypes ==
  ASSUME TypeInv, NEW r \in Requests, NEW q, RequestOK(q),
         request' = [request EXCEPT ![r] = q],
         Quiet /\ EditsRoles(q) => EditsRoles(request[r]) \/ Editors = {}
  PROVE  /\ DOMAIN request' = Requests /\ \A s \in Requests : RequestOK(request'[s])
         /\ Quiet => OneEditor'
<1>1. /\ DOMAIN request' = Requests /\ request'[r] = q
      /\ \A s \in Requests : s # r => request'[s] = request[s]
  BY SlotChanged DEF TypeInv
<1>2. \A s \in Requests : RequestOK(request'[s])
  BY <1>1 DEF TypeInv
<1>3. ASSUME Quiet PROVE OneEditor'
  <2>1. Editors' = {s \in Requests : EditsRoles(request'[s])}
    BY DEF Editors, EditsRoles, Doing, Reloading, At, ReloadSteps
  <2>2. Editors = {s \in Requests : EditsRoles(request[s])}
    BY EditorsAre
  <2>3. \A a, b \in Editors : a = b
    BY <1>3 DEF TypeInv, OneEditor
  <2>4. \A a \in Editors' : a = r \/ a \in Editors
    BY <1>1, <2>1, <2>2
  <2>5. CASE EditsRoles(q)
    BY <1>3, <2>2, <2>3, <2>4, <2>5 DEF OneEditor
  <2>6. CASE ~EditsRoles(q)
    <3>1. Editors' \subseteq Editors
      BY <1>1, <2>1, <2>2, <2>6
    <3> QED
      BY <2>3, <3>1 DEF OneEditor
  <2> QED
    BY <2>5, <2>6
<1> QED
  BY <1>1, <1>2, <1>3

(* The commit of an edit leaves a ladder with the owner alone on top.       *)
LEMMA CommitKeepsRoles ==
  ASSUME TypeInv, NEW r \in Requests, CommitRole(r)
  PROVE  IsRoles(table')
<1> DEFINE q == request[r]
           fits == (q.id \in DOMAIN table) = (q.op # "create_role")
<1>1. /\ q.at = "checked" /\ q.op \in Edits
      /\ table' = IF ~fits THEN table ELSE
           CASE q.op = "delete_role" -> Without(table, q.id)
             [] q.op = "create_role" -> Put(table, q.id, q.new)
             [] OTHER -> Put(table, q.id, [f \in {"level", "perms"} |->
                  IF f \in DOMAIN q.new THEN q.new[f] ELSE table[q.id][f]])
  BY DEF CommitRole, Ready
<1>2. Fits(q)
  BY <1>1, CheckedFits DEF TypeInv
<1>3. IsRoles(table)
  BY DEF TypeInv
<1>a. /\ table = [id \in DOMAIN table |-> table[id]]
      /\ \A id \in DOMAIN table : id \in RoleIds /\ table[id] \in RoleRow
      /\ Builtin \subseteq DOMAIN table /\ table[Owner] = DefaultRanks[Owner]
      /\ \A id \in DOMAIN table \ {Owner} : table[id].level < Top
      /\ Owner \in Builtin
  BY <1>3, RolesAssumption DEF IsRoles, IsMap
<1>b. ASSUME NEW id \in RoleIds \ {Owner}, NEW row \in RoleRow, row.level < Top
      PROVE  IsRoles(Put(table, id, row))
  <2> DEFINE put == Put(table, id, row)
  <2>1. /\ put = [x \in DOMAIN put |-> put[x]]
        /\ DOMAIN put = DOMAIN table \cup {id}
        /\ \A x \in DOMAIN put : put[x] = IF x = id THEN row ELSE table[x]
    BY DEF Put
  <2> HIDE DEF put
  <2>2. IsMap(put, RoleIds, RoleRow) /\ Builtin \subseteq DOMAIN put
        /\ put[Owner] = DefaultRanks[Owner]
        /\ \A x \in DOMAIN put \ {Owner} : put[x].level < Top
    BY <1>a, <1>b, <2>1 DEF IsMap
  <2>3. IsRoles(put)
    BY <2>1, <2>2 DEF IsRoles
  <2> QED
    BY <2>3 DEF put
<1> HIDE DEF q
<1>4. CASE ~fits
  BY <1>1, <1>3, <1>4
<1>5. CASE fits /\ q.op = "delete_role"
  <2>1. table' = Without(table, q.id) /\ q.id \in RoleIds \ Builtin
    BY <1>1, <1>2, <1>5 DEF Fits, Assignments
  <2>2. /\ table' = [x \in DOMAIN table' |-> table'[x]]
        /\ DOMAIN table' = DOMAIN table \ {q.id}
        /\ \A x \in DOMAIN table' : table'[x] = table[x]
    BY <2>1 DEF Without
  <2> QED
    BY <1>a, <2>1, <2>2 DEF IsRoles, IsMap
<1>6. CASE fits /\ q.op = "create_role"
  BY <1>1, <1>2, <1>6, <1>b DEF Fits, Assignments
<1>7. CASE fits /\ q.op = "update_role"
  <2> DEFINE row == [f \in {"level", "perms"} |->
                      IF f \in DOMAIN q.new THEN q.new[f] ELSE table[q.id][f]]
  <2>1. table' = Put(table, q.id, row) /\ q.id \in DOMAIN table /\ q.id \in RoleIds \ {Owner}
        /\ IsChange(q.new)
    BY <1>1, <1>2, <1>7 DEF Fits, Assignments
  <2>2. table[q.id] \in RoleRow /\ table[q.id].level < Top
    BY <1>a, <2>1
  <2>3. row.level \in AllLevels /\ row.level < Top /\ row.perms \in SUBSET Perms
    BY <2>1, <2>2 DEF IsChange, RoleRow
  <2>4. row = [level |-> row.level, perms |-> row.perms]
    OBVIOUS
  <2> HIDE DEF row
  <2>5. row \in RoleRow
    BY <2>3, <2>4 DEF RoleRow
  <2> QED
    BY <1>b, <2>1, <2>3, <2>5
<1> QED
  BY <1>1, <1>4, <1>5, <1>6, <1>7 DEF Edits

LEMMA CommitKeepsUsers ==
  ASSUME TypeInv, NEW r \in Requests, CommitUser(r)
  PROVE  IsMap(user', Users, UserRow)
<1> DEFINE q == request[r]
           fits == (q.id \in DOMAIN user) = (q.op # "create_user")
<1>1. /\ q.at = "checked" /\ q.op \in Assignments \cup {"delete_user", "set_permissions"}
      /\ user' = IF ~fits THEN user ELSE
           CASE q.op = "create_user" ->
                  Put(user, q.id, [rank |-> q.new, extra |-> {}, denied |-> {}])
             [] q.op = "set_rank" -> [user EXCEPT ![q.id].rank = q.new]
             [] q.op = "delete_user" -> Without(user, q.id)
             [] OTHER -> [user EXCEPT ![q.id].extra = q.new.extra,
                                      ![q.id].denied = q.new.denied]
  BY DEF CommitUser, Ready
<1>2. Fits(q)
  BY <1>1, CheckedFits DEF TypeInv
<1>3. \A u \in DOMAIN user : u \in Users /\ user[u] \in UserRow
  BY DEF TypeInv, IsMap
<1> HIDE DEF q
<1>4. CASE ~fits
  BY <1>1, <1>4 DEF TypeInv
<1>5. CASE fits /\ q.op = "create_user"
  <2> DEFINE row == [rank |-> q.new, extra |-> {}, denied |-> {}]
  <2>1. q.new \in RoleIds /\ q.id \in Users
    BY <1>2, <1>5 DEF Fits, Assignments
  <2>2. row \in UserRow
    BY <2>1 DEF UserRow
  <2>3. user' = Put(user, q.id, row)
    BY <1>1, <1>5
  <2> HIDE DEF row
  <2> QED
    BY <1>3, <2>1, <2>2, <2>3 DEF Put, IsMap
<1>6. CASE fits /\ q.op = "set_rank"
  <2>1. q.new \in RoleIds /\ q.id \in Users
    BY <1>2, <1>6 DEF Fits, Assignments
  <2>2. user' = [user EXCEPT ![q.id].rank = q.new]
    BY <1>1, <1>6
  <2> QED
    BY <1>3, <2>1, <2>2 DEF UserRow, IsMap
<1>7. CASE fits /\ q.op = "delete_user"
  BY <1>1, <1>3, <1>7 DEF Without, IsMap
<1>8. CASE fits /\ q.op = "set_permissions"
  <2>1. q.new.extra \in SUBSET Perms /\ q.new.denied \in SUBSET Perms
    BY <1>2, <1>8 DEF Fits, Assignments
  <2>2. user' = [user EXCEPT ![q.id].extra = q.new.extra, ![q.id].denied = q.new.denied]
    BY <1>1, <1>8
  <2> QED
    BY <1>3, <2>1, <2>2 DEF UserRow, IsMap
<1> QED
  BY <1>1, <1>4, <1>5, <1>6, <1>7, <1>8 DEF Assignments

LEMMA TypesInitially == Init => TypeInv
<1> SUFFICES ASSUME Init PROVE TypeInv
  OBVIOUS
<1>1. IsRoles(table) /\ IsRoles(before) /\ IsCopy(cache)
  BY SeededRoles, CachedRows DEF Init
<1>2. order \in Seq(RoleIds)
  BY <1>1, SortingsLists DEF Init
<1>3. IsMap(user, Users, UserRow)
  <2>1. PICK u \in Users :
          user = [x \in {u} |-> [rank |-> Owner, extra |-> {}, denied |-> {}]]
    BY DEF Init
  <2>2. [rank |-> Owner, extra |-> {}, denied |-> {}] \in UserRow
    BY RolesAssumption DEF UserRow
  <2> QED
    BY <2>1, <2>2 DEF IsMap
<1>4. DOMAIN request = Requests /\ \A r \in Requests : request[r] = Idle
  BY DEF Init
<1>5. Editors = {}
  BY <1>4, EditorsAre DEF EditsRoles, ReloadSteps, Idle
<1> QED
  BY <1>1, <1>2, <1>3, <1>4, <1>5 DEF TypeInv, RequestOK, OneEditor

LEMMA TypesKept == TypeInv /\ [Next]_vars => TypeInv'
<1> SUFFICES ASSUME TypeInv, [Next]_vars PROVE TypeInv'
  OBVIOUS
<1>0. IsRoles(table) /\ IsRoles(before) /\ IsCopy(cache) /\ order \in Seq(RoleIds)
      /\ IsMap(user, Users, UserRow)
      /\ DOMAIN request = Requests /\ \A r \in Requests : RequestOK(request[r])
  BY DEF TypeInv
<1>a. ASSUME NEW r \in Requests, NEW q, RequestOK(q), request' = [request EXCEPT ![r] = q],
             Quiet /\ EditsRoles(q) => EditsRoles(request[r]) \/ Editors = {},
             IsRoles(table'), IsRoles(before'), IsCopy(cache'), order' \in Seq(RoleIds),
             IsMap(user', Users, UserRow)
      PROVE  TypeInv'
  BY <1>a, SlotKeepsTypes DEF TypeInv
<1>b. RequestOK(Idle) /\ ~EditsRoles(Idle)
  BY DEF RequestOK, EditsRoles, Idle, ReloadSteps
<1>1. CASE Restart
  <2>1. IsRoles(table') /\ IsRoles(before') /\ IsCopy(cache')
    BY <1>0, <1>1, SeededRoles, CachedRows DEF Restart
  <2>2. order' \in Seq(RoleIds)
    BY <1>1, <2>1, SortingsLists DEF Restart
  <2>3. DOMAIN request' = Requests /\ \A r \in Requests : request'[r] = Idle
    BY <1>1 DEF Restart
  <2>4. Editors' = {}
    BY <1>b, <2>3 DEF Editors, EditsRoles, Doing, Reloading, At, ReloadSteps
  <2> QED
    BY <1>0, <1>1, <1>b, <2>1, <2>2, <2>3, <2>4 DEF TypeInv, OneEditor, Restart
<1>2. ASSUME NEW r \in Requests, Arrival(r) PROVE TypeInv'
  <2>1. PICK q : /\ Fresh(q) /\ MayStart(q.op)
                 /\ request' = [request EXCEPT ![r] = q]
                 /\ UNCHANGED <<table, cache, order, user, before>>
    BY <1>2, Arrivals DEF Begun
  <2>2. RequestOK(q)
    BY <2>1 DEF Fresh, RequestOK
  <2>3. Quiet /\ EditsRoles(q) => Editors = {}
    BY <2>1 DEF Fresh, EditsRoles, ReloadSteps, MayStart, Editors
  <2> QED
    BY <1>0, <1>a, <2>1, <2>2, <2>3
<1>3. ASSUME NEW r \in Requests, CommitRole(r) PROVE TypeInv'
  <2>1. IsRoles(table')
    BY <1>3, CommitKeepsRoles
  <2>2. /\ request[r].at = "checked" /\ request[r].op \in Edits
        /\ \/ request' = [request EXCEPT ![r] = Idle] /\ before' = before
           \/ request' = [request EXCEPT ![r] = [at |-> "committed"]] /\ before' = table
        /\ UNCHANGED <<cache, order, user>>
    BY <1>3 DEF CommitRole, Ready
  <2>3. EditsRoles(request[r]) /\ RequestOK([at |-> "committed"])
    BY <2>2 DEF EditsRoles, RequestOK
  <2> QED
    BY <1>0, <1>a, <1>b, <2>1, <2>2, <2>3
<1>4. ASSUME NEW r \in Requests, Reload(r) PROVE TypeInv'
  <2>1. ASSUME NEW q, RequestOK(q), request' = [request EXCEPT ![r] = q],
               request[r].at \in ReloadSteps,
               IsCopy(cache'), order' \in Seq(RoleIds), IsRoles(before'), UNCHANGED <<table, user>>
        PROVE  TypeInv'
    BY <1>0, <1>a, <2>1 DEF EditsRoles
  <2>2. CASE ReadRows(r)
    <3> DEFINE q == [at |-> "read", rows |-> table]
    <3>1. RequestOK(q)
      BY <1>0 DEF RequestOK
    <3>2. request' = [request EXCEPT ![r] = q] /\ request[r].at \in ReloadSteps
          /\ UNCHANGED <<table, cache, order, user, before>>
      BY <2>2 DEF ReadRows, ReloadSteps
    <3> HIDE DEF q
    <3> QED
      BY <1>0, <2>1, <3>1, <3>2
  <2>3. CASE ClearRanks(r)
    <3> DEFINE q == [at |-> "cleared", rows |-> request[r].rows]
    <3>1. /\ request[r].at = "read" /\ cache' = <<>> /\ UNCHANGED <<table, order, user, before>>
          /\ request' = [request EXCEPT ![r].at = "cleared"]
      BY <2>3 DEF ClearRanks
    <3>2. request[r] = [at |-> "read", rows |-> request[r].rows] /\ IsRoles(request[r].rows)
      BY <1>0, <3>1, CheckedFits
    <3>3. request' = [request EXCEPT ![r] = q]
      <4> DEFINE rows == request[r].rows
      <4>1. request[r] = [at |-> "read", rows |-> rows]
        BY <3>2
      <4>2. request' = [request EXCEPT ![r] = [request[r] EXCEPT !.at = "cleared"]]
        BY <3>1
      <4>3. q = [at |-> "cleared", rows |-> rows]
        OBVIOUS
      <4> HIDE DEF rows
      <4>4. [request[r] EXCEPT !.at = "cleared"] = [at |-> "cleared", rows |-> rows]
        BY <4>1
      <4> QED
        BY <4>2, <4>3, <4>4
    <3>4. RequestOK(q)
      BY <3>2 DEF RequestOK
    <3> HIDE DEF q
    <3> QED
      BY <1>0, <2>1, <3>1, <3>3, <3>4, NoCopy DEF ReloadSteps
  <2>4. CASE UpdateRanks(r)
    <3> DEFINE filled == Cached(request[r].rows)
    <3>1. /\ request[r].at = "cleared" /\ UNCHANGED <<table, order, user, before>>
          /\ request' = [request EXCEPT ![r] = [at |-> "filled"]]
          /\ cache' = [x \in DOMAIN cache \cup DOMAIN filled |->
                         IF x \in DOMAIN filled THEN filled[x] ELSE cache[x]]
      BY <2>4 DEF UpdateRanks
    <3>2. IsCopy(filled)
      BY <1>0, <3>1, CheckedFits, CachedRows
    <3> HIDE DEF filled
    <3>3. IsCopy(cache')
      BY <1>0, <3>1, <3>2 DEF IsCopy, IsMap
    <3>4. RequestOK([at |-> "filled"])
      BY DEF RequestOK
    <3> QED
      BY <1>0, <2>1, <3>1, <3>3, <3>4 DEF ReloadSteps
  <2>5. CASE ClearOrder(r)
    <3>1. RequestOK([at |-> "unordered"])
      BY DEF RequestOK
    <3> QED
      BY <1>0, <2>1, <2>5, <3>1, EmptySeq DEF ReloadSteps, ClearOrder
  <2>6. CASE ExtendOrder(r)
    <3>1. PICK s \in Sortings(cache) : order' = order \o s
      BY <2>6 DEF ExtendOrder
    <3>2. order' \in Seq(RoleIds)
      BY <1>0, <3>1, SortingsLists, ConcatProperties
    <3>3. IsRoles(before')
      BY <1>0, <2>6 DEF ExtendOrder
    <3> QED
      BY <1>0, <1>b, <2>1, <2>6, <3>2, <3>3 DEF ReloadSteps, ExtendOrder
  <2> QED
    BY <1>4, <2>2, <2>3, <2>4, <2>5, <2>6 DEF Reload
<1>5. ASSUME NEW r \in Requests, Compare(r) PROVE TypeInv'
  <2> DEFINE q == request[r]
             next == Checked(q.op, q.id, q.new)
  <2>1. /\ q.at = "judging" /\ UNCHANGED <<table, cache, order, user, before>>
        /\ \/ request' = [request EXCEPT ![r] = Idle]
           \/ request' = [request EXCEPT ![r] = next]
    BY <1>5 DEF Compare
  <2>2. q.op \in Judged /\ Fits(q)
    BY <1>0, <2>1, CheckedFits
  <2>3. next.at = "checked" /\ next.op = q.op /\ next.id = q.id /\ next.new = q.new
    BY CheckedFields
  <2> HIDE DEF next
  <2>4. RequestOK(next) /\ ~EditsRoles(next)
    BY <2>2, <2>3 DEF RequestOK, EditsRoles, Fits, Judged, Assignments, Edits, ReloadSteps
  <2> QED
    BY <1>0, <1>a, <1>b, <2>1, <2>4
<1>6. ASSUME NEW r \in Requests, CommitUser(r) PROVE TypeInv'
  <2>1. IsMap(user', Users, UserRow)
    BY <1>6, CommitKeepsUsers
  <2> QED
    BY <1>0, <1>6, <1>a, <1>b, <2>1 DEF CommitUser
<1>7. CASE UNCHANGED vars
  BY <1>7 DEF TypeInv, vars, IsMap, OneEditor, Editors, Doing, Reloading, At
<1> QED
  BY <1>1, <1>2, <1>3, <1>4, <1>5, <1>6, <1>7 DEF Next, Handler

(* Tables, copy, order and accounts keep their types, the owner's role is   *)
(* never touched, and with Quiet role edits never overlap.                  *)
THEOREM RankTypes == Spec => []TypeOK
<1>1. TypeInv => TypeOK
  <2> SUFFICES ASSUME TypeInv PROVE TypeOK
    OBVIOUS
  <2>1. \A i \in 1..Len(order) : order[i] \in RoleIds
    BY ElementOfSeq DEF TypeInv
  <2>2. Quiet => Cardinality(Doing(Edits) \cup Reloading) <= 1
    <3> SUFFICES ASSUME Quiet PROVE Cardinality(Editors) <= 1
      BY DEF Editors
    <3>1. CASE Editors = {}
      BY <3>1, FS_EmptySet
    <3>2. CASE Editors # {}
      <4>0. PICK a : a \in Editors
        BY <3>2
      <4>1. Editors = {a}
        BY <4>0 DEF TypeInv, OneEditor
      <4>2. Cardinality({a}) = 1
        BY FS_Singleton
      <4> QED
        BY <4>1, <4>2
    <3> QED
      BY <3>1, <3>2
  <2> QED
    BY <2>1, <2>2 DEF TypeInv, TypeOK, IsRoles, IsCopy, CopyRow
<1> QED
  BY <1>1, TypesInitially, TypesKept, PTL DEF Spec

LEMMA TypesAlways == Spec => []TypeInv
BY TypesInitially, TypesKept, PTL DEF Spec

-----------------------------------------------------------------------------
(* The copy, when role edits do not overlap                                 *)

Copying ==
  /\ CacheMatches
  /\ \A r \in Reloading :
       /\ request[r].at \in {"committed", "read"} => cache = Cached(before)
       /\ request[r].at \in {"read", "cleared"} => request[r].rows = table
       /\ request[r].at = "cleared" => cache = <<>>
       /\ request[r].at \in {"filled", "unordered"} => cache = Cached(table)
       /\ request[r].at = "unordered" => order = <<>>

LEMMA CopyInitially == Init => Copying
<1> SUFFICES ASSUME Init PROVE Copying
  OBVIOUS
<1>1. Reloading = {}
  BY DEF Init, Reloading, At, Idle
<1> QED
  BY <1>1 DEF Init, Copying, CacheMatches

(* A step of a request that is not reloading leaves the copy alone.         *)
LEMMA OthersKeepCopy ==
  ASSUME TypeInv, Copying, NEW r \in Requests, NEW q,
         request[r].at \notin ReloadSteps, q.at \notin ReloadSteps,
         request' = [request EXCEPT ![r] = q], UNCHANGED <<table, cache, order, before>>
  PROVE  Copying'
<1>1. request'[r] = q /\ \A s \in Requests : s # r => request'[s] = request[s]
  BY SlotChanged DEF TypeInv
<1>2. Reloading = {s \in Requests : request[s].at \in ReloadSteps}
      /\ Reloading' = {s \in Requests : request'[s].at \in ReloadSteps}
  BY DEF Reloading, At, ReloadSteps
<1>3. Reloading' = Reloading /\ \A s \in Reloading : request'[s] = request[s]
  BY <1>1, <1>2
<1>4. CacheMatches'
  BY <1>3 DEF Copying, CacheMatches, Sortings, Ascending
<1> QED
  BY <1>3, <1>4 DEF Copying

(* Whoever reloads is the only one, and is not followed by another.         *)
LEMMA OneReload ==
  ASSUME TypeInv, Quiet, NEW r \in Requests, EditsRoles(request[r]), NEW q,
         request' = [request EXCEPT ![r] = q]
  PROVE  /\ request'[r] = q
         /\ Reloading \subseteq {r} /\ Reloading' = (IF q.at \in ReloadSteps THEN {r} ELSE {})
<1>1. request'[r] = q /\ \A s \in Requests : s # r => request'[s] = request[s]
  BY SlotChanged DEF TypeInv
<1>2. Reloading = {s \in Requests : request[s].at \in ReloadSteps}
      /\ Reloading' = {s \in Requests : request'[s].at \in ReloadSteps}
  BY DEF Reloading, At, ReloadSteps
<1>3. Editors \subseteq {r}
  BY EditorsAre DEF TypeInv, OneEditor
<1>4. \A s \in Requests : s # r => request[s].at \notin ReloadSteps
  BY <1>2, <1>3 DEF Editors
<1>5. Reloading' = IF q.at \in ReloadSteps THEN {r} ELSE {}
  BY <1>1, <1>2, <1>4
<1> QED
  BY <1>1, <1>2, <1>4, <1>5

LEMMA CopyKept ==
  ASSUME Quiet, TypeInv, Copying, [Next]_vars
  PROVE  Copying'
<1>0. DOMAIN request = Requests /\ \A r \in Requests : RequestOK(request[r])
  BY DEF TypeInv
<1>1. CASE Restart
  <2>1. Reloading' = {}
    BY <1>1 DEF Restart, Reloading, At, Idle
  <2> QED
    BY <1>1, <2>1 DEF Restart, Copying, CacheMatches, Sortings, Ascending
<1>2. ASSUME NEW r \in Requests, Arrival(r) PROVE Copying'
  <2>1. PICK q : /\ Fresh(q) /\ request[r] = Idle
                 /\ request' = [request EXCEPT ![r] = q]
                 /\ UNCHANGED <<table, cache, order, user, before>>
    BY <1>2, Arrivals DEF Begun
  <2>2. request[r].at \notin ReloadSteps /\ q.at \notin ReloadSteps
    BY <2>1 DEF Fresh, Idle, ReloadSteps
  <2> QED
    BY <2>1, <2>2, OthersKeepCopy
<1>3. ASSUME NEW r \in Requests, CommitRole(r) PROVE Copying'
  <2> DEFINE q == [at |-> "committed"]
  <2>1. /\ request[r].at = "checked" /\ request[r].op \in Edits
        /\ \/ /\ request' = [request EXCEPT ![r] = Idle]
              /\ UNCHANGED <<table, before>>
           \/ request' = [request EXCEPT ![r] = q] /\ before' = table
        /\ UNCHANGED <<cache, order, user>>
    BY <1>3 DEF CommitRole, Ready
  <2>2. request[r].at \notin ReloadSteps /\ EditsRoles(request[r])
        /\ Idle.at \notin ReloadSteps /\ q.at = "committed" /\ q.at \in ReloadSteps
    BY <2>1 DEF EditsRoles, Idle, ReloadSteps
  <2> HIDE DEF q
  <2>3. CASE request' = [request EXCEPT ![r] = Idle] /\ UNCHANGED <<table, before>>
    BY <2>1, <2>2, <2>3, OthersKeepCopy
  <2>4. CASE request' = [request EXCEPT ![r] = q] /\ before' = table
    <3>1. request'[r] = q /\ Reloading \subseteq {r} /\ Reloading' = {r}
      BY <2>2, <2>4, OneReload
    <3>2. Reloading = {}
      BY <2>2, <3>1 DEF Reloading, At, ReloadSteps
    <3>3. cache = Cached(table)
      BY <3>2 DEF Copying, CacheMatches
    <3>4. cache' = Cached(before')
      BY <2>1, <2>4, <3>3
    <3> QED
      BY <2>2, <3>1, <3>4 DEF Copying, CacheMatches
  <2> QED
    BY <2>1, <2>3, <2>4
<1>4. ASSUME NEW r \in Requests, Reload(r) PROVE Copying'
  <2>1. r \in Reloading /\ request[r].at \in ReloadSteps /\ EditsRoles(request[r])
    BY <1>4 DEF Reload, ReadRows, ClearRanks, UpdateRanks, ClearOrder, ExtendOrder,
                ReloadSteps, Reloading, At, EditsRoles
  <2>2. CASE ReadRows(r)
    <3> DEFINE q == [at |-> "read", rows |-> table]
    <3>1. q.at = "read" /\ q.rows = table /\ q.at \in ReloadSteps
      BY DEF ReloadSteps
    <3>2. request' = [request EXCEPT ![r] = q] /\ request[r].at = "committed"
          /\ UNCHANGED <<table, cache, order, user, before>>
      BY <2>2 DEF ReadRows
    <3> HIDE DEF q
    <3>3. request'[r] = q /\ Reloading' = {r}
      BY <2>1, <3>1, <3>2, OneReload
    <3>4. cache' = Cached(before')
      BY <2>1, <3>2 DEF Copying
    <3> QED
      BY <3>1, <3>2, <3>3, <3>4 DEF Copying, CacheMatches
  <2>3. CASE ClearRanks(r)
    <3> DEFINE rows == request[r].rows
               q == [request[r] EXCEPT !.at = "cleared"]
    <3>1. /\ request[r].at = "read" /\ cache' = <<>> /\ UNCHANGED <<table, order, user, before>>
          /\ request' = [request EXCEPT ![r] = q]
      BY <2>3 DEF ClearRanks
    <3>2. request[r] = [at |-> "read", rows |-> rows] /\ rows = table
      BY <1>0, <2>1, <3>1, CheckedFits DEF Copying
    <3> HIDE DEF rows
    <3>3. q.at = "cleared" /\ q.rows = table /\ q.at \in ReloadSteps
      BY <3>2 DEF ReloadSteps
    <3> HIDE DEF q
    <3>4. request'[r] = q /\ Reloading' = {r}
      BY <2>1, <3>1, <3>3, OneReload
    <3> QED
      BY <3>1, <3>3, <3>4 DEF Copying, CacheMatches
  <2>4. CASE UpdateRanks(r)
    <3> DEFINE filled == Cached(request[r].rows)
               q == [at |-> "filled"]
    <3>1. /\ request[r].at = "cleared" /\ UNCHANGED <<table, order, user, before>>
          /\ request' = [request EXCEPT ![r] = q]
          /\ cache' = [x \in DOMAIN cache \cup DOMAIN filled |->
                         IF x \in DOMAIN filled THEN filled[x] ELSE cache[x]]
      BY <2>4 DEF UpdateRanks
    <3>2. q.at = "filled" /\ q.at \in ReloadSteps
      BY DEF ReloadSteps
    <3>3. cache = <<>> /\ filled = Cached(table)
      BY <2>1, <3>1 DEF Copying
    <3>4. filled = [x \in DOMAIN filled |-> filled[x]]
      BY DEF Cached
    <3> HIDE DEF q, filled
    <3>5. cache' = Cached(table)
      BY <3>1, <3>3, <3>4, NoCopy
    <3>6. cache' = Cached(table')
      BY <3>1, <3>5
    <3>7. request'[r] = q /\ Reloading' = {r}
      BY <2>1, <3>1, <3>2, OneReload
    <3> QED
      BY <3>2, <3>6, <3>7 DEF Copying, CacheMatches
  <2>5. CASE ClearOrder(r)
    <3> DEFINE q == [at |-> "unordered"]
    <3>1. q.at = "unordered" /\ q.at \in ReloadSteps
      BY DEF ReloadSteps
    <3>2. /\ request[r].at = "filled" /\ request' = [request EXCEPT ![r] = q]
          /\ order' = <<>> /\ UNCHANGED <<table, cache, user, before>>
      BY <2>5 DEF ClearOrder
    <3> HIDE DEF q
    <3>3. request'[r] = q /\ Reloading' = {r}
      BY <2>1, <3>1, <3>2, OneReload
    <3>4. cache' = Cached(table')
      BY <2>1, <3>2 DEF Copying
    <3> QED
      BY <3>1, <3>2, <3>3, <3>4 DEF Copying, CacheMatches
  <2>6. CASE ExtendOrder(r)
    <3>1. /\ request[r].at = "unordered" /\ request' = [request EXCEPT ![r] = Idle]
          /\ UNCHANGED <<table, cache, user>>
      BY <2>6 DEF ExtendOrder
    <3>2. PICK s \in Sortings(cache) : order' = order \o s
      BY <2>6 DEF ExtendOrder
    <3>3. order = <<>> /\ cache = Cached(table)
      BY <2>1, <3>1 DEF Copying
    <3>4. s \in Seq(RoleIds)
      BY <3>2, SortingsLists DEF TypeInv
    <3>5. order' \in Sortings(cache)
      BY <3>2, <3>3, <3>4, ConcatEmptySeq
    <3>6. order' \in Sortings(cache')
      BY <3>1, <3>5 DEF Sortings, Ascending
    <3>7. Reloading' = {}
      BY <2>1, <3>1, OneReload DEF Idle, ReloadSteps
    <3>8. cache' = Cached(table')
      BY <3>1, <3>3
    <3> QED
      BY <3>6, <3>7, <3>8 DEF Copying, CacheMatches
  <2> QED
    BY <1>4, <2>2, <2>3, <2>4, <2>5, <2>6 DEF Reload
<1>5. ASSUME NEW r \in Requests, Compare(r) \/ CommitUser(r) PROVE Copying'
  <2>1. PICK q : /\ q = Idle \/ q.at = "checked"
                 /\ request[r].at \in {"judging", "checked"}
                 /\ request' = [request EXCEPT ![r] = q]
                 /\ UNCHANGED <<table, cache, order, before>>
    BY <1>5 DEF Compare, CommitUser, Ready, Checked
  <2>2. request[r].at \notin ReloadSteps /\ q.at \notin ReloadSteps
    BY <2>1 DEF Idle, ReloadSteps
  <2> QED
    BY <2>1, <2>2, OthersKeepCopy
<1>6. CASE UNCHANGED vars
  BY <1>6 DEF Copying, CacheMatches, Sortings, Ascending, vars, Reloading, At
<1> QED
  BY <1>1, <1>2, <1>3, <1>4, <1>5, <1>6 DEF Next, Handler

LEMMA CopyAlways ==
  ASSUME Quiet
  PROVE  Spec => []Copying
BY CopyInitially, CopyKept, TypesAlways, PTL DEF Spec

(* When role edits do not overlap, the copy says what the table says        *)
(* whenever no edit is between its commit and the end of its reload.        *)
THEOREM CopyMatches == Quiet => (Spec => []CacheMatches)
<1> SUFFICES ASSUME Quiet PROVE Spec => []CacheMatches
  OBVIOUS
<1>1. Copying => CacheMatches
  BY DEF Copying
<1> QED
  BY <1>1, CopyAlways, PTL

(* Whatever the first read of a check found and whatever a reload has done  *)
(* by the second, a rank gives nothing that neither the old roles nor the   *)
(* new ones grant it, or grant DEFAULT_RANK when it was not found.          *)
THEOREM AccessClosed == Quiet => (Spec => []AccessFailsClosed)
<1> SUFFICES ASSUME Quiet PROVE Spec => []AccessFailsClosed
  OBVIOUS
<1>1. TypeInv /\ Copying => AccessFailsClosed
  <2> SUFFICES ASSUME Copying, NEW rank \in RoleIds, NEW found \in BOOLEAN
               PROVE  RankPermissions(cache, rank, found) \subseteq
                        UNION {RankPermissions(c, rank, TRUE) \cup RankPermissions(c, rank, found) :
                                 c \in {Cached(before), Cached(table)}}
    BY DEF AccessFailsClosed
  <2> DEFINE tables == {Cached(before), Cached(table)}
             May(c) == RankPermissions(c, rank, TRUE) \cup RankPermissions(c, rank, found)
  <2> SUFFICES ASSUME NEW p \in RankPermissions(cache, rank, found)
               PROVE  \E c \in tables : p \in May(c)
    OBVIOUS
  <2>1. cache = <<>> \/ cache = Cached(table) \/ cache = Cached(before)
    BY DEF Copying, CacheMatches, Reloading, At
  <2>2. cache # <<>>
    BY NoCopy DEF RankPermissions
  <2> QED
    BY <2>1, <2>2
<1> QED
  BY <1>1, TypesAlways, CopyAlways, PTL

-----------------------------------------------------------------------------
(* The ranks of the accounts                                                *)

Pending(q, ops) == q.at \in {"judging", "checked"} /\ q.op \in ops

LEMMA DoingAre ==
  ASSUME NEW ops
  PROVE  Doing(ops) = {r \in Requests : Pending(request[r], ops)}
BY DEF Doing, At, Pending

(* Who is about to get a rank gets one that exists, and a role about to be  *)
(* deleted is held by nobody and promised to nobody.                        *)
Promised ==
  /\ RanksExist
  /\ \A r \in Requests : Pending(request[r], Assignments) => request[r].new \in DOMAIN table
  /\ \A r \in Requests : Pending(request[r], {"delete_role"}) =>
       /\ \A u \in DOMAIN user : user[u].rank # request[r].id
       /\ \A s \in Requests : ~Pending(request[s], Assignments)

LEMMA PromisedInitially == Init => Promised
<1> SUFFICES ASSUME Init PROVE Promised
  OBVIOUS
<1>1. PICK u \in Users :
        user = [x \in {u} |-> [rank |-> Owner, extra |-> {}, denied |-> {}]]
  BY DEF Init
<1>2. Owner \in DOMAIN table
  BY RolesAssumption, TypesInitially DEF TypeInv, IsRoles
<1>3. \A r \in Requests : \A ops : ~Pending(request[r], ops)
  BY DEF Init, Pending, Idle
<1> QED
  BY <1>1, <1>2, <1>3 DEF Promised, RanksExist

(* A slot that changes to no new promise and no new deletion.               *)
LEMMA PromisedStays ==
  ASSUME TypeInv, Promised, NEW r \in Requests, NEW q,
         request' = [request EXCEPT ![r] = q],
         Pending(q, Assignments) => Pending(request[r], Assignments) /\ q.new = request[r].new,
         Pending(q, {"delete_role"}) =>
           Pending(request[r], {"delete_role"}) /\ q.id = request[r].id,
         UNCHANGED user, DOMAIN table \subseteq DOMAIN table'
  PROVE  Promised'
<1>1. request'[r] = q /\ \A s \in Requests : s # r => request'[s] = request[s]
  BY SlotChanged DEF TypeInv
<1>2. \A s \in Requests : Pending(request'[s], Assignments) =>
        Pending(request[s], Assignments) /\ request'[s].new = request[s].new
  BY <1>1
<1>3. \A s \in Requests : Pending(request'[s], {"delete_role"}) =>
        Pending(request[s], {"delete_role"}) /\ request'[s].id = request[s].id
  BY <1>1
<1>4. RanksExist'
  BY DEF Promised, RanksExist
<1>5. \A s \in Requests : Pending(request'[s], Assignments) => request'[s].new \in DOMAIN table'
  BY <1>2 DEF Promised
<1>6. ASSUME NEW s \in Requests, Pending(request'[s], {"delete_role"})
      PROVE  /\ \A u \in DOMAIN user' : user'[u].rank # request'[s].id
             /\ \A o \in Requests : ~Pending(request'[o], Assignments)
  BY <1>2, <1>3, <1>6 DEF Promised
<1> QED
  BY <1>4, <1>5, <1>6 DEF Promised, Pending

LEMMA CheckedPending ==
  ASSUME NEW q, NEW ops
  PROVE  /\ Pending(Checked(q.op, q.id, q.new), ops) <=> q.op \in ops
         /\ Checked(q.op, q.id, q.new).id = q.id /\ Checked(q.op, q.id, q.new).new = q.new
BY CheckedFields DEF Pending

(* A reload writes neither roles nor accounts, and its request does nothing *)
(* else.                                                                    *)
LEMMA ReloadSlot ==
  ASSUME TypeInv, NEW r \in Requests, Reload(r)
  PROVE  \E q : request' = [request EXCEPT ![r] = q] /\ ~(q.at \in {"judging", "checked"})
                /\ UNCHANGED <<table, user>>
<1>1. CASE ReadRows(r)
  BY <1>1 DEF ReadRows
<1>2. CASE ClearRanks(r)
  <2> DEFINE x == [request[r] EXCEPT !.at = "cleared"]
  <2>1. request[r].at = "read" /\ request' = [request EXCEPT ![r] = x]
        /\ UNCHANGED <<table, user>>
    BY <1>2 DEF ClearRanks
  <2>2. request[r] = [at |-> "read", rows |-> request[r].rows]
    BY <2>1, CheckedFits DEF TypeInv
  <2>3. x.at = "cleared"
    BY <2>2
  <2> HIDE DEF x
  <2> QED
    BY <2>1, <2>3
<1>3. CASE UpdateRanks(r)
  BY <1>3 DEF UpdateRanks
<1>4. CASE ClearOrder(r)
  BY <1>4 DEF ClearOrder
<1>5. CASE ExtendOrder(r)
  BY <1>5 DEF ExtendOrder, Idle
<1> QED
  BY <1>1, <1>2, <1>3, <1>4, <1>5 DEF Reload

LEMMA PromisedKept ==
  ASSUME Quiet, TypeInv, Copying, Promised, [Next]_vars
  PROVE  Promised'
<1>a. \A ops : ~Pending(Idle, ops)
  BY DEF Pending, Idle
<1>1. CASE Restart
  <2>1. \A r \in Requests : \A ops : ~Pending(request'[r], ops)
    BY <1>1, <1>a DEF Restart
  <2>2. DOMAIN table' = DOMAIN table /\ user' = user
    BY <1>1, SeededRoles DEF Restart, TypeInv
  <2> QED
    BY <2>1, <2>2 DEF Promised, RanksExist, Pending
<1>2. ASSUME NEW r \in Requests, Arrival(r) PROVE Promised'
  <2>1. PICK q : /\ Fresh(q) /\ MayStart(q.op)
                 /\ request' = [request EXCEPT ![r] = q]
                 /\ UNCHANGED <<table, cache, order, user, before>>
    BY <1>2, Arrivals DEF Begun
  <2>2. request'[r] = q /\ \A s \in Requests : s # r => request'[s] = request[s]
    BY <2>1, SlotChanged DEF TypeInv
  <2>3. CASE q.op \in Assignments
    <3>1. Reloading = {} /\ \A s \in Requests : ~Pending(request[s], {"delete_role"})
      <4>1. Doing({"delete_role"}) = {} /\ Reloading = {}
        BY <2>1, <2>3 DEF MayStart, Assignments, Edits
      <4> QED
        BY <4>1, DoingAre
    <3>2. cache = Cached(table) /\ order \in Sortings(cache)
      BY <3>1 DEF Copying, CacheMatches
    <3>3. DOMAIN cache = DOMAIN table /\ order \in Seq(DOMAIN cache)
      BY <3>2, CachedRows, SortingsLists DEF TypeInv
    <3>4. \A rank : NextRank(rank) \subseteq DOMAIN cache
      <4> SUFFICES ASSUME NEW rank, NEW next \in NextRank(rank) PROVE next \in DOMAIN cache
        OBVIOUS
      <4>1. \E i \in 1..Len(order) : next = order[i]
        BY NextIsRole DEF TypeInv
      <4> QED
        BY <3>3, <4>1, ElementOfSeq
    <3>5. q.new \in DOMAIN table
      BY <2>1, <2>3, <3>3, <3>4 DEF Fresh
    <3>6. \A s \in Requests : ~Pending(request'[s], {"delete_role"})
      BY <2>2, <2>3, <3>1 DEF Pending, Assignments
    <3>7. \A s \in Requests : Pending(request'[s], Assignments) => request'[s].new \in DOMAIN table'
      BY <2>1, <2>2, <3>5 DEF Promised
    <3> QED
      BY <2>1, <3>6, <3>7 DEF Promised, RanksExist, Pending
  <2>4. CASE q.op = "delete_role"
    <3>1. \A s \in Requests : ~Pending(request[s], Assignments)
      <4>1. Doing(Assignments) = {}
        BY <2>1, <2>4 DEF MayStart
      <4> QED
        BY <4>1, DoingAre
    <3>2. \A s \in Requests : ~Pending(request'[s], Assignments)
      BY <2>2, <2>4, <3>1 DEF Pending, Assignments
    <3>3. \A u \in DOMAIN user : user[u].rank # q.id
      BY <2>1, <2>4 DEF Fresh
    <3>4. \A s \in Requests : Pending(request'[s], {"delete_role"}) =>
            \A u \in DOMAIN user' : user'[u].rank # request'[s].id
      BY <2>1, <2>2, <3>3 DEF Promised
    <3> QED
      BY <2>1, <3>2, <3>4 DEF Promised, RanksExist, Pending
  <2>5. CASE q.op \notin Assignments \cup {"delete_role"}
    BY <2>1, <2>5, PromisedStays DEF Pending
  <2> QED
    BY <2>3, <2>4, <2>5
<1>3. ASSUME NEW r \in Requests, CommitRole(r) PROVE Promised'
  <2> DEFINE q == request[r]
             fits == (q.id \in DOMAIN table) = (q.op # "create_role")
             done == [at |-> "committed"]
  <2>1. /\ q.at = "checked" /\ q.op \in Edits
        /\ table' = IF ~fits THEN table ELSE
             CASE q.op = "delete_role" -> Without(table, q.id)
               [] q.op = "create_role" -> Put(table, q.id, q.new)
               [] OTHER -> Put(table, q.id, [f \in {"level", "perms"} |->
                    IF f \in DOMAIN q.new THEN q.new[f] ELSE table[q.id][f]])
        /\ request' = [request EXCEPT ![r] = Idle] \/ request' = [request EXCEPT ![r] = done]
        /\ UNCHANGED user
    BY <1>3 DEF CommitRole, Ready
  <2>2. \A ops : ~Pending(done, ops)
    BY DEF Pending
  <2>3. CASE q.op # "delete_role"
    <3>1. DOMAIN table \subseteq DOMAIN table'
      BY <2>1, <2>3 DEF Put, Edits
    <3> HIDE DEF done, q
    <3> QED
      BY <1>a, <2>1, <2>2, <3>1, PromisedStays
  <2>4. CASE q.op = "delete_role"
    <3>1. Pending(q, {"delete_role"})
      BY <2>1, <2>4 DEF Pending
    <3>2. /\ \A u \in DOMAIN user : user[u].rank # q.id
          /\ \A s \in Requests : ~Pending(request[s], Assignments)
      BY <3>1 DEF Promised
    <3>3. DOMAIN table \ {q.id} \subseteq DOMAIN table'
      BY <2>1, <2>4 DEF Without
    <3>4. RanksExist'
      BY <2>1, <3>2, <3>3 DEF Promised, RanksExist
    <3>5. PICK x : request' = [request EXCEPT ![r] = x] /\ \A ops : ~Pending(x, ops)
      BY <1>a, <2>1, <2>2
    <3>6. request'[r] = x /\ \A s \in Requests : s # r => request'[s] = request[s]
      BY <3>5, SlotChanged DEF TypeInv
    <3>7. \A s \in Requests : ~Pending(request'[s], Assignments)
      BY <3>2, <3>5, <3>6
    <3>8. \A s \in Requests : Pending(request'[s], {"delete_role"}) =>
            \A u \in DOMAIN user' : user'[u].rank # request'[s].id
      BY <2>1, <3>5, <3>6 DEF Promised
    <3> QED
      BY <3>4, <3>7, <3>8 DEF Promised, Pending
  <2> QED
    BY <2>3, <2>4
<1>4. ASSUME NEW r \in Requests, Reload(r) PROVE Promised'
  <2>1. PICK q : request' = [request EXCEPT ![r] = q] /\ ~(q.at \in {"judging", "checked"})
                 /\ UNCHANGED <<table, user>>
    BY <1>4, ReloadSlot
  <2> QED
    BY <2>1, PromisedStays DEF Pending
<1>5. ASSUME NEW r \in Requests, Compare(r) PROVE Promised'
  <2> DEFINE q == request[r]
             next == Checked(q.op, q.id, q.new)
  <2>1. /\ q.at = "judging" /\ UNCHANGED <<table, cache, order, user, before>>
        /\ \/ request' = [request EXCEPT ![r] = Idle]
           \/ request' = [request EXCEPT ![r] = next]
    BY <1>5 DEF Compare
  <2>2. \A ops : Pending(q, ops) <=> q.op \in ops
    BY <2>1 DEF Pending
  <2>3. /\ \A ops : Pending(next, ops) <=> q.op \in ops
        /\ next.id = q.id /\ next.new = q.new
    BY CheckedPending
  <2> HIDE DEF next
  <2> QED
    BY <1>a, <2>1, <2>2, <2>3, PromisedStays
<1>6. ASSUME NEW r \in Requests, CommitUser(r) PROVE Promised'
  <2> DEFINE q == request[r]
             fits == (q.id \in DOMAIN user) = (q.op # "create_user")
  <2>1. /\ q.at = "checked" /\ q.op \in Assignments \cup {"delete_user", "set_permissions"}
        /\ user' = IF ~fits THEN user ELSE
             CASE q.op = "create_user" ->
                    Put(user, q.id, [rank |-> q.new, extra |-> {}, denied |-> {}])
               [] q.op = "set_rank" -> [user EXCEPT ![q.id].rank = q.new]
               [] q.op = "delete_user" -> Without(user, q.id)
               [] OTHER -> [user EXCEPT ![q.id].extra = q.new.extra,
                                        ![q.id].denied = q.new.denied]
        /\ request' = [request EXCEPT ![r] = Idle] /\ UNCHANGED table
    BY <1>6 DEF CommitUser, Ready
  <2>2. \A u \in DOMAIN user : user[u] \in UserRow
    BY DEF TypeInv, IsMap
  <2>3. /\ request'[r] = Idle /\ \A s \in Requests : s # r => request'[s] = request[s]
    BY <2>1, SlotChanged DEF TypeInv
  <2> HIDE DEF q
  <2>4. \A u \in DOMAIN user' : (user'[u].rank = q.new /\ q.op \in Assignments)
          \/ (u \in DOMAIN user /\ user'[u].rank = user[u].rank)
    <3>1. CASE ~fits
      BY <2>1, <3>1
    <3>2. CASE fits /\ q.op = "create_user"
      BY <2>1, <3>2 DEF Put, Assignments
    <3>3. CASE fits /\ q.op = "set_rank"
      BY <2>1, <2>2, <3>3 DEF UserRow, Assignments
    <3>4. CASE fits /\ q.op = "delete_user"
      BY <2>1, <3>4 DEF Without
    <3>5. CASE fits /\ q.op = "set_permissions"
      <4>1. user' = [user EXCEPT ![q.id].extra = q.new.extra, ![q.id].denied = q.new.denied]
        BY <2>1, <3>5
      <4> QED
        BY <2>2, <4>1 DEF UserRow
    <3> QED
      BY <2>1, <3>1, <3>2, <3>3, <3>4, <3>5 DEF Assignments
  <2>5. q.op \in Assignments => Pending(q, Assignments) /\ q.new \in DOMAIN table
    BY <2>1 DEF Promised, Pending, q
  <2>6. RanksExist'
    BY <2>1, <2>4, <2>5 DEF Promised, RanksExist
  <2>7. \A s \in Requests : Pending(request'[s], Assignments) =>
          s # r /\ request'[s].new \in DOMAIN table'
    BY <1>a, <2>1, <2>3 DEF Promised
  <2>8. ASSUME NEW s \in Requests, Pending(request'[s], {"delete_role"})
        PROVE  /\ \A u \in DOMAIN user' : user'[u].rank # request'[s].id
               /\ \A o \in Requests : ~Pending(request'[o], Assignments)
    <3>1. Pending(request[s], {"delete_role"}) /\ request'[s] = request[s]
      BY <1>a, <2>3, <2>8
    <3>2. /\ \A u \in DOMAIN user : user[u].rank # request[s].id
          /\ \A o \in Requests : ~Pending(request[o], Assignments)
      BY <3>1 DEF Promised
    <3>3. q.op \notin Assignments
      BY <2>5, <3>2 DEF q
    <3> QED
      BY <1>a, <2>3, <2>4, <3>1, <3>2, <3>3
  <2> QED
    BY <2>6, <2>7, <2>8 DEF Promised, Pending
<1>7. CASE UNCHANGED vars
  BY <1>7 DEF Promised, RanksExist, vars, Pending
<1> QED
  BY <1>1, <1>2, <1>3, <1>4, <1>5, <1>6, <1>7 DEF Next, Handler

(* When role edits wait for assignments and for each other, nobody ever     *)
(* holds a rank that is not in the roles table.                             *)
THEOREM RanksHaveRoles == Quiet => (Spec => []RanksExist)
<1> SUFFICES ASSUME Quiet PROVE Spec => []RanksExist
  OBVIOUS
<1>1. Promised => RanksExist
  BY DEF Promised
<1>2. TypeInv /\ Copying /\ Promised /\ [Next]_vars => Promised'
  BY PromisedKept
<1> QED
  BY <1>1, <1>2, PromisedInitially, TypesAlways, CopyAlways, PTL DEF Spec

-----------------------------------------------------------------------------
(* The last owner                                                           *)

(* Nothing that would take the owner's rank of u gets past its comparison.  *)
Unseats(q, u) == Pending(q, {"set_rank", "delete_user"}) /\ q.id = u
OwnerSafe(u) ==
  /\ u \in DOMAIN user /\ user[u].rank = Owner
  /\ \A r \in Requests :
       Unseats(request[r], u) => request[r].at = "judging" /\ Top \in request[r].held

LEMMA SafeInitially == Init => \E u \in Users : OwnerSafe(u)
<1> SUFFICES ASSUME Init PROVE \E u \in Users : OwnerSafe(u)
  OBVIOUS
<1>1. PICK u \in Users :
        user = [x \in {u} |-> [rank |-> Owner, extra |-> {}, denied |-> {}]]
  BY DEF Init
<1>2. \A r \in Requests : ~Unseats(request[r], u)
  BY DEF Init, Unseats, Pending, Idle
<1> QED
  BY <1>1, <1>2 DEF OwnerSafe

(* The owner's role is at the end of the order: there is no promotion.      *)
LEMMA OwnerIsLast ==
  ASSUME TypeInv, cache = Cached(table), order \in Sortings(cache)
  PROVE  NextRank(Owner) = {}
<1> SUFFICES ASSUME NEW next \in NextRank(Owner) PROVE FALSE
  OBVIOUS
<1>1. PICK i \in 1..(Len(order) - 1) : order[i] = Owner /\ next = order[i + 1]
        /\ i + 1 \in 1..Len(order)
  BY NextIsRole DEF TypeInv
<1>2. IsCopy(cache) /\ order \in Seq(DOMAIN cache) /\ Ascending(order, cache)
      /\ \A k, j \in 1..Len(order) : k # j => order[k] # order[j]
  BY SortingsLists DEF TypeInv
<1>3. Len(order) \in Nat /\ i \in 1..Len(order) /\ i + 1 \in 2..Len(order) /\ (i + 1) - 1 = i
  BY <1>1, LenProperties DEF TypeInv
<1>4. order[i + 1] # Owner /\ order[i + 1] \in DOMAIN cache
  <2>1. i + 1 # i
    BY <1>3
  <2>2. order[i + 1] # order[i]
    BY <1>1, <1>2, <1>3, <2>1
  <2> QED
    BY <1>1, <1>2, <2>2, ElementOfSeq
<1>5. cache[order[i]].level <= cache[order[i + 1]].level
  <2> DEFINE k == i + 1
  <2>1. k \in 2..Len(order) /\ k - 1 = i
    BY <1>3
  <2> HIDE DEF k
  <2>2. cache[order[k - 1]].level <= cache[order[k]].level
    BY <1>2, <2>1 DEF Ascending
  <2> QED
    BY <2>1, <2>2 DEF k
<1>6. cache[Owner].level = Top /\ cache[order[i + 1]].level < Top
  BY <1>4, CachedRows DEF TypeInv
<1>7. cache[order[i + 1]].level \in Nat
  BY <1>2, <1>4, LevelsAreNumbers DEF IsCopy, IsMap, CopyRow
<1> QED
  BY <1>1, <1>5, <1>6, <1>7, LevelsAreNumbers

LEMMA SafeStays ==
  ASSUME TypeInv, NEW u, OwnerSafe(u), NEW r \in Requests, NEW q,
         request' = [request EXCEPT ![r] = q],
         Unseats(q, u) => q.at = "judging" /\ Top \in q.held,
         u \in DOMAIN user', user'[u].rank = Owner
  PROVE  OwnerSafe(u)'
<1>1. request'[r] = q /\ \A s \in Requests : s # r => request'[s] = request[s]
  BY SlotChanged DEF TypeInv
<1>2. \A s \in Requests : Unseats(request'[s], u) =>
        request'[s].at = "judging" /\ Top \in request'[s].held
  BY <1>1 DEF OwnerSafe
<1> QED
  BY <1>2 DEF OwnerSafe, Unseats, Pending

LEMMA SafeKept ==
  ASSUME Quiet, TypeInv, Copying, [Next]_vars, NEW u, OwnerSafe(u)
  PROVE  OwnerSafe(u)'
<1>a. ~Unseats(Idle, u)
  BY DEF Unseats, Pending, Idle
<1>b. u \in DOMAIN user /\ user[u].rank = Owner
  BY DEF OwnerSafe
<1>1. CASE Restart
  BY <1>1, <1>a, <1>b DEF Restart, OwnerSafe, Unseats, Pending
<1>2. ASSUME NEW r \in Requests, Arrival(r) PROVE OwnerSafe(u)'
  <2>1. PICK q : /\ Fresh(q) /\ MayStart(q.op)
                 /\ request' = [request EXCEPT ![r] = q]
                 /\ UNCHANGED <<table, cache, order, user, before>>
    BY <1>2, Arrivals DEF Begun
  <2>2. ASSUME Unseats(q, u) PROVE q.at = "judging" /\ Top \in q.held
    <3>1. q.op \in {"set_rank", "delete_user"} /\ q.id = u
      BY <2>2 DEF Unseats, Pending
    <3>2. Reloading = {}
      BY <2>1, <3>1 DEF MayStart, Edits
    <3>3. cache = Cached(table) /\ order \in Sortings(cache)
      BY <3>2 DEF Copying, CacheMatches
    <3>4. NextRank(user[u].rank) = {}
      BY <1>b, <3>3, OwnerIsLast
    <3>5. RankLevel(cache, Owner) = Top
      <4>1. Owner \in DOMAIN cache /\ cache[Owner].level = Top
        BY <3>3, CachedRows, RolesAssumption DEF TypeInv, IsRoles
      <4> QED
        BY <4>1 DEF RankLevel, Known
    <3> QED
      BY <1>b, <2>1, <3>1, <3>4, <3>5 DEF Fresh
  <2> QED
    BY <1>b, <2>1, <2>2, SafeStays
<1>3. ASSUME NEW r \in Requests, CommitRole(r) \/ Reload(r) PROVE OwnerSafe(u)'
  <2>1. PICK q : /\ request' = [request EXCEPT ![r] = q] /\ ~(q.at \in {"judging", "checked"})
                 /\ UNCHANGED user
    <3>1. CASE CommitRole(r)
      <4> DEFINE done == [at |-> "committed"]
      <4>1. request' = [request EXCEPT ![r] = Idle] \/ request' = [request EXCEPT ![r] = done]
        BY <3>1 DEF CommitRole
      <4>2. done.at = "committed" /\ Idle.at = "idle" /\ UNCHANGED user
        BY <3>1 DEF CommitRole, Idle
      <4> HIDE DEF done
      <4> QED
        BY <4>1, <4>2
    <3>2. CASE Reload(r)
      BY <3>2, ReloadSlot
    <3> QED
      BY <1>3, <3>1, <3>2
  <2> QED
    BY <1>b, <2>1, SafeStays DEF Unseats, Pending
<1>4. ASSUME NEW r \in Requests, Compare(r) PROVE OwnerSafe(u)'
  <2> DEFINE q == request[r]
             next == Checked(q.op, q.id, q.new)
             mine == RankLevel(cache, q.rank)
  <2>1. /\ q.at = "judging" /\ UNCHANGED <<table, cache, order, user, before>>
        /\ \/ request' = [request EXCEPT ![r] = Idle]
           \/ request' = [request EXCEPT ![r] = next] /\ \A l \in q.held : l < mine
    BY <1>4 DEF Compare
  <2>2. mine \in Nat /\ mine <= Top
    BY LevelInLadder DEF TypeInv
  <2>3. next.op = q.op /\ next.id = q.id
    BY CheckedFields
  <2> HIDE DEF next, mine
  <2>4. CASE request' = [request EXCEPT ![r] = Idle]
    BY <1>a, <1>b, <2>1, <2>4, SafeStays
  <2>5. CASE request' = [request EXCEPT ![r] = next] /\ \A l \in q.held : l < mine
    <3>1. Top \notin q.held
      BY <2>2, <2>5, LevelsAreNumbers
    <3>2. ~Unseats(q, u)
      BY <3>1 DEF OwnerSafe
    <3>3. ~Unseats(next, u)
      BY <2>1, <2>3, <3>2 DEF Unseats, Pending
    <3> QED
      BY <1>b, <2>1, <2>5, <3>3, SafeStays
  <2> QED
    BY <2>1, <2>4, <2>5
<1>5. ASSUME NEW r \in Requests, CommitUser(r) PROVE OwnerSafe(u)'
  <2> DEFINE q == request[r]
             fits == (q.id \in DOMAIN user) = (q.op # "create_user")
  <2>1. /\ q.at = "checked" /\ q.op \in Assignments \cup {"delete_user", "set_permissions"}
        /\ user' = IF ~fits THEN user ELSE
             CASE q.op = "create_user" ->
                    Put(user, q.id, [rank |-> q.new, extra |-> {}, denied |-> {}])
               [] q.op = "set_rank" -> [user EXCEPT ![q.id].rank = q.new]
               [] q.op = "delete_user" -> Without(user, q.id)
               [] OTHER -> [user EXCEPT ![q.id].extra = q.new.extra,
                                        ![q.id].denied = q.new.denied]
        /\ request' = [request EXCEPT ![r] = Idle]
    BY <1>5 DEF CommitUser, Ready
  <2>2. q.op \in {"set_rank", "delete_user"} => q.id # u
    BY <2>1 DEF OwnerSafe, Unseats, Pending
  <2>3. user[u] \in UserRow
    BY <1>b DEF TypeInv, IsMap
  <2> HIDE DEF q
  <2>4. u \in DOMAIN user' /\ user'[u].rank = Owner
    <3>1. CASE ~fits
      BY <1>b, <2>1, <3>1
    <3>2. CASE fits /\ q.op = "create_user"
      BY <1>b, <2>1, <3>2 DEF Put
    <3>3. CASE fits /\ q.op = "set_rank"
      BY <1>b, <2>1, <2>2, <3>3
    <3>4. CASE fits /\ q.op = "delete_user"
      BY <1>b, <2>1, <2>2, <3>4 DEF Without
    <3>5. CASE fits /\ q.op = "set_permissions"
      <4>1. user' = [user EXCEPT ![q.id].extra = q.new.extra, ![q.id].denied = q.new.denied]
        BY <2>1, <3>5
      <4> QED
        BY <1>b, <2>3, <4>1 DEF UserRow
    <3> QED
      BY <2>1, <3>1, <3>2, <3>3, <3>4, <3>5 DEF Assignments
  <2> QED
    BY <1>a, <2>1, <2>4, SafeStays
<1>6. CASE UNCHANGED vars
  BY <1>6 DEF OwnerSafe, Unseats, Pending, vars
<1> QED
  BY <1>1, <1>2, <1>3, <1>4, <1>5, <1>6 DEF Next, Handler

(* When ranks are not compared during a reload, no sequence of rank changes *)
(* and deletions leaves the system without an owner account: whoever owns   *)
(* the first account is out of everybody's reach.                           *)
THEOREM OwnerStays == Quiet => (Spec => []SomeOwner)
<1> SUFFICES ASSUME Quiet PROVE Spec => []SomeOwner
  OBVIOUS
<1> DEFINE Safe == \E u \in Users : OwnerSafe(u)
<1>1. Init => Safe
  BY SafeInitially
<1>2. TypeInv /\ Copying /\ Safe /\ [Next]_vars => Safe'
  BY SafeKept
<1>3. Safe => SomeOwner
  BY DEF OwnerSafe, SomeOwner
<1> HIDE DEF Safe
<1> QED
  BY <1>1, <1>2, <1>3, TypesAlways, CopyAlways, PTL DEF Spec

=============================================================================
