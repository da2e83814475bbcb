----------------------------- MODULE Provisioning -----------------------------
(***************************************************************************)
(* Projects (cities), who and what belongs to them, and the controllers    *)
(* paired with cabinets: api/v1/projects.py, services/tenancy.py,          *)
(* api/v1/devices.py, services/device_registry.py, the project side of the *)
(* user and cabinet registries, and what start-up does to these tables.    *)
(*                                                                         *)
(* The endpoints run on worker threads: what a request checked, and the    *)
(* rows it loaded, it commits in a later step.  Telemetry is judged and    *)
(* stored by the event loop.                                               *)
(***************************************************************************)
EXTENDS Naturals, FiniteSets

CONSTANTS
  ProjectIds, Users, Codes, Serials,
  Owners,       (* users whose rank holds the wildcard                      *)
  DemoProject,  (* the project the demo seed ensures                        *)
  DemoCabinets, (* the cabinets it ensures                                  *)
  DemoMode,     (* settings.demo_mode                                       *)
  Strict,       (* settings.require_device_serial                           *)
  Requests,     (* slots for requests that may be in flight at once         *)
  Orderly,      (* TRUE: certain requests do not overlap, see Clash         *)
  Careful,      (* TRUE: owners name projects that exist                    *)
  NoRow, None

ASSUME SetsAssumption ==
  Owners \subseteq Users /\ DemoProject \in ProjectIds /\ DemoCabinets \subseteq Codes
ASSUME SwitchAssumption ==
  DemoMode \in BOOLEAN /\ Strict \in BOOLEAN /\ Orderly \in BOOLEAN /\ Careful \in BOOLEAN
VARIABLES
  projects,  (* ids in the projects table                                   *)
  home,      (* users table: id -> [main: project_id, all: project_ids]     *)
  place,     (* cabinets table: code -> project_id                          *)
  device,    (* devices table: serial -> [cab, active]                      *)
  request,   (* request slot -> what its handler is about to commit         *)
  heard,     (* the message the event loop has judged and not yet stored    *)
  source     (* bus.last_telemetry: whose data is shown for a cabinet       *)

tables == <<projects, home, place, device>>
vars == <<tables, request, heard, source>>

MaybeProject == ProjectIds \cup {None}
Home == [main : MaybeProject, all : SUBSET ProjectIds]
Device == [cab : Codes, active : BOOLEAN]
Nobody == [main |-> None, all |-> {}]

ASSUME FreshAssumption ==
  /\ None \notin ProjectIds \cup Serials \cup {NoRow, "unsigned"}
  /\ NoRow \notin Home \cup Device \cup MaybeProject

Accounts == {u \in Users : home[u] # NoRow}
Cabinets == {c \in Codes : place[c] # NoRow}
Devices == {s \in Serials : device[s] # NoRow}
Paired(c) == {s \in Devices : device[s].cab = c /\ device[s].active}

-----------------------------------------------------------------------------
(* services/tenancy.py                                                      *)

IsGlobal(u) == u \in Owners

(* scoped_project_ids for whoever is not an owner.                          *)
ScopedIds(u) ==
  home[u].all \cup (IF home[u].main = None THEN {} ELSE {home[u].main})

(* scope_query, with an owner's choice of a project or None.                *)
ScopeQuery(u, choice) ==
  {c \in Cabinets :
     IF IsGlobal(u) THEN choice = None \/ place[c] = choice
     ELSE IF ScopedIds(u) # {} THEN place[c] \in ScopedIds(u)
     ELSE place[c] = None}

(* Faulty variant: somebody without projects sees everything.               *)
EnsureVisibleOpen(u, pid) == IsGlobal(u) \/ ScopedIds(u) = {} \/ pid \in ScopedIds(u)

EnsureVisible(u, pid) ==
  \/ IsGlobal(u)
  \/ IF ScopedIds(u) # {} THEN pid \in ScopedIds(u) ELSE pid = None

(* GET /projects                                                            *)
ListProjects(u) == IF IsGlobal(u) THEN projects ELSE projects \cap ScopedIds(u)

-----------------------------------------------------------------------------
(* Requests                                                                 *)

Idle == [op |-> "idle"]
InFlight == {r \in Requests : request[r] # Idle}

(* Requests that do harm to each other when they overlap: whatever names a  *)
(* project and its deletion, two that write one user's projects, two        *)
(* registrations for one cabinet.                                           *)
Clash(p, q) ==
  \/ "delete_project" \in {p.op, q.op}
  \/ /\ {p.op, q.op} \subseteq {"assign_user", "create_user"}
     /\ p.user = q.user
  \/ p.op = "register" /\ q.op = "register" /\ p.cab = q.cab

Start(r, q) ==
  /\ request[r] = Idle
  /\ Orderly => \A x \in InFlight : ~Clash(request[x], q)
  /\ request' = [request EXCEPT ![r] = q]
  /\ UNCHANGED <<tables, heard, source>>

Doing(r, op) == request[r].op = op
Finish(r) == request' = [request EXCEPT ![r] = Idle]

-----------------------------------------------------------------------------
(* Projects                                                                 *)

(* POST /projects                                                           *)
CreateProject(p) ==
  /\ p \notin projects
  /\ projects' = projects \cup {p}
  /\ UNCHANGED <<home, place, device, request, heard, source>>

(* Faulty variant: only the users are looked at.                            *)
DeleteProjectOfNobody(r) ==
  \E p \in projects :
    /\ \A u \in Accounts : home[u].main # p /\ p \notin home[u].all
    /\ Start(r, [op |-> "delete_project", project |-> p])

(* DELETE /projects/{id}: refused while a user or a cabinet refers to it.   *)
DeleteProject(r) ==
  \E p \in projects :
    /\ \A u \in Accounts : home[u].main # p /\ p \notin home[u].all
    /\ \A c \in Cabinets : place[c] # p
    /\ Start(r, [op |-> "delete_project", project |-> p])

DeleteProjectCommit(r) ==
  /\ Doing(r, "delete_project")
  /\ projects' = projects \ {request[r].project}
  /\ Finish(r)
  /\ UNCHANGED <<home, place, device, heard, source>>

(* POST /projects/assign-user: a list of existing projects, the first of    *)
(* which becomes the main one.                                              *)
AssignUser(r) ==
  \E u \in Accounts, ids \in SUBSET projects :
    \E main \in IF ids = {} THEN {None} ELSE ids :
      Start(r, [op |-> "assign_user", user |-> u, old |-> home[u],
                new |-> [main |-> main, all |-> ids]])

(* Faulty variant: the main project is left as it was.                      *)
AssignUserCommitListOnly(r) ==
  /\ Doing(r, "assign_user")
  /\ LET q == request[r]
     IN home' = IF home[q.user] = NoRow THEN home
                ELSE [home EXCEPT ![q.user].all = q.new.all]
  /\ Finish(r)
  /\ UNCHANGED <<projects, place, device, heard, source>>

(* The UPDATE writes the columns that differ from the loaded row only.      *)
AssignUserCommit(r) ==
  /\ Doing(r, "assign_user")
  /\ LET q == request[r]
         Column(f) == IF q.new[f] # q.old[f] THEN q.new[f] ELSE home[q.user][f]
     IN home' = IF home[q.user] = NoRow THEN home
                ELSE [home EXCEPT ![q.user] = [main |-> Column("main"), all |-> Column("all")]]
  /\ Finish(r)
  /\ UNCHANGED <<projects, place, device, heard, source>>

(* POST /projects/{id}/assign-cabinet/{code}, and PATCH of a cabinet's      *)
(* project by an owner, which does not ask whether the project exists.      *)
AssignCabinet(r) ==
  \E c \in Cabinets, p \in MaybeProject :
    /\ Careful => p \in projects \cup {None}
    /\ Start(r, [op |-> "assign_cabinet", cab |-> c, old |-> place[c], new |-> p])

AssignCabinetCommit(r) ==
  /\ Doing(r, "assign_cabinet")
  /\ LET q == request[r]
     IN place' = IF place[q.cab] = NoRow \/ q.new = q.old THEN place
                 ELSE [place EXCEPT ![q.cab] = q.new]
  /\ Finish(r)
  /\ UNCHANGED <<projects, home, device, heard, source>>

-----------------------------------------------------------------------------
(* Users and cabinets                                                       *)

(* POST /users: a new user gets the main project of a scoped creator.       *)
CreateUser(r) ==
  \E u \in Users \ Accounts, actor \in Accounts :
    LET pid == IF IsGlobal(actor) THEN None ELSE home[actor].main
    IN Start(r, [op |-> "create_user", user |-> u,
         new |-> [main |-> pid, all |-> IF pid = None THEN {} ELSE {pid}]])

CreateUserCommit(r) ==
  /\ Doing(r, "create_user")
  /\ home' = IF home[request[r].user] # NoRow THEN home
             ELSE [home EXCEPT ![request[r].user] = request[r].new]
  /\ Finish(r)
  /\ UNCHANGED <<projects, place, device, heard, source>>

(* Faulty variant: nobody's rank is compared.                               *)
DeleteUserAnyRank(u) ==
  /\ u \in Accounts
  /\ home' = [home EXCEPT ![u] = NoRow]
  /\ UNCHANGED <<projects, place, device, request, heard, source>>

(* DELETE /users/{id}: an owner's rank is nobody's to delete.               *)
DeleteUser(u) ==
  /\ u \in Accounts \ Owners
  /\ home' = [home EXCEPT ![u] = NoRow]
  /\ UNCHANGED <<projects, place, device, request, heard, source>>

(* POST /cabinets/registry: a scoped creator's cabinet goes to his main     *)
(* project, an owner's where the body says.                                 *)
CreateCabinet(r) ==
  \E c \in Codes \ Cabinets, actor \in Accounts, p \in MaybeProject :
    /\ ~IsGlobal(actor) => p = home[actor].main
    /\ Careful /\ IsGlobal(actor) => p \in projects \cup {None}
    /\ Start(r, [op |-> "create_cabinet", cab |-> c, new |-> p])

CreateCabinetCommit(r) ==
  /\ Doing(r, "create_cabinet")
  /\ place' = IF place[request[r].cab] # NoRow THEN place
              ELSE [place EXCEPT ![request[r].cab] = request[r].new]
  /\ Finish(r)
  /\ UNCHANGED <<projects, home, device, heard, source>>

(* DELETE /cabinets/registry/{code} and wipe-all: the devices stay.         *)
DeleteCabinets(cs) ==
  /\ place' = [c \in Codes |-> IF c \in cs THEN NoRow ELSE place[c]]
  /\ source' = [c \in Codes |-> IF c \in cs THEN None ELSE source[c]]
  /\ UNCHANGED <<projects, home, device, request, heard>>

DeleteCabinet(c) == c \in Cabinets /\ DeleteCabinets({c})
WipeTopology == DeleteCabinets(Codes)

-----------------------------------------------------------------------------
(* Devices                                                                  *)

(* Faulty variant: the pairing a cabinet already has is not looked up.      *)
RegisterDeviceBeside(r) ==
  \E actor \in Accounts, c \in Cabinets, s \in Serials \ Devices :
    /\ EnsureVisible(actor, place[c])
    /\ Start(r, [op |-> "register", cab |-> c, serial |-> s, old |-> {}])

(* POST /devices: the active devices of the cabinet are loaded ...          *)
RegisterDevice(r) ==
  \E actor \in Accounts, c \in Cabinets, s \in Serials \ Devices :
    /\ EnsureVisible(actor, place[c])
    /\ Start(r, [op |-> "register", cab |-> c, serial |-> s, old |-> Paired(c)])

(* ... and deactivated with the insertion of the new one, all or nothing.   *)
RegisterCommit(r) ==
  /\ Doing(r, "register")
  /\ LET q == request[r]
     IN device' = IF q.serial \in Devices THEN device
          ELSE [s \in Serials |->
            IF s = q.serial THEN [cab |-> q.cab, active |-> TRUE]
            ELSE IF s \in q.old THEN [device[s] EXCEPT !.active = FALSE]
            ELSE device[s]]
  /\ Finish(r)
  /\ UNCHANGED <<projects, home, place, heard, source>>

(* DELETE /devices/{id}                                                     *)
DeactivateDevice(s) ==
  /\ s \in Devices
  /\ \E actor \in Accounts :
       device[s].cab \in Cabinets => EnsureVisible(actor, place[device[s].cab])
  /\ device' = [device EXCEPT ![s].active = FALSE]
  /\ UNCHANGED <<projects, home, place, request, heard, source>>

(* Faulty variant: only strict mode looks at who sends.                     *)
AllowTelemetryLoosely(c, s) ==
  IF Paired(c) = {} THEN ~(Strict /\ s # None)
  ELSE ~Strict \/ s \in Paired(c)

(* allow_telemetry for a message with serial s, or None if it has none.     *)
AllowTelemetry(c, s) ==
  IF Paired(c) = {} THEN ~(Strict /\ s # None)
  ELSE IF s = None THEN ~Strict
  ELSE s \in Paired(c)

(* ingest: the verdict, then the data are stored.  No await lies between,   *)
(* but a worker thread may commit.                                          *)
Hear(c, s) ==
  /\ heard = None
  /\ AllowTelemetry(c, s)
  /\ heard' = [cab |-> c, serial |-> s]
  /\ UNCHANGED <<tables, request, source>>

Shown(serial) == IF serial = None THEN "unsigned" ELSE serial

Store ==
  /\ heard # None
  /\ source' = [source EXCEPT ![heard.cab] = Shown(heard.serial)]
  /\ heard' = None
  /\ UNCHANGED <<tables, request>>

-----------------------------------------------------------------------------
(* Start-up                                                                 *)

(* _migrate_user_projects: an empty list is filled from the main project.   *)
Migrated(h) ==
  IF h = NoRow \/ h.all # {} \/ h.main = None THEN h ELSE [h EXCEPT !.all = {h.main}]

(* seed_demo_cabinets: a demo cabinet that is missing, or in no project, is *)
(* put into the demo project.                                               *)
DemoPlace(c) ==
  IF DemoMode /\ c \in DemoCabinets /\ place[c] \in {NoRow, None} THEN DemoProject
  ELSE place[c]

Restart ==
  /\ projects' = IF DemoMode THEN projects \cup {DemoProject} ELSE projects
  /\ home' = [u \in Users |-> Migrated(home[u])]
  /\ place' = [c \in Codes |-> DemoPlace(c)]
  /\ request' = [r \in Requests |-> Idle]
  /\ heard' = None
  /\ source' = [c \in Codes |-> None]
  /\ UNCHANGED device

Init ==
  /\ projects = {}
  /\ home = [u \in Users |-> IF u \in Owners THEN Nobody ELSE NoRow]
  /\ place = [c \in Codes |-> NoRow]
  /\ device = [s \in Serials |-> NoRow]
  /\ request = [r \in Requests |-> Idle]
  /\ heard = None
  /\ source = [c \in Codes |-> None]

Handler(r) ==
  \/ DeleteProject(r) \/ DeleteProjectCommit(r)
  \/ AssignUser(r) \/ AssignUserCommit(r) \/ AssignCabinet(r) \/ AssignCabinetCommit(r)
  \/ CreateUser(r) \/ CreateUserCommit(r) \/ CreateCabinet(r) \/ CreateCabinetCommit(r)
  \/ RegisterDevice(r) \/ RegisterCommit(r)

Next ==
  \/ \E r \in Requests : Handler(r)
  \/ \E p \in ProjectIds : CreateProject(p)
  \/ \E u \in Users : DeleteUser(u)
  \/ \E c \in Codes : DeleteCabinet(c)
  \/ WipeTopology
  \/ \E s \in Serials : DeactivateDevice(s)
  \/ \E c \in Codes, s \in Serials \cup {None} : Hear(c, s)
  \/ Store
  \/ Restart

Spec == Init /\ [][Next]_vars

-----------------------------------------------------------------------------
(* Properties                                                               *)

Request ==
  {Idle} \cup [op : {"delete_project"}, project : ProjectIds]
  \cup [op : {"assign_user"}, user : Users, old : Home, new : Home]
  \cup [op : {"assign_cabinet"}, cab : Codes, old : MaybeProject, new : MaybeProject]
  \cup [op : {"create_user"}, user : Users, new : Home]
  \cup [op : {"create_cabinet"}, cab : Codes, new : MaybeProject]
  \cup [op : {"register"}, cab : Codes, serial : Serials, old : SUBSET Serials]

(* Types; the owners' accounts are there.                                   *)
TypeOK ==
  /\ projects \subseteq ProjectIds
  /\ home \in [Users -> Home \cup {NoRow}] /\ Owners \subseteq Accounts
  /\ place \in [Codes -> MaybeProject \cup {NoRow}]
  /\ device \in [Serials -> Device \cup {NoRow}]
  /\ request \in [Requests -> Request]
  /\ heard \in [cab : Codes, serial : Serials \cup {None}] \cup {None}
  /\ source \in [Codes -> Serials \cup {None, "unsigned"}]

(* No user and no cabinet refers to a project that is gone, which           *)
(* delete_project refuses to cause ("aún lo referencian").                  *)
NoDangling ==
  /\ \A u \in Accounts : home[u].all \subseteq projects /\ home[u].main \in projects \cup {None}
  /\ \A c \in Cabinets : place[c] \in projects \cup {None}

(* A user's main project, where his cabinets and users are created, is one  *)
(* of his projects, and he has one if he has any.                           *)
HomeInScope ==
  \A u \in Accounts :
    IF home[u].main = None THEN home[u].all = {} ELSE home[u].main \in home[u].all

(* The lists (scope_query) and the single-resource checks (ensure_visible)  *)
(* show the same cabinets, and a user's own project is among those listed.  *)
ScopesAgree ==
  /\ \A u \in Accounts, c \in Cabinets :
       c \in ScopeQuery(u, None) <=> EnsureVisible(u, place[c])
  /\ \A u \in Accounts : home[u].main # None => home[u].main \in ListProjects(u)

(* The controller of a cabinet, as Binding sees it.                         *)
One(S) ==
  IF S = {} THEN None
  ELSE IF Cardinality(S) = 1 THEN CHOOSE s \in S : TRUE ELSE "several"
Pairing(c) == One(Paired(c))

(* The registry implements Binding: at most one controller per cabinet,     *)
(* each serial paired once.                                                 *)
Binding == INSTANCE Binding WITH
  paired <- [c \in Codes |-> Pairing(c)], used <- Devices
BindingSpec == Binding!Spec

(* "only that serial may publish for it" (MQTTBus.ingest): once what was    *)
(* judged before the pairing is through, a paired controller's data are not *)
(* displaced by other hardware as long as it stays paired; unless strict,   *)
(* messages without a serial still count as its own.                        *)
Own(c, s) ==
  LET signed == IF Strict THEN {s} ELSE {s, None}
  IN /\ s \in Paired(c)
     /\ source[c] \in {None} \cup {Shown(x) : x \in signed}
     /\ heard # None /\ heard.cab = c => heard.serial \in signed

OwnDataStay ==
  [][\A c \in Codes, s \in Serials : Own(c, s) /\ (s \in Paired(c))' => Own(c, s)']_vars
=============================================================================
