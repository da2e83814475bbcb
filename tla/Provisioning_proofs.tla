------------------------- MODULE Provisioning_proofs -------------------------
(***************************************************************************)
(* Machine-checked proofs about projects, users, cabinets and controllers, *)
(* for any numbers of each: types; no reference to a project that is gone; *)
(* a user's main project among his projects; lists and single checks that  *)
(* agree; one controller per cabinet (the implementation of Binding).      *)
(***************************************************************************)
EXTENDS Provisioning, FiniteSetTheorems, TLAPS

-----------------------------------------------------------------------------
(* Types                                                                    *)

(* What the rows are when they are there.                                   *)
LEMMA Rows ==
  ASSUME TypeOK
  PROVE  /\ \A u \in Users : u \in Accounts => home[u] \in Home
         /\ \A u \in Users : u \notin Accounts => home[u] = NoRow
         /\ \A c \in Codes : c \in Cabinets => place[c] \in MaybeProject
         /\ \A s \in Serials : s \in Devices => device[s] \in Device
BY DEF TypeOK, Accounts, Cabinets, Devices

(* What a request holds, by its operation.                                  *)
LEMMA RequestFields ==
  ASSUME TypeOK, NEW r \in Requests
  PROVE  /\ request[r].op = "delete_project" => request[r].project \in ProjectIds
         /\ request[r].op = "assign_user" =>
              request[r].user \in Users /\ request[r].old \in Home /\ request[r].new \in Home
         /\ request[r].op = "assign_cabinet" =>
              /\ request[r].cab \in Codes
              /\ request[r].old \in MaybeProject /\ request[r].new \in MaybeProject
         /\ request[r].op = "create_user" => request[r].user \in Users /\ request[r].new \in Home
         /\ request[r].op = "create_cabinet" =>
              request[r].cab \in Codes /\ request[r].new \in MaybeProject
         /\ request[r].op = "register" =>
              /\ request[r].cab \in Codes /\ request[r].serial \in Serials
              /\ request[r].old \in SUBSET Serials
<1>1. request[r] \in Request
  BY DEF TypeOK
<1> QED
  BY <1>1 DEF Request, Idle

(* The devices a registration has loaded are rows of its cabinet, and stay  *)
(* so: rows are only added and keep their cabinet.  TypeOK with this is     *)
(* inductive.                                                               *)
OldRegistered ==
  \A r \in Requests : request[r].op = "register" =>
    \A s \in request[r].old : s \in Devices /\ device[s].cab = request[r].cab

LEMMA StartType ==
  ASSUME TypeOK, NEW r \in Requests, NEW q \in Request, Start(r, q)
  PROVE  TypeOK'
BY DEF TypeOK, Start, tables, Accounts

LEMMA FinishType ==
  ASSUME TypeOK, NEW r \in Requests, Finish(r)
  PROVE  request' \in [Requests -> Request]
BY DEF TypeOK, Finish, Request

LEMMA InitType == Init => TypeOK
BY SetsAssumption, FreshAssumption
   DEF Init, TypeOK, Accounts, Nobody, Home, MaybeProject, Request, Idle

(* The first step of a handler, and what is true of what it has loaded.     *)
Loads(r) ==
  \/ DeleteProject(r) \/ AssignUser(r) \/ AssignCabinet(r)
  \/ CreateUser(r) \/ CreateCabinet(r) \/ RegisterDevice(r)

HomeOf(h) == IF h.main = None THEN h.all = {} ELSE h.main \in h.all
Known(p) == p \in projects \cup {None}
Unreferenced(p) ==
  /\ \A u \in Accounts : home[u].main # p /\ p \notin home[u].all
  /\ \A c \in Cabinets : place[c] # p
OfSomebody(p) == \E u \in Accounts : p = home[u].main

Facts(q) ==
  /\ q.op # "idle"
  /\ q.op = "delete_project" => Unreferenced(q.project)
  /\ q.op = "assign_user" =>
       /\ q.user \in Accounts /\ q.old = home[q.user]
       /\ HomeOf(q.new) /\ q.new.all \subseteq projects /\ Known(q.new.main)
  /\ q.op = "create_user" =>
       /\ HomeOf(q.new) /\ q.new.all \subseteq {q.new.main} \ {None}
       /\ q.new.main = None \/ OfSomebody(q.new.main)
  /\ q.op = "assign_cabinet" => (Careful => Known(q.new))
  /\ q.op = "create_cabinet" => (Careful => Known(q.new) \/ OfSomebody(q.new))
  /\ q.op = "register" => q.old = Paired(q.cab)

LEMMA LoadFacts ==
  ASSUME TypeOK, NEW r \in Requests, Loads(r)
  PROVE  \E q \in Request : Start(r, q) /\ Facts(q)
<1>1. CASE DeleteProject(r)
  <2>1. PICK p \in projects :
          /\ Unreferenced(p)
          /\ Start(r, [op |-> "delete_project", project |-> p])
    BY <1>1 DEF DeleteProject, Unreferenced
  <2> DEFINE q == [op |-> "delete_project", project |-> p]
  <2>2. q \in Request
    BY DEF Request, TypeOK
  <2>3. Facts(q)
    BY <2>1 DEF Facts
  <2> QED
    BY <2>1, <2>2, <2>3
<1>2. CASE AssignUser(r)
  <2>1. PICK u \in Accounts, ids \in SUBSET projects :
          \E main \in IF ids = {} THEN {None} ELSE ids :
            Start(r, [op |-> "assign_user", user |-> u, old |-> home[u],
                      new |-> [main |-> main, all |-> ids]])
    BY <1>2 DEF AssignUser
  <2>2. PICK main \in IF ids = {} THEN {None} ELSE ids :
            Start(r, [op |-> "assign_user", user |-> u, old |-> home[u],
                      new |-> [main |-> main, all |-> ids]])
    BY <2>1
  <2> DEFINE h == [main |-> main, all |-> ids]
             q == [op |-> "assign_user", user |-> u, old |-> home[u], new |-> h]
  <2>3. u \in Users /\ home[u] \in Home
    BY Rows DEF Accounts
  <2>4. h \in Home /\ ids \subseteq projects /\ Known(main)
    BY DEF Home, MaybeProject, TypeOK, Known
  <2>5. HomeOf(h)
    BY <2>4, FreshAssumption DEF HomeOf, TypeOK
  <2>6. q \in Request
    BY <2>3, <2>4 DEF Request
  <2>7. Facts(q)
    BY <2>4, <2>5 DEF Facts
  <2> QED
    BY <2>2, <2>6, <2>7
<1>3. CASE AssignCabinet(r)
  <2>1. PICK c \in Cabinets, p \in MaybeProject :
          /\ Careful => Known(p)
          /\ Start(r, [op |-> "assign_cabinet", cab |-> c, old |-> place[c], new |-> p])
    BY <1>3 DEF AssignCabinet, Known
  <2> DEFINE q == [op |-> "assign_cabinet", cab |-> c, old |-> place[c], new |-> p]
  <2>2. q \in Request
    BY Rows DEF Cabinets, Request
  <2>3. Facts(q)
    BY <2>1 DEF Facts
  <2> QED
    BY <2>1, <2>2, <2>3
<1>4. CASE CreateUser(r)
  <2> DEFINE pid(actor) == IF IsGlobal(actor) THEN None ELSE home[actor].main
             new(actor) == [main |-> pid(actor),
                            all |-> IF pid(actor) = None THEN {} ELSE {pid(actor)}]
  <2>1. PICK u \in Users \ Accounts, actor \in Accounts :
          Start(r, [op |-> "create_user", user |-> u, new |-> new(actor)])
    BY <1>4 DEF CreateUser
  <2> DEFINE q == [op |-> "create_user", user |-> u, new |-> new(actor)]
  <2>2. pid(actor) \in MaybeProject /\ (pid(actor) = None \/ OfSomebody(pid(actor)))
    BY Rows DEF Accounts, Home, MaybeProject, OfSomebody
  <2>3. new(actor) \in Home
    BY <2>2 DEF Home, MaybeProject
  <2>4. q \in Request
    BY <2>3 DEF Request
  <2>5. q.new.main = pid(actor) /\ q.new.all = IF pid(actor) = None THEN {} ELSE {pid(actor)}
    OBVIOUS
  <2>6. HomeOf(q.new) /\ q.new.all \subseteq {q.new.main} \ {None}
    BY <2>5 DEF HomeOf
  <2>7. Facts(q)
    <3> HIDE DEF pid
    <3> QED
      BY <2>2, <2>5, <2>6 DEF Facts
  <2> QED
    BY <2>1, <2>4, <2>7
<1>5. CASE CreateCabinet(r)
  <2>1. PICK c \in Codes \ Cabinets, actor \in Accounts, p \in MaybeProject :
          /\ ~IsGlobal(actor) => p = home[actor].main
          /\ Careful /\ IsGlobal(actor) => Known(p)
          /\ Start(r, [op |-> "create_cabinet", cab |-> c, new |-> p])
    BY <1>5 DEF CreateCabinet, Known
  <2> DEFINE q == [op |-> "create_cabinet", cab |-> c, new |-> p]
  <2>2. q \in Request
    BY DEF Request
  <2>3. Facts(q)
    BY <2>1 DEF Facts, OfSomebody
  <2> QED
    BY <2>1, <2>2, <2>3
<1>6. CASE RegisterDevice(r)
  <2>1. PICK c \in Cabinets, s \in Serials \ Devices :
          Start(r, [op |-> "register", cab |-> c, serial |-> s, old |-> Paired(c)])
    BY <1>6 DEF RegisterDevice
  <2> DEFINE q == [op |-> "register", cab |-> c, serial |-> s, old |-> Paired(c)]
  <2>2. q \in Request
    BY DEF Request, Cabinets, Paired, Devices
  <2>3. Facts(q)
    BY DEF Facts
  <2> QED
    BY <2>1, <2>2, <2>3
<1> QED
  BY <1>1, <1>2, <1>3, <1>4, <1>5, <1>6 DEF Loads

LEMMA HandlerType ==
  ASSUME TypeOK, OldRegistered, NEW r \in Requests, Handler(r)
  PROVE  TypeOK'
<1> USE DEF Doing
<1>1. CASE Loads(r)
  BY <1>1, LoadFacts, StartType
<1>2. CASE DeleteProjectCommit(r)
  BY <1>2, FinishType DEF DeleteProjectCommit, TypeOK, Accounts
<1>3. CASE AssignUserCommit(r)
  <2> DEFINE q == request[r]
             Column(f) == IF q.new[f] # q.old[f] THEN q.new[f] ELSE home[q.user][f]
  <2>1. q.user \in Users /\ q.old \in Home /\ q.new \in Home
    BY <1>3, RequestFields DEF AssignUserCommit
  <2>2. home' = IF home[q.user] = NoRow THEN home
                ELSE [home EXCEPT ![q.user] = [main |-> Column("main"), all |-> Column("all")]]
    BY <1>3 DEF AssignUserCommit
  <2>3. ASSUME home[q.user] # NoRow
        PROVE  [main |-> Column("main"), all |-> Column("all")] \in Home
    BY <2>1, <2>3 DEF Home, TypeOK
  <2>4. home' \in [Users -> Home \cup {NoRow}] /\ Owners \subseteq Accounts'
    BY <2>1, <2>2, <2>3, FreshAssumption DEF TypeOK, Accounts
  <2> QED
    BY <1>3, <2>4, FinishType DEF AssignUserCommit, TypeOK
<1>4. CASE AssignCabinetCommit(r)
  BY <1>4, RequestFields, FinishType DEF AssignCabinetCommit, TypeOK, Accounts
<1>5. CASE CreateUserCommit(r)
  <2>1. request[r].user \in Users /\ request[r].new \in Home /\ request[r].new # NoRow
    BY <1>5, RequestFields, FreshAssumption DEF CreateUserCommit
  <2>2. home' \in [Users -> Home \cup {NoRow}] /\ Owners \subseteq Accounts'
    BY <1>5, <2>1 DEF CreateUserCommit, TypeOK, Accounts
  <2> QED
    BY <1>5, <2>2, FinishType DEF CreateUserCommit, TypeOK
<1>6. CASE CreateCabinetCommit(r)
  BY <1>6, RequestFields, FinishType DEF CreateCabinetCommit, TypeOK, Accounts
<1>7. CASE RegisterCommit(r)
  <2> DEFINE q == request[r]
  <2>1. q.cab \in Codes /\ q.serial \in Serials
    BY <1>7, RequestFields DEF RegisterCommit
  <2>2. device' = IF q.serial \in Devices THEN device
          ELSE [s \in Serials |->
            IF s = q.serial THEN [cab |-> q.cab, active |-> TRUE]
            ELSE IF s \in q.old THEN [device[s] EXCEPT !.active = FALSE]
            ELSE device[s]]
    BY <1>7 DEF RegisterCommit
  <2>3. ASSUME NEW s \in q.old
        PROVE  [device[s] EXCEPT !.active = FALSE] \in Device
    <3>1. s \in Serials /\ s \in Devices
      BY <1>7 DEF RegisterCommit, OldRegistered, Devices
    <3> QED
      BY <3>1, Rows DEF Device
  <2>4. [cab |-> q.cab, active |-> TRUE] \in Device
    BY <2>1 DEF Device
  <2>5. device' \in [Serials -> Device \cup {NoRow}]
    BY <2>1, <2>2, <2>3, <2>4 DEF TypeOK
  <2> QED
    BY <1>7, <2>5, FinishType DEF RegisterCommit, TypeOK, Accounts
<1> QED
  BY <1>1, <1>2, <1>3, <1>4, <1>5, <1>6, <1>7 DEF Handler, Loads

LEMMA NextType == TypeOK /\ OldRegistered /\ [Next]_vars => TypeOK'
<1> SUFFICES ASSUME TypeOK, OldRegistered, [Next]_vars
             PROVE  TypeOK'
  OBVIOUS
<1>1. ASSUME NEW r \in Requests, Handler(r)
      PROVE  TypeOK'
  BY <1>1, HandlerType
<1>2. ASSUME NEW p \in ProjectIds, CreateProject(p)
      PROVE  TypeOK'
  BY <1>2 DEF CreateProject, TypeOK, Accounts
<1>3. ASSUME NEW u \in Users, DeleteUser(u)
      PROVE  TypeOK'
  BY <1>3 DEF DeleteUser, TypeOK, Accounts
<1>4. ASSUME NEW cs \in SUBSET Codes, DeleteCabinets(cs)
      PROVE  TypeOK'
  BY <1>4 DEF DeleteCabinets, TypeOK, Accounts
<1>5. ASSUME NEW s \in Serials, DeactivateDevice(s)
      PROVE  TypeOK'
  <2>1. [device[s] EXCEPT !.active = FALSE] \in Device
    BY <1>5, Rows DEF DeactivateDevice, Device
  <2> QED
    BY <1>5, <2>1 DEF DeactivateDevice, TypeOK, Accounts
<1>6. ASSUME NEW c \in Codes, NEW s \in Serials \cup {None}, Hear(c, s)
      PROVE  TypeOK'
  BY <1>6 DEF Hear, TypeOK, Accounts, tables
<1>7. CASE Store
  BY <1>7 DEF Store, TypeOK, Accounts, tables, Shown
<1>8. CASE Restart
  <2>1. \A u \in Users : home[u] \in Home => Migrated(home[u]) \in Home
    BY DEF Migrated, Home, MaybeProject
  <2>2. \A u \in Users : u \notin Accounts => Migrated(home[u]) = NoRow
    BY Rows DEF Migrated
  <2>3. home' = [u \in Users |-> Migrated(home[u])]
    BY <1>8 DEF Restart
  <2>4. home' \in [Users -> Home \cup {NoRow}]
    BY <2>1, <2>2, <2>3, Rows
  <2>5. Owners \subseteq Accounts'
    <3> SUFFICES ASSUME NEW u \in Owners
                 PROVE  home'[u] # NoRow
      BY SetsAssumption DEF Accounts
    <3>1. u \in Users /\ home[u] \in Home
      BY Rows, SetsAssumption DEF TypeOK
    <3> QED
      BY <2>1, <2>3, <3>1, FreshAssumption
  <2>6. place' \in [Codes -> MaybeProject \cup {NoRow}]
    BY <1>8, SetsAssumption DEF Restart, DemoPlace, TypeOK, MaybeProject
  <2>7. request' \in [Requests -> Request]
    BY <1>8 DEF Restart, Request
  <2>8. projects' \subseteq ProjectIds
    BY <1>8, SetsAssumption DEF Restart, TypeOK
  <2> QED
    BY <1>8, <2>4, <2>5, <2>6, <2>7, <2>8 DEF Restart, TypeOK
<1>9. CASE UNCHANGED vars
  BY <1>9 DEF vars, tables, TypeOK, Accounts
<1>10. ASSUME NEW c \in Codes, DeleteCabinet(c)
       PROVE  TypeOK'
  BY <1>4, <1>10 DEF DeleteCabinet
<1>11. CASE WipeTopology
  BY <1>4, <1>11 DEF WipeTopology
<1> QED
  BY <1>1, <1>2, <1>3, <1>5, <1>6, <1>7, <1>8, <1>9, <1>10, <1>11 DEF Next

(* The second step of a handler.                                            *)
Commits(r) ==
  \/ DeleteProjectCommit(r) \/ AssignUserCommit(r) \/ AssignCabinetCommit(r)
  \/ CreateUserCommit(r) \/ CreateCabinetCommit(r) \/ RegisterCommit(r)

(* A step that is no part of a handler and no restart.                      *)
AtOnce ==
  \/ \E p \in ProjectIds : CreateProject(p)
  \/ \E u \in Users : DeleteUser(u)
  \/ \E cs \in SUBSET Codes : DeleteCabinets(cs)
  \/ \E s \in Serials : DeactivateDevice(s)
  \/ \E c \in Codes, s \in Serials \cup {None} : Hear(c, s)
  \/ Store
  \/ UNCHANGED vars

(* The kinds of step there are.                                             *)
LEMMA Steps ==
  ASSUME TypeOK, [Next]_vars
  PROVE  \/ \E r \in Requests, q \in Request : Start(r, q) /\ Facts(q)
         \/ \E r \in Requests : Commits(r)
         \/ AtOnce
         \/ Restart
<1>1. ASSUME NEW r \in Requests, Handler(r)
      PROVE  (\E q \in Request : Start(r, q) /\ Facts(q)) \/ Commits(r)
  BY <1>1, LoadFacts DEF Handler, Loads, Commits
<1>2. ASSUME NEW c \in Codes, DeleteCabinet(c)
      PROVE  AtOnce
  BY <1>2 DEF DeleteCabinet, AtOnce
<1>3. CASE WipeTopology
  BY <1>3 DEF WipeTopology, AtOnce
<1> QED
  BY <1>1, <1>2, <1>3 DEF Next, AtOnce

LEMMA OldKept ==
  ASSUME TypeOK, OldRegistered, [Next]_vars
  PROVE  OldRegistered'
<1>1. ASSUME NEW r \in Requests, NEW q \in Request, Start(r, q), Facts(q)
      PROVE  OldRegistered'
  BY <1>1 DEF Start, Facts, Paired, Devices, OldRegistered, TypeOK, tables
<1>2. ASSUME NEW r \in Requests, RegisterCommit(r)
      PROVE  OldRegistered'
  <2>1. \A s \in Devices : device'[s] # NoRow /\ device'[s].cab = device[s].cab
    <3> SUFFICES ASSUME NEW s \in Devices
                 PROVE  device'[s] # NoRow /\ device'[s].cab = device[s].cab
      OBVIOUS
    <3>1. device[s] \in Device /\ s \in Serials
      BY Rows DEF Devices
    <3>2. [device[s] EXCEPT !.active = FALSE] \in Device
      BY <3>1 DEF Device
    <3> QED
      BY <1>2, <3>1, <3>2, FreshAssumption DEF RegisterCommit, Devices, Device
  <2>2. \A x \in Requests : request'[x].op = "register" => request'[x] = request[x]
    BY <1>2 DEF RegisterCommit, Finish, Idle, TypeOK
  <2> QED
    BY <2>1, <2>2 DEF OldRegistered, Devices
<1>3. ASSUME NEW r \in Requests, Commits(r), ~RegisterCommit(r)
      PROVE  OldRegistered'
  <2>1. device' = device /\ Finish(r)
    BY <1>3 DEF Commits, DeleteProjectCommit, AssignUserCommit, AssignCabinetCommit,
                CreateUserCommit, CreateCabinetCommit
  <2>2. \A x \in Requests : request'[x].op = "register" => request'[x] = request[x]
    BY <2>1 DEF Finish, Idle, TypeOK
  <2> QED
    BY <2>1, <2>2 DEF OldRegistered, Devices
<1>4. ASSUME NEW s \in Serials, DeactivateDevice(s)
      PROVE  OldRegistered'
  <2>1. [device[s] EXCEPT !.active = FALSE] \in Device
        /\ [device[s] EXCEPT !.active = FALSE].cab = device[s].cab
    BY <1>4, Rows DEF DeactivateDevice, Device
  <2>2. \A x \in Devices : x \in Devices' /\ device'[x].cab = device[x].cab
    BY <1>4, <2>1, FreshAssumption DEF DeactivateDevice, Devices, TypeOK
  <2>3. request' = request
    BY <1>4 DEF DeactivateDevice
  <2> QED
    BY <2>2, <2>3 DEF OldRegistered
<1>5. CASE AtOnce /\ ~\E s \in Serials : DeactivateDevice(s)
  BY <1>5 DEF AtOnce, CreateProject, DeleteUser, DeleteCabinets, Hear, Store, OldRegistered,
              Devices, vars, tables
<1>6. CASE Restart
  BY <1>6 DEF Restart, OldRegistered, Idle
<1> QED
  BY <1>1, <1>2, <1>3, <1>4, <1>5, <1>6, Steps

(* The tables, the requests in flight and the telemetry source have the     *)
(* types the endpoints and the event loop give them, in every state.        *)
THEOREM Types == Spec => []TypeOK
<1>1. Init => TypeOK /\ OldRegistered
  BY InitType DEF Init, OldRegistered, Idle
<1>2. TypeOK /\ OldRegistered /\ [Next]_vars => TypeOK' /\ OldRegistered'
  BY NextType, OldKept
<1> QED
  BY <1>1, <1>2, PTL DEF Spec

-----------------------------------------------------------------------------
(* Requests that do not overlap                                             *)

NoClash ==
  Orderly => \A r, x \in InFlight : r # x => ~Clash(request[r], request[x])

(* A commit frees its slot and touches no other.                            *)
LEMMA CommitFrees ==
  ASSUME TypeOK, NEW r \in Requests, Commits(r)
  PROVE  /\ request' = [request EXCEPT ![r] = Idle]
         /\ r \in InFlight
         /\ \A x \in InFlight' : x \in InFlight /\ x # r /\ request'[x] = request[x]
         /\ heard' = heard /\ source' = source
BY DEF Commits, DeleteProjectCommit, AssignUserCommit, AssignCabinetCommit, CreateUserCommit,
       CreateCabinetCommit, RegisterCommit, Doing, Finish, InFlight, Idle, TypeOK

LEMMA NoClashKept ==
  ASSUME TypeOK, NoClash, [Next]_vars
  PROVE  NoClash'
<1>1. ASSUME NEW r \in Requests, NEW q \in Request, Start(r, q), Facts(q)
      PROVE  NoClash'
  <2>1. \A x \in Requests : request'[x] = IF x = r THEN q ELSE request[x]
    BY <1>1 DEF Start, TypeOK
  <2>2. Orderly => \A x \in InFlight : ~Clash(request[x], q)
    BY <1>1 DEF Start
  <2>3. Orderly => \A x \in InFlight : ~Clash(q, request[x])
    BY <2>2 DEF Clash
  <2> QED
    BY <2>1, <2>2, <2>3 DEF NoClash, InFlight
<1>2. ASSUME NEW r \in Requests, Commits(r)
      PROVE  NoClash'
  BY <1>2, CommitFrees DEF NoClash
<1>3. CASE AtOnce
  BY <1>3 DEF AtOnce, CreateProject, DeleteUser, DeleteCabinets, DeactivateDevice, Hear, Store,
              vars, tables, NoClash, InFlight
<1>4. CASE Restart
  BY <1>4 DEF Restart, NoClash, InFlight
<1> QED
  BY <1>1, <1>2, <1>3, <1>4, Steps

-----------------------------------------------------------------------------
(* A user's main project                                                    *)

(* What a handler is about to write is in order, and nobody else writes the *)
(* row an assignment has loaded.                                            *)
HomeInv ==
  /\ HomeInScope
  /\ \A r \in Requests :
       /\ request[r].op \in {"assign_user", "create_user"} => HomeOf(request[r].new)
       /\ request[r].op = "assign_user" /\ request[r].user \in Accounts =>
            home[request[r].user] = request[r].old

LEMMA HomeKept ==
  ASSUME TypeOK, Orderly, NoClash, HomeInv, [Next]_vars
  PROVE  HomeInv'
<1> DEFINE Writing(r) == request[r].op \in {"assign_user", "create_user"}
<1>1. ASSUME NEW r \in Requests, NEW q \in Request, Start(r, q), Facts(q)
      PROVE  HomeInv'
  <2>1. /\ home' = home
        /\ \A x \in Requests : request'[x] = IF x = r THEN q ELSE request[x]
    BY <1>1 DEF Start, tables, TypeOK
  <2>2. q.op \in {"assign_user", "create_user"} => HomeOf(q.new)
    BY <1>1 DEF Facts
  <2>3. q.op = "assign_user" => home[q.user] = q.old
    BY <1>1 DEF Facts
  <2> QED
    BY <2>1, <2>2, <2>3 DEF HomeInv, HomeInScope, HomeOf, Accounts
<1>2. ASSUME NEW r \in Requests, Commits(r), ~Writing(r)
      PROVE  HomeInv'
  <2>1. home' = home
    BY <1>2 DEF Commits, DeleteProjectCommit, AssignUserCommit, AssignCabinetCommit,
                CreateUserCommit, CreateCabinetCommit, RegisterCommit, Doing
  <2> QED
    BY <1>2, <2>1, CommitFrees DEF HomeInv, HomeInScope, HomeOf, Accounts, Idle, TypeOK
<1>3. ASSUME NEW r \in Requests, Commits(r), Writing(r)
      PROVE  HomeInv'
  <2> DEFINE q == request[r]
  <2>1. q.user \in Users /\ q.new \in Home /\ HomeOf(q.new)
    BY <1>3, RequestFields DEF HomeInv
  <2>2. home' = home \/ home' = [home EXCEPT ![q.user] = q.new]
    <3>1. CASE q.op = "create_user"
      BY <1>3, <3>1 DEF Commits, DeleteProjectCommit, AssignUserCommit, AssignCabinetCommit,
                CreateUserCommit, CreateCabinetCommit, RegisterCommit, Doing
    <3>2. CASE q.op = "assign_user"
      <4> DEFINE Column(f) == IF q.new[f] # q.old[f] THEN q.new[f] ELSE home[q.user][f]
      <4>1. home' = IF home[q.user] = NoRow THEN home
                ELSE [home EXCEPT ![q.user] = [main |-> Column("main"), all |-> Column("all")]]
        BY <1>3, <3>2 DEF Commits, DeleteProjectCommit, AssignUserCommit, AssignCabinetCommit,
                CreateUserCommit, CreateCabinetCommit, RegisterCommit, Doing
      <4>2. ASSUME home[q.user] # NoRow
            PROVE  [main |-> Column("main"), all |-> Column("all")] = q.new
        <5>1. home[q.user] = q.old
          BY <2>1, <3>2, <4>2 DEF HomeInv, Accounts
        <5>2. Column("main") = q.new.main /\ Column("all") = q.new.all
          BY <5>1
        <5> QED
          BY <2>1, <5>2 DEF Home
      <4> QED
        BY <4>1, <4>2
    <3> QED
      BY <1>3, <3>1, <3>2
  <2>3. HomeInScope'
    BY <2>1, <2>2 DEF HomeInv, HomeInScope, HomeOf, Accounts, TypeOK
  <2>4. ASSUME NEW x \in Requests, request'[x].op \in {"assign_user", "create_user"}
        PROVE  /\ x \in InFlight /\ x # r /\ request'[x] = request[x]
               /\ request[x].user # q.user /\ request[x].user \in Users
    <3>1. x \in InFlight'
      BY <2>4 DEF InFlight, Idle
    <3>2. x \in InFlight /\ x # r /\ request'[x] = request[x] /\ r \in InFlight
      BY <1>3, <3>1, CommitFrees
    <3>3. ~Clash(request[r], request[x])
      BY <3>2 DEF NoClash
    <3>4. request[x].user \in Users
      BY <2>4, <3>2, RequestFields
    <3> QED
      BY <1>3, <2>4, <3>2, <3>3, <3>4 DEF Clash
  <2> QED
    BY <2>1, <2>2, <2>3, <2>4 DEF HomeInv, Accounts, TypeOK, HomeOf
<1>4. ASSUME NEW u \in Users, DeleteUser(u)
      PROVE  HomeInv'
  BY <1>4, RequestFields DEF DeleteUser, HomeInv, HomeInScope, HomeOf, Accounts, TypeOK
<1>5. CASE AtOnce /\ ~\E u \in Users : DeleteUser(u)
  BY <1>5 DEF AtOnce, CreateProject, DeleteCabinets, DeactivateDevice, Hear, Store,
              vars, tables, HomeInv, HomeInScope, HomeOf, Accounts
<1>6. CASE Restart
  BY <1>6, Rows DEF Restart, HomeInv, HomeInScope, HomeOf, Accounts, Idle, Migrated, Home
<1> QED
  BY <1>1, <1>2, <1>3, <1>4, <1>5, <1>6, Steps

(* A user's main project is one of his projects, whatever the endpoints and *)
(* restarts do, when two requests do not write one user at once.            *)
THEOREM MainProjectInScope ==
  ASSUME Orderly
  PROVE  Spec => []HomeInScope
<1>1. Init => TypeOK /\ OldRegistered /\ NoClash /\ HomeInv
  BY InitType DEF Init, OldRegistered, NoClash, InFlight, HomeInv, HomeInScope, Idle, Accounts,
                  Nobody
<1>2. TypeOK /\ OldRegistered /\ NoClash /\ HomeInv /\ [Next]_vars
        => TypeOK' /\ OldRegistered' /\ NoClash' /\ HomeInv'
  BY NextType, OldKept, NoClashKept, HomeKept
<1>3. HomeInv => HomeInScope
  BY DEF HomeInv
<1> QED
  BY <1>1, <1>2, <1>3, PTL DEF Spec

-----------------------------------------------------------------------------
(* References to projects                                                   *)

(* Nothing that is about to be written refers to a project that is not      *)
(* there, and nobody refers to one that is about to go.                     *)
RefInv ==
  /\ NoDangling
  /\ \A r \in Requests :
       /\ request[r].op = "delete_project" => Unreferenced(request[r].project)
       /\ request[r].op \in {"assign_user", "create_user"} =>
            request[r].new.all \subseteq projects /\ Known(request[r].new.main)
       /\ request[r].op \in {"assign_cabinet", "create_cabinet"} => Known(request[r].new)

(* The rows and the projects only change so that the references stay good.  *)
LEMMA RefStays ==
  ASSUME TypeOK, RefInv, projects \subseteq projects',
         \A x \in Requests : request'[x] # Idle => request'[x] = request[x],
         \A u \in Users : home'[u] # NoRow => home'[u] = home[u],
         \A c \in Codes : place'[c] # NoRow => place'[c] = place[c]
  PROVE  RefInv'
<1>1. NoDangling'
  BY DEF RefInv, NoDangling, Accounts, Cabinets
<1> DEFINE Sound(x) ==
       /\ request[x].op = "delete_project" => Unreferenced(request[x].project)
       /\ request[x].op \in {"assign_user", "create_user"} =>
            request[x].new.all \subseteq projects /\ Known(request[x].new.main)
       /\ request[x].op \in {"assign_cabinet", "create_cabinet"} => Known(request[x].new)
<1>2. ASSUME NEW x \in Requests
      PROVE  Sound(x)'
  <2>1. CASE request'[x] = Idle
    BY <2>1 DEF Idle
  <2>2. CASE request'[x] = request[x]
    BY <2>2 DEF RefInv, Unreferenced, Accounts, Cabinets, Known
  <2> QED
    BY <2>1, <2>2
<1> QED
  BY <1>1, <1>2 DEF RefInv

LEMMA RefKept ==
  ASSUME TypeOK, Orderly, Careful, NoClash, RefInv, [Next]_vars
  PROVE  RefInv'
<1>1. ASSUME NEW r \in Requests, NEW q \in Request, Start(r, q), Facts(q)
      PROVE  RefInv'
  <2>1. /\ home' = home /\ place' = place /\ projects' = projects
        /\ \A x \in Requests : request'[x] = IF x = r THEN q ELSE request[x]
    BY <1>1 DEF Start, tables, TypeOK
  <2>2. \A p : OfSomebody(p) => Known(p)
    BY DEF OfSomebody, Known, RefInv, NoDangling
  <2>3. /\ q.op = "delete_project" => Unreferenced(q.project)
        /\ q.op \in {"assign_cabinet", "create_cabinet"} => Known(q.new)
    BY <1>1, <2>2 DEF Facts
  <2>4. q.op \in {"assign_user", "create_user"} =>
          q.new.all \subseteq projects /\ Known(q.new.main)
    BY <1>1, <2>2 DEF Facts, Known
  <2> QED
    BY <2>1, <2>3, <2>4 DEF RefInv, NoDangling, Known, Unreferenced, Accounts, Cabinets
<1>2. ASSUME NEW r \in Requests, DeleteProjectCommit(r)
      PROVE  RefInv'
  <2> DEFINE p == request[r].project
  <2>1. /\ home' = home /\ place' = place /\ projects' = projects \ {p}
        /\ request[r].op = "delete_project" /\ Unreferenced(p)
    BY <1>2 DEF DeleteProjectCommit, Doing, RefInv
  <2>2. NoDangling'
    BY <2>1 DEF NoDangling, RefInv, Unreferenced, Accounts, Cabinets
  <2>3. \A x \in Requests : request'[x] = Idle
    <3> SUFFICES ASSUME NEW x \in Requests, request'[x] # Idle
                 PROVE  FALSE
      OBVIOUS
    <3>1. x \in InFlight /\ x # r /\ r \in InFlight
      BY <1>2, CommitFrees DEF Commits, InFlight
    <3> QED
      BY <2>1, <3>1 DEF NoClash, Clash
  <2> QED
    BY <2>2, <2>3 DEF RefInv, Idle
<1>3. ASSUME NEW r \in Requests, Commits(r), ~DeleteProjectCommit(r)
      PROVE  RefInv'
  <2> DEFINE q == request[r]
  <2>1. /\ projects' = projects
        /\ q.op \in {"assign_user", "create_user", "assign_cabinet", "create_cabinet", "register"}
    BY <1>3 DEF Commits, AssignUserCommit, AssignCabinetCommit, CreateUserCommit,
                CreateCabinetCommit, RegisterCommit, Doing
  <2>2. \A x \in InFlight' : x \in InFlight /\ x # r /\ request'[x] = request[x]
    BY <1>3, CommitFrees
  <2>3. \A u \in Users : home'[u] # NoRow =>
          home'[u].all \subseteq projects /\ Known(home'[u].main)
    <3>1. CASE q.op = "create_user"
      BY <1>3, <3>1, RequestFields DEF Commits, CreateUserCommit, AssignUserCommit,
         AssignCabinetCommit, CreateCabinetCommit, RegisterCommit, Doing, RefInv, NoDangling,
         Known, Accounts, TypeOK
    <3>2. CASE q.op = "assign_user"
      <4> DEFINE Column(f) == IF q.new[f] # q.old[f] THEN q.new[f] ELSE home[q.user][f]
                 row == [main |-> Column("main"), all |-> Column("all")]
      <4>1. home' = IF home[q.user] = NoRow THEN home ELSE [home EXCEPT ![q.user] = row]
        BY <1>3, <3>2 DEF Commits, AssignUserCommit, AssignCabinetCommit,
                CreateUserCommit, CreateCabinetCommit, RegisterCommit, Doing
      <4>2. q.user \in Users /\ q.new.all \subseteq projects /\ Known(q.new.main)
        BY <3>2, RequestFields DEF RefInv
      <4>3. \A u \in Users : home[u] # NoRow =>
              home[u].all \subseteq projects /\ Known(home[u].main)
        BY DEF RefInv, NoDangling, Accounts, Known
      <4>4. home[q.user] # NoRow => row.all \subseteq projects /\ Known(row.main)
        BY <4>2, <4>3
      <4> HIDE DEF row
      <4> QED
        BY <4>1, <4>2, <4>3, <4>4 DEF TypeOK
    <3>3. CASE q.op \notin {"assign_user", "create_user"}
      BY <1>3, <3>3 DEF Commits, CreateUserCommit, AssignUserCommit,
         AssignCabinetCommit, CreateCabinetCommit, RegisterCommit, Doing, RefInv, NoDangling,
         Known, Accounts
    <3> QED
      BY <2>1, <3>1, <3>2, <3>3
  <2>4. \A c \in Codes : place'[c] # NoRow => Known(place'[c])
    BY <1>3, RequestFields DEF Commits, CreateUserCommit, AssignUserCommit,
       AssignCabinetCommit, CreateCabinetCommit, RegisterCommit, Doing, RefInv, NoDangling,
       Known, Cabinets, TypeOK
  <2>5. ASSUME NEW x \in InFlight'
        PROVE  request'[x] = request[x] /\ request[x].op # "delete_project" /\ x \in Requests
    <3>1. r \in InFlight /\ x \in InFlight /\ x # r
      BY <1>3, <2>2, CommitFrees
    <3> QED
      BY <2>2, <3>1 DEF NoClash, Clash, InFlight
  <2>6. NoDangling'
    BY <2>1, <2>3, <2>4 DEF NoDangling, Accounts, Cabinets, Known
  <2> QED
    BY <2>1, <2>5, <2>6 DEF RefInv, InFlight, Idle, Known
<1>4. CASE AtOnce
  <2>1. /\ projects \subseteq projects' /\ request' = request
        /\ \A u \in Users : home'[u] # NoRow => home'[u] = home[u]
        /\ \A c \in Codes : place'[c] # NoRow => place'[c] = place[c]
    BY <1>4 DEF AtOnce, CreateProject, DeleteUser, DeleteCabinets, DeactivateDevice, Hear, Store,
              vars, tables, TypeOK
  <2> QED
    BY <2>1, RefStays
<1>5. CASE Restart
  <2>1. \A u \in Accounts' : u \in Accounts /\ home'[u] = Migrated(home[u])
    BY <1>5, Rows DEF Restart, Accounts, Migrated
  <2>2. \A u \in Accounts : home[u].all \subseteq projects /\ Known(home[u].main)
    BY DEF RefInv, NoDangling, Known
  <2>3. projects \subseteq projects' /\ (DemoMode => DemoProject \in projects')
    BY <1>5 DEF Restart
  <2>4. \A u \in Accounts : Migrated(home[u]).all \subseteq projects
                          /\ Known(Migrated(home[u]).main)
    BY <2>2, Rows, FreshAssumption DEF Migrated, Known, Home, Accounts
  <2>5. \A c \in Cabinets' : place'[c] \in projects' \cup {None}
    BY <1>5, <2>3 DEF Restart, DemoPlace, Cabinets, RefInv, NoDangling
  <2>6. NoDangling'
    BY <2>1, <2>3, <2>4, <2>5 DEF NoDangling, Known
  <2> QED
    BY <1>5, <2>6 DEF Restart, RefInv, Idle
<1> QED
  BY <1>1, <1>2, <1>3, <1>4, <1>5, Steps DEF Commits

(* No user and no cabinet ever refers to a project that is gone, when no    *)
(* other request is under way while a project is deleted and owners name    *)
(* projects that exist.                                                     *)
THEOREM ProjectsExist ==
  ASSUME Orderly, Careful
  PROVE  Spec => []NoDangling
<1>1. Init => TypeOK /\ OldRegistered /\ NoClash /\ RefInv
  BY InitType DEF Init, OldRegistered, NoClash, InFlight, RefInv, NoDangling, Idle, Accounts,
                  Cabinets, Nobody
<1>2. TypeOK /\ OldRegistered /\ NoClash /\ RefInv /\ [Next]_vars
        => TypeOK' /\ OldRegistered' /\ NoClash' /\ RefInv'
  BY NextType, OldKept, NoClashKept, RefKept
<1>3. RefInv => NoDangling
  BY DEF RefInv
<1> QED
  BY <1>1, <1>2, <1>3, PTL DEF Spec

(* The lists and the single-resource checks of tenancy.py agree, and a      *)
(* user's own project is listed to him, under the same conditions.          *)
THEOREM ListsAndChecksAgree ==
  ASSUME Orderly, Careful
  PROVE  Spec => []ScopesAgree
<1>1. NoDangling => ScopesAgree
  BY FreshAssumption
     DEF NoDangling, ScopesAgree, ScopeQuery, EnsureVisible, ScopedIds, ListProjects
<1> QED
  BY <1>1, ProjectsExist, PTL

-----------------------------------------------------------------------------
(* The registry implements Binding                                          *)

(* Paired as a function of the devices, to speak of two states.             *)
PairedIn(d, c) == {s \in Serials : d[s] # NoRow /\ d[s].cab = c /\ d[s].active}

LEMMA OneValue ==
  /\ One({}) = None
  /\ \A s : One({s}) = s
BY FS_Singleton DEF One

LEMMA PairingIs ==
  /\ [c \in Codes |-> Pairing(c)] = [c \in Codes |-> One(PairedIn(device, c))]
  /\ [c \in Codes |-> Pairing(c)]' = [c \in Codes |-> One(PairedIn(device', c))]
<1>1. \A c : Paired(c) = PairedIn(device, c)
  BY DEF Paired, PairedIn, Devices
<1>2. \A c : Pairing(c) = One(PairedIn(device, c))
  BY <1>1 DEF Pairing
<1>3. \A c : Paired(c)' = PairedIn(device', c)
  BY DEF Paired, PairedIn, Devices
<1>4. \A c : Pairing(c)' = One(PairedIn(device', c))
  BY <1>3 DEF Pairing
<1> QED
  BY <1>2, <1>4

(* At most one controller is paired with a cabinet, and a registration      *)
(* about to commit knows it.                                                *)
PairInv ==
  /\ \A c \in Codes : \A s, x \in PairedIn(device, c) : s = x
  /\ \A r \in Requests : request[r].op = "register" =>
       PairedIn(device, request[r].cab) \subseteq request[r].old

(* What a registration that goes through does to the pairings.              *)
LEMMA RegisterPairs ==
  ASSUME TypeOK, OldRegistered, PairInv, NEW r \in Requests, RegisterCommit(r),
         request[r].serial \notin Devices
  PROVE  /\ request[r].cab \in Codes /\ request[r].serial \in Serials
         /\ Devices' = Devices \cup {request[r].serial}
         /\ \A c \in Codes :
              PairedIn(device', c) =
                IF c = request[r].cab THEN {request[r].serial} ELSE PairedIn(device, c)
<1> DEFINE q == request[r]
<1>1. q.cab \in Codes /\ q.serial \in Serials /\ q.op = "register"
  BY RequestFields DEF RegisterCommit, Doing
<1>2. device' = [s \in Serials |->
            IF s = q.serial THEN [cab |-> q.cab, active |-> TRUE]
            ELSE IF s \in q.old THEN [device[s] EXCEPT !.active = FALSE]
            ELSE device[s]]
  BY DEF RegisterCommit
<1>3. \A s \in q.old : s \in Devices /\ device[s] \in Device /\ device[s].cab = q.cab
  BY <1>1, Rows DEF OldRegistered, Devices
<1>4. device'[q.serial] = [cab |-> q.cab, active |-> TRUE]
      /\ [cab |-> q.cab, active |-> TRUE] \in Device
  BY <1>1, <1>2 DEF Device
<1>5. \A s \in Devices :
        /\ device[s] \in Device /\ device'[s] \in Device /\ device'[s].cab = device[s].cab
        /\ device'[s].active <=> device[s].active /\ s \notin q.old
  <2> SUFFICES ASSUME NEW s \in Devices
               PROVE  /\ device[s] \in Device /\ device'[s] \in Device
                      /\ device'[s].cab = device[s].cab
                      /\ device'[s].active <=> device[s].active /\ s \notin q.old
    OBVIOUS
  <2>1. s \in Serials /\ s # q.serial /\ device[s] \in Device
    BY Rows DEF Devices
  <2>2. CASE s \in q.old
    <3>1. device'[s] = [device[s] EXCEPT !.active = FALSE]
      BY <1>2, <2>1, <2>2
    <3> QED
      BY <2>1, <2>2, <3>1 DEF Device
  <2>3. CASE s \notin q.old
    BY <1>2, <2>1, <2>3
  <2> QED
    BY <2>2, <2>3
<1>6. Devices' = Devices \cup {q.serial}
  <2>1. \A s \in Serials : s \notin Devices /\ s # q.serial => device'[s] = NoRow
    BY <1>2, <1>3 DEF Devices
  <2> QED
    BY <1>1, <1>4, <1>5, <2>1, FreshAssumption DEF Devices
<1>7. ASSUME NEW c \in Codes
      PROVE  PairedIn(device', c) = IF c = q.cab THEN {q.serial} ELSE PairedIn(device, c)
  <2>1. PairedIn(device', c) = {s \in Devices' : device'[s].cab = c /\ device'[s].active}
    BY DEF PairedIn, Devices
  <2>2. CASE c = q.cab
    <3>1. \A s \in Devices : device[s].cab = c /\ device[s].active => s \in q.old
      BY <1>1, <2>2 DEF PairInv, PairedIn, Devices
    <3> QED
      BY <1>4, <1>5, <1>6, <2>1, <2>2, <3>1
  <2>3. CASE c # q.cab
    BY <1>3, <1>4, <1>5, <1>6, <2>1, <2>3 DEF PairedIn, Devices
  <2> QED
    BY <2>2, <2>3
<1> QED
  BY <1>1, <1>6, <1>7

(* Every other step leaves the devices alone, or deactivates one.           *)
LEMMA DeviceSteps ==
  ASSUME TypeOK, [Next]_vars
  PROVE  \/ device' = device
         \/ \E r \in Requests : RegisterCommit(r) /\ request[r].serial \notin Devices
         \/ \E s \in Serials : DeactivateDevice(s)
<1>1. ASSUME NEW r \in Requests, Commits(r)
      PROVE  device' = device \/ (RegisterCommit(r) /\ request[r].serial \notin Devices)
  BY <1>1 DEF Commits, DeleteProjectCommit, AssignUserCommit, AssignCabinetCommit,
              CreateUserCommit, CreateCabinetCommit, RegisterCommit
<1> QED
  BY <1>1, Steps DEF AtOnce, Start, CreateProject, DeleteUser, DeleteCabinets, Hear, Store,
                     Restart, vars, tables

LEMMA DeactivatePairs ==
  ASSUME TypeOK, NEW s \in Serials, DeactivateDevice(s)
  PROVE  /\ Devices' = Devices
         /\ \A c \in Codes : PairedIn(device', c) = PairedIn(device, c) \ {s}
<1>1. device' = [device EXCEPT ![s].active = FALSE] /\ s \in Devices /\ device[s] \in Device
  BY Rows DEF DeactivateDevice
<1>2. device'[s] \in Device /\ device'[s].active = FALSE
  BY <1>1 DEF Device, TypeOK
<1>3. \A x \in Serials : x # s => device'[x] = device[x]
  BY <1>1 DEF TypeOK
<1>4. Devices' = Devices
  BY <1>1, <1>2, <1>3, FreshAssumption DEF Devices
<1>5. ASSUME NEW c \in Codes, NEW x \in Serials
      PROVE  x \in PairedIn(device', c) <=> x \in PairedIn(device, c) /\ x # s
  <2>1. CASE x = s
    BY <1>2, <2>1 DEF PairedIn
  <2>2. CASE x # s
    BY <1>3, <2>2 DEF PairedIn
  <2> QED
    BY <2>1, <2>2
<1>6. \A c : PairedIn(device', c) \subseteq Serials /\ PairedIn(device, c) \subseteq Serials
  BY DEF PairedIn
<1> QED
  BY <1>4, <1>5, <1>6

LEMMA PairKept ==
  ASSUME TypeOK, OldRegistered, Orderly, NoClash, PairInv, [Next]_vars
  PROVE  PairInv'
<1> DEFINE Knows(x) == request[x].op = "register" =>
             PairedIn(device, request[x].cab) \subseteq request[x].old
<1>1. ASSUME NEW r \in Requests, RegisterCommit(r), request[r].serial \notin Devices
      PROVE  PairInv'
  <2> DEFINE q == request[r]
  <2>1. /\ q.op = "register" /\ r \in InFlight
        /\ \A x \in InFlight' : x \in InFlight /\ x # r /\ request'[x] = request[x]
    BY <1>1, CommitFrees DEF RegisterCommit, Doing, Commits
  <2>2. \A c \in Codes :
          PairedIn(device', c) = IF c = q.cab THEN {q.serial} ELSE PairedIn(device, c)
    BY <1>1, RegisterPairs
  <2>3. \A c \in Codes : \A s, x \in PairedIn(device', c) : s = x
    BY <2>2 DEF PairInv
  <2>4. ASSUME NEW x \in Requests, request'[x].op = "register"
        PROVE  PairedIn(device', request'[x].cab) \subseteq request'[x].old
    <3>1. x \in InFlight'
      BY <2>4 DEF InFlight, Idle
    <3>2. request'[x] = request[x] /\ x \in InFlight /\ x # r
      BY <2>1, <3>1
    <3>3. request[x].cab # q.cab
      BY <2>1, <2>4, <3>2 DEF NoClash, Clash
    <3>4. request[x].cab \in Codes
      BY <2>4, <3>2, RequestFields
    <3>5. PairedIn(device', request[x].cab) = PairedIn(device, request[x].cab)
      BY <2>2, <3>3, <3>4
    <3> QED
      BY <2>4, <3>2, <3>5 DEF PairInv
  <2> QED
    BY <2>3, <2>4 DEF PairInv
<1>2. ASSUME NEW s \in Serials, DeactivateDevice(s)
      PROVE  PairInv'
  <2>1. request' = request
        /\ \A c \in Codes : PairedIn(device', c) = PairedIn(device, c) \ {s}
    BY <1>2, DeactivatePairs DEF DeactivateDevice
  <2>2. \A r \in Requests : request[r].op = "register" => request[r].cab \in Codes
    BY RequestFields
  <2>3. \A c \in Codes : \A y, x \in PairedIn(device', c) : y = x
    BY <2>1 DEF PairInv
  <2>4. ASSUME NEW r \in Requests, request'[r].op = "register"
        PROVE  PairedIn(device', request'[r].cab) \subseteq request'[r].old
    BY <2>1, <2>2, <2>4 DEF PairInv
  <2> QED
    BY <2>3, <2>4 DEF PairInv
<1>3. CASE device' = device
  <2>1. ASSUME NEW x \in Requests, NEW r \in Requests, NEW q \in Request, Start(r, q), Facts(q)
        PROVE  Knows(x)'
    <3>1. request'[x] = IF x = r THEN q ELSE request[x]
      BY <2>1 DEF Start, TypeOK
    <3>2. q.op = "register" => PairedIn(device, q.cab) \subseteq q.old
      BY <2>1 DEF Facts, Paired, PairedIn, Devices
    <3> QED
      BY <1>3, <3>1, <3>2 DEF PairInv
  <2>2. ASSUME NEW x \in Requests, NEW r \in Requests, Commits(r)
        PROVE  Knows(x)'
    BY <1>3, <2>2, CommitFrees DEF InFlight, Idle, PairInv
  <2>3. ASSUME NEW x \in Requests, AtOnce
        PROVE  Knows(x)'
    BY <1>3, <2>3 DEF AtOnce, CreateProject, DeleteUser, DeleteCabinets, DeactivateDevice,
                      Hear, Store, vars, tables, PairInv
  <2>4. ASSUME NEW x \in Requests, Restart
        PROVE  Knows(x)'
    BY <2>4 DEF Restart, Idle
  <2>5. \A x \in Requests : Knows(x)'
    BY <2>1, <2>2, <2>3, <2>4, Steps
  <2> QED
    BY <1>3, <2>5 DEF PairInv
<1> QED
  BY <1>1, <1>2, <1>3, DeviceSteps

(* A step of the registry is a step of Binding or changes nothing of it.    *)
LEMMA BindingStep ==
  ASSUME TypeOK, OldRegistered, PairInv, [Next]_vars
  PROVE  [Binding!Next]_<<[c \in Codes |-> Pairing(c)], Devices>>
<1> DEFINE P == [c \in Codes |-> Pairing(c)]
           Q(d) == [c \in Codes |-> One(PairedIn(d, c))]
<1>0. P = Q(device) /\ P' = Q(device')
  BY PairingIs
<1>1. ASSUME NEW r \in Requests, RegisterCommit(r), request[r].serial \notin Devices
      PROVE  Binding!Next
  <2> DEFINE k == request[r].cab
             s == request[r].serial
  <2>1. /\ k \in Codes /\ s \in Serials /\ s \notin Devices /\ Devices' = Devices \cup {s}
        /\ \A c \in Codes :
             PairedIn(device', c) = IF c = k THEN {s} ELSE PairedIn(device, c)
    BY <1>1, RegisterPairs
  <2>2. Q(device') = [Q(device) EXCEPT ![k] = s]
    BY <2>1, OneValue
  <2>3. P' = [P EXCEPT ![k] = s]
    BY <1>0, <2>2
  <2> QED
    BY <2>1, <2>3 DEF Binding!Next, Binding!Pair
<1>2. ASSUME NEW s \in Serials, DeactivateDevice(s)
      PROVE  Binding!Next \/ UNCHANGED <<P, Devices>>
  <2> DEFINE k == device[s].cab
  <2>1. /\ Devices' = Devices /\ k \in Codes
        /\ \A c \in Codes : PairedIn(device', c) = PairedIn(device, c) \ {s}
    BY <1>2, DeactivatePairs, Rows DEF DeactivateDevice, Device
  <2>2. \A c \in Codes : s \in PairedIn(device, c) => c = k
    BY DEF PairedIn
  <2>3. CASE s \in PairedIn(device, k)
    <3>1. PairedIn(device', k) = {}
      BY <2>1, <2>3 DEF PairInv
    <3>2. \A c \in Codes : c # k => PairedIn(device', c) = PairedIn(device, c)
      BY <2>1, <2>2
    <3>3. Q(device') = [Q(device) EXCEPT ![k] = None]
      BY <3>1, <3>2, OneValue
    <3>4. P' = [P EXCEPT ![k] = None]
      BY <1>0, <3>3
    <3> QED
      BY <2>1, <3>4 DEF Binding!Next, Binding!Unpair
  <2>4. CASE s \notin PairedIn(device, k)
    <3>1. \A c \in Codes : PairedIn(device', c) = PairedIn(device, c)
      BY <2>1, <2>2, <2>4
    <3>2. Q(device') = Q(device)
      BY <3>1
    <3> QED
      BY <1>0, <2>1, <3>2
  <2> QED
    BY <2>3, <2>4
<1>3. ASSUME device' = device
      PROVE  UNCHANGED <<P, Devices>>
  BY <1>0, <1>3 DEF Devices
<1> QED
  BY <1>1, <1>2, <1>3, DeviceSteps

(* The device registry implements Binding: a cabinet has at most one        *)
(* controller and a serial is paired once in its life, when registrations   *)
(* for one cabinet do not overlap.                                          *)
THEOREM ImplementsBinding ==
  ASSUME Orderly
  PROVE  Spec => BindingSpec
<1>1. Init => TypeOK /\ OldRegistered /\ NoClash /\ PairInv
  BY InitType DEF Init, OldRegistered, NoClash, InFlight, PairInv, PairedIn, Idle
<1>2. TypeOK /\ OldRegistered /\ NoClash /\ PairInv /\ [Next]_vars
        => TypeOK' /\ OldRegistered' /\ NoClash' /\ PairInv'
  BY NextType, OldKept, NoClashKept, PairKept
<1>3. Init => Binding!Init
  BY OneValue DEF Init, Binding!Init, Pairing, Paired, Devices
<1>4. TypeOK /\ OldRegistered /\ PairInv /\ [Next]_vars
        => [Binding!Next]_<<[c \in Codes |-> Pairing(c)], Devices>>
  BY BindingStep
<1> QED
  BY <1>1, <1>2, <1>3, <1>4, PTL DEF Spec, BindingSpec, Binding!Spec

-----------------------------------------------------------------------------
(* Whose data are shown                                                     *)

LEMMA OwnStep ==
  ASSUME TypeOK, PairInv, [Next]_vars, NEW c \in Codes, NEW s \in Serials,
         Own(c, s), (s \in Paired(c))'
  PROVE  Own(c, s)'
<1> DEFINE signed == IF Strict THEN {s} ELSE {s, None}
           Clean(src, hrd) ==
             /\ src[c] \in {None} \cup {Shown(x) : x \in signed}
             /\ hrd # None /\ hrd.cab = c => hrd.serial \in signed
<1>1. s \in Paired(c) /\ Clean(source, heard)
  BY DEF Own
<1>2. Paired(c) = {s}
  BY <1>1 DEF Paired, PairedIn, PairInv, Devices
<1>3. ASSUME NEW x \in Serials \cup {None}, NEW d \in Codes, Hear(d, x)
      PROVE  Clean(source', heard')
  <2>1. d = c => x \in signed
    BY <1>2, <1>3 DEF Hear, AllowTelemetry
  <2> QED
    BY <1>1, <1>3, <2>1 DEF Hear, tables
<1>4. ASSUME Store
      PROVE  Clean(source', heard')
  BY <1>1, <1>4 DEF Store, TypeOK
<1>5. ASSUME Restart
      PROVE  Clean(source', heard')
  BY <1>5 DEF Restart
<1>6. ASSUME NEW cs \in SUBSET Codes, DeleteCabinets(cs)
      PROVE  Clean(source', heard')
  BY <1>1, <1>6 DEF DeleteCabinets
<1>7. ASSUME UNCHANGED <<source, heard>>
      PROVE  Clean(source', heard')
  BY <1>1, <1>7
<1>8. \/ UNCHANGED <<source, heard>>
      \/ Store \/ Restart
      \/ \E d \in Codes, x \in Serials \cup {None} : Hear(d, x)
      \/ \E cs \in SUBSET Codes : DeleteCabinets(cs)
  <2>1. ASSUME NEW r \in Requests, Commits(r)
        PROVE  UNCHANGED <<source, heard>>
    BY <2>1, CommitFrees
  <2> QED
    BY <2>1, Steps DEF AtOnce, Start, CreateProject, DeleteUser, DeactivateDevice, vars, tables
<1>9. Clean(source', heard')
  BY <1>3, <1>4, <1>5, <1>6, <1>7, <1>8
<1> QED
  BY <1>9 DEF Own

(* Once what was judged before the pairing is through, the data of a paired *)
(* controller are not displaced by other hardware as long as it stays       *)
(* paired, when registrations for one cabinet do not overlap.               *)
THEOREM OwnDataAreKept ==
  ASSUME Orderly
  PROVE  Spec => OwnDataStay
<1>1. Init => TypeOK /\ OldRegistered /\ NoClash /\ PairInv
  BY InitType DEF Init, OldRegistered, NoClash, InFlight, PairInv, PairedIn, Idle
<1>2. TypeOK /\ OldRegistered /\ NoClash /\ PairInv /\ [Next]_vars
        => TypeOK' /\ OldRegistered' /\ NoClash' /\ PairInv'
  BY NextType, OldKept, NoClashKept, PairKept
<1>3. TypeOK /\ PairInv /\ [Next]_vars
        => [\A c \in Codes, s \in Serials : Own(c, s) /\ (s \in Paired(c))' => Own(c, s)']_vars
  BY OwnStep
<1> QED
  BY <1>1, <1>2, <1>3, PTL DEF Spec, OwnDataStay

=============================================================================
