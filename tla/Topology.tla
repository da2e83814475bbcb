------------------------------ MODULE Topology ------------------------------
(***************************************************************************)
(* Cabinets, their circuits and their light points: api/v1/topology.py and *)
(* the registry endpoints of api/v1/cabinets.py that create and delete     *)
(* cabinets.  Circuit.expected_power_w, here "total", caches the power of  *)
(* the circuit's light points; every endpoint that changes the points of a *)
(* circuit is expected to bring it up to date.                             *)
(*                                                                         *)
(* The endpoints run on worker threads, each with its own database         *)
(* session.  What a request has checked is committed in a later step, the  *)
(* totals are summed in a third and stored in a fourth: other requests and *)
(* a crash fit in between.  The bulk endpoints (import, restore) and the   *)
(* deletion of a cabinet read and commit in one step, then sum and store.  *)
(***************************************************************************)
EXTENDS Integers, FiniteSets, FiniteSetsExt, SequencesExt

CONSTANTS
  Codes,       (* codes a cabinet may have                                  *)
  CircuitIds,  (* primary keys of the circuits table, numbers               *)
  LightIds,    (* primary keys of the light_points table, numbers           *)
  CircuitNumbers, LightNumbers,  (* numbers they may carry                    *)
  Powers,      (* nominal powers of a light point                           *)
  Files,       (* CSV files for the import: sequences of rows               *)
  BackupFiles, (* backup files from earlier days                            *)
  Requests,    (* slots for requests that may be in flight at once          *)
  Orderly,     (* TRUE: requests in flight concern different cabinets       *)
  Crashes,     (* TRUE: the server may be killed                            *)
  NoRow

ASSUME IdsAssumption ==
  /\ CircuitIds \subseteq Nat /\ IsFiniteSet(CircuitIds)
  /\ LightIds \subseteq Nat /\ IsFiniteSet(LightIds)
ASSUME NumbersAssumption == CircuitNumbers \subseteq Int /\ LightNumbers \subseteq Int
ASSUME PowersAssumption == Powers \subseteq Nat /\ IsFiniteSet(Powers)
ASSUME SwitchAssumption == Orderly \in BOOLEAN /\ Crashes \in BOOLEAN

VARIABLES
  cabinets,  (* codes in the cabinets table                                 *)
  circuit,   (* circuits table: id -> row or NoRow                          *)
  light,     (* light_points table: id -> row or NoRow                      *)
  request,   (* request slot -> what its handler is about to do             *)
  stale,     (* history: circuits a step took lights from, or was to add    *)
             (* lights to, and that nobody has summed since                 *)
  strays     (* history: light points a client hung from a circuit that was *)
             (* not one of their cabinet's, and that nobody has put right   *)

tables == <<cabinets, circuit, light>>
histories == <<stale, strays>>
vars == <<tables, request, histories>>

(* All watts that all light points together could draw.                     *)
AllWatts == LightIds \X UNION {1..p : p \in Powers}
Totals == 0..Cardinality(AllWatts)
CircuitRow == [cab: Codes, number: CircuitNumbers, total: Totals]
LightRow == [cab: Codes, circuit: CircuitIds, number: LightNumbers, power: Powers]

(* Rows of an import: the circuit they name and, unless they come from the  *)
(* circuits of a backup, a light point.                                     *)
LightEntry == [number : LightNumbers, power : Powers]
FileRow == [cab : Codes, circuit : CircuitNumbers, light : LightEntry \cup {NoRow}]
BackupLight == [circuit : CircuitNumbers, number : LightNumbers, power : Powers]
Backup == [circuits : Seq(CircuitNumbers), lights : Seq(BackupLight)]

ASSUME FilesAssumption == Files \subseteq Seq(FileRow) /\ BackupFiles \subseteq Backup
ASSUME NoRowAssumption ==
  /\ NoRow \notin [cab : Codes, number : CircuitNumbers, total : Nat]
  /\ NoRow \notin LightRow /\ NoRow \notin LightEntry

-----------------------------------------------------------------------------
(* Reading the tables                                                       *)

Circuits(circ) == {k \in CircuitIds : circ[k] # NoRow}
Lights(lit) == {l \in LightIds : lit[l] # NoRow}
CircuitsOf(circ, c) == {k \in Circuits(circ) : circ[k].cab = c}
LightsOf(lit, c) == {l \in Lights(lit) : lit[l].cab = c}
Attached(lit, k) == {l \in Lights(lit) : lit[l].circuit = k}

(* What the light points of a circuit add up to: their watts, counted.      *)
Load(lit, k) ==
  Cardinality(UNION {{l} \X (1..lit[l].power) : l \in Attached(lit, k)})

(* The tree of the map, GET /topology: the nominal of a circuit is summed   *)
(* afresh, the stored one is not looked at.                                 *)
Tree(c) ==
  [points |-> LightsOf(light, c),
   power |-> [k \in CircuitsOf(circuit, c) |-> Load(light, k)]]

-----------------------------------------------------------------------------
(* Requests                                                                 *)

Idle == [at |-> "idle"]
InFlight == {r \in Requests : request[r] # Idle}

(* The cabinets the light points of a circuit belong to, and those of the   *)
(* circuits that the light points of these cabinets hang from.              *)
Dependent(k) == {light[l].cab : l \in Attached(light, k)}
Feeding(cs) ==
  {circuit[light[l].circuit].cab : l \in {m \in Lights(light) :
     light[m].cab \in cs /\ light[m].circuit \in Circuits(circuit)}}

(* Starting: the handler has loaded row "old" of table entry "id" and will  *)
(* write "new"; "moved" are the light points it also loaded, and "own" says *)
(* that the circuit a light point is to hang from is one of its cabinet's.  *)
Start(r, op, cabs, id, old, new, moved, own) ==
  /\ Orderly => \A q \in InFlight : request[q].cabs \cap cabs = {}
  /\ request' = [request EXCEPT ![r] =
       [at |-> "checked", op |-> op, cabs |-> cabs, id |-> id, old |-> old,
        new |-> new, moved |-> moved, own |-> own]]
  /\ UNCHANGED <<tables, histories>>

Checked(r, op) == request[r].at = "checked" /\ request[r].op = op

(* The circuits whose light points a request is about.  New circuits of     *)
(* other requests do not take these ids, as long as requests are orderly.   *)
Named(q) ==
  CASE q.at = "checked" /\ q.op = "createLight" -> {q.new.circuit}
    [] q.at = "checked" /\ q.op = "updateLight" -> {q.old.circuit, q.new.circuit}
    [] q.at = "checked" /\ q.op = "deleteLight" -> {q.old.circuit}
    [] q.at \in {"committed", "summed"} -> q.todo
    [] OTHER -> {}

NotNamed(r, ks) == Orderly => \A q \in InFlight \ {r} : Named(request[q]) \cap ks = {}

(* After its commit the request recomputes the circuits of todo.  The ones  *)
(* it already holds are not loaded again; held gives their known total.     *)
Committed(r, todo, held) ==
  request' = [request EXCEPT ![r] =
    IF todo = {} THEN Idle
    ELSE [at |-> "committed", cabs |-> @.cabs, todo |-> todo, held |-> held]]

(* An UPDATE of a row that is gone raises StaleDataError: nothing is        *)
(* written and the request is over.                                         *)
Failed(r) == request' = [request EXCEPT ![r] = Idle] /\ UNCHANGED <<circuit, light, strays>>

(* An UPDATE writes the attributes that differ from the loaded ones only.   *)
Updated(row, old, new) ==
  [f \in DOMAIN row |-> IF new[f] # old[f] THEN new[f] ELSE row[f]]

(* Faulty variant: adds to the stored total instead of replacing it.        *)
SumTotalsAdding(r) ==
  /\ request[r].at = "committed"
  /\ LET here == request[r].todo \cap Circuits(circuit)
     IN request' = [request EXCEPT ![r] =
          [at |-> "summed", cabs |-> @.cabs, todo |-> @.todo,
           sums |-> [k \in here |-> circuit[k].total + Load(light, k)],
           loaded |-> [k \in here |-> circuit[k].total]]]
  /\ UNCHANGED <<tables, histories>>

(* _recompute_circuit_power: the sum is computed in Python ...              *)
SumTotals(r) ==
  /\ request[r].at = "committed"
  /\ LET here == request[r].todo \cap Circuits(circuit)
         held == request[r].held
     IN request' = [request EXCEPT ![r] =
          [at |-> "summed", cabs |-> @.cabs, todo |-> @.todo,
           sums |-> [k \in here |-> Load(light, k)],
           loaded |-> [k \in here |-> IF k \in DOMAIN held THEN held[k]
                                      ELSE circuit[k].total]]]
  /\ UNCHANGED <<tables, histories>>

(* ... and written at the commit, unless it equals the total loaded before. *)
StoreTotals(r) ==
  /\ request[r].at = "summed"
  /\ LET q == request[r]
         dirty == {k \in DOMAIN q.sums : q.sums[k] # q.loaded[k]}
         stored == IF dirty \subseteq Circuits(circuit) THEN q.todo ELSE {}
     IN /\ circuit' = [k \in CircuitIds |->
             IF k \in dirty \cap stored
             THEN [circuit[k] EXCEPT !.total = q.sums[k]] ELSE circuit[k]]
        /\ stale' = stale \ stored
  /\ request' = [request EXCEPT ![r] = Idle]
  /\ UNCHANGED <<cabinets, light, strays>>

-----------------------------------------------------------------------------
(* Circuits                                                                 *)

CreateCircuit(r) ==
  \E c \in Codes, n \in CircuitNumbers, w \in {0, Cardinality(AllWatts)} :
    Start(r, "createCircuit", {c}, NoRow, NoRow, [cab |-> c, number |-> n, total |-> w], {}, TRUE)

InsertCircuit(r) ==
  /\ Checked(r, "createCircuit")
  /\ \E k \in CircuitIds \ Circuits(circuit) :
       /\ NotNamed(r, {k})
       /\ circuit' = [circuit EXCEPT ![k] = request[r].new]
       /\ Committed(r, {k}, <<>>)
  /\ UNCHANGED <<cabinets, light, histories>>

(* Reassigning a circuit to another cabinet takes its light points along.   *)
UpdateCircuit(r) ==
  \E k \in Circuits(circuit), n \in CircuitNumbers, c \in Codes :
    LET old == circuit[k]
        moved == IF c # old.cab THEN Attached(light, k) ELSE {}
    IN /\ c # old.cab => c \in cabinets
       /\ Start(r, "updateCircuit", {old.cab, c} \cup Dependent(k), k, old,
                [old EXCEPT !.cab = c, !.number = n], moved, TRUE)

WriteCircuit(r) ==
  /\ Checked(r, "updateCircuit")
  /\ LET q == request[r] IN
     IF q.id \notin Circuits(circuit) \/ ~(q.moved \subseteq Lights(light)) THEN Failed(r)
     ELSE /\ circuit' = [circuit EXCEPT ![q.id] = Updated(@, q.old, q.new)]
          /\ light' = [l \in LightIds |->
               IF l \in q.moved THEN [light[l] EXCEPT !.cab = q.new.cab] ELSE light[l]]
          /\ strays' = strays \ q.moved
          /\ Committed(r, {q.id}, [k \in {q.id} |-> q.old.total])
  /\ UNCHANGED <<cabinets, stale>>

(* Faulty variant: light points are not looked for.                         *)
DeleteCircuitAnyway(r) ==
  \E k \in Circuits(circuit) :
    Start(r, "deleteCircuit", {circuit[k].cab}, k, circuit[k], NoRow, {}, TRUE)

(* Refused while light points are attached.                                 *)
DeleteCircuit(r) ==
  \E k \in Circuits(circuit) :
    /\ Attached(light, k) = {}
    /\ Start(r, "deleteCircuit", {circuit[k].cab}, k, circuit[k], NoRow, {}, TRUE)

RemoveCircuit(r) ==
  /\ Checked(r, "deleteCircuit")
  /\ circuit' = [circuit EXCEPT ![request[r].id] = NoRow]
  /\ stale' = stale \ {request[r].id}
  /\ Committed(r, {}, <<>>)
  /\ UNCHANGED <<cabinets, light, strays>>

-----------------------------------------------------------------------------
(* Light points                                                             *)

(* The cabinets a request on these circuits and this cabinet concerns.      *)
Concerned(c, ks) == {c} \cup {circuit[k].cab : k \in ks \cap Circuits(circuit)}

(* The circuit is taken from the request as it is.                          *)
CreateLight(r) ==
  \E c \in Codes, n \in LightNumbers, w \in Powers, k \in CircuitIds :
    Start(r, "createLight", Concerned(c, {k}), NoRow, NoRow,
          [cab |-> c, circuit |-> k, number |-> n, power |-> w], {},
          k \in CircuitsOf(circuit, c))

(* A light point now hangs where a client said.                             *)
Hung(l, own) == strays' = IF own THEN strays \ {l} ELSE strays \cup {l}

InsertLight(r) ==
  /\ Checked(r, "createLight")
  /\ \E l \in LightIds \ Lights(light) :
       light' = [light EXCEPT ![l] = request[r].new] /\ Hung(l, request[r].own)
  /\ Committed(r, {request[r].new.circuit}, <<>>)
  /\ UNCHANGED <<cabinets, circuit, stale>>

UpdateLight(r) ==
  \E l \in Lights(light), n \in LightNumbers, w \in Powers, k \in CircuitIds :
    LET old == light[l] IN
      Start(r, "updateLight", Concerned(old.cab, {old.circuit, k}), l, old,
            [old EXCEPT !.circuit = k, !.number = n, !.power = w], {},
            k \in CircuitsOf(circuit, old.cab))

(* Faulty variant: only the circuit the light point hangs from now.         *)
WriteLightForward(r) ==
  /\ Checked(r, "updateLight")
  /\ LET q == request[r]  now == Updated(light[q.id], q.old, q.new) IN
     /\ q.id \in Lights(light)
     /\ light' = [light EXCEPT ![q.id] = now]
     /\ Hung(q.id, q.own)
     /\ Committed(r, {now.circuit}, <<>>)
  /\ UNCHANGED <<cabinets, circuit, stale>>

(* Both the circuit it hung from and the one it hangs from are recomputed.  *)
WriteLight(r) ==
  /\ Checked(r, "updateLight")
  /\ LET q == request[r]  now == Updated(light[q.id], q.old, q.new) IN
     IF q.id \notin Lights(light) THEN Failed(r)
     ELSE /\ light' = [light EXCEPT ![q.id] = now]
          /\ Hung(q.id, q.own)
          /\ Committed(r, {now.circuit, q.old.circuit}, <<>>)
          /\ UNCHANGED circuit
  /\ UNCHANGED <<cabinets, stale>>

DeleteLight(r) ==
  \E l \in Lights(light) :
    Start(r, "deleteLight", Concerned(light[l].cab, {light[l].circuit}), l,
          light[l], NoRow, {}, TRUE)

RemoveLight(r) ==
  /\ Checked(r, "deleteLight")
  /\ light' = [light EXCEPT ![request[r].id] = NoRow]
  /\ Hung(request[r].id, TRUE)
  /\ Committed(r, {request[r].old.circuit}, <<>>)
  /\ UNCHANGED <<cabinets, circuit, stale>>

-----------------------------------------------------------------------------
(* Import and restore.  A session s holds the tables as the transaction has *)
(* left them, the light points added but not flushed, which its queries do  *)
(* not see (autoflush is off), and the circuits to recompute.               *)

Session(circ, lit) == [circ |-> circ, lit |-> lit, pending |-> {}, hit |-> {}, full |-> FALSE]

NumberedCircuits(s, c, n) == {k \in CircuitsOf(s.circ, c) : s.circ[k].number = n}
NumberedLights(s, c, n) == {l \in LightsOf(s.lit, c) \ s.pending : s.lit[l].number = n}

(* A circuit that is missing is added and flushed, with all that is pending.*)
WithCircuit(s, c, n) ==
  LET free == CircuitIds \ Circuits(s.circ) IN
  IF NumberedCircuits(s, c, n) # {} THEN s
  ELSE IF free = {} THEN [s EXCEPT !.full = TRUE]
  ELSE [s EXCEPT !.circ[Min(free)] = [cab |-> c, number |-> n, total |-> 0],
                 !.pending = {}]

(* Faulty variant: an insert instead of an upsert.                          *)
WithLightInserted(s, c, n, entry) ==
  LET free == LightIds \ Lights(s.lit)
      k == Min(NumberedCircuits(s, c, n))
  IN IF s.full \/ free = {} THEN [s EXCEPT !.full = TRUE]
     ELSE [s EXCEPT !.lit[Min(free)] = [cab |-> c, circuit |-> k,
                      number |-> entry.number, power |-> entry.power],
                    !.hit = @ \cup {k}]

WithLight(s, c, n, entry) ==
  LET free == LightIds \ Lights(s.lit)
      same == NumberedLights(s, c, entry.number)
      k == Min(NumberedCircuits(s, c, n))
  IN IF s.full \/ (same = {} /\ free = {}) THEN [s EXCEPT !.full = TRUE]
     ELSE IF same # {}
     THEN [s EXCEPT !.lit[Min(same)].circuit = k, !.lit[Min(same)].power = entry.power,
                    !.hit = @ \cup {k}]
     ELSE [s EXCEPT !.lit[Min(free)] = [cab |-> c, circuit |-> k,
                      number |-> entry.number, power |-> entry.power],
                    !.pending = @ \cup {Min(free)}, !.hit = @ \cup {k}]

(* One row; rows of unknown cabinets are reported and skipped.              *)
ImportRow(s, row) ==
  IF row.cab \notin cabinets THEN s
  ELSE LET t == WithCircuit(s, row.cab, row.circuit)
       IN IF row.light = NoRow THEN t ELSE WithLight(t, row.cab, row.circuit, row.light)

(* The session after each row, and at the end.                              *)
Imported(circ, lit, file) ==
  LET after[n \in 0..Len(file)] ==
        IF n = 0 THEN Session(circ, lit) ELSE ImportRow(after[n - 1], file[n])
  IN after[Len(file)]

(* The rows with these ids as a query lists them, ordered by number.        *)
Listed(ids, rows) ==
  {s \in SetToSeqs(ids) : \A i \in 2..Len(s) : rows[s[i - 1]].number <= rows[s[i]].number}

(* Faulty variant: the light points name their circuit by its key.          *)
BackupsByKey(circ, lit, c) ==
  {[circuits |-> [i \in DOMAIN ks |-> circ[ks[i]].number],
    lights |-> [i \in DOMAIN ls |->
      [circuit |-> lit[ls[i]].circuit, number |-> lit[ls[i]].number, power |-> lit[ls[i]].power]]] :
   ks \in Listed(CircuitsOf(circ, c), circ),
   ls \in Listed({l \in LightsOf(lit, c) : lit[l].circuit \in CircuitsOf(circ, c)}, lit)}

(* The backup of a cabinet: its circuits, and its light points that hang    *)
(* from one of them, which they name by its number.                         *)
Backups(circ, lit, c) ==
  {[circuits |-> [i \in DOMAIN ks |-> circ[ks[i]].number],
    lights |-> [i \in DOMAIN ls |->
      [circuit |-> circ[lit[ls[i]].circuit].number,
       number |-> lit[ls[i]].number, power |-> lit[ls[i]].power]]] :
   ks \in Listed(CircuitsOf(circ, c), circ),
   ls \in Listed({l \in LightsOf(lit, c) : lit[l].circuit \in CircuitsOf(circ, c)}, lit)}

(* A restore goes through the circuits of the file, then through those its  *)
(* light points name, then through the light points.                        *)
RestoreRows(c, file) ==
  [i \in 1..Len(file.circuits) |-> [cab |-> c, circuit |-> file.circuits[i], light |-> NoRow]]
  \o [i \in 1..Len(file.lights) |->
       [cab |-> c, circuit |-> file.lights[i].circuit, light |-> NoRow]]
  \o [i \in 1..Len(file.lights) |->
       [cab |-> c, circuit |-> file.lights[i].circuit,
        light |-> [number |-> file.lights[i].number, power |-> file.lights[i].power]]]

Restored(circ, lit, c, file) == Imported(circ, lit, RestoreRows(c, file))

(* Circuits that lost a light point, or came into being with some, and that *)
(* are not going to be recomputed.                                          *)
LeftBehind(circ, lit, todo) ==
  {k \in Circuits(circ) : IF k \in Circuits(circuit) THEN Attached(light, k) # Attached(lit, k)
                          ELSE Attached(lit, k) # {}} \ todo

Changed(lit) == {l \in LightIds : lit[l] # light[l]}

Bulk(r, cabs, s) ==
  /\ Orderly => \A q \in InFlight : request[q].cabs \cap (cabs \cup Feeding(cabs)) = {}
  /\ NotNamed(r, Circuits(s.circ) \ Circuits(circuit))
  /\ ~s.full
  /\ circuit' = s.circ
  /\ light' = s.lit
  /\ stale' = stale \cup LeftBehind(s.circ, s.lit, s.hit)
  /\ strays' = strays \ Changed(s.lit)
  /\ request' = [request EXCEPT ![r] =
       IF s.hit = {} THEN Idle
       ELSE [at |-> "committed", cabs |-> cabs, todo |-> s.hit, held |-> <<>>]]
  /\ UNCHANGED cabinets

Import(r) ==
  \E file \in Files : Bulk(r, {file[i].cab : i \in DOMAIN file}, Imported(circuit, light, file))

Restore(r) ==
  \E c, d \in cabinets :
    \E file \in BackupFiles \cup Backups(circuit, light, d) :
      Bulk(r, {c}, Restored(circuit, light, c, file))

-----------------------------------------------------------------------------
(* Cabinets                                                                 *)

CreateCabinet ==
  /\ \E c \in Codes \ cabinets : cabinets' = cabinets \cup {c}
  /\ UNCHANGED <<circuit, light, request, histories>>

(* DELETE of everything that carries the codes, whatever hangs from it.     *)
Drop(cs) ==
  /\ Orderly => \A q \in InFlight : request[q].cabs \cap (cs \cup Feeding(cs)) = {}
  /\ cabinets' = cabinets \ cs
  /\ circuit' = [k \in CircuitIds |->
       IF circuit[k] # NoRow /\ circuit[k].cab \in cs THEN NoRow ELSE circuit[k]]
  /\ light' = [l \in LightIds |->
       IF light[l] # NoRow /\ light[l].cab \in cs THEN NoRow ELSE light[l]]
  /\ stale' = (stale \cap Circuits(circuit')) \cup LeftBehind(circuit', light', {})
  /\ strays' = strays \ Changed(light')
  /\ UNCHANGED request

DeleteCabinet == \E c \in cabinets : Drop({c})

Wipe ==
  /\ cabinets' = {}
  /\ circuit' = [k \in CircuitIds |-> NoRow]
  /\ light' = [l \in LightIds |-> NoRow]
  /\ stale' = {} /\ strays' = {}
  /\ Orderly => InFlight = {}
  /\ UNCHANGED request

(* The server process ends; its requests end with it.                       *)
Crash ==
  /\ Crashes /\ InFlight # {}
  /\ stale' = stale \cup (Circuits(circuit) \cap
       UNION {request[r].todo : r \in {q \in InFlight : request[q].at # "checked"}})
  /\ request' = [r \in Requests |-> Idle]
  /\ UNCHANGED <<tables, strays>>

-----------------------------------------------------------------------------
Init ==
  /\ cabinets = Codes
  /\ circuit = [k \in CircuitIds |-> NoRow]
  /\ light = [l \in LightIds |-> NoRow]
  /\ request = [r \in Requests |-> Idle]
  /\ stale = {} /\ strays = {}

Arrival(r) ==
  /\ request[r] = Idle
  /\ \/ CreateCircuit(r) \/ UpdateCircuit(r) \/ DeleteCircuit(r)
     \/ CreateLight(r) \/ UpdateLight(r) \/ DeleteLight(r)
     \/ Import(r) \/ Restore(r)

Handler(r) ==
  \/ InsertCircuit(r) \/ WriteCircuit(r) \/ RemoveCircuit(r)
  \/ InsertLight(r) \/ WriteLight(r) \/ RemoveLight(r)
  \/ SumTotals(r) \/ StoreTotals(r)

Next ==
  \/ \E r \in Requests : Arrival(r) \/ Handler(r)
  \/ CreateCabinet \/ DeleteCabinet \/ Wipe \/ Crash

Spec == Init /\ [][Next]_vars

-----------------------------------------------------------------------------
(* Properties                                                               *)

(* Rows, requests and totals have their types; a total never exceeds what   *)
(* all light points together could draw.                                    *)
TypeOK ==
  /\ cabinets \subseteq Codes
  /\ circuit \in [CircuitIds -> CircuitRow \cup {NoRow}]
  /\ light \in [LightIds -> LightRow \cup {NoRow}]
  /\ \A r \in Requests : request[r].at \in {"idle", "checked", "committed", "summed"}
  /\ stale \subseteq CircuitIds /\ strays \subseteq LightIds

(* The nominal that listings and alarm engine read is the one the map sums  *)
(* afresh, unless a request is about to store it, or an import, a restore,  *)
(* a deletion or a crash has left it behind (stale).                        *)
Summing(k) == \E r \in InFlight : request[r].at # "checked" /\ k \in request[r].todo

TotalsExact ==
  \A c \in cabinets : \A k \in CircuitsOf(circuit, c) :
    k \in stale \/ Summing(k) \/ circuit[k].total = Tree(c).power[k]

(* The same without the exception: the claim of _recompute_circuit_power.   *)
TotalsKept ==
  \A c \in cabinets : \A k \in CircuitsOf(circuit, c) :
    InFlight = {} => circuit[k].total = Tree(c).power[k]

(* A light point hangs from an existing circuit of its own cabinet, unless a*)
(* client that created or changed it named another: no move, deletion,      *)
(* import or restore, and no crash, sends a light point astray.             *)
OwnCircuit ==
  \A l \in Lights(light) \ strays : light[l].circuit \in CircuitsOf(circuit, light[l].cab)

(* The same without the exception: "each lighting point belongs to one      *)
(* circuit" of its cabinet.                                                 *)
NoStrays == \A l \in Lights(light) : light[l].circuit \in CircuitsOf(circuit, light[l].cab)

(* When no two circuits and no two light points of a cabinet share their    *)
(* number, restoring its backup on itself changes nothing, and restoring it *)
(* on an empty cabinet makes a copy with the same backup.  (States at rest  *)
(* suffice: it is about the tables, and a crash brings any tables there.)   *)
Unambiguous(circ, lit, c) ==
  /\ \A k, m \in CircuitsOf(circ, c) : circ[k].number = circ[m].number => k = m
  /\ \A l, m \in LightsOf(lit, c) : lit[l].number = lit[m].number => l = m

BackupRoundTrip == InFlight = {} =>
  \A c, d \in cabinets : \A file \in Backups(circuit, light, c) :
    LET s == Restored(circuit, light, d, file)
    IN (Unambiguous(circuit, light, c) /\ ~s.full) =>
         /\ c = d => s.circ = circuit /\ s.lit = light
         /\ CircuitsOf(circuit, d) \cup LightsOf(light, d) = {} =>
              Backups(s.circ, s.lit, d) = {file}

(* The light point of a row is that of another row, too.                    *)
Repeats(file, c, n) ==
  \E i, j \in DOMAIN file :
    /\ i # j /\ file[i].cab = c /\ file[j].cab = c
    /\ file[i].light # NoRow /\ file[j].light # NoRow
    /\ file[i].light.number = n /\ file[j].light.number = n

(* An import only ever adds and updates: whatever is in the file, it deletes*)
(* nothing, and it gives two circuits of a cabinet the same number never,   *)
(* and two light points only if the file has several rows for the number.   *)
(* Where it has not, a second import of the file changes nothing.           *)
ImportUpserts == InFlight = {} =>
  \A file \in Files :
    LET s == Imported(circuit, light, file)
        again == Imported(s.circ, s.lit, file)
    IN ~s.full =>
         /\ Circuits(circuit) \subseteq Circuits(s.circ) /\ Lights(light) \subseteq Lights(s.lit)
         /\ \A c \in Codes : Unambiguous(circuit, light, c) =>
              /\ \A k, m \in CircuitsOf(s.circ, c) : s.circ[k].number = s.circ[m].number => k = m
              /\ \A l, m \in LightsOf(s.lit, c) :
                   s.lit[l].number = s.lit[m].number => l = m \/ Repeats(file, c, s.lit[l].number)
         /\ (\A c \in Codes : /\ Unambiguous(circuit, light, c)
                              /\ \A n \in LightNumbers : ~Repeats(file, c, n)) =>
              again.circ = s.circ /\ again.lit = s.lit

(* The same of every file: "UPSERT por (CM, Nº)".                           *)
ImportMatches == InFlight = {} =>
  \A file \in Files : \A c \in Codes :
    LET s == Imported(circuit, light, file)
    IN ~s.full /\ Unambiguous(circuit, light, c) => Unambiguous(s.circ, s.lit, c)

=============================================================================
