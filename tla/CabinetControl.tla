--------------------------- MODULE CabinetControl ---------------------------
(***************************************************************************)
(* The command plane of the backend: who decides the level and the relay  *)
(* of each cabinet.  Operators act through /dim, /relay, /mode, PATCH and  *)
(* the two emergency endpoints (api/v1/control.py, api/v1/cabinets.py);    *)
(* the dimming loop of the MQTT bus acts on its own every minute           *)
(* (core/mqtt_client.py).                                                  *)
(*                                                                         *)
(* Endpoints and loops share one asyncio event loop.  A handler runs       *)
(* without interruption from one await that really suspends to the next;   *)
(* the only such awaits are the MQTT publishes, which wait for the         *)
(* broker's QoS 1 acknowledgement.  Each handler is therefore split at its *)
(* publishes, and everything between two of them is one step.              *)
(***************************************************************************)
EXTENDS Naturals, FiniteSets

CONSTANTS
  Cabinets,     (* cabinet codes                                            *)
  Requests,     (* slots for HTTP requests that may be in flight at once    *)
  Devices,      (* the cabinets whose controller hardware is represented    *)
  AutoModes,    (* dimming modes in which the program sets the level        *)
  AutoLevels,   (* levels the program may compute                           *)
  DimLevels,    (* levels an operator may pick on the slider                *)
  RelayStates,  (* relay states an operator may command                     *)
  RowIds,       (* primary keys of the cabinets table                       *)
  Events,       (* which outside events can happen, see Environment         *)
  Orderly,      (* TRUE: no command overlaps with an /emergency request     *)
  NoRow,        (* "no such row in the cabinets table"                      *)
  None          (* Python's None / a missing dictionary entry               *)

Manual == "manual"
Schedule == "schedule"
Modes == AutoModes \cup {Manual}

ASSUME ModesAssumption == Schedule \in AutoModes /\ Manual \notin AutoModes
ASSUME LevelsAssumption == AutoLevels \subseteq 0..100 /\ DimLevels \subseteq 0..100
ASSUME RelayAssumption == RelayStates \subseteq {"on", "off"}
ASSUME DevicesAssumption == Devices \subseteq Cabinets
ASSUME EventsAssumption ==
  Events \subseteq {"link", "restart", "registry", "device", "demo", "database"}
ASSUME OrderlyAssumption == Orderly \in BOOLEAN
ASSUME NoneAssumption == None \notin Modes

VARIABLES
  row,        (* cabinets table: code -> row or NoRow                       *)
  cmd,        (* bus.cabinet_state: code -> commanded state or None         *)
  known,      (* bus._known_cabinets                                        *)
  link,       (* broker connection: "none", "up", or "broken" and unnoticed *)
  scheduler,  (* the _dimming_loop task                                     *)
  request,    (* request slot -> the suspended handler                      *)
  cleanups,   (* deleted sets of cabinets whose live state is still there   *)
  lamp,       (* what the field controller applies: code -> relay and level *)
  online,     (* controllers connected to the broker                        *)
  asked,      (* history: the modes a person has given each cabinet         *)
  touched     (* history: cabinets commanded since their last all-on, or    *)
              (* taken by a cycle that could not read their mode            *)

vars ==
  <<row, cmd, known, link, scheduler, request, cleanups, lamp, online, asked, touched>>
hardware == <<lamp, online>>

-----------------------------------------------------------------------------
(* Data                                                                     *)

Levels == 0..100
Row == [id: RowIds, mode: Modes, pre: Modes \cup {None}]
ASSUME NoRowAssumption == NoRow \notin Row
Command == [relay: {"on", "off"}, dim: Levels]
FullLight == [relay |-> "on", dim |-> 100]
PowerOnLamp == [relay |-> "off", dim |-> 0]
Waits == {"ack", "lost"}

Idle == [op |-> "idle"]
DimRequest == [op: {"dim"}, at: Cabinets, level: DimLevels, seen: Row, wait: Waits]
RelayRequest == [op: {"relay"}, at: Cabinets, state: RelayStates, wait: Waits]
AllOnRequest == [op: {"allon"}, at: Cabinets, topic: {"relay", "dim"},
                 todo: SUBSET Cabinets, seen: [Cabinets -> Row \cup {NoRow}],
                 wait: Waits]
ClearRequest == [op: {"clear"}, todo: SUBSET Cabinets,
                 modes: [Cabinets -> Modes], wait: Waits]
Request == {Idle} \cup DimRequest \cup RelayRequest \cup AllOnRequest \cup ClearRequest

Asleep == [pc |-> "sleep"]
Dead == [pc |-> "dead"]
Scheduler == {Asleep, Dead}
             \cup [pc: Waits, cfg: [Cabinets -> Modes], todo: SUBSET Cabinets]

TypeOK ==
  /\ row \in [Cabinets -> Row \cup {NoRow}]
  /\ cmd \in [Cabinets -> Command \cup {None}]
  /\ known \subseteq Cabinets
  /\ link \in {"none", "up", "broken"}
  /\ scheduler \in Scheduler
  /\ request \in [Requests -> Request]
  /\ cleanups \subseteq SUBSET Cabinets
  /\ lamp \in [Devices -> Command]
  /\ online \subseteq Devices
  /\ asked \in [Cabinets -> SUBSET Modes]
  /\ touched \subseteq Cabinets

Registered == {c \in Cabinets : row[c] # NoRow}

(* What the panel shows as the commanded state of c (snapshot's default).   *)
Shown(c) == IF cmd[c] = None THEN FullLight ELSE cmd[c]

Running(op) == \E r \in Requests : request[r].op = op

-----------------------------------------------------------------------------
(* Building blocks                                                          *)

(* record_command: setdefault to full light, then overwrite one field.      *)
WithDim(c, level) == [Shown(c) EXCEPT !.dim = level]
WithRelay(c, state) == [Shown(c) EXCEPT !.relay = state]

(* A publish that the bus hands to a client: it reaches the controller only *)
(* over a live connection, and the handler then waits for the broker.       *)
Applied(l, topic, value) ==
  [relay |-> IF topic = "relay" THEN value ELSE l.relay,
   dim |-> IF topic = "dim" THEN value ELSE l.dim]
Deliver(c, topic, value) ==
  lamp' = IF link = "up" /\ c \in online
          THEN [lamp EXCEPT ![c] = Applied(@, topic, value)]
          ELSE lamp
AwaitAck == IF link = "up" THEN "ack" ELSE "lost"

(* SQLAlchemy's unit of work: only the attributes that differ from the      *)
(* values the session loaded are written, and writing to a row that is gone *)
(* (or was re-created under another key) raises StaleDataError.             *)
Changed(seen, want) == seen.mode # want.mode \/ seen.pre # want.pre
Writable(now, seen) == now # NoRow /\ now.id = seen.id
Flushed(now, seen, want) ==
  [now EXCEPT !.mode = IF want.mode # seen.mode THEN want.mode ELSE @,
              !.pre = IF want.pre # seen.pre THEN want.pre ELSE @]

EndRequest(r) == request' = [request EXCEPT ![r] = Idle]
Free(r) == request[r].op = "idle"
Waiting(r, op, wait) == request[r].op = op /\ request[r].wait = wait

(* The environment assumption of the orderly runs: an all-on is not         *)
(* overlapped by a clear, a deletion or a cycle of the dimming loop.        *)
NoAllOn == Orderly => ~Running("allon")
OnlyCommands == Orderly => ~Running("clear") /\ scheduler \in {Asleep, Dead}

-----------------------------------------------------------------------------
(* POST /cabinets/{id}/dim.  The row is read before the publish and         *)
(* compared after it.                                                       *)

TakeControl(c, level, seen) ==
  LET want == [seen EXCEPT !.mode = Manual] IN
  /\ cmd' = [cmd EXCEPT ![c] = WithDim(c, level)]
  /\ row' = IF Changed(seen, want) /\ Writable(row[c], seen)
            THEN [row EXCEPT ![c] = Flushed(@, seen, want)]
            ELSE row
  /\ asked' = [asked EXCEPT ![c] = @ \cup {Manual}]
  /\ touched' = touched \cup {c}

SetDim(r, c, level) ==
  /\ Free(r) /\ c \in Registered
  /\ IF link = "none"
     THEN /\ TakeControl(c, level, row[c])
          /\ UNCHANGED <<request, hardware>>
     ELSE /\ Deliver(c, "dim", level)
          /\ request' = [request EXCEPT ![r] =
               [op |-> "dim", at |-> c, level |-> level, seen |-> row[c], wait |-> AwaitAck]]
          /\ UNCHANGED <<row, cmd, online, asked, touched>>
  /\ UNCHANGED <<known, link, scheduler, cleanups>>

DimAcked(r) ==
  /\ Waiting(r, "dim", "ack")
  /\ TakeControl(request[r].at, request[r].level, request[r].seen)
  /\ EndRequest(r)
  /\ UNCHANGED <<known, link, scheduler, hardware, cleanups>>

(* POST /cabinets/{id}/relay: no dimming mode involved.                     *)

SetRelay(r, c, state) ==
  /\ Free(r) /\ c \in Registered
  /\ IF link = "none"
     THEN /\ cmd' = [cmd EXCEPT ![c] = WithRelay(c, state)]
          /\ touched' = touched \cup {c}
          /\ UNCHANGED <<request, hardware>>
     ELSE /\ Deliver(c, "relay", state)
          /\ request' = [request EXCEPT ![r] =
               [op |-> "relay", at |-> c, state |-> state, wait |-> AwaitAck]]
          /\ UNCHANGED <<cmd, online, touched>>
  /\ UNCHANGED <<row, known, link, scheduler, asked, cleanups>>

RelayAcked(r) ==
  /\ Waiting(r, "relay", "ack")
  /\ LET c == request[r].at IN
       /\ cmd' = [cmd EXCEPT ![c] = WithRelay(c, request[r].state)]
       /\ touched' = touched \cup {c}
  /\ EndRequest(r)
  /\ UNCHANGED <<row, known, link, scheduler, hardware, asked, cleanups>>

(* POST /cabinets/{id}/mode.  The mode is committed and the level recorded  *)
(* before the only publish, and nothing changes after it: one step.         *)
SetMode(c, mode) ==
  /\ c \in Registered
  /\ row' = [row EXCEPT ![c].mode = mode]
  /\ \/ /\ mode = Manual
        /\ UNCHANGED <<cmd, hardware>>
     \/ /\ mode # Manual
        /\ \E level \in AutoLevels :
             /\ cmd' = [cmd EXCEPT ![c] = WithDim(c, level)]
             /\ Deliver(c, "dim", level)
        /\ UNCHANGED online
  /\ asked' = [asked EXCEPT ![c] = @ \cup {mode}]
  /\ touched' = touched \cup {c}
  /\ UNCHANGED <<known, link, scheduler, request, cleanups>>

-----------------------------------------------------------------------------
(* POST /emergency/all-on.  The rows are read once, at the start; each      *)
(* cabinet takes two publishes; all rows are written in one commit at the   *)
(* end, from the values read at the start.                                  *)

Targets(seen) == {c \in Cabinets : seen[c] # NoRow}

(* Faulty variant: re-activation overwrites the remembered mode.            *)
EmergencyOverwriting(seen) == [seen EXCEPT !.mode = Manual, !.pre = seen.mode]

Emergency(seen) ==
  [seen EXCEPT !.mode = Manual, !.pre = IF @ = None THEN seen.mode ELSE @]

Lit(cs) == [c \in Cabinets |-> IF c \in cs THEN FullLight ELSE cmd[c]]

AllOnCommit(seen) ==
  LET dirty == {c \in Targets(seen) : Changed(seen[c], Emergency(seen[c]))} IN
  row' = IF \A c \in dirty : Writable(row[c], seen[c])
         THEN [c \in Cabinets |-> IF c \in dirty
                                  THEN Flushed(row[c], seen[c], Emergency(seen[c]))
                                  ELSE row[c]]
         ELSE row

AllOnPublish(r, c, topic, value, todo, seen) ==
  /\ Deliver(c, topic, value)
  /\ request' = [request EXCEPT ![r] =
       [op |-> "allon", at |-> c, topic |-> topic, todo |-> todo,
        seen |-> seen, wait |-> AwaitAck]]

(* Cabinets in done have been handled: record their command, then go on     *)
(* with todo.  Without a client no publish suspends, so the handler runs    *)
(* to its end.                                                              *)
AllOnGoOn(r, done, todo, seen) ==
  \/ /\ todo = {} \/ link = "none"
     /\ cmd' = Lit(done \cup todo)
     /\ touched' = touched \ (done \cup todo)
     /\ AllOnCommit(seen)
     /\ EndRequest(r)
     /\ UNCHANGED lamp
  \/ /\ link # "none"
     /\ \E c \in todo : AllOnPublish(r, c, "relay", "on", todo \ {c}, seen)
     /\ cmd' = Lit(done)
     /\ touched' = touched \ done
     /\ UNCHANGED row

AllOn(r, scope) ==
  /\ Free(r) /\ OnlyCommands
  /\ LET seen == [c \in Cabinets |-> IF c \in scope THEN row[c] ELSE NoRow] IN
       AllOnGoOn(r, {}, Targets(seen), seen)
  /\ UNCHANGED <<known, link, scheduler, online, asked, cleanups>>

AllOnAcked(r) ==
  /\ Waiting(r, "allon", "ack")
  /\ LET q == request[r] IN
       IF q.topic = "relay" /\ link # "none"
       THEN /\ AllOnPublish(r, q.at, "dim", 100, q.todo, q.seen)
            /\ UNCHANGED <<row, cmd, touched>>
       ELSE AllOnGoOn(r, {q.at}, q.todo, q.seen)
  /\ UNCHANGED <<known, link, scheduler, online, asked, cleanups>>

(* Faulty variant: clear also takes cabinets that are not in emergency.     *)
AnyInScope(scope) == Registered \cap scope

(* The rows /emergency/clear selects.                                       *)
InEmergency(scope) == {c \in Registered \cap scope : row[c].pre # None}

(* POST /emergency/clear.  Rows and commit come first, without an await;    *)
(* then each restored cabinet gets its automatic level, from the mode the   *)
(* session keeps in memory (expire_on_commit is off).                       *)

ClearGoOn(r, todo, modes) ==
  LET auto == {c \in todo : modes[c] # Manual} IN
  \/ /\ auto = {} \/ link = "none"
     /\ \E level \in [auto -> AutoLevels] :
          cmd' = [c \in Cabinets |-> IF c \in auto THEN WithDim(c, level[c]) ELSE cmd[c]]
     /\ EndRequest(r)
     /\ UNCHANGED lamp
  \/ /\ link # "none"
     /\ \E c \in auto, level \in AutoLevels :
          /\ cmd' = [cmd EXCEPT ![c] = WithDim(c, level)]
          /\ Deliver(c, "dim", level)
          /\ request' = [request EXCEPT ![r] =
               [op |-> "clear", todo |-> auto \ {c}, modes |-> modes, wait |-> AwaitAck]]

Clear(r, scope) ==
  /\ Free(r) /\ NoAllOn
  /\ LET flagged == InEmergency(scope)
         modes == [c \in Cabinets |-> IF c \in flagged THEN row[c].pre ELSE Manual]
     IN /\ row' = [c \in Cabinets |-> IF c \in flagged
                                      THEN [row[c] EXCEPT !.mode = row[c].pre, !.pre = None]
                                      ELSE row[c]]
        /\ ClearGoOn(r, flagged, modes)
  /\ UNCHANGED <<known, link, scheduler, online, asked, touched, cleanups>>

ClearAcked(r) ==
  /\ Waiting(r, "clear", "ack")
  /\ ClearGoOn(r, request[r].todo, request[r].modes)
  /\ UNCHANGED <<row, known, link, scheduler, online, asked, touched, cleanups>>

(* MqttError: the publish failed or was never acknowledged.  No handler     *)
(* catches it: the answer is 500 and the uncommitted session is dropped.    *)
RequestFails(r) ==
  /\ ~Free(r) /\ request[r].wait = "lost"
  /\ EndRequest(r)
  /\ UNCHANGED <<row, cmd, known, link, scheduler, hardware, asked, touched, cleanups>>

-----------------------------------------------------------------------------
(* _dimming_loop.  One cycle reads every mode once and then visits the      *)
(* cabinets it knows; a cabinet with no row counts as scheduled.            *)

(* Faulty variant: the loop goes by the mode an emergency remembers.        *)
RememberedModes ==
  [c \in Cabinets |-> IF row[c] = NoRow THEN Schedule
                      ELSE IF row[c].pre # None THEN row[c].pre ELSE row[c].mode]

LoadedModes == [c \in Cabinets |-> IF row[c] = NoRow THEN Schedule ELSE row[c].mode]

(* A read that raises gives {}: every cabinet then counts as scheduled, one *)
(* in manual mode or in emergency as well.                                  *)
NothingLoaded == [c \in Cabinets |-> Schedule]

(* Faulty variants: a cycle leaves out the cabinets that are switched off;  *)
(* a cycle publishes only the levels that differ from the recorded ones.    *)
CycleOnlyLit(todo, cfg) ==
  LET auto == {c \in todo : cfg[c] # Manual /\ Shown(c).relay = "on"} IN
  \/ auto = {} /\ scheduler' = Asleep /\ UNCHANGED <<cmd, lamp>>
  \/ \E c \in auto, level \in AutoLevels :
       /\ cmd' = [cmd EXCEPT ![c] = WithDim(c, level)]
       /\ Deliver(c, "dim", level)
       /\ scheduler' = Asleep
CycleOnlyChanges(todo, cfg) ==
  LET auto == {c \in todo : cfg[c] # Manual /\ Shown(c).dim \notin AutoLevels} IN
  \/ auto = {} /\ scheduler' = Asleep /\ UNCHANGED <<cmd, lamp>>
  \/ \E c \in auto, level \in AutoLevels :
       /\ cmd' = [cmd EXCEPT ![c] = WithDim(c, level)]
       /\ Deliver(c, "dim", level)
       /\ scheduler' = Asleep

CycleGoOn(todo, cfg) ==
  LET auto == {c \in todo : cfg[c] # Manual} IN
  \/ /\ auto = {} \/ link = "none"
     /\ \E level \in [auto -> AutoLevels] :
          cmd' = [c \in Cabinets |-> IF c \in auto THEN WithDim(c, level[c]) ELSE cmd[c]]
     /\ scheduler' = Asleep
     /\ UNCHANGED lamp
  \/ /\ link # "none"
     /\ \E c \in auto, level \in AutoLevels :
          /\ cmd' = [cmd EXCEPT ![c] = WithDim(c, level)]
          /\ Deliver(c, "dim", level)
          /\ scheduler' = [pc |-> AwaitAck, cfg |-> cfg, todo |-> auto \ {c}]

WakeUp ==
  /\ scheduler = Asleep /\ NoAllOn
  /\ \/ CycleGoOn(known, LoadedModes) /\ UNCHANGED touched
     \/ /\ "database" \in Events
        /\ CycleGoOn(known, NothingLoaded)
        /\ touched' = touched \cup known
  /\ UNCHANGED <<row, known, link, request, online, asked, cleanups>>

CycleAcked ==
  /\ scheduler.pc = "ack"
  /\ CycleGoOn(scheduler.todo, scheduler.cfg)
  /\ UNCHANGED <<row, known, link, request, online, asked, touched, cleanups>>

(* _safe_publish lets MqttError through, and nothing restarts the task.     *)
CycleFails ==
  /\ scheduler.pc = "lost"
  /\ scheduler' = Dead
  /\ UNCHANGED <<row, cmd, known, link, request, hardware, asked, touched, cleanups>>

-----------------------------------------------------------------------------
(* The cabinet registry.  These endpoints run on threads of their own: each *)
(* is one SQL transaction, and a deletion clears the bus afterwards.        *)

PatchMode(c, mode) ==
  /\ "registry" \in Events /\ c \in Registered
  /\ row' = [row EXCEPT ![c].mode = mode]
  /\ asked' = [asked EXCEPT ![c] = @ \cup {mode}]
  /\ touched' = touched \cup {c}
  /\ UNCHANGED <<cmd, known, link, scheduler, request, hardware, cleanups>>

Create(c, id) ==
  /\ "registry" \in Events /\ row[c] = NoRow
  /\ row' = [row EXCEPT ![c] = [id |-> id, mode |-> Schedule, pre |-> None]]
  /\ asked' = [asked EXCEPT ![c] = @ \cup {Schedule}]
  /\ UNCHANGED <<cmd, known, link, scheduler, request, hardware, touched, cleanups>>

Forget(cs) ==
  /\ "registry" \in Events /\ NoAllOn
  /\ row' = [c \in Cabinets |-> IF c \in cs THEN NoRow ELSE row[c]]
  /\ cleanups' = cleanups \cup {cs}
  /\ UNCHANGED <<cmd, known, link, scheduler, request, hardware, asked, touched>>

Delete(c) == c \in Registered /\ Forget({c})
WipeAll == Forget(Cabinets)

CleanUp(cs) ==
  /\ cs \in cleanups
  /\ cmd' = [c \in Cabinets |-> IF c \in cs THEN None ELSE cmd[c]]
  /\ known' = known \ cs
  /\ cleanups' = cleanups \ {cs}
  /\ UNCHANGED <<row, link, scheduler, request, hardware, asked, touched>>

-----------------------------------------------------------------------------
(* The environment: telemetry, the broker connection, restarts, hardware.   *)

(* Telemetry or a status message makes a cabinet known to the bus; nothing  *)
(* ever makes it unknown but deletion.                                      *)
Heard(c) ==
  /\ link = "up" /\ c \notin known
  /\ c \in Devices => c \in online
  /\ known' = known \cup {c}
  /\ UNCHANGED <<row, cmd, link, scheduler, request, hardware, asked, touched, cleanups>>

(* _demo_loop's synthetic telemetry needs no broker.  It also plays with    *)
(* the relay: off for a stuck contactor, on again whenever it is off.       *)
DemoTick(c) ==
  /\ "demo" \in Events
  /\ cmd' \in {[cmd EXCEPT ![c] = WithRelay(c, "off")],
              [cmd EXCEPT ![c] = IF Shown(c).relay = "off" THEN WithRelay(c, "on") ELSE @]}
  /\ known' = known \cup {c}
  /\ UNCHANGED <<row, link, scheduler, request, hardware, asked, touched, cleanups>>

Connect ==
  /\ link = "none"
  /\ link' = "up"
  /\ UNCHANGED <<row, cmd, known, scheduler, request, hardware, asked, touched, cleanups>>

(* The connection dies: acknowledgements still on their way never come.     *)
LinkBreaks ==
  /\ "link" \in Events /\ link = "up"
  /\ link' = "broken"
  /\ \E gone \in SUBSET {r \in Requests : ~Free(r)} :
       request' = [r \in Requests |-> IF r \in gone
                                      THEN [request[r] EXCEPT !.wait = "lost"]
                                      ELSE request[r]]
  /\ \/ scheduler.pc = "ack" /\ scheduler' = [scheduler EXCEPT !.pc = "lost"]
     \/ UNCHANGED scheduler
  /\ UNCHANGED <<row, cmd, known, hardware, asked, touched, cleanups>>

(* _run's read loop raises MqttError: the bus forgets the client.           *)
LinkLost ==
  /\ link = "broken"
  /\ link' = "none"
  /\ UNCHANGED <<row, cmd, known, scheduler, request, hardware, asked, touched, cleanups>>

(* The process restarts: only the database survives.                        *)
Restart ==
  /\ "restart" \in Events
  /\ cmd' = [c \in Cabinets |-> None]
  /\ known' = {}
  /\ link' = "none"
  /\ scheduler' = Asleep
  /\ request' = [r \in Requests |-> Idle]
  /\ cleanups' = {}
  /\ UNCHANGED <<row, hardware, asked, touched>>

(* A controller loses the network, or power.  It connects with a clean      *)
(* session and commands are not retained: nothing is replayed to it.        *)
DeviceDrops(c) ==
  /\ "device" \in Events /\ c \in online
  /\ online' = online \ {c}
  /\ lamp' \in {lamp, [lamp EXCEPT ![c] = PowerOnLamp]}
  /\ UNCHANGED <<row, cmd, known, link, scheduler, request, asked, touched, cleanups>>

DeviceJoins(c) ==
  /\ c \in Devices \ online
  /\ online' = online \cup {c}
  /\ UNCHANGED <<row, cmd, known, link, scheduler, request, lamp, asked, touched, cleanups>>

-----------------------------------------------------------------------------
Init ==
  /\ row \in [Cabinets -> {[id |-> i, mode |-> Schedule, pre |-> None] : i \in RowIds}]
  /\ cmd = [c \in Cabinets |-> None]
  /\ known = {}
  /\ link = "none"
  /\ scheduler = Asleep
  /\ request = [r \in Requests |-> Idle]
  /\ cleanups = {}
  /\ lamp = [c \in Devices |-> PowerOnLamp]
  /\ online = {}
  /\ asked = [c \in Cabinets |-> {Schedule}]
  /\ touched = {}

Operator(r) ==
  \/ \E c \in Cabinets, level \in DimLevels : SetDim(r, c, level)
  \/ \E c \in Cabinets, state \in RelayStates : SetRelay(r, c, state)
  \/ \E scope \in (SUBSET Cabinets) \ {{}} : AllOn(r, scope) \/ Clear(r, scope)

Resumed(r) == DimAcked(r) \/ RelayAcked(r) \/ AllOnAcked(r) \/ ClearAcked(r) \/ RequestFails(r)

DimmingLoop == WakeUp \/ CycleAcked \/ CycleFails

Registry ==
  \/ \E c \in Cabinets, mode \in Modes : SetMode(c, mode) \/ PatchMode(c, mode)
  \/ \E c \in Cabinets, id \in RowIds : Create(c, id)
  \/ \E c \in Cabinets : Delete(c)
  \/ WipeAll
  \/ \E cs \in SUBSET Cabinets : CleanUp(cs)

Environment ==
  \/ \E c \in Cabinets : Heard(c) \/ DemoTick(c) \/ DeviceDrops(c) \/ DeviceJoins(c)
  \/ Connect \/ LinkBreaks \/ LinkLost \/ Restart

Next ==
  \/ \E r \in Requests : Operator(r) \/ Resumed(r)
  \/ DimmingLoop
  \/ Registry
  \/ Environment

Spec == Init /\ [][Next]_vars


(* The loop's timer fires and the broker answers; a dropped connection is   *)
(* noticed and retried every 5 seconds.  Operators owe nothing.             *)
FairSpec ==
  /\ Spec
  /\ WF_vars(DimmingLoop) /\ WF_vars(LinkLost) /\ WF_vars(Connect)
  /\ \A r \in Requests : WF_vars(Resumed(r))

-----------------------------------------------------------------------------
(* Properties                                                               *)

(* A cabinet's mode, in force or remembered for after the emergency, is     *)
(* always one that a person chose for it: the round trip through            *)
(* /emergency/all-on and /clear, repeated, partial or failed half way,      *)
(* never leaves a cabinet in a manual mode that nobody asked for.           *)
NoModeFromNowhere ==
  \A c \in Registered :
    IF row[c].pre = None THEN row[c].mode \in asked[c] ELSE row[c].pre \in asked[c]

(* A cabinet flagged in emergency and in manual mode, that nobody has       *)
(* commanded since the all-on, is commanded to full light: the dimming loop *)
(* does not take it back, unless it could not read the modes, and only the  *)
(* cabinets it knew then: every other cabinet stays lit through such a      *)
(* cycle, and a new all-on lights the dimmed ones again.                    *)
EmergencyLit ==
  \A c \in Registered \ touched :
    row[c].pre # None /\ row[c].mode = Manual => Shown(c) = FullLight

(* A cabinet the bus knows gets the level its program computes, whatever    *)
(* was commanded before, unless it is taken out of the automatic modes, it  *)
(* is forgotten (deletion, restart) or the dimming loop has died.           *)
ProgramEnforced ==
  \A c \in Cabinets :
    c \in known ~> \/ Shown(c).dim \in AutoLevels
                   \/ c \notin known
                   \/ LoadedModes[c] = Manual
                   \/ scheduler = Dead

(* The same without that last excuse: once the broker is back for good, the *)
(* program of a known cabinet is back too.                                  *)
ProgramSurvivesBroker ==
  \A c \in Cabinets :
    <>[](c \in known /\ LoadedModes[c] # Manual /\ link = "up")
      => []<>(Shown(c).dim \in AutoLevels)

(* The level of a reachable lamp in an automatic mode heals: whatever the   *)
(* controller missed or forgot, it gets a program level again and again.    *)
LampHeals ==
  \A c \in Devices :
    <>[](/\ c \in known /\ LoadedModes[c] # Manual /\ scheduler # Dead
         /\ c \in online /\ link = "up")
      => []<>(lamp[c].dim \in AutoLevels)

(* An emergency reaches every cabinet it was meant for, those offline when  *)
(* the button was pressed included: one that is back and stays flagged and  *)
(* untouched ends up lit.                                                   *)
EmergencyReachesLamp ==
  \A c \in Devices :
    <>[](/\ row[c] # NoRow /\ row[c].pre # None /\ c \notin touched
         /\ c \in online /\ link = "up")
      => <>[](lamp[c] = FullLight)

(* The dimming loop never sets the level of a cabinet that is in manual     *)
(* mode.  A mode set during the cycle breaks it, and a cycle that could not *)
(* read the modes.                                                          *)
LoopLeavesManualAlone ==
  [][DimmingLoop =>
       \A c \in Registered : row[c].mode = Manual => cmd'[c] = cmd[c]]_vars

(* Moving the slider takes manual control: when /dim has been answered with *)
(* success the cabinet is in manual mode.                                   *)
SliderTakesControl ==
  [][\A r \in Requests :
       Waiting(r, "dim", "ack") /\ DimAcked(r) =>
         LET c == request[r].at IN row'[c] # NoRow => row'[c].mode = Manual]_vars

(* A level command is recorded, delivered or not: a /dim request never ends *)
(* without leaving its level as the commanded state.                        *)
CommandRecorded ==
  [][\A r \in Requests :
       request[r].op = "dim" /\ request'[r].op = "idle" =>
         cmd'[request[r].at] # None /\ cmd'[request[r].at].dim = request[r].level]_vars

(* Deleting a cabinet also deletes its live state: nothing is kept in the   *)
(* bus under a code that is neither registered nor heard of, once the       *)
(* deletion is over.                                                        *)
NoGhostCommand ==
  \A c \in Cabinets :
    row[c] = NoRow /\ c \notin known /\ c \notin UNION cleanups => cmd[c] = None

=============================================================================
