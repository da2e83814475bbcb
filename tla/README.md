# Phoenix-Ligth: a TLA+ verification of the street-lighting backend

Phoenix-Ligth remotely controls street-lighting cabinets: controllers in the
field report telemetry over MQTT and obey relay and dimming commands; a FastAPI
backend evaluates alarms, runs the dimming programs, keeps the registries of
cabinets, light points, devices, users and projects, and serves a web panel.
This directory models that backend in TLA+, checks the models with TLC and
proves central properties of eight of them with TLAPS. Line numbers refer to
`src/`; `mqtt_client.py`, `control.py` and the like stand for the files under
`src/backend/app/`.

## 1. Inventory

| Component | State | Operations | Talks to |
|---|---|---|---|
| Command plane (`api/v1/control.py`, `api/v1/cabinets.py`) | table `cabinets` (`dimming_mode`, `pre_emergency_mode`), `bus.cabinet_state` | `/relay`, `/dim`, `/mode`, `/emergency/all-on`, `/emergency/clear`, PATCH, create, delete, wipe | MQTT bus, database |
| Dimming loop (`mqtt_client.py` 282-385) | one asyncio task; `_known_cabinets` | a cycle per `dimming_interval_s` | database, bus, controllers |
| Alarm bus (`mqtt_client.py` 140-280, `alarms.py`) | `active_alarms`: cabinet -> dictionary by alarm type | telemetry, status / last will, acknowledge, delete | rule engine, MQTT, panel |
| Demo loop (`mqtt_client.py` 387-439) | a task of its own | synthetic telemetry, plays with relays | alarm bus, command state |
| Live feed (`notify`, `realtime.py`, `app.js`) | a bounded queue per WebSocket; the panel's socket, timers, list and project | notify, `/ws`, `applyLive`, `refreshLive`, polling, reconnection, login, logout | bus, GET `/cabinets` |
| Edge controller (`edge/esp32_firmware/main.cpp`) | relay, PWM level | commands, connect with last will, telemetry | MQTT |
| Rule engine (`alarm_engine.py`) | none | a function of a sample and what the cabinet was told | ingest |
| Dimming program, tariff (`dimming_controller.py`, `tariff.py`) | none; the last light reading | the level for a time, the sun, a light reading, a tariff | dimming loop, `/mode`, `/auto-level` |
| Topology (`topology.py`) | tables `circuits`, `light_points`; the cached total `expected_power_w` | CRUD, CSV import, backup, restore | database |
| Ranks, roles, users (`ranks.py`, `role_store.py`, `roles.py`, `users.py`) | tables `roles`, `users`; copies `RANKS`, `RANK_ORDER` | edit roles, set rank, promote, overrides, create, delete | every permission check |
| Projects, tenancy, devices (`projects.py`, `tenancy.py`, `devices.py`, `device_registry.py`) | tables `projects`, `devices`; `project_id(s)` of users and cabinets | create, delete, assign; register, deactivate; filter and check | every list and every check; ingest |
| Login (`auth.py`, `auth_guard.py`, `ip_guard.py`, `totp.py`, `security.py`) | the account's counter, lock, factors; `ip_bans`; failures in memory | three windows, lock screen, settings, bans, siege | every endpoint |
| Audit, licensing, start-up, seed, tools | | | |

How they interact: all `async` endpoints, the MQTT reader, the dimming loop and
the demo loop share one asyncio event loop. Synchronous endpoints (registries,
alarms, login, users, topology) run on worker threads, each with a database
session. The shared state is the database, `RANKS`, `bus.cabinet_state`,
`bus.active_alarms`, `bus._known_cabinets` and the subscribers' queues; none of
it is locked. What makes the system hard:

- handlers that read rows, suspend in an MQTT publish, and go on with what they
  read;
- a publish has three outcomes: acknowledged; `RuntimeError` at once, because
  the bus has no client; `MqttError`, because the connection died and the bus
  has not noticed. Most handlers foresee only two of them;
- tasks that nothing restarts when an exception ends them;
- one alarm dictionary shared by two tasks and replaced by a third party;
- controllers that reboot into "off" and get no command replayed, and judged by
  a level they may not have obeyed yet;
- queues of bounded length, a reconnection timer and a polling fallback that
  act at the same time in the panel;
- endpoints that check, or count, and commit later; whose UPDATEs write only
  the columns that they changed; and that commit twice;
- a copy of the roles rebuilt in place while other threads read it;
- start-up code that repairs tables and undoes edits.

What makes each part correct: the command plane must give each cabinet back its
own mode after an emergency, keep an emergency lit, respect manual control and
get every program to its lamp; the alarm bus must raise and clear once, be
accurate after each sample and honest about who is offline; the feed must stay
in order, never lose the newest state and catch up after any failure; program
and rules must agree, so that a sound cabinet is quiet and a broken one is not;
the topology's cached totals must be its sums; the registries must not refer to
what is gone; no edit of roles may give more than either version grants; and a
lock must mean what the counter says and end.

## 2. Plan

| Order | Modules | State | Composes / implements |
|---|---|---|---|
| 1 | `CabinetControl`, `CabinetControl_proofs`, `MCControl` | done | operators x dimming loop x registry x broker x controllers |
| 2 | `AlarmLifecycle`, `AlarmBus`, `AlarmBus_proofs`, `MCAlarms` | done | `AlarmBus` implements `AlarmLifecycle` |
| 3 | `LiveFeed`, `LiveFeed_proofs` | done | bus x endpoint x panel |
| 4 | `Topology`, `Topology_proofs`, `MCTopology` | done | circuits x light points x import and restore x crashes |
| 5 | `Ranks`, `Ranks_proofs`, `MCRanks` | done | roles table x copy in memory x account requests x restarts |
| 6 | `Provisioning`, `Binding`, `Provisioning_proofs`, `MCProvisioning` | done | projects x users x cabinets x devices x telemetry; implements `Binding` |
| 7 | `Login`, `Login_proofs` | done | windows x lockout x IP guard x recovery codes, with time |
| 8 | `AlarmEngine`, `DimmingProgram`, `Supervision`, `Supervision_proofs`, `MCSupervision` | done | program x command state x controller x rule engine |
| 9 | `Topology_proofs` | done | what backup, restore and import promise of each other: `BackupRoundTrip`, `ImportUpserts` |

## 3. The modules and the code

### CabinetControl - who decides relay and level

| Variable | Code |
|---|---|
| `row` | table `cabinets`: `id`, `dimming_mode`, `pre_emergency_mode` |
| `cmd` | `bus.cabinet_state` |
| `known` | `bus._known_cabinets` |
| `link` | the broker connection: `none` (`_client` is None), `up`, `broken` (dead, `_client` still set) |
| `scheduler` | `_dimming_loop`: asleep, suspended in a publish, or ended |
| `request[r]` | a handler suspended in a publish with its local variables |
| `cleanups` | deletions committed in the database whose bus state is not yet dropped |
| `lamp`, `online` | the controllers of `main.cpp` |
| `asked`, `touched` | history only: modes people chose; cabinets commanded since their last all-on, or taken by a cycle that could not read their modes |

A cycle begins with one read of all modes. When that read fails the code goes on
with an empty answer (`NothingLoaded`, `mqtt_client.py` 315-316, the event
`"database"`), and a mode that is missing counts as "schedule": the cycle then dims
every cabinet it knows, those in manual mode and in an emergency too.

One action per stretch of a handler between two suspending awaits: `SetDim` /
`DimAcked`, `SetRelay` / `RelayAcked`, `SetMode`, `AllOn` / `AllOnAcked`,
`Clear` / `ClearAcked`, `RequestFails`; `WakeUp` / `CycleAcked` / `CycleFails`
for the loop; `PatchMode`, `Create`, `Delete`, `WipeAll`, `CleanUp` for the
registry. `AwaitAck` is where the three outcomes of a publish come in. Database
writes follow SQLAlchemy: a flush writes only attributes that differ from the
loaded ones (`Changed`, `Flushed`), and a row that has gone raises
`StaleDataError` and drops the commit (`Writable`). The levels that the program
may compute are a set (`AutoLevels`); which one it computes is `Supervision`'s
subject.

Taken as atomic: the SQL between two awaits, and each synchronous endpoint's
transaction. An endpoint on a worker thread may in reality interleave with the
SQL of the event loop, but SQLite serialises the commits and none of these
handlers reads a row, waits and writes it within one such stretch. That
`KeyError` can end the MQTT reader is modelled in `AlarmBus` only. The mode that
a cabinet's restore brings back is a PATCH of the mode here.

### AlarmBus, AlarmLifecycle - active alarms

`table` maps a cabinet to its dictionary object and `alarms` gives the objects'
contents, because a task suspended in a publish keeps the object that the API
may have replaced. `RaiseOn` and `ClearOn` are the two loops of
`_reconcile_alarms`; they suspend at each alarm published. `KeyError` is line
271, `Status` is `_handle_status`, `PublishFails` is what a dead connection does
to each task. `reading` is the environment: the rule engine is abstracted to the
set of conditions that hold. `heard`, `settled`, `offline` and `wiped` are history.

`heard` is what a listener of the MQTT topics knows of each alarm: the last event
was "raised" or "cleared", it was "missed" because there was no client
(`_safe_publish` swallows that) or the connection was dead, or the listener once
got the same event "again". `Announce` is called where the code publishes, with the
alarms it publishes, and not derived from the list.

`AlarmLifecycle` is the abstract promise: each change of the list goes with an event
that says so, nothing else is announced, and a listener agrees with the list
unless the last event did not reach it. `AlarmBus` implements it under
`open <- Visible` (`LifecycleSpec`) as long as nobody acknowledges, deletes or
restarts.

### LiveFeed - from notify to the panel

The state shown is a version number that counts visible changes. `feed[s]` holds
both ends of a WebSocket, the subscriber's queue and the frame under way; `get`
the GET `/cabinets` requests; `ws`, `timers`, `token`, `project`, `view` are the
panel's `window._ws`, pending `setTimeout(connectWS)`, `state.token`,
`state.activeProject` and `state.cabinets`. `me` is `state.me`: `boot` sets it with
the answer to its first request (`Admit`); when that request raises, `boot` ends
with neither a socket nor the timer of the polls (`TurnAway`), and only another
login helps. `view` has three parts: the version shown, whether it is free of
cabinets that have been deleted (`deleted` is the last deletion), and whose cabinets it
shows; `applyLive` updates and adds cabinets and never removes one, the answer of a
GET replaces the list. One panel, of a user who sees every
project, is modelled in full; other subscribers have queues of their own. A
refused request (401) is a failed one here.

### Topology - circuits and light points

| Variable | Code |
|---|---|
| `cabinets`, `circuit`, `light` | the three tables; a row refers to a cabinet by code and to a circuit by key |
| `circuit[k].total` | `expected_power_w`, the cached sum of the circuit's light points |
| `request[r]` | an endpoint: `checked` (loaded and validated), `committed` (its own commit is done), `summed` (`_recompute_circuit_power` has its sum) |
| `stale` | history: circuits whose total an import, a restore, a deletion or a crash left behind |
| `strays` | history: light points whose creation or last change named a circuit that was not one of their cabinet's |

Each single-row endpoint is a check (`CreateCircuit`, `UpdateCircuit`,
`DeleteCircuit`, `CreateLight`, `UpdateLight`, `DeleteLight`), a commit
(`InsertCircuit`, `WriteCircuit`, `RemoveCircuit`, `InsertLight`, `WriteLight`,
`RemoveLight`) and, where the code recomputes, `SumTotals` and `StoreTotals`.
The circuit of a light point is taken from
the request as it is: `CreateLight` and `UpdateLight` offer every key, of this
cabinet, of another one or of none, because `create_lightpoint` and
`update_lightpoint` check it for no account (`Hung` keeps the history).
The bulk endpoints read and commit in one step and then sum. `Imported` is the
database session after the last row of a file, defined row by row as a function;
`Restored` runs the rows of a backup through it. `Backups` are the documents that
GET `/cabinets/{code}/backup` may answer: rows are ordered by their number, so two
with the same number come in either order. `Tree` is what the map sums afresh;
`Load` sums by counting watts. The session does not flush on its own, so a row of
a file does not see the rows the same file added before; that is part of
`WithLight`. The extra audit commit between the two
commits of a reassigned circuit is not a step of its own. A crash forgets the
requests in flight.

### Ranks - roles, their copy, and accounts

| Variable | Code |
|---|---|
| `table`, `user` | tables `roles` and `users` (rank, extra and denied permissions) |
| `cache`, `order` | `RANKS` and `RANK_ORDER` |
| `request[r]` | an endpoint that compares ranks, one that has checked, or a reload between its steps |
| `before` | history: the table before the edit whose reload is under way |

`reload_ranks` reads, clears, fills and reorders in steps that other threads see
(`Reload`); a comparison of two ranks is two look-ups (`Compare`), and the commit
follows. `rank_permissions` looks twice at `RANKS`, whether the rank is there and then
for an entry; `RankPermissions` has the answer of the first look as an argument
(`found`), so that anything may have happened to the copy in between. An entry that
was found and is gone raises `KeyError`: the request fails, nothing is granted. `Restart` is `seed_default_roles` and the first reload. Promotions may
happen at any time: how many activity points lead to one is left out.

### Provisioning, Binding - projects, accounts, cabinets, devices

| Variable | Code |
|---|---|
| `projects`, `home`, `place`, `device` | the tables: a user's `project_id` and `project_ids`, a cabinet's `project_id`, a device's cabinet and `is_active` |
| `request[r]` | an endpoint between its check and its commit, with the row it loaded |
| `heard` | the message `ingest` has judged and not yet stored |
| `source` | whose data `bus.last_telemetry` shows |

`AllowTelemetry` is the verdict of `device_registry.py` in strict and in legacy
mode; `ScopeQuery`, `EnsureVisible` and `ListProjects` are the three forms in which
tenancy decides. `Restart` includes the migration of users' projects and the demo
seed. A deleted cabinet keeps its devices, and a serial that was registered can
never be registered again, active or not (409): this is what the code does, and
`Binding`, one device per cabinet, each serial paired once, is what it then
promises.

### Login - windows, lockout, IP guard

One account. `account` is its row, `challenge` the time left to the newest token
for windows 2 and 3, `bucket` and `ban` the guard of addresses, `request[r]` a
handler with the row it loaded before the slow hash. A name that belongs to nobody counts against the
address and against no account (`UnknownUser`). Times count down in `Tick`;
a counter at its limit stays there. `Unexpired` is the
guard's forgetting of old failures, which only a new one triggers in the code and
which the model does as they expire. `fate` is history: what became of each
recovery code. Password and PIN are one credential. The lock screen accepts any
signed token, challenge tokens included, because `get_current_user` does not ask
for the token's step; `Entitled` says so.

### DimmingProgram, AlarmEngine, Supervision - around the clock

`DimmingProgram` and `AlarmEngine` are the pure functions: `ResolveLevel`,
`AiLevel` with the tariff's `CurrentPeriod` and caps, `AutoLevel`, and `Evaluate`
with one operator per group of rules. Times are in half seconds, because the
programme's last second is in no band. `Supervision` runs one cabinet through them:
the clock and the sun move on, the loop or an operator commands, the controller
obeys later, something breaks, and a sample of what it draws is judged against
what it was told. What these functions are given may be missing: `located` is
whether the cabinet has coordinates, without which adaptive mode falls back to the
fixed programme (`mqtt_client.py` 322-334); the flag `read` of an action says whether
its reads of the database worked, which give no configuration (the fixed programme,
in every mode), no tariff, or a nominal of 0 W (180-181, which silences the rules that
rest on it) if they did not. The fixed programme goes by the server's own clock,
`ServerTime`, which is `ServerAhead` of the local time that tariffs and sun go
by. `UpdateCabinet` is the PATCH of mode and coordinates, without a command of its own.
The thresholds are those of `config.py`, scaled so that they
are integers; the load drawn is nominal times level, give or take 5 %. Every day
is a working day here, the weekend only turns every period into the cheapest.

## 4. Runs

| Run | Bounds | Shows |
|---|---|---|
| `control_faults` | 1 cabinet, 2 requests in flight; broken link, restart, registry, failed reads of the modes; `Orderly` | types, `NoModeFromNowhere`, `EmergencyLit` |
| `control_program` | 1 cabinet with its controller, 1 request, all faults, demo, failed reads of the modes; fairness | `ProgramEnforced`, `LampHeals` |
| `alarms_one_source` | 1 cabinet, 2 conditions, MQTT task; all events | types, `SettledAccurate` |
| `alarms_lifecycle` | 1 cabinet, 2 conditions, both tasks, broken link; fairness | `LifecycleSpec`, `OnlineHonest`, `ConditionListed`, `ConditionCleared` |
| `feed` | 2 sockets, 1 GET, 1 project and all of them, queue of 2, 1 change and any number of samples, 1 login, losses; fairness | types, `FeedInOrder`, `NewestKept`, `OneFeed`, `PollingCatchesUp`, `SocketCatchesUp` |
| `topology_orderly` | 2 cabinets, 2 circuits, 2 light points, 1 number each, 1 W, CSV files of one and two rows, 1 old backup, 2 requests for different cabinets, crashes | types, `TotalsExact`, `OwnCircuit` |
| `topology_transfer` | the same with 2 numbers each and 1 request | `BackupRoundTrip`, `ImportUpserts` |
| `ranks` | 3 built-in roles and a custom one, 2 users, 2 requests, restarts; `Quiet` | types, `CacheMatches`, `AccessFailsClosed`, `RanksExist`, `SomeOwner` |
| `provisioning` | 1 project, an owner and 2 users, 1 cabinet, 2 serials, demo mode, legacy telemetry, 2 requests, restarts; `Orderly`, `Careful` | types, `NoDangling`, `HomeInScope`, `ScopesAgree`, `BindingSpec`, `OwnDataStay` |
| `login` | 1 address, 2 recovery codes, 3 attempts, a lock of 2 minutes, ban of 2 after 3 failures within 2, tokens of 2, 1 request; fairness | types, `LockMatchesCounter`, `RecoveryOnce`, `LockLapses` |
| `supervision` | 3:00 and 20:00, dark or not, lux none, 10 or 100, 2 tariffs, slider at 50, an arterial street of 1000 W at 230 V, a server two hours behind, with and without coordinates, failed reads; lamps blown, half blown or leaking, contactor stuck, no mains | `HealthyQuiet`, `FaultsTold`, `StreetKeptSafe` |
| `find_stuck_unseen` | the same with a slider at 40, a punctual server, and blown, half blown and stuck only | `StuckTold` violated |

Why the bounds are enough. Command plane: cabinets meet only in an all-on's
single commit and in the order of a cycle; the proofs of section 6 cover any
number of them. Two requests give every overlap of two handlers. Two conditions
let one alarm be raised or cleared while another is pending. A dictionary object
per cabinet and task, plus one, is always free. A queue of two with a frame under
way overflows at the third push, and samples push without limit; one change makes
an old and a new state, and as many queued frames of either as fit. The change may
be any of those that notify at once, later or never, or the deletion of a cabinet.
The proofs cover any queue and any number of changes for what is no liveness.
Topology: two light points of one circuit, and
two circuits of one cabinet or of two, are what a move, a sum and a stray light
point need, and with one number each row of a file meets what is there; that
numbers differ matters to backups and imports only, which are about tables and not
about requests, so one request at a time (and a crash after its first commit)
brings them about. A file of two rows has a second row that repeats, or does not
see, the first. Ranks: a custom role at the level of a built-in one makes the order
ambiguous, and both users can be owner or not. Provisioning: one project is named
or gone, two serials replace each other; the proofs cover any number of projects
and serials, so assignments that differ in their main project as well. Login: with
three attempts there is a failure that is neither the first nor the last, for the
account and for the address. Addresses do not meet each other, but in siege mode,
which treats every one of them alike, and the guard never touches the account's
lock; what is proved is proved for any number. Supervision: at 3:00 the fixed
programme, the floors and the tariff of the night differ, at 20:00 the evening peak
has its own cap and a server two hours behind is still in its day; it is dark or not
at 20:00 and always dark at 3:00; the sensor says nothing, dark or bright.
`LastVersion`, `MaxLogins` and the sizes above are the only bounds.

Environment assumptions, each a constant that a configuration can switch off:

- `Orderly` of `CabinetControl`: no clear, deletion or new cycle of the dimming
  loop begins while an all-on is suspended in a publish, and an all-on starts
  only when neither a clear nor a cycle is under way. Everything else may overlap
  it. Without it both invariants fail (`control_faults` with `Orderly = FALSE`,
  `find_emergency_dimmed`).
- `Orderly` of `Topology`: requests in flight concern different cabinets; the
  deletion of a cabinet, imports and crashes come at any time. A cabinet is
  concerned if the request names it, or if a stray light point links it to one that
  it names; and a new circuit does not get a key that another request in flight
  names. Without it `OwnCircuit` fails (see below) and two sums may be stored in
  the wrong order. It does not say that clients name circuits of the right cabinet:
  the code asks that of no account, one ordinary POST or PATCH suffices, and
  `OwnCircuit` excepts the light points that were hung so (`strays`).
- `Quiet` of `Ranks`: role edits overlap neither each other, nor comparisons of
  ranks, nor does the deletion of a role overlap an assignment. Permission checks
  of other endpoints are free to fall anywhere into a reload, and their two looks at
  `RANKS` on both sides of any of its steps (`AccessFailsClosed`). Without `Quiet`
  `RanksExist` and `SomeOwner` fail: a rank that is held reads as level 0 while
  `RANKS` is empty, so that anybody who manages users may take the last owner's.
- `Orderly` of `Provisioning`: the deletion of a project overlaps no request,
  two requests do not write one user's projects at once, nor register for one
  cabinet at once. Without it `NoDangling`, `BindingSpec` and, with two projects,
  `HomeInScope` fail.
  `Careful` of `Provisioning`: an owner who PATCHes a cabinet names a project that exists, which
  that endpoint does not ask.
- `Orderly` of `Login`: requests for the account do not overlap. Without it a
  recovery code serves twice (see below), and counter and lock part.

### Divergences

`find_stuck_unseen` is the finding that `PROJECT.json` lists. The other
disagreements between what the code does and what it, its comments or its
documents say are kept as configurations to be run by hand, for instance
`tlc -config find_slider_lost.cfg MCControl`; each one ends in a violation of
the property it names. Those that are named after a run need no configuration of
their own: they take the run's cfg with the changes stated and with no other
property.

| Configuration | Module | Property | Promise | Code |
|---|---|---|---|---|
| `control_faults` with `Orderly = FALSE` | MCControl | `NoModeFromNowhere` | an emergency gives the mode back | an all-on overlapped by a clear writes old rows (`control.py:78`) |
| `find_emergency_dimmed` | MCControl | `EmergencyLit` | an emergency stays lit | a cycle under way goes on with modes read before (`mqtt_client.py:375`) |
| `find_program_stops` | MCControl | `ProgramSurvivesBroker` | the loop outlives broker failures | `MqttError` ends the task (`mqtt_client.py:383`) |
| `find_emergency_missed` | MCControl | `EmergencyReachesLamp` | an all-on reaches every controller | not retained, clean session (`main.cpp:60`) |
| `find_slider_lost` | MCControl | `SliderTakesControl` | `control.py:214` "Mover el slider = tomar control manual" | compared with the mode read before the publish (216) |
| `find_loop_overrides` | MCControl | `LoopLeavesManualAlone` | `mqtt_client.py:380` "el operario tiene el control; no lo pisamos" | modes read once per cycle (375) |
| `control_faults` with `LoopLeavesManualAlone` | MCControl | `LoopLeavesManualAlone` | the same | a read of the modes that fails leaves every cabinet on "schedule" (315), emergencies too |
| `find_command_dropped` | MCControl | `CommandRecorded` | `mqtt_client.py:66` "se registra igual (estado comandado)" | only `RuntimeError` is caught (71) |
| `find_ghost_command` | MCControl | `NoGhostCommand` | `cabinets.py:232` "Delete a cabinet plus everything attached" | a command in flight records after the deletion (`control.py:213`) |
| `find_alarm_raised_again` | MCAlarms | `HeardIsVisible` | `README.md:241` "cada alarma se levanta una sola vez" | acknowledging empties the list without a cleared event (`alarms.py:43`) |
| `alarms_lifecycle` with `IngestSurvives` | MCAlarms | `IngestSurvives` | ingestion goes on | two tasks delete the same key (`mqtt_client.py:271`) |
| `alarms_one_source` with `OfflineShown` | MCAlarms | `OfflineShown` | a cabinet without connection is shown offline | online means that no COMMUNICATION_LOSS is listed (`mqtt_client.py:119`): an acknowledged one shows it online |
| `find_change_unsent` | LiveFeed | `EveryChangeSent` | `realtime.py:5` "a fresh one whenever the bus state changes" | the dimming loop, acknowledgements and deletions do not notify |
| `feed` with `DeletedGoes` | LiveFeed | `DeletedGoes` | the map is real-time: a deleted cabinet goes | `applyLive` never removes one (888-896) |
| `find_scope_lost` | LiveFeed | `ScopeShown` | `app.js:701` "Re-fetch para que las listas reflejen el nuevo scope." | `applyLive` adds the unfiltered cabinets again (893) |
| `find_totals_stale` | MCTopology | `TotalsKept` | the stored total is the sum | an import moves a light point and recomputes only the circuit it moves to |
| `topology_orderly` with `Orderly = FALSE` | MCTopology | `OwnCircuit` | a circuit with light points is not deleted (`topology.py:261`) | counted before, deleted after another request's insertion |
| `topology_orderly` with `NoStrays` | MCTopology | `NoStrays` | `models/circuit.py` "each lighting point belongs to one circuit" of its cabinet | `circuit_id` is stored as it came (`topology.py` 337-340, 463-464) |
| `topology_transfer` with `ImportMatches` | MCTopology | `ImportMatches` | `topology.py:374` "UPSERT por (CM, Nº)" | a row repeated in a file is inserted twice (427-435), since queries do not flush |
| `ranks` with `OwnRankOnly`, and `MCGrants` defined as `{{RoleManage}}` | MCRanks | `OwnRankOnly` | `role_store.py:3` "rehydrated atomically after each change" | missed in a cleared `RANKS` and read after it was filled, a rank has `DEFAULT_RANK`'s permissions (`ranks.py:192`) |
| `ranks` with `Quiet = FALSE` | MCRanks | `SomeOwner` | `users.py` "evita quedarse sin admins" | a rank in a cleared `RANKS` has level 0 (`ranks.py:145`) |
| `ranks` with `Quiet = FALSE` | MCRanks | `RanksExist` | a role in use is not deleted (`roles.py:144`) | looked for before, deleted after another request's assignment |
| `find_edits_lost` | MCRanks | `EditsSurviveRestart` | `role_store.py:22` "admin edits survive an upgrade" | a removed permission or default role is added again at every start (38) |
| `find_lapse_locks_again` | Login | `LapseForgives` | `auth_guard.py` "the lockout auto-clears, so it self-heals" | the counter stays at its limit (48): one failure locks again |
| `login` with `Orderly = FALSE`, `Requests = {r1, r2}`, `Spec` | Login | `RecoveryOnce` | recovery codes are consumed when used | looked up in a row read earlier (`auth.py:244`) |
| `find_siege_for_good` | Login | `SomebodyGetsIn` | siege mode can be ended | nobody on the whitelist, everybody blocked (`security.py:71`) |
| `find_faint_lamps` | MCSupervision | `HealthyQuiet` | a sound cabinet gives no alarm | at 1 % the current is below the zero threshold (`alarm_engine.py:43`) |
| `find_late_sample` | MCSupervision | `LateSampleQuiet` | the same, about to obey | judged against the new command at once (`mqtt_client.py:160`) |
| `supervision` with `FloorAlways` | MCSupervision | `FloorAlways` | `dimming_controller.py:125` "nunca por debajo del suelo de seguridad" | without coordinates, or when the modes cannot be read, the fixed programme counts (`mqtt_client.py` 315, 322-334): 30 at 3:00 for an arterial street, whose floor is 60 |
| `find_last_second` | MCSupervision | `NightLit` | the programme lights the night | 23:59:59 to midnight is in no band (`dimming_controller.py:23`) |
| `find_street_dark` | MCSupervision | `NightLit` | the same | the last light reading is kept for ever (`mqtt_client.py:155`) |

Smaller ones without a property: the docstring of `device_registry.py` says that
strict mode refuses every message for a cabinet without a device, while it refuses
signed ones and takes unsigned ones (`AllowTelemetry`); a deactivated serial can never be
registered again; devices outlive their cabinet; exactly 50 V is neither a line
failure nor an undervoltage; on a server two hours behind, which `supervision` has,
`find_last_second` with 19:30 among its times violates `NightLit` because the programme
is still in its day; `role_store.py` says a role that an administrator
removed stays removed, while a start inserts it again.

## 5. Fairness

- Command plane: the loop's timer fires and its publishes end (`DimmingLoop`);
  suspended handlers go on (`Resumed`); a dead connection is noticed and retried
  every 5 seconds (`LinkLost`, `Connect`, `_run` 205-208). Operators,
  controllers and the breaking of links owe nothing.
- Alarm bus: the same for the tasks; strong fairness of `Telemetry`, because a
  controller reports periodically (`main.cpp` 87-113) and a connection that
  comes back again and again lets some of it through. That a condition is listed
  or cleared in the end is promised while at least one of the two tasks lives.
- Feed: timers, the endpoint, the browser's socket events and the poll make
  progress; strong fairness of `Arrive` says that requests do not fail for ever. A
  `boot` whose first request is answered goes on (`Admit`); one that was turned away
  owes nothing, and nothing is promised about such a panel (`me` is false).
  `FairSpec` adds that some controller keeps reporting (each sample ends in a
  notify); `QuietFairSpec` does not, which is what `find_change_unsent` needs.
- Login: time goes on (`Tick`). Nobody has to try anything, and nothing that
  is tried may keep the lock: `LockLapses`.

The other runs check safety only.

## 6. Proofs

`CabinetControl_proofs` is checked by TLAPS for any sets of cabinets, requests,
row keys, levels, modes and events:

- `TypeCorrect`: `Spec => []TypeOK`.
- `ModesAreAsked`: if `Orderly`, then `Spec => []NoModeFromNowhere`. The
  invariant is not inductive: an all-on writes back rows it read long ago. The
  strengthening `ModesInv` adds `AllOnSees`: every row an all-on has read is
  still there; if it was read without a remembered mode, the mode it was read
  with, which the commit will remember, is one somebody asked for; if it was read
  with a remembered mode, the row still has one.
- `EmergencyStaysLit`: if `Orderly` and the demo loop is off, then
  `Spec => []EmergencyLit`. `LitInv` adds `AllOnAlone` (no clear and no cycle
  beside an all-on), `AllOnLit` (a cabinet already handled is commanded to full
  light or has been touched), `CycleSpares` and `ClearSpares` (a cycle or a clear
  under way has no forced cabinet left to set that is not touched). A cycle that
  could not read the modes touches the cabinets it knows, and these only: it does
  dim an emergency (`LoopLeavesManualAlone` above), and the theorem says that nothing
  else does.

Each step lemma (`TypeStep`, `ModesStep`, `LitStep`) has one step per action;
facts about the building blocks are lemmas of their own. The demo loop is
excluded from `EmergencyStaysLit`, and from its runs, because it switches relays of
its four sample cabinets off by design.

`AlarmBus_proofs` is checked for any finite set of cabinets, any conditions, any
of the two sources and, but for the last theorem, any events:

- `AlarmTypeCorrect`: `Spec => []TypeOK`. It rests on `FreshIsFree`: cabinets and
  suspended tasks refer to at most `Cardinality(Cabinets) + 2` dictionaries, so
  `TablesAssumption` always leaves one that nobody refers to.
- `OfflineIsHonest`: `Spec => []OnlineHonest`: a cabinet is not shown offline unless
  its last status said so, and is shown so if it said so and nobody has acknowledged,
  deleted or restarted since (`wiped`). `offline` itself follows the statuses alone;
  without the excuse it is `OfflineShown`, which fails. `HonestInv` adds `Distinct` (no two
  cabinets share a dictionary) and `HeldByOne` (the dictionary a suspended task
  holds belongs to the task's cabinet or to none any more): without them a task
  that resumes could change the alarms of another cabinet. `Effect` sums up what
  one stretch of reconciliation does: it changes one object and leaves
  COMMUNICATION_LOSS as it was.
- `BusImplementsLifecycle`: if `Undisturbed` (no acknowledgement, deletion or
  restart), then `Spec => LifecycleSpec`, with the refinement mapping of the
  module `AlarmBus`. `HeardInv` adds `HeardIsVisible` and `Current` (the dictionary
  a suspended task holds is still its cabinet's own): because the list and what was
  heard agree, an event that is sent is never the one last heard. The announcing
  steps map to `Report`, sent or not, all others to stuttering. An acknowledgement breaks `Current` and the
  theorem with it; `find_alarm_raised_again.cfg` shows how.
- `OneSourceSettles` and `OneSourceSurvives`: if only one task ingests (`Alone`),
  then `Spec => []SettledAccurate` and `Spec => []IngestSurvives`, with every event.
  `AloneInv` adds `Working`, which says how far a suspended task has got: in the
  first loop, what it has passed of the sample is listed; in the second, the
  dictionary is the sample and what is still to be cleared, and the two do not
  meet. So whatever it pops is there, and what is left at the end is the sample.
  Nothing is settled at a cabinet whose own dictionary is being worked on.

`LiveFeed_proofs` is checked for any sockets, requests, projects, queue size and
numbers of changes and logins:

- `FeedTypes`: `Spec => []TypeOK`, with it that no queue exceeds its limit.
- `FramesInOrder` and `NewestFrameKept`: `Spec => []FeedInOrder` and
  `Spec => []NewestKept`. `OrderInv` adds that nothing queued, under way or sent
  is newer than the current version: without it the next frame would not have to
  be the newest in its queue. `Well` says it of one subscriber, so that a step at
  one socket leaves the others' alone; dropping the head of a full queue and
  appending keeps it (`SequenceTheorems`).
- `OneFeedAtATime`: `Spec => []OneFeed`. `OneInv` counts sockets, timers and
  pending boots, and adds that there is none of them before the first login. Every
  step of the panel exchanges one of the three for another.

`Ranks_proofs` is checked for any ladder of roles, any permissions, users and
requests:

- `RankTypes`: `Spec => []TypeOK`, whatever overlaps. `TypeInv` says of the rows
  of the table, of the copy and of what reloads carry that nobody but the owner
  is at the top of the ladder, and of each request what its check has established
  about its arguments alone.
- `CopyMatches` and `AccessClosed`: if `Quiet`, then `Spec => []CacheMatches` and
  `Spec => []AccessFailsClosed`. `Copying` adds what the copy is at each step of
  the one reload that may be under way: the table before the edit, nothing, the
  table after it. `AccessFailsClosed` is about any answer of the first look and any
  state of the copy at the second: a rank that was found gets what its role grants
  before or after the edit, one that was not gets at most what `DEFAULT_RANK` does.
- `RanksHaveRoles`: if `Quiet`, then `Spec => []RanksExist`. `Promised` adds that
  a role about to be assigned exists, that one about to be deleted has no users,
  and that the two are never under way together.
- `OwnerStays`: if `Quiet`, then `Spec => []SomeOwner`. Every step keeps one
  particular account an owner and safe (`OwnerSafe`): a request that would take its
  rank or delete it has not passed its comparison, and among the levels it compares
  is the top of the ladder, which nobody exceeds. A promotion is no danger, since
  nothing follows the owner's role in the order.

`Topology_proofs` is checked for any finite sets of keys and powers, any codes and
numbers, any requests, and files of any length:

- `TopologyTypes`: `Spec => []TypeOK`, with overlapping requests, careless clients
  and crashes. That a total is bounded rests on `LoadInRange`: a circuit's watts
  are among all watts.
- `LightsHang` and `TotalsAreExact`: if `Orderly`, then `Spec => []OwnCircuit` and
  `Spec => []TotalsExact`, whatever circuits clients name. `Sound` adds `Promised`:
  what each request relies on until its next step (the row it loaded is still the
  row, the circuit to be deleted is empty, the light points loaded with a circuit are
  all of it, a known total is the stored one, a sum that waits to be stored is
  still right), and that a light point about to be hung from a circuit of its
  cabinet, by what the handler has seen, still can be. With stray light points a
  circuit's load may depend on the rows of two cabinets: a request concerns both, and
  no circuit comes into being under a key that a request in flight names
  (`NotNamed`). `Undisturbed` shows once that a step within some cabinets breaks no
  promise about others.
- Import and restore go through a file row by row. `RunsExist` proves that the
  function `Imported` is defined by has a value for every row, and
  `ImportKeepsFaith` that each session on the way is `Faithful` (it adds rows, or
  changes light points, of the file's cabinets only, and every light point it
  touched hangs from a circuit that will be summed). Both are inductions over the
  rows; since the induction theorems of the library are out of reach, they take
  the smallest counterexample instead (`LeastElement`, from the well-founded order
  of the naturals).
- `ImportIsUpsert`: `Spec => []ImportUpserts`, with no assumption about requests.
  (Like the next one it is about tables in which numbers are unique in a cabinet,
  which the property says.) `Read` is the invariant of the rows read so far: what the session has of circuits
  and light points was there before or is named by one of those rows
  (`CircuitsRead`, `LightsRead`), numbers of circuits stay unique, those of light
  points unless the file repeats one (`Repeats`, `OneUnlessRepeated`), and without
  repetitions each of those rows is in place (`FoundAll`). A session does not see the light
  points it has just added: a repeated row does give a number twice, which the
  property says and does not exclude by a hypothesis. The second import meets only rows in place, and `FoundRow` shows
  that such a row changes nothing, by induction over the file once more.
- `BackupsRoundTrip`: `Spec => []BackupRoundTrip`, likewise. A backup is made from
  listings by number (`MadeFrom`), which are strictly ascending where numbers are
  unique (`ListedAscends`), so that a cabinet has only one. The rows of a restore
  recall all of the cabinet and nothing else (`RowsRecall`): on the cabinet itself
  they are all in place (`RestoreInPlace`), on an empty one the session ends as a
  `Copy` of it (`RestoreCopies`, by what `Read` says of an import), and copies
  have equal listings, since two ascending sequences of the same numbers are equal
  (`SameOrder`, `CopiesShareBackups`). That numbers are ordered is
  `NumbersAssumption`: they are integers in the schemas and the tables.

`Provisioning_proofs` is checked for any sets of projects, users, cabinets,
serials and requests, with demo mode and strict mode on or off:

- `Types`: `Spec => []TypeOK`, for which `OldRegistered` is needed as well: the
  devices a registration has loaded are still in the table, active or not.
- `NoClash`: with `Orderly`, no two requests in flight clash. The other theorems
  rest on it.
- `MainProjectInScope`: if `Orderly`, then `Spec => []HomeInScope`. `HomeInv` adds
  that what a request is about to write is well-formed, and that the row an
  assignment loaded is still the user's: writing the columns that differ then
  gives the new row.
- `ProjectsExist`: if `Orderly` and `Careful`, then `Spec => []NoDangling`.
  `RefInv` adds that a project about to be deleted is still unreferenced, and that
  the projects a request is about to write still exist.
- `ListsAndChecksAgree`: `Spec => []ScopesAgree` under the same assumptions, as
  `NoDangling` implies it.
- `ImplementsBinding`: if `Orderly`, then `Spec => BindingSpec`. `PairInv` adds
  that a cabinet has one active device at most and that a registration in flight
  has loaded it. `RegisterCommit` maps to `Pair`, `DeactivateDevice` to `Unpair`
  or, if the device was inactive, to stuttering, all others to stuttering.
- `OwnDataAreKept`: if `Orderly`, then `Spec => OwnDataStay`, an action property
  from the same invariant.

`Login_proofs` is checked for any addresses, codes, limits and times, under
`Orderly`:

- `LockTold`: `Spec => []LockMatchesCounter`.
- `CodesOnce`: `Spec => []RecoveryOnce`.

Neither is inductive: a handler commits what follows from a row it loaded before
the slow hash. `Held` adds that a request in flight is the only one and that its
row is still the account's and not locked, so that the minutes that pass meanwhile
change nothing in it (`TickStep`).

- `LoginTypes`: `Spec => []TypeOK`. `Door` adds that a registration in flight found
  no account, so that there is never a second one; `Guard` that a bucket is a
  sequence of times within the window, one below the threshold at most, which
  `UnexpiredLeft` shows that forgetting preserves.

`Supervision_proofs` is checked for any clock readings, light readings, tariffs,
slider levels, faults and loads, every street profile and every sound voltage.
`SupervisionAssumption` takes from the schemas that a street has one of three
profiles and that caps and floors are percentages. The properties are about steps,
and rest on types alone: `TypeInv` adds to them that every commanded level is dark,
20 % and more, or a position of the slider.

- The programme: `ProfileLevels`, `StreetLevels`, `PeriodOfDay` (every half second
  of the day has a period, because an hour of the day is below 24) and `AiLevels`
  say what its functions return. From them follows `StreetStaysSafe`,
  `Spec => StreetKeptSafe`, for cabinets with coordinates whose modes and tariffs could
  be read; the run checks two tariffs at two times. What happens to the others is
  `FloorAlways`, which fails.
- The judgement: what is measured is rounded down twice, so each fault has a lemma
  that its sign survives the rounding (`HalfSeen`, `LeakSeen`, `StuckSeen`).
  `FaultsAreTold`: if `Loaded` (11 W of lamps or more), then `Spec => FaultsTold`: each
  fault at the next sample, those that only the consumption shows (`ByNominal`) at
  the next for which the nominal could be read. Below
  that a stuck contactor burns less than the 10 W it is recognised by.
- `SoundCabinetQuiet`: if `WithinSensors`, then `Spec => HealthyQuiet`. The
  hypothesis says from which loads the code's thresholds make sense: at the lowest
  level the lamps draw at least 13 W, which is 0.05 A at 253 V, and at full light
  5.6 kW, which is 30 A at 207 V (`SoundCurrent`). The first half is what
  `find_faint_lamps.cfg` violates with a slider at 1 %. The run's 1000 W with a
  slider at 50 % satisfy both.

`Orderly` and `Quiet` are hypotheses of these theorems about how
clients' requests fall in time, not about the code, and `Careful` (of `Provisioning`)
about one field of one request of an owner; section 4 says which divergence each
one excludes. No theorem assumes that a read of the database works or that clients
name what exists in `Topology`: where the code then falls short, the property
says of which state or step it speaks, and section 4 lists the stronger one that
fails. Every theorem holds for the values FALSE of the switches as well
unless it names one.

Every invariant and action property of the runs, and both refinements, have a
theorem. Only model-checked is liveness (`ProgramEnforced`, `LampHeals`,
`ConditionListed`, `ConditionCleared`, `PollingCatchesUp`, `SocketCatchesUp`,
`LockLapses`): temporal proofs under fairness, and `ENABLED`, are out of the
prover's reach.

## 7. Not modelled

- Authorization and the audit trail of commands: they decide whether a request
  happens, not what it does. A commit of the audit entry is part of the
  handler's last step. Permissions are the subject of `Ranks`, scopes of
  `Provisioning`.
- The trigonometry of `sun.py`: whether it is dark is an input. The price service
  is shown and decides nothing.
- `activity_points`, read before and written after the awaits of a command: they
  only decide when a promotion is due, and `Ranks` lets it happen at any time.
- The connection pool, of which each WebSocket keeps a connection: the pool is
  SQLAlchemy's.
- That a queued frame refers to the live command dictionary, so that it may show
  a newer command beside older alarms until the next frame.
- `device_guard.py`, the list of browsers known to a user; the cryptography of
  passwords, tokens and TOTP; the window of TOTP codes.
- Contact details of users, names and map settings of projects, labels of roles,
  the catalogue of lamps, the location and models of light points: data nothing
  else depends on.
- Schema migrations of `database.py`, settings, licensing, tools, deployment files
  and the panel's presentation.
- In `supervision`, the other faults that one sensor tells on its own (surge, heat,
  door, intrusion): `Signs` has them, and `FaultsAreTold` covers them; adding them to
  `Faults` exercises them at the price of a longer run.
