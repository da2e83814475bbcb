----------------------------- MODULE Supervision -----------------------------
(***************************************************************************)
(* One cabinet around the clock: the programme sets its level              *)
(* (DimmingProgram), its controller obeys when it gets the command, and    *)
(* each sample of what it really does is judged against what it was told   *)
(* (AlarmEngine).  core/mqtt_client.py with the operations of              *)
(* api/v1/control.py and api/v1/projects.py that reach it; the lamps draw  *)
(* their nominal times the level, give or take 5 %, as the bus assumes.    *)
(*                                                                         *)
(* A sample that is delayed shows lamps that have not obeyed yet, so       *)
(* samples are judged when they are taken and only obedience is late.      *)
(***************************************************************************)
EXTENDS DimmingProgram, AlarmEngine

CONSTANTS
  Times,        (* clock readings of interest                               *)
  Luxes,        (* readings of the light sensor, None among them            *)
  Tariffs,      (* [caps, floor, on]: a project's tariff, None per field    *)
  DimLevels,    (* levels an operator picks on the slider                   *)
  Faults,       (* what may be wrong with the cabinet, "none" among them    *)
  Volts,        (* line voltages of a sound supply                          *)
  Street,       (* the cabinet's street profile                             *)
  ServerAhead,  (* what the server's own clock reads after the local time   *)
  Nominal       (* sum of the nominals of its light points, in watts        *)

(* schemas/project.py: caps and floor are percentages, each may be unset.   *)
ProjectTariff ==
  [caps : [Periods -> Percent \cup {None}], floor : Percent \cup {None}, on : BOOLEAN \cup {None}]

ASSUME SupervisionAssumption ==
  /\ Street \in {"arterial", "residential", "crossing"} /\ Tariffs \subseteq ProjectTariff
  /\ Times \subseteq 0 .. At(24, 0) - 1
  /\ ServerAhead \in Nat
  /\ DimLevels \subseteq Percent /\ Nominal \in Nat \ {0}
  /\ Volts \subseteq Undervoltage..Overvoltage

VARIABLES
  now, dark,  (* the clock, and whether the sun is down                     *)
  mode,       (* Cabinet.dimming_mode                                       *)
  located,    (* whether the cabinet has coordinates                        *)
  tariff,     (* the tariff of its project                                  *)
  command,    (* bus.cabinet_state: relay and level it was told             *)
  lamp,       (* relay and level the controller has applied                 *)
  lux,        (* bus.last_lux                                               *)
  fault,      (* what is wrong with the cabinet                             *)
  alarms      (* bus.active_alarms, without COMMUNICATION_LOSS              *)

vars == <<now, dark, mode, located, tariff, command, lamp, lux, fault, alarms>>

-----------------------------------------------------------------------------
(* The programme                                                            *)

Or(value, default) == IF value # None THEN value ELSE default

Unset == [caps |-> [p \in Periods |-> None], floor |-> None, on |-> None]

(* datetime.now().time() is the server's clock, not now_local().            *)
ServerTime == (now + ServerAhead) % At(24, 0)

(* _auto_level_for, with what was read of the project's tariff;             *)
(* tariff_enabled is off in general.  Without coordinates there is no sun,  *)
(* and the fixed programme counts, by the server's clock.                   *)
AutoLevelFor(how, t) ==
  IF how = "ai" /\ located
    THEN AiLevel(now, FALSE, dark, Street, lux, Or(t.floor, GlobalFloor),
                 Or(t.on, FALSE), t.caps)
    ELSE ResolveLevel(ServerTime, lux)

(* GET /cabinets/{id}/auto-level: a recommendation, which nobody applies.   *)
Advised == AutoLevel(now, FALSE, dark, GlobalFloor, TRUE, [p \in Periods |-> None])

(* One cycle of the loop.  If the configurations could not be read, the     *)
(* cabinet gets the fixed programme, whatever its mode.                     *)
Cycle(read) ==
  /\ read => mode # "manual"
  /\ command' = [command EXCEPT !.dim = AutoLevelFor(IF read THEN mode ELSE "schedule", tariff)]
  /\ UNCHANGED <<now, dark, mode, located, tariff, lamp, lux, fault, alarms>>

(* A project that could not be read counts as one without a tariff.         *)
SetMode(m, read) ==
  /\ mode' = m
  /\ command' = IF m = "manual" THEN command
       ELSE [command EXCEPT !.dim = AutoLevelFor(m, IF read THEN tariff ELSE Unset)]
  /\ UNCHANGED <<now, dark, located, tariff, lamp, lux, fault, alarms>>

SetDim(level) ==
  /\ command' = [command EXCEPT !.dim = level]
  /\ mode' = "manual"
  /\ UNCHANGED <<now, dark, located, tariff, lamp, lux, fault, alarms>>

SetRelay(state) ==
  /\ command' = [command EXCEPT !.relay = state]
  /\ UNCHANGED <<now, dark, mode, located, tariff, lamp, lux, fault, alarms>>

(* PATCH /cabinets/registry/{code}: what it writes reaches the programme at *)
(* the next cycle.                                                          *)
UpdateCabinet(m, place) ==
  /\ mode' = m /\ located' = place
  /\ UNCHANGED <<now, dark, tariff, command, lamp, lux, fault, alarms>>

(* PUT /projects/{id}/tariff                                                *)
SetProjectTariff(t) ==
  /\ tariff' = t
  /\ UNCHANGED <<now, dark, mode, located, command, lamp, lux, fault, alarms>>

-----------------------------------------------------------------------------
(* The judgement                                                            *)

IsExpectedOn == command.relay = "on" /\ command.dim > 0

(* Faulty variant: the nominal of full light whatever the level.            *)
CabinetFullPower(read) == IF read THEN Nominal * 100 ELSE 0

(* The nominal scaled by the commanded level, in hundredths of a watt; 0 if *)
(* the light points could not be read.                                      *)
CabinetExpectedPower(read) == IF read THEN Nominal * command.dim ELSE 0

(* What the lamps draw, by what is wrong: none of them lights, more than    *)
(* half are gone, a derivation, the contactor welded with the drivers at    *)
(* full, no line.                                                           *)
Drawn ==
  LET obeyed == IF lamp.relay = "on" THEN Nominal * lamp.dim ELSE 0
  IN CASE fault \in {"blown", "line"} -> 0
       [] fault = "half" -> (2 * obeyed) \div 5
       [] fault = "leak" -> (8 * obeyed) \div 5
       [] fault = "stuck" -> Nominal * 100
       [] OTHER -> obeyed

(* The sample of a cabinet, volts and share of the power being measured;    *)
(* the power factor is 0.95.                                                *)
Sample(volts, share) ==
  LET v == CASE fault = "line" -> 0 [] fault = "surge" -> 260 [] OTHER -> volts
      watts == (Drawn * share) \div 100
  IN [volts |-> v, watts |-> watts,
      amps |-> IF v = 0 THEN 0 ELSE (watts * 100) \div (95 * v),
      celsius |-> IF fault = "hot" THEN 60 ELSE 35,
      door |-> fault = "door", intrusion |-> fault = "intrusion"]

(* ingest: the lux is kept, the sample judged, the alarms reconciled.       *)
Ingest(m, l, read) ==
  /\ alarms' = Evaluate(m, IsExpectedOn, CabinetExpectedPower(read))
  /\ lux' = IF l # None THEN l ELSE lux
  /\ UNCHANGED <<now, dark, mode, located, tariff, command, lamp, fault>>

(* A light sensor sees more than the threshold of daylight only by day.     *)
Telemetry(read) ==
  \E v \in Volts, share \in {95, 105}, l \in Luxes :
    (Daylight(l) => ~dark) /\ Ingest(Sample(v, share), l, read)

-----------------------------------------------------------------------------
(* The street                                                               *)

(* The controller gets the commands it has missed.                          *)
Obey ==
  /\ lamp' = command
  /\ UNCHANGED <<now, dark, mode, located, tariff, command, lux, fault, alarms>>

Break(f) ==
  /\ fault' = f
  /\ UNCHANGED <<now, dark, mode, located, tariff, command, lamp, lux, alarms>>

(* It is dark at 3:00 and light at 12:00; in between it depends on the day. *)
Clock ==
  /\ \E t \in Times, d \in BOOLEAN :
       /\ t < At(6, 0) \/ t > At(22, 0) => d
       /\ t \in At(10, 0)..At(16, 0) => ~d
       /\ now' = t /\ dark' = d
  /\ UNCHANGED <<mode, located, tariff, command, lamp, lux, fault, alarms>>

(* Commands are recorded in memory: a restart forgets them and the alarms.  *)
Restart ==
  /\ command' = [relay |-> "on", dim |-> 100]
  /\ lux' = None /\ alarms' = {}
  /\ UNCHANGED <<now, dark, mode, located, tariff, lamp, fault>>

Modes == {"manual", "schedule", "ai"}

Init ==
  /\ now = At(3, 0) /\ dark = TRUE
  /\ mode = "schedule"
  /\ located \in BOOLEAN
  /\ tariff = Unset
  /\ command = [relay |-> "on", dim |-> 100]
  /\ lamp = [relay |-> "on", dim |-> 100]
  /\ lux = None
  /\ fault = "none"
  /\ alarms = {}

Next ==
  \/ \E read \in BOOLEAN : Cycle(read) \/ Telemetry(read)
  \/ \E m \in Modes, read \in BOOLEAN : SetMode(m, read)
  \/ \E m \in Modes, place \in BOOLEAN : UpdateCabinet(m, place)
  \/ \E level \in DimLevels : SetDim(level)
  \/ \E state \in {"on", "off"} : SetRelay(state)
  \/ \E t \in Tariffs : SetProjectTariff(t)
  \/ Obey \/ \E f \in Faults : Break(f)
  \/ Clock \/ Restart

Spec == Init /\ [][Next]_vars

-----------------------------------------------------------------------------
(* Properties                                                               *)

Obeyed == lamp = command

(* A sound cabinet that does as it was told gives no alarm, at any level.   *)
HealthyQuiet ==
  [][\A read \in BOOLEAN : fault = "none" /\ Obeyed /\ Telemetry(read) => alarms' = {}]_vars

(* The alarm a fault must give, once the cabinet was told to be in a state  *)
(* that shows it; a stuck contactor shows when the relay is to be open.     *)
Signs(f) ==
  CASE f = "blown" -> IF IsExpectedOn THEN {"LAMP_OUT"} ELSE {}
    [] f = "half" -> IF IsExpectedOn THEN {"CIRCUIT_LOAD_DROP"} ELSE {}
    [] f = "leak" -> IF IsExpectedOn THEN {"CIRCUIT_OVERLOAD"} ELSE {}
    [] f = "stuck" -> IF command.relay = "off" /\ command.dim > 0 THEN {"CONTACTOR_STUCK"} ELSE {}
    [] f = "line" -> {"LINE_FAILURE"}
    [] f = "surge" -> {"OVERVOLTAGE"}
    [] f = "hot" -> {"CABINET_OVERTEMP"}
    [] f = "door" -> {"DOOR_OPEN"}
    [] f = "intrusion" -> {"INTRUSION"}
    [] OTHER -> {}

(* The alarms that rest on the nominal of the light points.                 *)
ByNominal == {"CIRCUIT_LOAD_DROP", "CIRCUIT_OVERLOAD", "CONTACTOR_STUCK"}

(* Whatever is wrong with an obedient cabinet is told by its next sample;   *)
(* what only its consumption shows, by the next for which the nominal could *)
(* be read.                                                                 *)
FaultsTold ==
  [][\A read \in BOOLEAN : Obeyed /\ Telemetry(read) =>
       Signs(fault) \ (IF read THEN {} ELSE ByNominal) \subseteq alarms']_vars

(* "nunca por debajo del suelo de seguridad": where the cabinet has its     *)
(* coordinates and what the programme needs could be read, by day the       *)
(* adaptive mode puts the street out; by night it stays above the floors of *)
(* its profile and of its project and below the cap of the period, where a  *)
(* floor allows it.  The recommendation is dark exactly when it is.         *)
StreetKeptSafe ==
  [][mode' = "ai" /\ located /\ (Cycle(TRUE) \/ SetMode("ai", TRUE)) =>
       LET least == Larger(StreetFloor[Street], Or(tariff.floor, GlobalFloor))
           cap == LevelCap(CurrentPeriod(now, FALSE), tariff.caps)
       IN IF ~dark THEN command'.dim = 0 /\ Advised = 0
          ELSE /\ command'.dim \in least..100 /\ Advised \in GlobalFloor..100
               /\ Or(tariff.on, FALSE) => command'.dim <= Larger(least, cap)]_vars

(* The same for every cabinet in adaptive mode and every cycle.             *)
FloorAlways ==
  [][mode' = "ai" /\ dark /\ (\E read \in BOOLEAN : Cycle(read) \/ SetMode("ai", read))
       => command'.dim >= StreetFloor[Street]]_vars

(* "Si el cuadro está OFF y se mide más de stuck_min_w -> CONTACTOR_STUCK": *)
(* whatever the level it was told.                                          *)
StuckTold ==
  [][Telemetry(TRUE) /\ Obeyed /\ fault = "stuck" /\ command.relay = "off"
       => "CONTACTOR_STUCK" \in alarms']_vars

(* No alarm for a sound cabinet, obedient or about to be.                   *)
LateSampleQuiet == [][Telemetry(TRUE) /\ fault = "none" => alarms' = {}]_vars

(* The fixed programme lights the street at night.                          *)
NightLit ==
  [][Cycle(TRUE) /\ mode = "schedule" /\ dark /\ now \notin At(7, 0)..At(19, 0)
       => command'.dim > 0]_vars
=============================================================================
