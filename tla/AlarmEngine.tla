----------------------------- MODULE AlarmEngine -----------------------------
(***************************************************************************)
(* The rules of services/alarm_engine.py: which alarms one sample of       *)
(* telemetry raises, given what the cabinet was told to do.  Volts and     *)
(* degrees are whole; currents are in hundredths of an ampere and powers in*)
(* hundredths of a watt, so that a percentage of a nominal is whole too.   *)
(* The thresholds are those of core/config.py.                             *)
(***************************************************************************)
EXTENDS Naturals

ZeroCurrent == 5
Energised == 50
Overvoltage == 253
Undervoltage == 207
Overcurrent == 3000
HotCabinet == 55
StuckMin == 1000

LampOut(m, on) == on /\ m.volts > Energised /\ m.amps < ZeroCurrent

(* measured / expected < 0.5 and > 1.30                                     *)
LoadDrop(m, expected) == m.watts > 0 /\ 2 * m.watts < expected
Overload(m, expected) == m.watts > 0 /\ 10 * m.watts > 13 * expected

(* Faulty variant: consumption is only judged where some is expected.       *)
ConsumptionWhenOn(m, on, expected) ==
  IF expected = 0 \/ m.volts <= Energised \/ ~on THEN {}
  ELSE IF LoadDrop(m, expected) THEN {"CIRCUIT_LOAD_DROP"}
  ELSE IF Overload(m, expected) THEN {"CIRCUIT_OVERLOAD"} ELSE {}

(* What the consumption says, where a nominal is known and the line is up.  *)
Consumption(m, on, expected) ==
  IF expected = 0 \/ m.volts <= Energised THEN {}
  ELSE IF ~on THEN IF m.watts > StuckMin THEN {"CONTACTOR_STUCK"} ELSE {}
  ELSE IF LoadDrop(m, expected) THEN {"CIRCUIT_LOAD_DROP"}
  ELSE IF Overload(m, expected) THEN {"CIRCUIT_OVERLOAD"} ELSE {}

Rule(on, type) == IF on THEN {type} ELSE {}

Evaluate(m, on, expected) ==
  Rule(LampOut(m, on), "LAMP_OUT")
    \cup Rule(m.volts < Energised, "LINE_FAILURE")
    \cup Rule(m.volts > Overvoltage, "OVERVOLTAGE")
    \cup Rule(m.volts > Energised /\ m.volts < Undervoltage, "UNDERVOLTAGE")
    \cup Rule(m.amps > Overcurrent, "OVERCURRENT")
    \cup Rule(m.celsius > HotCabinet, "CABINET_OVERTEMP")
    \cup Rule(m.door, "DOOR_OPEN")
    \cup Rule(m.intrusion, "INTRUSION")
    \cup Consumption(m, on, expected)
=============================================================================
