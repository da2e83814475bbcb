--------------------------- MODULE DimmingProgram ---------------------------
(***************************************************************************)
(* Which level a cabinet gets, and when: services/dimming_controller.py    *)
(* over services/tariff.py.  A clock reading is in half seconds since      *)
(* midnight (the last half second of a day is in no band of the profile);  *)
(* whether it is dark is a parameter, for the trigonometry of sun.py, and a*)
(* light reading is a number of lux or None.                               *)
(***************************************************************************)
EXTENDS Integers, Sequences, FiniteSetsExt

CONSTANT None

Percent == 0..100
At(hour, minute) == (60 * hour + minute) * 120
Hour(t) == t \div At(1, 0)

Larger(a, b) == IF a > b THEN a ELSE b
Smaller(a, b) == IF a < b THEN a ELSE b

-----------------------------------------------------------------------------
(* The fixed programme                                                      *)

Band(from, to, level) == [from |-> from, to |-> to, level |-> level]
DefaultProfile == <<
  Band(At(0, 0), At(6, 0), 30),
  Band(At(6, 0), At(7, 30), 70),
  Band(At(7, 30), At(18, 0), 0),
  Band(At(18, 0), At(22, 0), 100),
  Band(At(22, 0), At(24, 0) - 2, 50) >>

Night(lux) == lux # None /\ lux < 30
Daylight(lux) == lux # None /\ lux > 80

(* Both ends of a band belong to it; the first band that matches counts.    *)
ResolveLevel(t, lux) ==
  LET bands == {i \in DOMAIN DefaultProfile :
                  DefaultProfile[i].from <= t /\ t <= DefaultProfile[i].to}
      level == DefaultProfile[Min(bands)].level
  IN IF Daylight(lux) \/ bands = {} THEN 0
     ELSE IF Night(lux) THEN Larger(level, 50) ELSE level

-----------------------------------------------------------------------------
(* The tariff                                                               *)

Periods == {"P1", "P2", "P3"}
GlobalCap == [P1 |-> 75, P2 |-> 90, P3 |-> 100]
GlobalFloor == 40

CurrentPeriod(t, weekend) ==
  CASE weekend \/ Hour(t) < 8 -> "P3"
    [] ~weekend /\ Hour(t) \in 10..13 \cup 18..21 -> "P1"
    [] ~weekend /\ Hour(t) \in 8..9 \cup 14..17 \cup 22..23 -> "P2"

LevelCap(period, caps) == IF caps[period] # None THEN caps[period] ELSE GlobalCap[period]

(* The tariff never lights a lamp; what is lit is cut, not below the floor. *)
CostAware(base, period, floor, caps) ==
  IF base <= 0 THEN 0 ELSE Larger(Smaller(base, LevelCap(period, caps)), floor)

-----------------------------------------------------------------------------
(* By the sun                                                               *)

(* resolve_auto_level: what GET /cabinets/{id}/auto-level recommends.       *)
AutoLevel(t, weekend, dark, floor, tariff, caps) ==
  LET programmed == ResolveLevel(t, None)
      base == IF programmed <= 0 THEN 100 ELSE programmed
  IN IF ~dark THEN 0
     ELSE IF tariff THEN CostAware(base, CurrentPeriod(t, weekend), floor, caps)
     ELSE Larger(base, floor)

StreetFloor == [arterial |-> 60, residential |-> 20, crossing |-> 50]
StreetNightBase == [arterial |-> 100, residential |-> 70, crossing |-> 90]
DeepNight(t) == At(0, 0) <= t /\ t < At(5, 30)

(* The level of a street at night before the tariff; 60 % of every base is  *)
(* a whole number.                                                          *)
StreetLevel(t, street, lux) ==
  LET base == StreetNightBase[street]
      level == IF DeepNight(t) THEN Larger(StreetFloor[street], (base * 6) \div 10) ELSE base
  IN IF Night(lux) THEN Larger(level, base) ELSE level

(* Faulty variant: the darkest nights are lit after the tariff has cut.     *)
AiLevelLate(t, weekend, dark, street, lux, floor, tariff, caps) ==
  LET least == Larger(StreetFloor[street], floor)
      cut == IF tariff THEN CostAware(StreetLevel(t, street, None), CurrentPeriod(t, weekend), least, caps)
             ELSE StreetLevel(t, street, None)
  IN IF ~dark THEN 0
     ELSE Larger(Smaller(IF Night(lux) THEN Larger(cut, StreetNightBase[street]) ELSE cut, 100), least)

(* resolve_ai_level: what the "ai" mode gives.                              *)
AiLevel(t, weekend, dark, street, lux, floor, tariff, caps) ==
  LET least == Larger(StreetFloor[street], floor)
      level == StreetLevel(t, street, lux)
      cut == IF tariff THEN CostAware(level, CurrentPeriod(t, weekend), least, caps) ELSE level
  IN IF ~dark THEN 0 ELSE Larger(Smaller(cut, 100), least)
=============================================================================
