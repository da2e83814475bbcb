------------------------- MODULE Supervision_proofs -------------------------
(***************************************************************************)
(* Machine-checked proofs about programme, tariff and rule engine, for any *)
(* clock readings, light readings, tariffs, slider levels, faults, line    *)
(* voltages of a sound supply and every street profile.                    *)
(***************************************************************************)
EXTENDS Supervision, TLAPS

Midnight == At(24, 0)
Profiles == {"arterial", "residential", "crossing"}

(* The levels a programme may give: dark, or 20 % and more.                 *)
Programmed == {0} \cup (20..100)

-----------------------------------------------------------------------------
(* The programme: what its functions return                                 *)

(* The first of the bands that hold a moment is one of them.                *)
LEMMA MinOfBands ==
  ASSUME NEW S \in SUBSET (1..5), S # {}
  PROVE  Min(S) \in S
<1>1. \E x \in S : \A y \in S : x <= y
  <2>1. CASE 1 \in S
    BY <2>1
  <2>2. CASE 1 \notin S /\ 2 \in S
    BY <2>2
  <2>3. CASE 1 \notin S /\ 2 \notin S /\ 3 \in S
    BY <2>3
  <2>4. CASE 1 \notin S /\ 2 \notin S /\ 3 \notin S /\ 4 \in S
    BY <2>4
  <2>5. CASE 1 \notin S /\ 2 \notin S /\ 3 \notin S /\ 4 \notin S
    <3>1. PICK x \in S : TRUE
      OBVIOUS
    <3>2. \A y \in S : y = 5
      BY <2>5
    <3> QED
      BY <3>1, <3>2
  <2> QED
    BY <2>1, <2>2, <2>3, <2>4, <2>5
<1> QED
  BY <1>1 DEF Min

(* Whatever the sensor reads, the fixed programme gives such a level.       *)
LEMMA ProfileLevels ==
  ASSUME NEW t, NEW sensor
  PROVE  ResolveLevel(t, sensor) \in Programmed
<1> DEFINE bands == {i \in DOMAIN DefaultProfile :
                       DefaultProfile[i].from <= t /\ t <= DefaultProfile[i].to}
           level == DefaultProfile[Min(bands)].level
<1>1. DOMAIN DefaultProfile = 1..5 /\ \A i \in 1..5 : DefaultProfile[i].level \in Programmed
  BY DEF DefaultProfile, Band, Programmed
<1>2. ResolveLevel(t, sensor) = IF Daylight(sensor) \/ bands = {} THEN 0
                             ELSE IF Night(sensor) THEN Larger(level, 50) ELSE level
  BY DEF ResolveLevel
<1>3. CASE bands = {}
  BY <1>2, <1>3 DEF Programmed
<1>4. CASE bands # {}
  <2>1. bands \in SUBSET (1..5)
    BY <1>1
  <2>2. Min(bands) \in 1..5
    BY <1>4, <2>1, MinOfBands
  <2>3. level \in Programmed
    BY <1>1, <2>2
  <2> HIDE DEF bands, level
  <2>4. Larger(level, 50) \in Programmed /\ 0 \in Programmed
    BY <2>3 DEF Larger, Programmed
  <2> QED
    BY <1>2, <2>3, <2>4
<1> QED
  BY <1>3, <1>4

(* An hour of the day is the moment in units of an hour, whatever the unit. *)
LEMMA HoursOfDay ==
  ASSUME NEW t \in Nat, NEW b \in Nat, b > 0, t < 24 * b
  PROVE  t \div b \in 0..23
<1>1. ~(24 <= t \div b)
  BY SMT
<1>2. t \div b \in Nat
  BY SMT
<1> QED
  BY <1>1, <1>2, SMT

(* Every moment of the day has a tariff period.                             *)
LEMMA PeriodOfDay ==
  ASSUME NEW t \in 0..(Midnight - 1)
  PROVE  CurrentPeriod(t, FALSE) \in Periods
<1>1. Hour(t) \in 0..23
  <2>1. At(1, 0) \in Nat /\ At(1, 0) > 0 /\ At(24, 0) = 24 * At(1, 0)
    BY SMT DEF At
  <2>2. t \in Nat /\ t < 24 * At(1, 0) /\ Hour(t) = t \div At(1, 0)
    BY <2>1, SMT DEF Midnight, Hour
  <2> QED
    BY <2>1, <2>2, HoursOfDay, Zenon
<1>2. CASE Hour(t) < 8
  BY <1>2 DEF CurrentPeriod, Periods
<1>3. CASE Hour(t) \in 10..13 \cup 18..21
  BY <1>3 DEF CurrentPeriod, Periods
<1>4. CASE Hour(t) \in 8..9 \cup 14..17 \cup 22..23
  BY <1>4 DEF CurrentPeriod, Periods
<1>5. \A h \in 0..23 :
        h < 8 \/ h \in 10..13 \cup 18..21 \/ h \in 8..9 \cup 14..17 \cup 22..23
  OBVIOUS
<1> QED
  BY <1>1, <1>2, <1>3, <1>4, <1>5

(* A cap is a percentage, the project's where it sets one.                  *)
LEMMA CapOfPeriod ==
  ASSUME NEW p \in Periods, NEW caps \in [Periods -> Percent \cup {None}]
  PROVE  LevelCap(p, caps) \in Percent /\ GlobalCap[p] \in Percent
BY DEF LevelCap, GlobalCap, Periods, Percent

(* The tariff cuts a level that is lit to its cap, and keeps the floor.     *)
LEMMA WhatIsLitIsCut ==
  ASSUME NEW base \in 1..100, NEW p, NEW floor, NEW caps
  PROVE  CostAware(base, p, floor, caps) = Larger(Smaller(base, LevelCap(p, caps)), floor)
BY DEF CostAware

(* A street is lit from 20 % up, whatever its profile and the sensor.       *)
LEMMA StreetLevels ==
  ASSUME NEW t, NEW street \in Profiles, NEW sensor
  PROVE  StreetFloor[street] \in 20..60 /\ StreetLevel(t, street, sensor) \in 20..100
<1>1. StreetFloor[street] \in 20..60 /\ StreetNightBase[street] \in 70..100
  BY DEF StreetFloor, StreetNightBase, Profiles
<1> DEFINE floor == StreetFloor[street]
           base == StreetNightBase[street]
           level == IF DeepNight(t) THEN Larger(floor, (base * 6) \div 10) ELSE base
<1>2. StreetLevel(t, street, sensor) = IF Night(sensor) THEN Larger(level, base) ELSE level
  BY DEF StreetLevel
<1> HIDE DEF floor, base
<1>3. floor \in 20..60 /\ base \in 70..100
  BY <1>1 DEF floor, base
<1>4. level \in 20..100
  BY <1>3 DEF Larger
<1> HIDE DEF level
<1>5. Larger(level, base) \in 20..100
  BY <1>3, <1>4 DEF Larger
<1> QED
  BY <1>1, <1>2, <1>4, <1>5

(* By night the adaptive level is between the floors and full light, and if *)
(* the tariff is on at most the larger of floors and cap.                   *)
Between(level, dusk, least, on, cap) ==
  /\ least \in 20..100
  /\ ~dusk => level = 0
  /\ dusk => level \in least..100
  /\ dusk /\ on => level <= Larger(least, cap)

(* The adaptive level keeps floors and cap at every moment of the day.      *)
LEMMA AiLevels ==
  ASSUME NEW t \in 0..(Midnight - 1), NEW dusk \in BOOLEAN, NEW street \in Profiles, NEW sensor,
         NEW floor \in Percent, NEW on \in BOOLEAN, NEW caps \in [Periods -> Percent \cup {None}]
  PROVE  Between(AiLevel(t, FALSE, dusk, street, sensor, floor, on, caps), dusk,
                 Larger(StreetFloor[street], floor), on,
                 LevelCap(CurrentPeriod(t, FALSE), caps))
<1> DEFINE level == AiLevel(t, FALSE, dusk, street, sensor, floor, on, caps)
           least == Larger(StreetFloor[street], floor)
           wanted == StreetLevel(t, street, sensor)
           cap == LevelCap(CurrentPeriod(t, FALSE), caps)
           cut == IF on THEN CostAware(wanted, CurrentPeriod(t, FALSE), least, caps) ELSE wanted
<1>1. level = IF ~dusk THEN 0 ELSE Larger(Smaller(cut, 100), least)
  BY DEF AiLevel
<1>2. wanted \in 20..100 /\ cap \in Percent /\ least \in 20..100
  <2>1. CurrentPeriod(t, FALSE) \in Periods
    BY PeriodOfDay
  <2>2. cap \in Percent
    BY <2>1, CapOfPeriod
  <2>3. StreetFloor[street] \in 20..60 /\ wanted \in 20..100
    BY StreetLevels
  <2>4. least \in 20..100
    BY <2>3 DEF Larger, Percent
  <2> QED
    BY <2>2, <2>3, <2>4
<1>3. cut = IF on THEN Larger(Smaller(wanted, cap), least) ELSE wanted
  <2> HIDE DEF wanted
  <2>1. wanted \in 1..100
    BY <1>2
  <2>2. CostAware(wanted, CurrentPeriod(t, FALSE), least, caps)
          = Larger(Smaller(wanted, cap), least)
    BY <2>1, WhatIsLitIsCut
  <2> QED
    BY <2>2
<1> HIDE DEF wanted, cap, cut, level, least
<1>4. cut \in 0..100 /\ (on => cut <= Larger(least, cap)) /\ (on => least <= cut)
  BY <1>2, <1>3 DEF Larger, Smaller, Percent
<1>5. Larger(Smaller(cut, 100), least) \in least..100
  BY <1>2, <1>4 DEF Larger, Smaller
<1>6. on => Larger(Smaller(cut, 100), least) <= Larger(least, cap)
  BY <1>2, <1>4 DEF Larger, Smaller, Percent
<1>7. dusk => level \in least..100
  BY <1>1, <1>5
<1>8. dusk /\ on => level <= Larger(least, cap)
  BY <1>1, <1>6
<1>9. Between(level, dusk, least, on, cap)
  BY <1>1, <1>2, <1>7, <1>8 DEF Between
<1> QED
  BY <1>9 DEF level, least, cap

(* The recommendation: dark by day, from the general floor up by night.     *)
LEMMA AdvisedLevels ==
  ASSUME now \in 0..(Midnight - 1), dark \in BOOLEAN
  PROVE  IF dark THEN Advised \in GlobalFloor..100 ELSE Advised = 0
<1> DEFINE unset == [p \in Periods |-> None]
           programmed == ResolveLevel(now, None)
           base == IF programmed <= 0 THEN 100 ELSE programmed
           cap == LevelCap(CurrentPeriod(now, FALSE), unset)
<1>1. base \in 1..100
  <2>1. programmed \in Programmed
    BY ProfileLevels
  <2> HIDE DEF programmed
  <2> QED
    BY <2>1 DEF Programmed
<1>2. cap \in Percent
  BY PeriodOfDay, CapOfPeriod
<1>3. Advised = IF ~dark THEN 0 ELSE CostAware(base, CurrentPeriod(now, FALSE), GlobalFloor, unset)
  BY DEF Advised, AutoLevel
<1> HIDE DEF base, unset
<1>4. CostAware(base, CurrentPeriod(now, FALSE), GlobalFloor, unset)
        = Larger(Smaller(base, cap), GlobalFloor)
  BY <1>1, WhatIsLitIsCut
<1> HIDE DEF base, cap
<1>5. Larger(Smaller(base, cap), GlobalFloor) \in GlobalFloor..100
  BY <1>1, <1>2 DEF Larger, Smaller, Percent, GlobalFloor
<1> QED
  BY <1>3, <1>4, <1>5

-----------------------------------------------------------------------------
(* Types: every command is for a level of the programme or of the slider    *)

Levels == Programmed \cup DimLevels
Told == [relay : {"on", "off"}, dim : Levels]

TypeInv ==
  /\ now \in 0..(Midnight - 1) /\ dark \in BOOLEAN
  /\ tariff \in ProjectTariff
  /\ command \in Told /\ lamp \in Told

(* What the programme reads of a tariff, set or not.                        *)
LEMMA TariffValues ==
  ASSUME NEW t \in ProjectTariff
  PROVE  /\ Or(t.floor, GlobalFloor) \in Percent /\ Or(t.on, FALSE) \in BOOLEAN
         /\ t.caps \in [Periods -> Percent \cup {None}]
<1>1. /\ t.floor \in Percent \cup {None} /\ t.on \in BOOLEAN \cup {None}
      /\ t.caps \in [Periods -> Percent \cup {None}]
  BY DEF ProjectTariff
<1>2. Or(t.floor, GlobalFloor) \in Percent
  BY <1>1 DEF Or, GlobalFloor, Percent
<1>3. Or(t.on, FALSE) \in BOOLEAN
  BY <1>1 DEF Or
<1> QED
  BY <1>1, <1>2, <1>3

(* Both automatic modes give a level of the programme.                      *)
LEMMA AutoLevels ==
  ASSUME TypeInv, NEW how, NEW t \in ProjectTariff
  PROVE  AutoLevelFor(how, t) \in Programmed
<1>1. CASE how = "ai" /\ located
  <2> DEFINE floor == Or(t.floor, GlobalFloor)
             on == Or(t.on, FALSE)
             level == AiLevel(now, FALSE, dark, Street, lux, floor, on, t.caps)
             least == Larger(StreetFloor[Street], floor)
  <2>1. floor \in Percent /\ on \in BOOLEAN /\ t.caps \in [Periods -> Percent \cup {None}]
    BY TariffValues
  <2>2. now \in 0..(Midnight - 1) /\ dark \in BOOLEAN /\ Street \in Profiles
    BY SupervisionAssumption DEF TypeInv, Profiles
  <2> HIDE DEF floor, on
  <2>3. Between(level, dark, least, on, LevelCap(CurrentPeriod(now, FALSE), t.caps))
    BY <2>1, <2>2, AiLevels
  <2> HIDE DEF level, least
  <2>4. least \in 20..100 /\ (~dark => level = 0) /\ (dark => level \in least..100)
    BY <2>3 DEF Between
  <2>5. level \in Programmed
    BY <2>2, <2>4 DEF Programmed
  <2> QED
    BY <1>1, <2>5 DEF AutoLevelFor, level, floor, on
<1>2. CASE ~(how = "ai" /\ located)
  BY <1>2, ProfileLevels DEF AutoLevelFor
<1> QED
  BY <1>1, <1>2

LEMMA DimTold ==
  ASSUME NEW c \in Told, NEW level \in Levels, NEW state \in {"on", "off"}
  PROVE  [c EXCEPT !.dim = level] \in Told /\ [c EXCEPT !.relay = state] \in Told
BY DEF Told

LEMMA FullTold == [relay |-> "on", dim |-> 100] \in Told
BY DEF Told, Levels, Programmed

LEMMA NoTariff == Unset \in ProjectTariff
BY DEF Unset, ProjectTariff

LEMMA InitTypes == Init => TypeInv
<1> SUFFICES ASSUME Init PROVE TypeInv
  OBVIOUS
<1>1. now \in 0..(Midnight - 1)
  <2>1. At(3, 0) \in Nat /\ At(1, 0) \in Nat /\ At(1, 0) > 0
        /\ At(3, 0) = 3 * At(1, 0) /\ At(24, 0) = 24 * At(1, 0)
    BY SMT DEF At
  <2>2. \A b \in Nat : b > 0 => 3 * b \in 0..(24 * b - 1)
    BY SMT
  <2> QED
    BY <2>1, <2>2, SMT DEF Midnight, Init
<1>2. tariff \in ProjectTariff
  BY NoTariff DEF Init
<1> QED
  BY <1>1, <1>2, FullTold DEF Init, TypeInv

(* Every step keeps the types: the levels come from programme or slider.    *)
LEMMA StepTypes == TypeInv /\ [Next]_vars => TypeInv'
<1> SUFFICES ASSUME TypeInv, [Next]_vars PROVE TypeInv'
  OBVIOUS
<1> USE DEF TypeInv
<1>1. ASSUME NEW read \in BOOLEAN, Cycle(read) PROVE TypeInv'
  <2>1. AutoLevelFor(IF read THEN mode ELSE "schedule", tariff) \in Levels
    BY AutoLevels DEF Levels
  <2> QED
    BY <1>1, <2>1, DimTold DEF Cycle
<1>2. ASSUME NEW m, NEW read \in BOOLEAN, SetMode(m, read) PROVE TypeInv'
  <2> DEFINE t == IF read THEN tariff ELSE Unset
  <2>0. t \in ProjectTariff
    BY NoTariff
  <2> HIDE DEF t
  <2>1. AutoLevelFor(m, t) \in Levels
    BY <2>0, AutoLevels DEF Levels
  <2>2. command' \in Told
    BY <1>2, <2>1, DimTold DEF SetMode, t
  <2> QED
    BY <1>2, <2>2 DEF SetMode
<1>3. ASSUME NEW level \in DimLevels, SetDim(level) PROVE TypeInv'
  <2>1. level \in Levels
    BY DEF Levels
  <2> QED
    BY <1>3, <2>1, DimTold DEF SetDim
<1>4. ASSUME NEW state \in {"on", "off"}, SetRelay(state) PROVE TypeInv'
  <2>1. 100 \in Levels
    BY DEF Levels, Programmed
  <2> QED
    BY <1>4, <2>1, DimTold DEF SetRelay
<1>5. ASSUME NEW t \in Tariffs, SetProjectTariff(t) PROVE TypeInv'
  BY <1>5, SupervisionAssumption DEF SetProjectTariff
<1>6. ASSUME NEW read \in BOOLEAN, Telemetry(read) PROVE TypeInv'
  BY <1>6 DEF Telemetry, Ingest
<1>7. CASE Obey
  BY <1>7 DEF Obey
<1>8. ASSUME NEW f \in Faults, Break(f) PROVE TypeInv'
  BY <1>8 DEF Break
<1>9. CASE Clock
  <2>1. PICK t \in Times, d \in BOOLEAN : now' = t /\ dark' = d
    BY <1>9 DEF Clock
  <2>2. now' \in 0..(Midnight - 1)
    BY <2>1, SupervisionAssumption DEF Midnight
  <2> QED
    BY <1>9, <2>1, <2>2 DEF Clock
<1>10. CASE Restart
  BY <1>10, FullTold DEF Restart
<1>11. ASSUME NEW m, NEW place, UpdateCabinet(m, place) PROVE TypeInv'
  BY <1>11 DEF UpdateCabinet
<1>12. CASE UNCHANGED vars
  BY <1>12 DEF vars
<1> QED
  BY <1>1, <1>2, <1>3, <1>4, <1>5, <1>6, <1>7, <1>8, <1>9, <1>10, <1>11, <1>12 DEF Next

-----------------------------------------------------------------------------
(* The street                                                               *)

(* The step of StreetKeptSafe.                                              *)
SafeStep ==
  mode' = "ai" /\ located /\ (Cycle(TRUE) \/ SetMode("ai", TRUE)) =>
    LET least == Larger(StreetFloor[Street], Or(tariff.floor, GlobalFloor))
        cap == LevelCap(CurrentPeriod(now, FALSE), tariff.caps)
    IN IF ~dark THEN command'.dim = 0 /\ Advised = 0
       ELSE /\ command'.dim \in least..100 /\ Advised \in GlobalFloor..100
            /\ Or(tariff.on, FALSE) => command'.dim <= Larger(least, cap)

(* A step that sets the level of the adaptive mode sets a safe one.         *)
LEMMA AdaptiveStepSafe == TypeInv => SafeStep
<1> SUFFICES ASSUME TypeInv, mode' = "ai", located, Cycle(TRUE) \/ SetMode("ai", TRUE)
             PROVE  SafeStep
  BY DEF SafeStep
<1> DEFINE floor == Or(tariff.floor, GlobalFloor)
           on == Or(tariff.on, FALSE)
           level == AiLevel(now, FALSE, dark, Street, lux, floor, on, tariff.caps)
           least == Larger(StreetFloor[Street], floor)
           cap == LevelCap(CurrentPeriod(now, FALSE), tariff.caps)
<1>1. command'.dim = level
  <2>1. command' = [command EXCEPT !.dim = AutoLevelFor("ai", tariff)]
    <3>1. CASE Cycle(TRUE)
      <4>1. mode = "ai"
        BY <3>1 DEF Cycle
      <4> QED
        BY <3>1, <4>1 DEF Cycle
    <3>2. CASE SetMode("ai", TRUE)
      BY <3>2 DEF SetMode
    <3> QED
      BY <3>1, <3>2
  <2>2. command'.dim = AutoLevelFor("ai", tariff)
    BY <2>1 DEF TypeInv, Told
  <2> QED
    BY <2>2 DEF AutoLevelFor
<1>2. floor \in Percent /\ on \in BOOLEAN /\ tariff.caps \in [Periods -> Percent \cup {None}]
  BY TariffValues DEF TypeInv
<1>3. now \in 0..(Midnight - 1) /\ dark \in BOOLEAN /\ Street \in Profiles
  BY SupervisionAssumption DEF TypeInv, Profiles
<1>4. IF dark THEN Advised \in GlobalFloor..100 ELSE Advised = 0
  BY <1>3, AdvisedLevels
<1>5. /\ ~dark => level = 0
      /\ dark => level \in least..100
      /\ dark /\ on => level <= Larger(least, cap)
  <2> HIDE DEF floor, on
  <2>1. Between(level, dark, least, on, cap)
    BY <1>2, <1>3, AiLevels
  <2> QED
    BY <2>1 DEF Between
<1> HIDE DEF level
<1>6. IF ~dark THEN command'.dim = 0 /\ Advised = 0
      ELSE /\ command'.dim \in least..100 /\ Advised \in GlobalFloor..100
           /\ on => command'.dim <= Larger(least, cap)
  BY <1>1, <1>3, <1>4, <1>5
<1> QED
  BY <1>6 DEF SafeStep

(* With coordinates and what it has to read, the adaptive mode puts the     *)
(* street out by day and by night keeps it above the floors and, where they *)
(* allow it, below the cap of the tariff: dimming_controller.py,            *)
(* resolve_ai_level.                                                        *)
THEOREM StreetStaysSafe == Spec => StreetKeptSafe
<1>1. Init => TypeInv
  BY InitTypes
<1>2. TypeInv /\ [Next]_vars => TypeInv'
  BY StepTypes
<1>3. TypeInv => [SafeStep]_vars
  BY AdaptiveStepSafe
<1> QED
  BY <1>1, <1>2, <1>3, PTL DEF Spec, StreetKeptSafe, SafeStep

-----------------------------------------------------------------------------
(* Loads and currents                                                       *)


(* What a share of 95 or 105 percent of a power is worth.                   *)
LEMMA ShareOf ==
  ASSUME NEW q \in Nat, NEW s \in {95, 105}
  PROVE  /\ (q * s) \div 100 \in Nat
         /\ 100 * ((q * s) \div 100) <= 105 * q /\ 95 * q < 100 * ((q * s) \div 100) + 100
<1>1. \A x \in Nat : x \div 100 \in Nat /\ 100 * (x \div 100) <= x /\ x < 100 * (x \div 100) + 100
  BY SMT
<1>2. CASE s = 95
  <2>1. q * s \in Nat /\ q * s = 95 * q
    BY <1>2
  <2> QED
    BY <1>1, <2>1
<1>3. CASE s = 105
  <2>1. q * s \in Nat /\ q * s = 105 * q
    BY <1>3
  <2> QED
    BY <1>1, <2>1
<1> QED
  BY <1>2, <1>3

(* More than half of the lamps are gone, and the rest still draws.          *)
LEMMA HalfSeen ==
  ASSUME NEW p \in Nat, p >= 11, NEW s \in {95, 105}
  PROVE  LET watts == (((2 * p) \div 5) * s) \div 100
         IN watts \in Nat /\ watts > 0 /\ 2 * watts < p
<1> DEFINE q == (2 * p) \div 5
           watts == (q * s) \div 100
<1>1. q \in Nat /\ 5 * q <= 2 * p /\ 2 * p < 5 * q + 5
  BY SMT
<1> HIDE DEF q
<1>2. watts \in Nat /\ 100 * watts <= 105 * q /\ 95 * q < 100 * watts + 100
  BY <1>1, ShareOf
<1> HIDE DEF watts
<1>3. watts > 0 /\ 2 * watts < p
  BY <1>1, <1>2
<1> QED
  BY <1>2, <1>3 DEF watts, q

(* With a derivation the load is seen to exceed its nominal.                *)
LEMMA LeakSeen ==
  ASSUME NEW p \in Nat, p >= 11, NEW s \in {95, 105}
  PROVE  LET watts == (((8 * p) \div 5) * s) \div 100
         IN watts \in Nat /\ watts > 0 /\ 2 * watts >= p /\ 10 * watts > 13 * p
<1> DEFINE q == (8 * p) \div 5
           watts == (q * s) \div 100
<1>1. q \in Nat /\ 5 * q <= 8 * p /\ 8 * p < 5 * q + 5
  BY SMT
<1> HIDE DEF q
<1>2. watts \in Nat /\ 100 * watts <= 105 * q /\ 95 * q < 100 * watts + 100
  BY <1>1, ShareOf
<1> HIDE DEF watts
<1>3. watts > 0 /\ 2 * watts >= p /\ 10 * watts > 13 * p
  BY <1>1, <1>2
<1> QED
  BY <1>2, <1>3 DEF watts, q

(* A nominal of 11 W and more is seen above the 10 W of a stuck contactor.  *)
LEMMA StuckSeen ==
  ASSUME NEW n \in Nat, n >= 11, NEW s \in {95, 105}
  PROVE  ((n * 100) * s) \div 100 \in Nat /\ ((n * 100) * s) \div 100 > StuckMin
<1> DEFINE q == n * 100
           watts == (q * s) \div 100
<1>1. q \in Nat /\ q >= 1100
  OBVIOUS
<1> HIDE DEF q
<1>2. watts \in Nat /\ 95 * q < 100 * watts + 100
  BY <1>1, ShareOf
<1> HIDE DEF watts
<1>3. watts > 1000
  BY <1>1, <1>2, SMT
<1> QED
  BY <1>2, <1>3 DEF watts, q, StuckMin

(* A sound load is within the limits of its nominal.                        *)
LEMMA SoundLoad ==
  ASSUME NEW p \in Nat, p >= 11, NEW s \in {95, 105}
  PROVE  LET watts == (p * s) \div 100
         IN watts \in Nat /\ watts > 0 /\ 2 * watts >= p /\ 10 * watts <= 13 * p
<1> DEFINE watts == (p * s) \div 100
<1>1. watts \in Nat /\ 100 * watts <= 105 * p /\ 95 * p < 100 * watts + 100
  BY ShareOf
<1> HIDE DEF watts
<1>2. watts > 0 /\ 2 * watts >= p /\ 10 * watts <= 13 * p
  BY <1>1
<1> QED
  BY <1>1, <1>2 DEF watts

(* Integer division, as its two bounds.                                     *)
LEMMA Quotient ==
  ASSUME NEW x \in Nat, NEW d \in Nat, d > 0
  PROVE  x \div d \in Nat /\ d * (x \div d) <= x /\ x < d * (x \div d) + d
BY SMT

(* Sound line voltages, and levels that light.                              *)
SoundVolts == Undervoltage..Overvoltage
Lit == 1..100

(* A load of 13 W and more, in lamps of at most 5.6 kW.                     *)
Moderate(nominal, dim) == nominal <= 5600 /\ nominal * dim >= 1300

(* The current of a load, in hundredths of an ampere, and those that are    *)
(* neither none nor too much.                                               *)
Amperes(nominal, dim, share, volts) ==
  ((((nominal * dim) * share) \div 100) * 100) \div (95 * volts)
Carried == {a \in Nat : a >= ZeroCurrent /\ a <= Overcurrent}

(* Current of a sound load from 13 W to 5.6 kW, at any sound voltage.       *)
LEMMA SoundCurrent ==
  ASSUME NEW n \in Nat, NEW dim \in Lit, Moderate(n, dim), NEW s \in {95, 105}, NEW v \in SoundVolts
  PROVE  Amperes(n, dim, s, v) \in Carried
<1> DEFINE p == n * dim
           watts == (p * s) \div 100
           amps == (watts * 100) \div (95 * v)
<1>1. v \in Nat /\ 207 <= v /\ v <= 253 /\ 95 * v \in Nat /\ 95 * v > 0
  BY DEF SoundVolts, Undervoltage, Overvoltage
<1>2. n <= 5600 /\ n * dim >= 1300 /\ dim \in 1..100
  BY DEF Moderate, Lit
<1>3. p \in Nat /\ p >= 1300 /\ p <= n * 100
  <2>1. p \in Nat /\ p >= 1300
    BY <1>2
  <2>2. \A x \in Nat, y \in 1..100 : x * y <= x * 100
    BY SMT
  <2> QED
    BY <1>2, <2>1, <2>2
<1> HIDE DEF p
<1>4. watts \in Nat /\ 100 * watts <= 105 * p /\ 95 * p < 100 * watts + 100
  BY <1>3, ShareOf
<1> HIDE DEF watts
<1>5. watts * 100 \in Nat
  BY <1>4
<1>6. amps \in Nat /\ (95 * v) * amps <= watts * 100 /\ watts * 100 < (95 * v) * amps + 95 * v
  BY <1>1, <1>5, Quotient
<1> HIDE DEF amps
<1> DEFINE product == v * amps
<1>7. product \in Nat /\ (95 * v) * amps = 95 * product
  BY <1>1, <1>6, SMT
<1>8. amps \in Nat /\ product \in Nat /\ p \in Nat
  BY <1>3, <1>6, <1>7
<1>9. 95 * product <= watts * 100 /\ watts * 100 < 95 * product + 95 * v
  BY <1>6, <1>7
<1>10. amps >= 5
  <2> SUFFICES ASSUME amps <= 4 PROVE FALSE
    BY <1>6
  <2>1. product <= 4 * v
    BY <1>1, <1>6, SMT
  <2> HIDE DEF product
  <2>2. 95 * p < 475 * v + 100
    BY <1>1, <1>4, <1>8, <1>9, <2>1
  <2>3. p <= 5 * v + 1
    BY <1>1, <1>3, <2>2
  <2> QED
    BY <1>1, <1>3, <2>3
<1>11. amps <= 3000
  <2> SUFFICES ASSUME amps > 3000 PROVE FALSE
    BY <1>6
  <2>1. product >= 207 * amps
    BY <1>1, <1>6, SMT
  <2> HIDE DEF product
  <2>2. 19 * product <= 21 * p
    BY <1>4, <1>8, <1>9
  <2>3. p <= n * 100
    BY <1>3
  <2>4. 187 * amps <= 100 * n
    BY <1>8, <2>1, <2>2, <2>3
  <2> QED
    BY <1>2, <1>6, <2>4
<1> QED
  BY <1>6, <1>10, <1>11 DEF amps, watts, p, Amperes, Carried, ZeroCurrent, Overcurrent

-----------------------------------------------------------------------------
(* The judgement                                                            *)

(* A stuck contactor burns the whole nominal, which 11 W show above 10 W.   *)
Loaded == Nominal >= 11

(* At every level the lamps draw from 13 W, which is 0.05 A at 253 V, up to *)
(* 5.6 kW, which is 30 A at 207 V.                                          *)
WithinSensors ==
  /\ Nominal <= 5600
  /\ \A d \in DimLevels \cup {20} : d > 0 => Nominal * d >= 1300

(* The alarms one sample raises, as Ingest takes it.                        *)
Judged(m) == Evaluate(m, IsExpectedOn, CabinetExpectedPower(TRUE))

(* A sound supply is within the alarm thresholds.                           *)
LEMMA NormalVolts ==
  ASSUME NEW v \in Volts
  PROVE  v \in SoundVolts /\ v \in Nat /\ v > Energised /\ v # 0
BY SupervisionAssumption DEF SoundVolts, Undervoltage, Overvoltage, Energised

(* The verdict without the nominal of the light points.                     *)
JudgedBlind(m) == Evaluate(m, IsExpectedOn, 0)

(* Telemetry judges one sample.                                             *)
LEMMA JudgedWhen ==
  ASSUME NEW read \in BOOLEAN, Telemetry(read)
  PROVE  \E v \in Volts, s \in {95, 105} :
           alarms' = IF read THEN Judged(Sample(v, s)) ELSE JudgedBlind(Sample(v, s))
BY DEF Telemetry, Ingest, Judged, JudgedBlind, CabinetExpectedPower

(* It lacks exactly what the consumption says.                              *)
LEMMA BlindVerdict ==
  ASSUME NEW m
  PROVE  JudgedBlind(m) \subseteq Judged(m) /\ Judged(m) \ ByNominal \subseteq JudgedBlind(m)
<1>1. Consumption(m, IsExpectedOn, 0) = {}
  BY DEF Consumption
<1>2. Consumption(m, IsExpectedOn, CabinetExpectedPower(TRUE)) \subseteq ByNominal
  BY DEF Consumption, ByNominal
<1> QED
  BY <1>1, <1>2, Zenon DEF Judged, JudgedBlind, Evaluate

(* A commanded level is a percentage.                                       *)
LEMMA DimOfTold == TypeInv => command.relay \in {"on", "off"} /\ command.dim \in 0..100
<1> SUFFICES ASSUME TypeInv PROVE command.relay \in {"on", "off"} /\ command.dim \in 0..100
  OBVIOUS
<1>1. command.relay \in {"on", "off"} /\ command.dim \in Levels
  BY DEF TypeInv, Told
<1>2. Levels \subseteq 0..100
  BY SupervisionAssumption DEF Levels, Programmed, Percent
<1> QED
  BY <1>1, <1>2

(* With 11 W of lamps the expected power is never lost in rounding.         *)
LEMMA PowerTold ==
  ASSUME TypeInv, Loaded, command.dim > 0
  PROVE  CabinetExpectedPower(TRUE) \in Nat /\ CabinetExpectedPower(TRUE) >= 11
<1>1. Nominal \in Nat /\ Nominal >= 11
  BY SupervisionAssumption DEF Loaded
<1>2. command.dim \in 1..100
  BY DimOfTold
<1>3. \A n \in Nat, d \in 1..100 : n >= 11 => n * d \in Nat /\ n * d >= 11
  BY SMT
<1> QED
  BY <1>1, <1>2, <1>3 DEF CabinetExpectedPower

(* What is told of consumption, given what it is.                           *)
LEMMA ConsumptionTold ==
  ASSUME NEW m, NEW p \in Nat, p > 0, m.volts \in Nat, m.volts > Energised, m.watts \in Nat
  PROVE  /\ m.watts > StuckMin => "CONTACTOR_STUCK" \in Consumption(m, FALSE, p)
         /\ m.watts > 0 /\ 2 * m.watts < p => "CIRCUIT_LOAD_DROP" \in Consumption(m, TRUE, p)
         /\ 2 * m.watts >= p /\ 10 * m.watts > 13 * p
               => "CIRCUIT_OVERLOAD" \in Consumption(m, TRUE, p)
         /\ 2 * m.watts >= p /\ 10 * m.watts <= 13 * p => Consumption(m, TRUE, p) = {}
         /\ m.watts = 0 => Consumption(m, FALSE, p) = {}
<1> DEFINE w == m.watts
<1>1. m.volts <= Energised <=> FALSE
  BY DEF Energised
<1>2. p # 0 /\ w \in Nat
  OBVIOUS
<1>3. Consumption(m, FALSE, p) = IF w > StuckMin THEN {"CONTACTOR_STUCK"} ELSE {}
  BY <1>1, <1>2 DEF Consumption
<1>4. Consumption(m, TRUE, p) =
        IF w > 0 /\ 2 * w < p THEN {"CIRCUIT_LOAD_DROP"}
        ELSE IF w > 0 /\ 10 * w > 13 * p THEN {"CIRCUIT_OVERLOAD"} ELSE {}
  BY <1>1, <1>2 DEF Consumption, LoadDrop, Overload
<1> HIDE DEF w
<1>5. /\ w > StuckMin => "CONTACTOR_STUCK" \in Consumption(m, FALSE, p)
      /\ w = 0 => Consumption(m, FALSE, p) = {}
  <2>1. w = 0 => ~(w > StuckMin)
    BY <1>2 DEF StuckMin
  <2> QED
    BY <1>3, <2>1
<1>6. w > 0 /\ 2 * w < p => "CIRCUIT_LOAD_DROP" \in Consumption(m, TRUE, p)
  BY <1>4
<1>7. 2 * w >= p /\ 10 * w > 13 * p => "CIRCUIT_OVERLOAD" \in Consumption(m, TRUE, p)
  <2>1. 2 * w >= p /\ 10 * w > 13 * p => w > 0 /\ ~(2 * w < p)
    BY <1>2
  <2> QED
    BY <1>4, <2>1
<1>8. 2 * w >= p /\ 10 * w <= 13 * p => Consumption(m, TRUE, p) = {}
  <2>1. 2 * w >= p /\ 10 * w <= 13 * p => ~(2 * w < p) /\ ~(10 * w > 13 * p)
    BY <1>2
  <2> QED
    BY <1>4, <2>1
<1> QED
  BY <1>5, <1>6, <1>7, <1>8 DEF w

(* Each rule that applies raises its alarm.                                 *)
LEMMA WhatIsJudged ==
  ASSUME NEW m
  PROVE  /\ Consumption(m, IsExpectedOn, CabinetExpectedPower(TRUE)) \subseteq Judged(m)
         /\ LampOut(m, IsExpectedOn) => "LAMP_OUT" \in Judged(m)
         /\ m.volts < Energised => "LINE_FAILURE" \in Judged(m)
         /\ m.volts > Overvoltage => "OVERVOLTAGE" \in Judged(m)
         /\ m.celsius > HotCabinet => "CABINET_OVERTEMP" \in Judged(m)
         /\ m.door => "DOOR_OPEN" \in Judged(m)
         /\ m.intrusion => "INTRUSION" \in Judged(m)
BY DEF Judged, Evaluate, Rule

(* A sample of an obedient cabinet, by what is wrong with it.               *)
LEMMA SampleTaken ==
  ASSUME TypeInv, Obeyed, NEW v \in Volts, NEW s \in {95, 105}
  PROVE  /\ fault \notin {"line", "surge"} => Sample(v, s).volts = v
         /\ fault = "line" => Sample(v, s).volts = 0
         /\ fault = "surge" => Sample(v, s).volts = 260
         /\ Sample(v, s).watts = (Drawn * s) \div 100
         /\ fault \notin {"line", "surge"}
               => Sample(v, s).amps = (Sample(v, s).watts * 100) \div (95 * v)
         /\ Sample(v, s).celsius = IF fault = "hot" THEN 60 ELSE 35
<1>1. v # 0
  BY NormalVolts
<1> QED
  BY <1>1 DEF Sample

(* What an obedient cabinet draws, by what is wrong with it.                *)
LEMMA DrawnBy ==
  ASSUME TypeInv, Obeyed
  PROVE  LET obeyed == IF command.relay = "on" THEN CabinetExpectedPower(TRUE) ELSE 0
         IN /\ fault = "blown" => Drawn = 0
            /\ fault = "half" => Drawn = (2 * obeyed) \div 5
            /\ fault = "leak" => Drawn = (8 * obeyed) \div 5
            /\ fault = "stuck" => Drawn = Nominal * 100
            /\ fault = "none" => Drawn = obeyed
BY DEF Drawn, Obeyed, CabinetExpectedPower

(* The step of FaultsTold.                                                  *)
TellingStep ==
  \A read \in BOOLEAN : Obeyed /\ Telemetry(read) =>
    Signs(fault) \ (IF read THEN {} ELSE ByNominal) \subseteq alarms'

(* The three faults that only the measured power betrays.                   *)
LEMMA FaultyLoadTold ==
  ASSUME TypeInv, Loaded, Obeyed, NEW v \in Volts, NEW s \in {95, 105},
         fault \in {"half", "leak", "stuck"}, command.dim > 0
  PROVE  Signs(fault) \subseteq Judged(Sample(v, s))
<1> DEFINE p == CabinetExpectedPower(TRUE)
           m == Sample(v, s)
<1>1. p \in Nat /\ p >= 11 /\ p > 0
  <2>1. p \in Nat /\ p >= 11
    BY PowerTold, Zenon
  <2> HIDE DEF p
  <2> QED
    BY <2>1
<1>2. m.volts \in Nat /\ m.volts > Energised /\ m.watts = (Drawn * s) \div 100
  BY SampleTaken, NormalVolts
<1>3. Consumption(m, IsExpectedOn, p) \subseteq Judged(m)
  BY WhatIsJudged
<1>4. IsExpectedOn = (command.relay = "on")
  BY DEF IsExpectedOn
<1> HIDE DEF p, m
<1>5. CASE fault = "half"
  <2> SUFFICES ASSUME IsExpectedOn PROVE "CIRCUIT_LOAD_DROP" \in Judged(m)
    BY <1>5 DEF Signs, m
  <2>1. Drawn = (2 * p) \div 5
    BY <1>4, <1>5, DrawnBy DEF p
  <2>2. m.watts \in Nat /\ m.watts > 0 /\ 2 * m.watts < p
    BY <1>1, <1>2, <2>1, HalfSeen
  <2>3. "CIRCUIT_LOAD_DROP" \in Consumption(m, TRUE, p)
    BY <1>1, <1>2, <2>2, ConsumptionTold
  <2> QED
    BY <1>3, <2>3
<1>6. CASE fault = "leak"
  <2> SUFFICES ASSUME IsExpectedOn PROVE "CIRCUIT_OVERLOAD" \in Judged(m)
    BY <1>6 DEF Signs, m
  <2>1. Drawn = (8 * p) \div 5
    BY <1>4, <1>6, DrawnBy DEF p
  <2>2. m.watts \in Nat /\ m.watts > 0 /\ 2 * m.watts >= p /\ 10 * m.watts > 13 * p
    BY <1>1, <1>2, <2>1, LeakSeen
  <2>3. "CIRCUIT_OVERLOAD" \in Consumption(m, TRUE, p)
    BY <1>1, <1>2, <2>2, ConsumptionTold
  <2> QED
    BY <1>3, <2>3
<1>7. CASE fault = "stuck"
  <2> SUFFICES ASSUME command.relay = "off" PROVE "CONTACTOR_STUCK" \in Judged(m)
    BY <1>7 DEF Signs, m
  <2>1. Drawn = Nominal * 100
    BY <1>7, DrawnBy
  <2>2. Nominal \in Nat /\ Nominal >= 11
    BY SupervisionAssumption DEF Loaded
  <2>3. m.watts \in Nat /\ m.watts > StuckMin
    BY <1>2, <2>1, <2>2, StuckSeen
  <2>4. "CONTACTOR_STUCK" \in Consumption(m, FALSE, p)
    BY <1>1, <1>2, <2>3, ConsumptionTold
  <2>5. IsExpectedOn = FALSE
    BY <1>4
  <2> QED
    BY <1>3, <2>4, <2>5
<1> QED
  BY <1>5, <1>6, <1>7

(* No current where light is expected: all lamps are out.                   *)
LEMMA BlownTold ==
  ASSUME TypeInv, Obeyed, NEW v \in Volts, NEW s \in {95, 105}, fault = "blown"
  PROVE  Signs(fault) \subseteq Judged(Sample(v, s))
<1> DEFINE m == Sample(v, s)
<1> SUFFICES ASSUME IsExpectedOn PROVE "LAMP_OUT" \in Judged(m)
  BY DEF Signs
<1>1. m.volts = v /\ m.amps = (m.watts * 100) \div (95 * v) /\ m.watts = (Drawn * s) \div 100
  BY SampleTaken
<1>2. Drawn = 0
  BY DrawnBy
<1>3. m.watts = 0
  <2>1. (0 * s) \div 100 = 0
    BY SMT
  <2> QED
    BY <1>1, <1>2, <2>1, Zenon
<1>4. m.amps = 0
  <2>1. \A d \in Nat : d > 0 => (0 * 100) \div (95 * d) = 0
    BY SMT
  <2>2. v \in Nat /\ v > 0
    BY NormalVolts
  <2> QED
    BY <1>1, <1>3, <2>1, <2>2, Zenon
<1>5. LampOut(m, IsExpectedOn)
  <2>1. v > Energised /\ 0 < ZeroCurrent
    BY NormalVolts DEF ZeroCurrent
  <2> QED
    BY <1>1, <1>4, <2>1 DEF LampOut
<1> QED
  BY <1>5, WhatIsJudged

(* Faults that a sensor of their own betrays, lit or not.                   *)
LEMMA OtherFaultsTold ==
  ASSUME TypeInv, Obeyed, NEW v \in Volts, NEW s \in {95, 105},
         fault \in {"line", "surge", "hot", "door", "intrusion"}
  PROVE  Signs(fault) \subseteq Judged(Sample(v, s))
<1> DEFINE m == Sample(v, s)
<1>1. 0 < Energised /\ 260 > Overvoltage /\ 60 > HotCabinet
  BY DEF Energised, Overvoltage, HotCabinet
<1>2. CASE fault = "line"
  <2>1. m.volts = 0
    BY <1>2, SampleTaken
  <2> QED
    BY <1>1, <1>2, <2>1, WhatIsJudged DEF Signs
<1>3. CASE fault = "surge"
  <2>1. m.volts = 260
    BY <1>3, SampleTaken
  <2> QED
    BY <1>1, <1>3, <2>1, WhatIsJudged DEF Signs
<1>4. CASE fault = "hot"
  <2>1. m.celsius = 60
    BY <1>4, SampleTaken
  <2> QED
    BY <1>1, <1>4, <2>1, WhatIsJudged DEF Signs
<1>5. CASE fault = "door"
  <2>1. m.door
    BY <1>5 DEF Sample
  <2> QED
    BY <1>5, <2>1, WhatIsJudged DEF Signs
<1>6. CASE fault = "intrusion"
  <2>1. m.intrusion
    BY <1>6 DEF Sample
  <2> QED
    BY <1>6, <2>1, WhatIsJudged DEF Signs
<1> QED
  BY <1>2, <1>3, <1>4, <1>5, <1>6

(* Every sample of an obedient cabinet tells what it can of what is wrong.  *)
LEMMA StepTells == TypeInv /\ Loaded => TellingStep
<1> SUFFICES ASSUME TypeInv, Loaded, Obeyed, NEW read \in BOOLEAN, Telemetry(read)
             PROVE  Signs(fault) \ (IF read THEN {} ELSE ByNominal) \subseteq alarms'
  BY DEF TellingStep
<1>0. PICK v \in Volts, s \in {95, 105} :
        alarms' = IF read THEN Judged(Sample(v, s)) ELSE JudgedBlind(Sample(v, s))
  BY JudgedWhen
<1> SUFFICES Signs(fault) \subseteq Judged(Sample(v, s))
  BY <1>0, BlindVerdict
<1>2. CASE fault \in {"half", "leak", "stuck"}
  <2>1. CASE command.dim > 0
    BY <1>2, <2>1, FaultyLoadTold
  <2>2. CASE ~(command.dim > 0)
    BY <1>2, <2>2 DEF Signs, IsExpectedOn
  <2> QED
    BY <2>1, <2>2
<1>3. CASE fault = "blown"
  BY <1>3, BlownTold
<1>4. CASE fault \in {"line", "surge", "hot", "door", "intrusion"}
  BY <1>4, OtherFaultsTold
<1>5. CASE fault \notin {"half", "leak", "stuck", "blown", "line", "surge", "hot", "door", "intrusion"}
  BY <1>5 DEF Signs
<1> QED
  BY <1>2, <1>3, <1>4, <1>5

(* Whatever is wrong with an obedient cabinet raises its alarm at the next  *)
(* sample, at every level and voltage, what only its consumption shows at   *)
(* the next whose nominal could be read: alarm_engine.py, evaluate.         *)
THEOREM FaultsAreTold == Loaded => (Spec => FaultsTold)
<1> SUFFICES ASSUME Loaded PROVE Spec => FaultsTold
  OBVIOUS
<1>1. Init => TypeInv
  BY InitTypes
<1>2. TypeInv /\ [Next]_vars => TypeInv'
  BY StepTypes
<1>3. TypeInv => [TellingStep]_vars
  BY StepTells
<1> QED
  BY <1>1, <1>2, <1>3, PTL DEF Spec, FaultsTold, TellingStep

(* Levels of the programme draw at least what its lowest level does.        *)
LEMMA SoundPower ==
  ASSUME TypeInv, WithinSensors, command.dim > 0
  PROVE  command.dim \in Lit /\ Moderate(Nominal, command.dim)
<1>1. Nominal \in Nat /\ Nominal <= 5600
  BY SupervisionAssumption DEF WithinSensors
<1>2. command.dim \in 1..100
  BY DimOfTold
<1>3. command.dim \in DimLevels => Nominal * command.dim >= 1300
  BY <1>2 DEF WithinSensors
<1>4. ASSUME command.dim \notin DimLevels PROVE Nominal * command.dim >= 1300
  <2>1. command.dim \in 20..100
    BY <1>4 DEF TypeInv, Told, Levels, Programmed
  <2>2. Nominal * 20 >= 1300
    BY DEF WithinSensors
  <2>3. \A n \in Nat, d \in 20..100 : n * d >= n * 20
    BY SMT
  <2>4. \A x, y \in Nat : x >= y /\ y >= 1300 => x >= 1300
    BY SMT
  <2>5. Nominal * command.dim \in Nat /\ Nominal * 20 \in Nat
    BY <1>1, <1>2, SMT
  <2> QED
    BY <1>1, <1>2, <2>1, <2>2, <2>3, <2>4, <2>5
<1>5. Nominal * command.dim >= 1300
  BY <1>3, <1>4
<1> QED
  BY <1>1, <1>2, <1>5 DEF Moderate, Lit

(* The step of HealthyQuiet.                                                *)
QuietStep ==
  \A read \in BOOLEAN : fault = "none" /\ Obeyed /\ Telemetry(read) => alarms' = {}

(* A sample at v volts that gives none of the rules a reason.               *)
NoReason(m, v) ==
  /\ m.volts = v /\ ~m.door /\ ~m.intrusion /\ ~(m.celsius > HotCabinet)
  /\ ~LampOut(m, IsExpectedOn) /\ ~(m.amps > Overcurrent)
  /\ Consumption(m, IsExpectedOn, CabinetExpectedPower(TRUE)) = {}

(* A sound, obedient cabinet gives none of the rules a reason.              *)
LEMMA SoundSample ==
  ASSUME TypeInv, WithinSensors, Obeyed, fault = "none", NEW v \in Volts, NEW s \in {95, 105}
  PROVE  NoReason(Sample(v, s), v)
<1> DEFINE m == Sample(v, s)
           p == CabinetExpectedPower(TRUE)
<1> SUFFICES /\ m.volts = v /\ ~m.door /\ ~m.intrusion /\ ~(m.celsius > HotCabinet)
             /\ ~LampOut(m, IsExpectedOn) /\ ~(m.amps > Overcurrent)
             /\ Consumption(m, IsExpectedOn, p) = {}
  BY Zenon DEF NoReason
<1>1. /\ m.volts = v /\ ~m.door /\ ~m.intrusion /\ m.celsius = 35
      /\ m.amps = (m.watts * 100) \div (95 * v) /\ m.watts = (Drawn * s) \div 100
  <2>1. fault \notin {"line", "surge"} /\ fault # "hot" /\ fault # "door" /\ fault # "intrusion"
    OBVIOUS
  <2>2. m.volts = v /\ m.amps = (m.watts * 100) \div (95 * v) /\ m.watts = (Drawn * s) \div 100
    BY <2>1, SampleTaken
  <2>3. m.celsius = 35 /\ ~m.door /\ ~m.intrusion
    BY <2>1 DEF Sample
  <2> QED
    BY <2>2, <2>3
<1>2. ~(35 > HotCabinet)
  BY DEF HotCabinet
<1>3. v \in SoundVolts /\ v \in Nat /\ v > Energised /\ v > 0
  BY NormalVolts
<1>4. Drawn = IF command.relay = "on" THEN p ELSE 0
  BY DrawnBy
<1>5. command.dim \in 0..100 /\ command.relay \in {"on", "off"} /\ Nominal \in Nat \ {0}
  BY DimOfTold, SupervisionAssumption
<1>6. IsExpectedOn = (command.relay = "on" /\ command.dim > 0)
  BY DEF IsExpectedOn
<1>7. command.dim = 0 => p = 0
  BY <1>5 DEF CabinetExpectedPower
<1> HIDE DEF m
<1>8. CASE IsExpectedOn
  <2>1. Nominal \in Nat /\ command.dim \in Lit /\ Moderate(Nominal, command.dim)
    BY <1>5, <1>6, <1>8, SoundPower
  <2>2. p = Nominal * command.dim /\ Drawn = p
    BY <1>4, <1>6, <1>8 DEF CabinetExpectedPower
  <2> DEFINE q == Nominal * command.dim
  <2>3. q \in Nat /\ q >= 11
    BY <2>1, SMT DEF Moderate, Lit
  <2> DEFINE amps == ((((Nominal * command.dim) * s) \div 100) * 100) \div (95 * v)
  <2>4. amps \in Nat /\ amps >= ZeroCurrent /\ amps <= Overcurrent
    <3>1. Amperes(Nominal, command.dim, s, v) \in Carried
      BY <1>3, <2>1, SoundCurrent
    <3> QED
      BY <3>1 DEF Amperes, Carried
  <2>5. m.amps = amps
    BY <1>1, <2>2, Zenon
  <2> HIDE DEF amps
  <2> HIDE DEF q, p
  <2>6. m.watts = (q * s) \div 100 /\ p = q
    BY <1>1, <2>2 DEF q
  <2>7. m.watts \in Nat /\ 2 * m.watts >= q /\ 10 * m.watts <= 13 * q
    BY <2>3, <2>6, SoundLoad
  <2>8. m.volts \in Nat /\ m.volts > Energised /\ q > 0
    BY <1>1, <1>3, <2>3
  <2>9. Consumption(m, TRUE, p) = {}
    BY <2>3, <2>6, <2>7, <2>8, ConsumptionTold
  <2>10. ~(m.amps < ZeroCurrent) /\ ~(m.amps > Overcurrent)
    BY <2>4, <2>5 DEF ZeroCurrent, Overcurrent
  <2> QED
    BY <1>1, <1>2, <1>8, <2>9, <2>10 DEF m, p, LampOut
<1>9. CASE ~IsExpectedOn
  <2>1. Drawn = 0
    <3>1. command.relay # "on" \/ command.dim = 0
      BY <1>5, <1>9 DEF IsExpectedOn
    <3> QED
      BY <1>4, <1>7, <3>1
  <2>2. m.watts = 0
    <3>1. (0 * s) \div 100 = 0
      BY SMT
    <3> QED
      BY <1>1, <2>1, <3>1, Zenon
  <2>3. m.amps = 0
    <3>1. \A d \in Nat : d > 0 => (0 * 100) \div (95 * d) = 0
      BY SMT
    <3> QED
      BY <1>1, <1>3, <2>2, <3>1, Zenon
  <2>4. ~(0 > Overcurrent)
    BY DEF Overcurrent
  <2>5. Consumption(m, IsExpectedOn, p) = {}
    <3>1. CASE p = 0
      BY <3>1 DEF Consumption
    <3>2. CASE p # 0
      <4>1. p \in Nat
        BY <1>5 DEF CabinetExpectedPower
      <4> HIDE DEF p
      <4>2. p > 0
        BY <3>2, <4>1
      <4>3. m.volts \in Nat /\ m.volts > Energised /\ m.watts \in Nat
        BY <1>1, <1>3, <2>2
      <4>4. Consumption(m, FALSE, p) = {}
        BY <2>2, <4>1, <4>2, <4>3, ConsumptionTold
      <4> QED
        BY <1>9, <4>4, Zenon DEF IsExpectedOn
    <3> QED
      BY <3>1, <3>2
  <2> QED
    BY <1>1, <1>2, <1>9, <2>3, <2>4, <2>5 DEF m, p, LampOut
<1> QED
  BY <1>8, <1>9

(* No sample of a sound, obedient cabinet raises an alarm.                  *)
LEMMA StepQuiet == TypeInv /\ WithinSensors => QuietStep
<1> SUFFICES ASSUME TypeInv, WithinSensors, fault = "none", Obeyed,
                    NEW read \in BOOLEAN, Telemetry(read)
             PROVE  alarms' = {}
  BY DEF QuietStep
<1>0. PICK v \in Volts, s \in {95, 105} :
        alarms' = IF read THEN Judged(Sample(v, s)) ELSE JudgedBlind(Sample(v, s))
  BY JudgedWhen
<1>1. alarms' \subseteq Judged(Sample(v, s))
  BY <1>0, BlindVerdict
<1> DEFINE m == Sample(v, s)
<1>2. NoReason(m, v)
  BY SoundSample
<1>3. ~(v < Energised) /\ ~(v > Overvoltage) /\ ~(v < Undervoltage)
  BY NormalVolts DEF SoundVolts, Energised, Overvoltage, Undervoltage
<1> HIDE DEF m
<1>4. Judged(m) = {}
  BY <1>2, <1>3 DEF NoReason, Judged, Evaluate, Rule
<1> QED
  BY <1>1, <1>4 DEF m

(* A sound cabinet that does as it was told is never alarmed about, as long *)
(* as what it draws is within what its sensors tell: alarm_engine.py.       *)
THEOREM SoundCabinetQuiet == WithinSensors => (Spec => HealthyQuiet)
<1> SUFFICES ASSUME WithinSensors PROVE Spec => HealthyQuiet
  OBVIOUS
<1>1. Init => TypeInv
  BY InitTypes
<1>2. TypeInv /\ [Next]_vars => TypeInv'
  BY StepTypes
<1>3. TypeInv => [QuietStep]_vars
  BY StepQuiet
<1> QED
  BY <1>1, <1>2, <1>3, PTL DEF Spec, HealthyQuiet, QuietStep
=============================================================================
