--------------------------- MODULE AlarmBus_proofs ---------------------------
(***************************************************************************)
(* Machine-checked proofs about the alarm bus, for any number of cabinets  *)
(* and conditions and any set of events: types, an honest offline flag,    *)
(* the implementation of AlarmLifecycle, and what one task alone achieves. *)
(***************************************************************************)
EXTENDS AlarmBus, FiniteSetTheorems, TLAPS

-----------------------------------------------------------------------------
(* Dictionary objects never run out.                                        *)

(* What a suspended task is.                                                *)
LEMMA BusyTask ==
  ASSUME TypeOK, NEW p \in Sources, Busy(p)
  PROVE  /\ task[p].pc \in {"status", "raise", "clear"}
         /\ task[p].at \in Cabinets /\ task[p].table \in Tables
         /\ task[p].pc # "status" => task[p].sample \in SUBSET Conditions
                                     /\ task[p].todo \in SUBSET Conditions
<1>1. task[p] \in Task /\ task[p] # Idle /\ task[p] # Dead
  BY DEF TypeOK, Busy
<1> QED
  BY <1>1 DEF Task

(* The cabinets refer to no more objects than there are cabinets, the tasks *)
(* to at most two.                                                          *)
LEMMA FreshIsFree ==
  ASSUME TypeOK
  PROVE  Fresh \in Tables /\ Fresh \notin Held
<1> DEFINE ofCabinets == {table[c] : c \in Cabinets}
           ofTasks == {task[p].table : p \in {q \in Sources : Busy(q)}}
           two == ({} \cup {task["mqtt"].table}) \cup {task["demo"].table}
<1>1. IsFiniteSet(ofCabinets) /\ Cardinality(ofCabinets) <= Cardinality(Cabinets)
  <2>1. table \in Surjection(Cabinets, ofCabinets)
    BY DEF TypeOK, Surjection
  <2> QED
    BY <2>1, FS_Surjection, TablesAssumption
<1>2. IsFiniteSet(ofTasks) /\ Cardinality(ofTasks) <= 2
  <2>1. /\ IsFiniteSet({} \cup {task["mqtt"].table})
        /\ Cardinality({} \cup {task["mqtt"].table}) <= 1
    BY FS_EmptySet, FS_AddElement
  <2>2. IsFiniteSet(two) /\ Cardinality(two) <= 2
    <3> DEFINE one == {} \cup {task["mqtt"].table}
    <3>1. IsFiniteSet(one) /\ Cardinality(one) <= 1 /\ Cardinality(one) \in Nat
      BY <2>1, FS_CardinalityType
    <3> DEFINE other == task["demo"].table
    <3> HIDE DEF one, other
    <3>2. /\ IsFiniteSet(one \cup {other})
          /\ \/ Cardinality(one \cup {other}) = Cardinality(one)
             \/ Cardinality(one \cup {other}) = Cardinality(one) + 1
      BY <3>1, FS_AddElement
    <3>3. Cardinality(one \cup {other}) <= 2
      BY <3>1, <3>2
    <3> QED
      BY <3>2, <3>3 DEF one, other
  <2>3. ofTasks \in SUBSET two
    BY SourcesAssumption
  <2>4. IsFiniteSet(ofTasks) /\ Cardinality(ofTasks) <= Cardinality(two)
    BY <2>2, <2>3, FS_Subset
  <2>5. Cardinality(ofTasks) \in Nat /\ Cardinality(two) \in Nat
    BY <2>2, <2>4, FS_CardinalityType
  <2> QED
    BY <2>2, <2>4, <2>5
<1>3. Held = ofCabinets \cup ofTasks
  BY DEF Held
<1> HIDE DEF ofCabinets, ofTasks
<1>4. IsFiniteSet(Held) /\ Cardinality(Held) <= Cardinality(Cabinets) + 2
  <2>1. /\ Cardinality(ofCabinets) \in Nat /\ Cardinality(ofTasks) \in Nat
        /\ Cardinality(ofCabinets \cap ofTasks) \in Nat /\ Cardinality(Cabinets) \in Nat
    BY <1>1, <1>2, FS_CardinalityType, FS_Subset, TablesAssumption
  <2>2. /\ IsFiniteSet(ofCabinets \cup ofTasks)
        /\ Cardinality(ofCabinets \cup ofTasks)
             = Cardinality(ofCabinets) + Cardinality(ofTasks)
               - Cardinality(ofCabinets \cap ofTasks)
    BY <1>1, <1>2, FS_Union
  <2> QED
    BY <1>1, <1>2, <1>3, <2>1, <2>2
<1>5. ~(Tables \subseteq Held)
  <2>1. SUFFICES ASSUME Tables \subseteq Held PROVE FALSE
    OBVIOUS
  <2>2. Cardinality(Tables) <= Cardinality(Held)
    BY <1>4, <2>1, FS_Subset
  <2>3. /\ Cardinality(Tables) \in Nat /\ Cardinality(Held) \in Nat
        /\ Cardinality(Cabinets) \in Nat
    BY <1>4, FS_CardinalityType, TablesAssumption
  <2> QED
    BY <1>4, <2>2, <2>3, TablesAssumption
<1> QED
  BY <1>5 DEF Fresh

-----------------------------------------------------------------------------
(* What one stretch of reconciliation does.                                 *)

(* Object t goes from base[t] to after by the events announced for c: what  *)
(* is raised was not listed, what is cleared was, or has just been raised   *)
(* while nothing was sent.                                                  *)
Reports(c, t, base, after) ==
  \E up, down \in SUBSET Types :
    /\ up \cap base[t] = {} /\ down \subseteq base[t] \cup up
    /\ after = (base[t] \cup up) \ down
    /\ link = "up" => up \cap down = {}
    /\ Announce(c, up, down)

(* Task p has changed object t from base and is left idle, dead, or         *)
(* suspended with that object; COMMUNICATION_LOSS has been left alone.      *)
Effect(p, c, t, base) ==
  /\ \E after \in SUBSET Types, next \in Task :
       /\ Store(p, t, base, after, next) /\ Reports(c, t, base, after)
       /\ CommLoss \in after <=> CommLoss \in base[t]
       /\ next \notin {Idle, Dead} => next.at = c /\ next.table = t
  /\ link' \in {"none", "up", "broken"}
  /\ settled' \in [Cabinets -> SUBSET SUBSET Conditions]

(* Bringing the history of settled samples up to date keeps its type.       *)
LEMMA SettleType ==
  ASSUME TypeOK, NEW c \in Cabinets, NEW t, NEW samples \in SUBSET SUBSET Conditions,
         Settle(c, t, samples)
  PROVE  settled' \in [Cabinets -> SUBSET SUBSET Conditions]
BY DEF Settle, TypeOK

LEMMA AckWaits == AwaitAck \in Waits
BY DEF AwaitAck, Waits

(* The second loop: it never touches COMMUNICATION_LOSS, which is not on    *)
(* its list.                                                                *)
LEMMA ClearOnEffect ==
  ASSUME TypeOK, NEW p \in Sources, NEW c \in Cabinets, NEW t \in Tables, NEW base,
         NEW content \in SUBSET Types, CommLoss \in content <=> CommLoss \in base[t],
         NEW up \in SUBSET Types, content = base[t] \cup up, up \cap base[t] = {},
         link = "up" => up = {},
         NEW sample \in SUBSET Conditions, NEW todo \in SUBSET Conditions,
         ClearOn(p, c, t, base, content, up, sample, todo)
  PROVE  Effect(p, c, t, base)
<1>1. CommLoss \notin todo
  BY ConditionsAssumption
<1>2. Idle \in Task /\ Dead \in Task
  BY DEF Task
<1>3. link \in {"none", "up", "broken"}
  BY DEF TypeOK
<1>3a. ASSUME NEW down \in SUBSET content, Announce(c, up, down)
       PROVE  Reports(c, t, base, content \ down)
  <2>1. down \in SUBSET Types /\ (link = "up" => up \cap down = {})
    OBVIOUS
  <2> QED
    BY <1>3a, <2>1 DEF Reports
<1>4. CASE /\ todo = {} \/ todo \subseteq content
           /\ Store(p, t, base, content \ todo, Idle)
           /\ Announce(c, up, todo)
           /\ Settle(c, t, {sample})
           /\ UNCHANGED link
  <2>1. content \ todo \in SUBSET Types
    OBVIOUS
  <2>2. CommLoss \in content \ todo <=> CommLoss \in base[t]
    BY <1>1
  <2>3. settled' \in [Cabinets -> SUBSET SUBSET Conditions]
    BY <1>4, SettleType
  <2>4. Reports(c, t, base, content \ todo)
    BY <1>3a, <1>4
  <2> QED
    BY <1>2, <1>3, <1>4, <2>1, <2>2, <2>3, <2>4 DEF Effect
<1>5. ASSUME NEW x \in todo \cap content,
             Store(p, t, base, content \ {x},
                      [pc |-> "clear", at |-> c, table |-> t, sample |-> sample,
                       todo |-> todo \ {x}, wait |-> AwaitAck]),
             Announce(c, up, {x}),
             Settle(c, t, {}), UNCHANGED link
      PROVE  Effect(p, c, t, base)
  <2> DEFINE next == [pc |-> "clear", at |-> c, table |-> t, sample |-> sample,
                      todo |-> todo \ {x}, wait |-> AwaitAck]
  <2>1. next \in Task /\ next.at = c /\ next.table = t
    BY AckWaits DEF Task
  <2>2. content \ {x} \in SUBSET Types /\ (CommLoss \in content \ {x} <=> CommLoss \in base[t])
    BY <1>1
  <2>3. settled' \in [Cabinets -> SUBSET SUBSET Conditions]
    BY <1>5, SettleType
  <2>4. Store(p, t, base, content \ {x}, next)
    BY <1>5
  <2>5. Reports(c, t, base, content \ {x})
    BY <1>3a, <1>5
  <2> HIDE DEF next
  <2> QED
    BY <1>3, <1>5, <2>1, <2>2, <2>3, <2>4, <2>5 DEF Effect
<1>6. ASSUME NEW popped \in SUBSET (todo \cap content),
             KeyError(p, c, t, base, content \ popped), Announce(c, up, popped)
      PROVE  Effect(p, c, t, base)
  <2>1. /\ content \ popped \in SUBSET Types
        /\ CommLoss \in content \ popped <=> CommLoss \in base[t]
    BY <1>1
  <2>2. settled' \in [Cabinets -> SUBSET SUBSET Conditions]
    BY <1>6, SettleType DEF KeyError
  <2>3. link' \in {"none", "up", "broken"}
    BY <1>3, <1>6 DEF KeyError
  <2>4. Store(p, t, base, content \ popped, Dead)
    BY <1>6 DEF KeyError
  <2>5. Reports(c, t, base, content \ popped)
    BY <1>3a, <1>6
  <2> QED
    BY <1>2, <2>1, <2>2, <2>3, <2>4, <2>5 DEF Effect
<1> QED
  BY <1>4, <1>5, <1>6 DEF ClearOn

(* Both loops.                                                              *)
LEMMA RaiseOnEffect ==
  ASSUME TypeOK, NEW p \in Sources, NEW c \in Cabinets, NEW t \in Tables,
         NEW base \in [Tables -> SUBSET Types],
         NEW sample \in SUBSET Conditions, NEW todo \in SUBSET Conditions,
         RaiseOn(p, c, t, base, sample, todo)
  PROVE  Effect(p, c, t, base)
<1> DEFINE missing == Missing(base[t], todo)
           full == base[t] \cup missing
<1>1. missing \in SUBSET Conditions /\ base[t] \in SUBSET Types /\ full \in SUBSET Types
  BY DEF Missing, Types
<1>2. CommLoss \in full <=> CommLoss \in base[t]
  BY <1>1, ConditionsAssumption
<1>3. CASE /\ missing = {} \/ link = "none"
           /\ ClearOn(p, c, t, base, full, missing, sample, Stale(full, sample))
  <2>1. Stale(full, sample) \in SUBSET Conditions
    BY <1>1 DEF Stale, Types
  <2>2. missing \in SUBSET Types /\ missing \cap base[t] = {} /\ (link = "up" => missing = {})
    BY <1>1, <1>3 DEF Missing, Types
  <2>3. full = base[t] \cup missing
    OBVIOUS
  <2> HIDE DEF full, missing
  <2> QED
    BY <1>1, <1>2, <1>3, <2>1, <2>2, <2>3, ClearOnEffect
<1>4. ASSUME NEW x \in missing, NEW passed \in SUBSET (todo \cap base[t]),
             Store(p, t, base, base[t] \cup {x},
                      [pc |-> "raise", at |-> c, table |-> t, sample |-> sample,
                       todo |-> todo \ (passed \cup {x}), wait |-> AwaitAck]),
             Announce(c, {x}, {}),
             Settle(c, t, {}), UNCHANGED link
      PROVE  Effect(p, c, t, base)
  <2> DEFINE next == [pc |-> "raise", at |-> c, table |-> t, sample |-> sample,
                      todo |-> todo \ (passed \cup {x}), wait |-> AwaitAck]
  <2>1. next \in Task /\ next.at = c /\ next.table = t
    BY AckWaits DEF Task
  <2>2. /\ base[t] \cup {x} \in SUBSET Types
        /\ CommLoss \in base[t] \cup {x} <=> CommLoss \in base[t]
    BY <1>1, ConditionsAssumption DEF Types
  <2>3. settled' \in [Cabinets -> SUBSET SUBSET Conditions]
    BY <1>4, SettleType
  <2>4. link' \in {"none", "up", "broken"}
    BY <1>4 DEF TypeOK
  <2>5. Store(p, t, base, base[t] \cup {x}, next)
    BY <1>4
  <2>6. Reports(c, t, base, base[t] \cup {x})
    <3>1. {x} \in SUBSET Types /\ {} \in SUBSET Types /\ {x} \cap base[t] = {}
      BY <1>1 DEF Missing, Types
    <3>2. base[t] \cup {x} = (base[t] \cup {x}) \ {}
      OBVIOUS
    <3> QED
      BY <1>4, <3>1, <3>2 DEF Reports
  <2> HIDE DEF next
  <2> QED
    BY <2>1, <2>2, <2>3, <2>4, <2>5, <2>6 DEF Effect
<1> QED
  BY <1>3, <1>4 DEF RaiseOn

-----------------------------------------------------------------------------
(* Type correctness.                                                        *)

(* The dictionary a message works on, and what it contains to begin with.   *)
LEMMA OwnType ==
  ASSUME TypeOK, NEW c \in Cabinets
  PROVE  /\ Own(c) \in Tables /\ Contents(c) \in [Tables -> SUBSET Types]
         /\ Contents(c)[Own(c)] = Visible(c)
         /\ \A t \in Tables : t \in Held => Contents(c)[t] = alarms[t]
         /\ table[c] # None => Own(c) = table[c] /\ Contents(c) = alarms
         /\ table[c] = None => Own(c) = Fresh
<1>1. Fresh \in Tables /\ Fresh \notin Held
  BY FreshIsFree
<1> QED
  BY <1>1 DEF Own, Contents, Visible, TypeOK

(* What a listener has heard keeps its type.                                *)
LEMMA AnnounceType ==
  ASSUME TypeOK, NEW c \in Cabinets, NEW up, NEW down, Announce(c, up, down)
  PROVE  heard' \in [Cabinets -> [Types -> News]]
<1>1. \A x \in Types, e \in {"raised", "cleared"} : Hear(heard[c][x], e) \in News
  BY DEF Hear, News
<1>2. heard[c] \in [Types -> News] /\ "missed" \in News
  BY DEF TypeOK, News
<1>3. [x \in Types |-> IF x \notin up \cup down THEN heard[c][x]
                       ELSE IF link # "up" THEN "missed"
                       ELSE Hear(heard[c][x], IF x \in down THEN "cleared" ELSE "raised")]
        \in [Types -> News]
  BY <1>1, <1>2
<1> QED
  BY <1>3 DEF Announce, TypeOK

(* What an effect changes keeps its type.                                   *)
LEMMA EffectType ==
  ASSUME TypeOK, NEW p \in Sources, NEW c \in Cabinets, NEW t \in Tables,
         NEW base \in [Tables -> SUBSET Types], Effect(p, c, t, base)
  PROVE  /\ alarms' \in [Tables -> SUBSET Types]
         /\ task' \in [Sources -> Task]
         /\ heard' \in [Cabinets -> [Types -> News]]
         /\ link' \in {"none", "up", "broken"}
         /\ settled' \in [Cabinets -> SUBSET SUBSET Conditions]
<1>1. PICK after \in SUBSET Types, next \in Task :
        Store(p, t, base, after, next) /\ Reports(c, t, base, after)
  BY DEF Effect
<1>2. heard' \in [Cabinets -> [Types -> News]]
  BY <1>1, AnnounceType DEF Reports
<1> QED
  BY <1>1, <1>2 DEF Effect, Store, TypeOK

(* A message or a resumed task, as an effect on the cabinet's own object.   *)
LEMMA TelemetryEffect ==
  ASSUME TypeOK, NEW p \in Sources, NEW c \in Cabinets, Telemetry(p, c)
  PROVE  /\ Effect(p, c, Own(c), Contents(c))
         /\ table' = [table EXCEPT ![c] = Own(c)]
         /\ UNCHANGED <<reading, offline, wiped>>
<1>1. reading[c] \in SUBSET Conditions
  BY DEF TypeOK
<1> QED
  BY <1>1, OwnType, RaiseOnEffect DEF Telemetry

LEMMA ResumeEffect ==
  ASSUME TypeOK, NEW p \in Sources, Resume(p)
  PROVE  /\ Busy(p) /\ UNCHANGED <<table, reading, offline, wiped>>
         /\ \/ Effect(p, task[p].at, task[p].table, alarms)
            \/ task' = [task EXCEPT ![p] = Idle] /\ UNCHANGED <<alarms, heard, settled, link>>
<1>1. Busy(p) /\ UNCHANGED <<table, reading, offline, wiped>>
  BY DEF Resume
<1>2. /\ task[p].at \in Cabinets /\ task[p].table \in Tables
      /\ task[p].pc # "status" => task[p].sample \in SUBSET Conditions
                                  /\ task[p].todo \in SUBSET Conditions
  BY <1>1, BusyTask
<1>3. alarms \in [Tables -> SUBSET Types] /\ alarms[task[p].table] \in SUBSET Types
  BY <1>2 DEF TypeOK
<1>4. CASE /\ task[p].pc = "raise"
           /\ RaiseOn(p, task[p].at, task[p].table, alarms, task[p].sample, task[p].todo)
  BY <1>1, <1>2, <1>3, <1>4, RaiseOnEffect
<1>5. CASE /\ task[p].pc = "clear"
           /\ ClearOn(p, task[p].at, task[p].table, alarms, alarms[task[p].table],
                      {}, task[p].sample, task[p].todo)
  BY <1>1, <1>2, <1>3, <1>5, ClearOnEffect
<1>6. CASE task' = [task EXCEPT ![p] = Idle] /\ UNCHANGED <<alarms, heard, settled, link>>
  BY <1>1, <1>6
<1> QED
  BY <1>4, <1>5, <1>6 DEF Resume

(* The same for a status message, which alone decides on COMMUNICATION_LOSS.*)
LEMMA StatusEffect ==
  ASSUME TypeOK, NEW c \in Cabinets, NEW up \in BOOLEAN, Status(c, up)
  PROVE  /\ "mqtt" \in Sources
         /\ table' = [table EXCEPT ![c] = Own(c)]
         /\ offline' = [offline EXCEPT ![c] = ~up] /\ wiped' = wiped \ {c}
         /\ UNCHANGED <<link, reading, settled>>
         /\ \E after \in SUBSET Types :
              /\ CommLoss \in after <=> ~up
              /\ \/ /\ after = Contents(c)[Own(c)]
                    /\ alarms' = Contents(c) /\ UNCHANGED <<heard, task>>
                 \/ \E next \in Task :
                      /\ Store("mqtt", Own(c), Contents(c), after, next)
                      /\ Reports(c, Own(c), Contents(c), after)
                      /\ next.at = c /\ next.table = Own(c)
<1> DEFINE t == Own(c)
           base == Contents(c)
           after == IF up THEN base[t] \ {CommLoss} ELSE base[t] \cup {CommLoss}
           next == [pc |-> "status", at |-> c, table |-> t, wait |-> AwaitAck]
<1>1. t \in Tables /\ base[t] \in SUBSET Types
  BY OwnType
<1>2. after \in SUBSET Types /\ (CommLoss \in after <=> ~up)
  BY <1>1 DEF Types
<1>3. next \in Task /\ next.at = c /\ next.table = t
  BY <1>1, AckWaits DEF Task
<1>4. \/ after = base[t] /\ alarms' = base /\ UNCHANGED <<heard, task>>
      \/ /\ after # base[t] /\ Store("mqtt", t, base, after, next)
         /\ IF up THEN Announce(c, {}, {CommLoss}) ELSE Announce(c, {CommLoss}, {})
  BY DEF Status
<1>4a. ASSUME after # base[t],
              IF up THEN Announce(c, {}, {CommLoss}) ELSE Announce(c, {CommLoss}, {})
       PROVE  Reports(c, t, base, after)
  <2>1. {} \in SUBSET Types /\ {CommLoss} \in SUBSET Types
    BY DEF Types
  <2>2. CASE up
    <3>1. CommLoss \in base[t] /\ after = (base[t] \cup {}) \ {CommLoss}
      BY <1>4a, <2>2
    <3> QED
      BY <1>4a, <2>1, <2>2, <3>1 DEF Reports
  <2>3. CASE ~up
    <3>1. CommLoss \notin base[t] /\ after = (base[t] \cup {CommLoss}) \ {}
      BY <1>4a, <2>3
    <3> QED
      BY <1>4a, <2>1, <2>3, <3>1 DEF Reports
  <2> QED
    BY <2>2, <2>3
<1>5. /\ "mqtt" \in Sources
      /\ table' = [table EXCEPT ![c] = Own(c)]
      /\ offline' = [offline EXCEPT ![c] = ~up] /\ wiped' = wiped \ {c}
      /\ UNCHANGED <<link, reading, settled>>
  BY DEF Status
<1> HIDE DEF t, base, after, next
<1>6. t = Own(c) /\ base = Contents(c)
  BY DEF t, base
<1> QED
  BY <1>2, <1>3, <1>4, <1>4a, <1>5, <1>6

(* A broken connection changes nothing in a task but what it waits for.     *)
LEMMA BreakKeepsTasks ==
  ASSUME TypeOK, LinkBreaks, NEW p \in Sources
  PROVE  /\ task'[p] \in Task
         /\ Busy(p)' <=> Busy(p)
         /\ Busy(p) => task'[p].at = task[p].at /\ task'[p].table = task[p].table
<1>1. PICK gone \in SUBSET {q \in Sources : Busy(q)} :
        task' = [q \in Sources |-> IF q \in gone THEN [task[q] EXCEPT !.wait = "lost"]
                                   ELSE task[q]]
  BY DEF LinkBreaks
<1>2. CASE p \in gone
  <2>1. /\ task'[p] = [task[p] EXCEPT !.wait = "lost"] /\ Busy(p)
        /\ task[p] \in Task /\ task[p] # Idle /\ task[p] # Dead
    BY <1>1, <1>2 DEF TypeOK, Busy
  <2>2. task'[p] \in Task
    BY <2>1 DEF Task, Waits
  <2>3. /\ task[p].pc \in {"status", "raise", "clear"} /\ task'[p].pc = task[p].pc
        /\ task'[p].at = task[p].at /\ task'[p].table = task[p].table
    BY <2>1 DEF Task
  <2>4. Busy(p)'
    BY <2>3 DEF Busy, Idle, Dead
  <2> QED
    BY <2>1, <2>2, <2>3, <2>4
<1>3. CASE p \notin gone
  BY <1>1, <1>3 DEF TypeOK, Busy
<1> QED
  BY <1>2, <1>3

LEMMA TypeStep ==
  ASSUME TypeOK, [Next]_vars
  PROVE  TypeOK'
<1>1. ASSUME NEW p \in Sources, NEW c \in Cabinets, Telemetry(p, c)
      PROVE  TypeOK'
  <2>1. /\ Effect(p, c, Own(c), Contents(c)) /\ table' = [table EXCEPT ![c] = Own(c)]
        /\ UNCHANGED <<reading, offline, wiped>>
    BY <1>1, TelemetryEffect
  <2>2. Own(c) \in Tables /\ Contents(c) \in [Tables -> SUBSET Types]
    BY OwnType
  <2>3. /\ alarms' \in [Tables -> SUBSET Types] /\ task' \in [Sources -> Task]
        /\ heard' \in [Cabinets -> [Types -> News]] /\ link' \in {"none", "up", "broken"}
        /\ settled' \in [Cabinets -> SUBSET SUBSET Conditions]
    BY <2>1, <2>2, EffectType
  <2> QED
    BY <2>1, <2>2, <2>3 DEF TypeOK
<1>2. ASSUME NEW p \in Sources, Resume(p)
      PROVE  TypeOK'
  <2>1. /\ Busy(p) /\ UNCHANGED <<table, reading, offline, wiped>>
        /\ task[p].at \in Cabinets /\ task[p].table \in Tables
    BY <1>2, ResumeEffect, BusyTask
  <2>2. alarms \in [Tables -> SUBSET Types]
    BY DEF TypeOK
  <2>3. CASE Effect(p, task[p].at, task[p].table, alarms)
    BY <2>1, <2>2, <2>3, EffectType DEF TypeOK
  <2>4. CASE task' = [task EXCEPT ![p] = Idle] /\ UNCHANGED <<alarms, heard, settled, link>>
    BY <2>1, <2>4 DEF TypeOK, Task
  <2> QED
    BY <1>2, <2>3, <2>4, ResumeEffect
<1>3. ASSUME NEW p \in Sources, PublishFails(p)
      PROVE  TypeOK'
  BY <1>3 DEF PublishFails, TypeOK, Task
<1>4. ASSUME NEW c \in Cabinets, NEW up \in BOOLEAN, Status(c, up)
      PROVE  TypeOK'
  <2>1. /\ "mqtt" \in Sources /\ table' = [table EXCEPT ![c] = Own(c)]
        /\ offline' = [offline EXCEPT ![c] = ~up] /\ wiped' = wiped \ {c}
        /\ UNCHANGED <<link, reading, settled>>
        /\ Own(c) \in Tables /\ Contents(c) \in [Tables -> SUBSET Types]
    BY <1>4, StatusEffect, OwnType
  <2>2. CASE alarms' = Contents(c) /\ UNCHANGED <<heard, task>>
    BY <2>1, <2>2 DEF TypeOK
  <2>3. ASSUME NEW after \in SUBSET Types, NEW next \in Task,
               Store("mqtt", Own(c), Contents(c), after, next),
               Reports(c, Own(c), Contents(c), after)
        PROVE  TypeOK'
    <3>1. heard' \in [Cabinets -> [Types -> News]]
      BY <2>3, AnnounceType DEF Reports
    <3> QED
      BY <2>1, <2>3, <3>1 DEF TypeOK, Store
  <2> QED
    BY <1>4, <2>2, <2>3, StatusEffect
<1>5. ASSUME NEW c \in Cabinets, Acknowledge(c)
      PROVE  TypeOK'
  BY <1>5, FreshIsFree DEF Acknowledge, TypeOK
<1>6. ASSUME NEW cs \in (SUBSET Cabinets) \ {{}}, Forget(cs)
      PROVE  TypeOK'
  BY <1>6 DEF Forget, TypeOK
<1>7. ASSUME NEW c \in Cabinets, Change(c)
      PROVE  TypeOK'
  BY <1>7 DEF Change, TypeOK
<1>8. CASE Connect \/ LinkLost
  BY <1>8 DEF Connect, LinkLost, TypeOK
<1>9. CASE LinkBreaks
  <2>1. task' \in [Sources -> Task]
    <3>1. task' = [q \in Sources |-> task'[q]]
      BY <1>9 DEF LinkBreaks
    <3> QED
      BY <1>9, <3>1, BreakKeepsTasks
  <2> QED
    BY <1>9, <2>1 DEF LinkBreaks, TypeOK
<1>10. CASE Restart
  BY <1>10 DEF Restart, TypeOK, Task
<1>11. CASE UNCHANGED vars
  BY <1>11 DEF vars, TypeOK
<1> QED
  BY <1>1, <1>2, <1>3, <1>4, <1>5, <1>6, <1>7, <1>8, <1>9, <1>10, <1>11
     DEF Next, Feed, Operators, Environment

(* The dictionaries, the suspended tasks and the histories keep their       *)
(* shape, whatever fails, is acknowledged or deleted: in particular no task *)
(* is ever left with COMMUNICATION_LOSS on its list of alarms to clear.     *)
THEOREM AlarmTypeCorrect == Spec => []TypeOK
<1>1. Init => TypeOK
  BY DEF Init, TypeOK, Task, News
<1>2. TypeOK /\ [Next]_vars => TypeOK'
  BY TypeStep
<1> QED
  BY <1>1, <1>2, PTL DEF Spec

-----------------------------------------------------------------------------
(* The offline flag.  No two cabinets share a dictionary, and one that a    *)
(* suspended task holds belongs to the task's cabinet or to none any more.  *)

Distinct == \A c, d \in Cabinets : table[c] # None /\ table[c] = table[d] => c = d
HeldByOne ==
  \A p \in Sources : Busy(p) => \A d \in Cabinets : table[d] = task[p].table => d = task[p].at
HonestInv == TypeOK /\ OnlineHonest /\ Distinct /\ HeldByOne

(* A message keeps that so: its cabinet has a dictionary of its own.        *)
LEMMA MessageKeepsApart ==
  ASSUME TypeOK, Distinct, HeldByOne, NEW p \in Sources, NEW c \in Cabinets,
         table' = [table EXCEPT ![c] = Own(c)],
         \/ task' = task
         \/ \E next \in Task :
              /\ task' = [task EXCEPT ![p] = next]
              /\ next \notin {Idle, Dead} => next.at = c /\ next.table = Own(c)
  PROVE  /\ Distinct' /\ HeldByOne'
         /\ \A d \in Cabinets : table'[d] = Own(c) => d = c
<1>1. Own(c) \in Tables /\ (table[c] = None => Own(c) \notin Held)
      /\ (table[c] # None => Own(c) = table[c])
  BY OwnType, FreshIsFree
<1>2. \A d \in Cabinets : table[d] \in Held /\ (d # c => table'[d] = table[d])
  BY DEF Held, TypeOK
<1>3. table'[c] = Own(c) /\ Own(c) # None
  BY <1>1, NoneAssumption DEF TypeOK
<1>4. \A d \in Cabinets : table'[d] = Own(c) => d = c
  BY <1>1, <1>2, <1>3 DEF Distinct
<1>5. Distinct'
  BY <1>2, <1>3, <1>4 DEF Distinct
<1>6. ASSUME NEW q \in Sources, Busy(q), NEW d \in Cabinets, table'[d] = task[q].table
      PROVE  d = task[q].at
  <2>1. task[q].table \in Held
    BY <1>6 DEF Held
  <2>2. CASE d # c
    BY <1>2, <1>6, <2>2 DEF HeldByOne
  <2>3. CASE d = c
    BY <1>1, <1>3, <1>6, <2>1, <2>3 DEF HeldByOne
  <2> QED
    BY <2>2, <2>3
<1>7. HeldByOne'
  <2>1. CASE task' = task
    BY <1>6, <2>1 DEF HeldByOne, Busy
  <2>2. ASSUME NEW next \in Task, task' = [task EXCEPT ![p] = next],
               next \notin {Idle, Dead} => next.at = c /\ next.table = Own(c)
        PROVE  HeldByOne'
    <3>1. SUFFICES ASSUME NEW q \in Sources, Busy(q)', NEW d \in Cabinets,
                          table'[d] = task'[q].table
                   PROVE  d = task'[q].at
      BY DEF HeldByOne
    <3>2. CASE q = p
      BY <1>4, <2>2, <3>1, <3>2 DEF Busy, TypeOK
    <3>3. CASE q # p
      <4>1. task'[q] = task[q] /\ Busy(q)
        BY <2>2, <3>1, <3>3 DEF Busy, TypeOK
      <4> QED
        BY <1>6, <3>1, <4>1
    <3> QED
      BY <3>2, <3>3
  <2> QED
    BY <2>1, <2>2
<1> QED
  BY <1>4, <1>5, <1>7

(* The dictionary a message has changed shows at its cabinet only.          *)
LEMMA OneShows ==
  ASSUME TypeOK, NEW c \in Cabinets,
         Own(c) \in Tables, Contents(c) \in [Tables -> SUBSET Types],
         \A t \in Tables : t \in Held => Contents(c)[t] = alarms[t],
         NEW after, alarms' = [Contents(c) EXCEPT ![Own(c)] = after],
         \A d \in Cabinets : table'[d] = Own(c) => d = c,
         \A d \in Cabinets : d # c => table'[d] = table[d],
         table'[c] = Own(c)
  PROVE  \A d \in Cabinets :
           (d # c => Visible(d)' = Visible(d)) /\ (d = c => Visible(d)' = after)
<1>1. SUFFICES ASSUME NEW d \in Cabinets
               PROVE  (d # c => Visible(d)' = Visible(d)) /\ (d = c => Visible(d)' = after)
  OBVIOUS
<1>2. table[d] \in Tables \cup {None} /\ table[d] \in Held
  BY DEF TypeOK, Held
<1>3. \A u \in Tables : alarms'[u] = IF u = Own(c) THEN after ELSE Contents(c)[u]
  OBVIOUS
<1>4. CASE d = c
  BY <1>3, <1>4, NoneAssumption DEF Visible
<1>5. CASE d # c
  BY <1>2, <1>3, <1>5, NoneAssumption DEF Visible
<1> QED
  BY <1>4, <1>5

LEMMA HonestStep ==
  ASSUME HonestInv, [Next]_vars
  PROVE  HonestInv'
<1> USE DEF HonestInv
<1>1. TypeOK /\ TypeOK'
  BY TypeStep
<1>2. ASSUME NEW p \in Sources, NEW c \in Cabinets, Telemetry(p, c)
      PROVE  HonestInv'
  <2>1. /\ Effect(p, c, Own(c), Contents(c)) /\ table' = [table EXCEPT ![c] = Own(c)]
        /\ offline' = offline /\ wiped' = wiped
    BY <1>1, <1>2, TelemetryEffect
  <2>2. PICK after \in SUBSET Types, next \in Task :
          /\ Store(p, Own(c), Contents(c), after, next)
          /\ CommLoss \in after <=> CommLoss \in Contents(c)[Own(c)]
          /\ next \notin {Idle, Dead} => next.at = c /\ next.table = Own(c)
    BY <2>1 DEF Effect
  <2>3. Distinct' /\ HeldByOne' /\ \A d \in Cabinets : table'[d] = Own(c) => d = c
    BY <1>1, <2>1, <2>2, MessageKeepsApart DEF Store
  <2>4. /\ Own(c) \in Tables /\ Contents(c) \in [Tables -> SUBSET Types]
        /\ Contents(c)[Own(c)] = Visible(c)
        /\ \A t \in Tables : t \in Held => Contents(c)[t] = alarms[t]
    BY <1>1, OwnType
  <2>5. /\ \A d \in Cabinets : d # c => table'[d] = table[d]
        /\ table'[c] = Own(c)
    BY <1>1, <2>1 DEF TypeOK
  <2>6. \A d \in Cabinets : (d # c => Visible(d)' = Visible(d)) /\ (d = c => Visible(d)' = after)
    <3>1. alarms' = [Contents(c) EXCEPT ![Own(c)] = after]
      BY <2>2 DEF Store
    <3> QED
      BY <1>1, <2>3, <2>4, <2>5, <3>1, OneShows
  <2> QED
    BY <1>1, <2>1, <2>2, <2>3, <2>4, <2>6 DEF OnlineHonest
<1>3. ASSUME NEW p \in Sources, Resume(p)
      PROVE  HonestInv'
  <2>1. /\ Busy(p) /\ UNCHANGED <<table, reading, offline, wiped>>
        /\ task[p].at \in Cabinets /\ task[p].table \in Tables
    BY <1>1, <1>3, ResumeEffect, BusyTask
  <2>2. CASE Effect(p, task[p].at, task[p].table, alarms)
    <3> DEFINE c == task[p].at
               t == task[p].table
    <3>1. PICK after \in SUBSET Types, next \in Task :
            /\ Store(p, t, alarms, after, next)
            /\ CommLoss \in after <=> CommLoss \in alarms[t]
            /\ next \notin {Idle, Dead} => next.at = c /\ next.table = t
      BY <2>2 DEF Effect
    <3>2. task' = [task EXCEPT ![p] = next] /\ alarms' = [alarms EXCEPT ![t] = after]
      BY <3>1 DEF Store
    <3>3. \A d \in Cabinets : table'[d] = t => d = c
      BY <2>1 DEF HeldByOne
    <3>4. Distinct'
      BY <2>1 DEF Distinct
    <3>5. HeldByOne'
      BY <1>1, <2>1, <3>1, <3>2, <3>3 DEF HeldByOne, Busy, TypeOK
    <3>6. alarms \in [Tables -> SUBSET Types] /\ c \in Cabinets /\ t \in Tables
      BY <1>1, <2>1 DEF TypeOK
    <3> HIDE DEF c, t
    <3>7. \A d \in Cabinets : /\ d # c \/ table[d] # t => Visible(d)' = Visible(d)
                              /\ d = c /\ table[c] = t => Visible(d)' = after
      <4>1. SUFFICES ASSUME NEW d \in Cabinets
                     PROVE  /\ d # c \/ table[d] # t => Visible(d)' = Visible(d)
                            /\ d = c /\ table[c] = t => Visible(d)' = after
        OBVIOUS
      <4>2. table'[d] = table[d] /\ table[d] \in Tables \cup {None}
        BY <1>1, <2>1 DEF TypeOK
      <4>3. \A u \in Tables : alarms'[u] = IF u = t THEN after ELSE alarms[u]
        BY <3>2, <3>6
      <4> QED
        BY <3>3, <3>6, <4>2, <4>3, NoneAssumption DEF Visible
    <3>8. table[c] = t => Visible(c) = alarms[t]
      BY <3>6, NoneAssumption DEF Visible
    <3> QED
      BY <1>1, <2>1, <3>1, <3>4, <3>5, <3>6, <3>7, <3>8 DEF OnlineHonest
  <2>3. CASE task' = [task EXCEPT ![p] = Idle] /\ UNCHANGED <<alarms, heard, settled, link>>
    BY <1>1, <2>1, <2>3 DEF OnlineHonest, Visible, Distinct, HeldByOne, Busy, TypeOK
  <2> QED
    BY <1>1, <1>3, <2>2, <2>3, ResumeEffect
<1>4. ASSUME NEW p \in Sources, PublishFails(p)
      PROVE  HonestInv'
  <2>1. UNCHANGED <<table, alarms, offline, wiped>>
    BY <1>4 DEF PublishFails
  <2>2. \A q \in Sources : task'[q] = task[q] \/ task'[q] \in {Idle, Dead}
    BY <1>1, <1>4 DEF PublishFails, TypeOK
  <2>3. HeldByOne'
    BY <2>1, <2>2 DEF HeldByOne, Busy
  <2> QED
    BY <1>1, <2>1, <2>3 DEF OnlineHonest, Visible, Distinct
<1>5. ASSUME NEW c \in Cabinets, NEW up \in BOOLEAN, Status(c, up)
      PROVE  HonestInv'
  <2>1. /\ "mqtt" \in Sources /\ table' = [table EXCEPT ![c] = Own(c)]
        /\ offline' = [offline EXCEPT ![c] = ~up] /\ wiped' = wiped \ {c}
    BY <1>1, <1>5, StatusEffect
  <2>2. PICK after \in SUBSET Types :
          /\ CommLoss \in after <=> ~up
          /\ \/ /\ after = Contents(c)[Own(c)]
                /\ alarms' = Contents(c) /\ UNCHANGED <<heard, task>>
             \/ \E next \in Task :
                  /\ Store("mqtt", Own(c), Contents(c), after, next)
                  /\ next.at = c /\ next.table = Own(c)
    BY <1>1, <1>5, StatusEffect
  <2>3. Distinct' /\ HeldByOne' /\ \A d \in Cabinets : table'[d] = Own(c) => d = c
    BY <1>1, <2>1, <2>2, MessageKeepsApart DEF Store
  <2>4. /\ Own(c) \in Tables /\ Contents(c) \in [Tables -> SUBSET Types]
        /\ \A t \in Tables : t \in Held => Contents(c)[t] = alarms[t]
    BY <1>1, OwnType
  <2>5. alarms' = [Contents(c) EXCEPT ![Own(c)] = after]
    BY <2>2, <2>4 DEF Store
  <2>6. (\A d \in Cabinets : d # c => table'[d] = table[d]) /\ table'[c] = Own(c)
    BY <1>1, <2>1 DEF TypeOK
  <2>7. \A d \in Cabinets : (d # c => Visible(d)' = Visible(d)) /\ (d = c => Visible(d)' = after)
    BY <1>1, <2>3, <2>4, <2>5, <2>6, OneShows
  <2>8. \A d \in Cabinets : /\ offline'[d] = IF d = c THEN ~up ELSE offline[d]
                            /\ d # c /\ d \notin wiped' => d \notin wiped
    BY <1>1, <2>1 DEF TypeOK
  <2> QED
    BY <1>1, <2>2, <2>3, <2>7, <2>8 DEF OnlineHonest
<1>6. ASSUME NEW c \in Cabinets, Acknowledge(c)
      PROVE  HonestInv'
  <2>1. /\ Fresh \in Tables /\ Fresh \notin Held /\ Fresh # None
        /\ table' = [table EXCEPT ![c] = Fresh] /\ alarms' = [alarms EXCEPT ![Fresh] = {}]
        /\ offline' = offline /\ wiped' = wiped \cup {c} /\ task' = task
    BY <1>1, <1>6, FreshIsFree, NoneAssumption DEF Acknowledge
  <2>2. \A d \in Cabinets : /\ table[d] # Fresh
                            /\ table'[d] = IF d = c THEN Fresh ELSE table[d]
    BY <1>1, <2>1 DEF Held, TypeOK
  <2>3. \A d \in Cabinets : (d # c => Visible(d)' = Visible(d)) /\ (d = c => Visible(d)' = {})
    BY <1>1, <2>1, <2>2 DEF Visible, TypeOK
  <2>4. Distinct'
    BY <2>2 DEF Distinct
  <2>5. \A q \in Sources : Busy(q) => task[q].table # Fresh
    BY <2>1 DEF Held
  <2>6. HeldByOne'
    BY <2>1, <2>2, <2>5 DEF HeldByOne, Busy
  <2> QED
    BY <1>1, <2>1, <2>3, <2>4, <2>6 DEF OnlineHonest, TypeOK
<1>7. ASSUME NEW cs \in (SUBSET Cabinets) \ {{}}, Forget(cs)
      PROVE  HonestInv'
  <2>1. \A d \in Cabinets : table'[d] = IF d \in cs THEN None ELSE table[d]
    BY <1>7 DEF Forget
  <2>2. alarms' = alarms /\ task' = task /\ offline' = offline /\ wiped' = wiped \cup cs
    BY <1>7 DEF Forget
  <2>3. \A d \in Cabinets : Visible(d)' = IF d \in cs THEN {} ELSE Visible(d)
    BY <2>1, <2>2 DEF Visible
  <2>4. Distinct'
    BY <2>1 DEF Distinct
  <2>5. \A q \in Sources : Busy(q) => task[q].table # None
    BY <1>1, BusyTask, NoneAssumption
  <2>6. HeldByOne'
    <3>1. SUFFICES ASSUME NEW q \in Sources, Busy(q)', NEW d \in Cabinets,
                          table'[d] = task'[q].table
                   PROVE  d = task'[q].at
      BY DEF HeldByOne
    <3>2. Busy(q) /\ table'[d] = task[q].table
      BY <2>2, <3>1 DEF Busy
    <3>3. table'[d] = table[d]
      BY <2>1, <2>5, <3>2
    <3> QED
      BY <2>2, <3>2, <3>3 DEF HeldByOne
  <2> QED
    BY <1>1, <2>2, <2>3, <2>4, <2>6 DEF OnlineHonest
<1>8. ASSUME UNCHANGED <<table, alarms, task, offline, wiped>>
      PROVE  HonestInv'
  BY <1>1, <1>8 DEF OnlineHonest, Visible, Distinct, HeldByOne, Busy
<1>9. CASE LinkBreaks
  <2>1. UNCHANGED <<table, alarms, offline, wiped>>
    BY <1>9 DEF LinkBreaks
  <2>2. HeldByOne'
    BY <1>1, <1>9, <2>1, BreakKeepsTasks DEF HeldByOne
  <2> QED
    BY <1>1, <2>1, <2>2 DEF OnlineHonest, Visible, Distinct
<1>10. CASE Restart
  BY <1>1, <1>10 DEF Restart, OnlineHonest, Visible, Distinct, HeldByOne, Busy
<1> QED
  BY <1>2, <1>3, <1>4, <1>5, <1>6, <1>7, <1>8, <1>9, <1>10
     DEF Next, Feed, Operators, Environment, Change, Connect, LinkLost, vars

(* A cabinet is never shown offline unless its last status said so, and it  *)
(* always is when it said so, until someone acknowledges its alarms,        *)
(* deletes it or restarts the program: with both tasks at work and whatever *)
(* fails.                                                                   *)
THEOREM OfflineIsHonest == Spec => []OnlineHonest
<1>1. Init => HonestInv
  BY DEF Init, HonestInv, TypeOK, Task, News, OnlineHonest, Visible, Distinct, HeldByOne, Busy
<1>2. HonestInv /\ [Next]_vars => HonestInv'
  BY HonestStep
<1>3. HonestInv => OnlineHonest
  BY DEF HonestInv
<1> QED
  BY <1>1, <1>2, <1>3, PTL DEF Spec

-----------------------------------------------------------------------------
(* The bus implements AlarmLifecycle while nobody acknowledges, deletes or  *)
(* restarts: then the dictionary a task holds is still its cabinet's own.   *)

Undisturbed == Events \cap {"ack", "registry", "restart"} = {}
Current == \A p \in Sources : Busy(p) => table[task[p].at] = task[p].table
HeardInv == HonestInv /\ HeardIsVisible /\ Current

Open == [c \in Cabinets |-> Visible(c)]

(* Changing one cabinet's alarms to after, with an event for each change,   *)
(* is a report: no event repeats the last one heard.                        *)
LEMMA ReportStep ==
  ASSUME TypeOK, HeardIsVisible, NEW c \in Cabinets, NEW after \in SUBSET Types,
         NEW up \in SUBSET Types, NEW down \in SUBSET Types,
         up \cap Visible(c) = {}, down \subseteq Visible(c) \cup up,
         after = (Visible(c) \cup up) \ down,
         link = "up" => up \cap down = {},
         Announce(c, up, down),
         \A d \in Cabinets :
           (d # c => Visible(d)' = Visible(d)) /\ (d = c => Visible(d)' = after)
  PROVE  Lifecycle!Next /\ HeardIsVisible'
<1> DEFINE sent == link = "up"
           last == [x \in Types |-> IF x \notin up \cup down THEN heard[c][x]
                                   ELSE IF ~sent THEN "missed"
                                   ELSE IF x \in down THEN "cleared" ELSE "raised"]
           told == [x \in Types |-> IF x \notin up \cup down THEN heard[c][x]
                     ELSE IF link # "up" THEN "missed"
                     ELSE Hear(heard[c][x], IF x \in down THEN "cleared" ELSE "raised")]
<1>1. heard \in [Cabinets -> [Types -> News]]
  BY DEF TypeOK
<1>2. \A x \in Types : told[x] = last[x]
  <2>1. ASSUME NEW x \in Types, x \in up \cup down, sent
        PROVE  Hear(heard[c][x], IF x \in down THEN "cleared" ELSE "raised")
                 = IF x \in down THEN "cleared" ELSE "raised"
    <3>1. CASE x \in down
      <4>1. x \in Visible(c)
        BY <2>1, <3>1
      <4>2. heard[c][x] \notin {"cleared", "again"}
        BY <4>1 DEF HeardIsVisible
      <4> QED
        BY <3>1, <4>2 DEF Hear
    <3>2. CASE x \notin down
      <4>1. x \notin Visible(c)
        BY <2>1, <3>2
      <4>2. heard[c][x] \notin {"raised", "again"}
        BY <4>1 DEF HeardIsVisible
      <4> QED
        BY <3>2, <4>2 DEF Hear
    <3> QED
      BY <3>1, <3>2
  <2> QED
    BY <2>1
<1>3. told = last
  BY <1>2
<1>4. heard' = [heard EXCEPT ![c] = told]
  BY DEF Announce
<1>5. heard' = [heard EXCEPT ![c] = last]
  BY <1>3, <1>4
<1>6. HeardIsVisible'
  <2>1. SUFFICES ASSUME NEW d \in Cabinets, NEW x \in Types
                 PROVE  /\ heard'[d][x] # "again"
                        /\ heard'[d][x] = "raised" => x \in Visible(d)'
                        /\ heard'[d][x] = "cleared" => x \notin Visible(d)'
    BY DEF HeardIsVisible
  <2>2. CASE d = c
    <3>1. heard'[d][x] = last[x] /\ Visible(d)' = after
      BY <1>1, <1>5, <2>2
    <3>2. CASE x \in up \cup down
      BY <3>1, <3>2
    <3>3. CASE x \notin up \cup down
      BY <2>2, <3>1, <3>3 DEF HeardIsVisible
    <3> QED
      BY <3>2, <3>3
  <2>3. CASE d # c
    BY <1>1, <1>5, <2>3 DEF HeardIsVisible
  <2> QED
    BY <2>2, <2>3
<1>7. Open' = [Open EXCEPT ![c] = (@ \cup up) \ down]
  BY DEF Open
<1>8. Open[c] = Visible(c)
  BY DEF Open
<1>9. sent \in BOOLEAN
  OBVIOUS
<1>10. Lifecycle!Report(c, up, down, sent)
  <2>1. heard' = [heard EXCEPT ![c] =
          [x \in Types |-> IF x \notin up \cup down THEN @[x]
                          ELSE IF ~sent THEN "missed"
                          ELSE IF x \in down THEN "cleared" ELSE "raised"]]
    BY <1>5
  <2> QED
    BY <1>7, <1>8, <2>1 DEF Lifecycle!Report, Open
<1> HIDE DEF sent
<1> QED
  BY <1>6, <1>9, <1>10 DEF Lifecycle!Next

(* An effect on the dictionary that is the cabinet's own is a report.       *)
LEMMA EffectReports ==
  ASSUME HeardInv, NEW p \in Sources, NEW c \in Cabinets,
         table' = [table EXCEPT ![c] = Own(c)],
         NEW after \in SUBSET Types, NEW next \in Task,
         Store(p, Own(c), Contents(c), after, next),
         Reports(c, Own(c), Contents(c), after),
         next \notin {Idle, Dead} => next.at = c /\ next.table = Own(c)
  PROVE  Lifecycle!Next /\ HeardIsVisible' /\ Current'
<1> USE DEF HeardInv, HonestInv
<1>1. /\ alarms' = [Contents(c) EXCEPT ![Own(c)] = after]
      /\ task' = [task EXCEPT ![p] = next]
  BY DEF Store
<1>2. \A d \in Cabinets : table'[d] = Own(c) => d = c
  BY <1>1, MessageKeepsApart
<1>3. /\ Own(c) \in Tables /\ Contents(c) \in [Tables -> SUBSET Types]
      /\ Contents(c)[Own(c)] = Visible(c)
      /\ \A t \in Tables : t \in Held => Contents(c)[t] = alarms[t]
      /\ table[c] # None => Own(c) = table[c]
  BY OwnType
<1>4. (\A d \in Cabinets : d # c => table'[d] = table[d]) /\ table'[c] = Own(c)
  BY DEF TypeOK
<1>5. \A d \in Cabinets :
        (d # c => Visible(d)' = Visible(d)) /\ (d = c => Visible(d)' = after)
  BY <1>1, <1>2, <1>3, <1>4, OneShows
<1>6. Lifecycle!Next /\ HeardIsVisible'
  <2>1. PICK up, down \in SUBSET Types :
          /\ up \cap Visible(c) = {} /\ down \subseteq Visible(c) \cup up
          /\ after = (Visible(c) \cup up) \ down
          /\ link = "up" => up \cap down = {}
          /\ Announce(c, up, down)
    BY <1>3 DEF Reports
  <2> QED
    BY <1>5, <2>1, ReportStep
<1>7. Current'
  <2>1. SUFFICES ASSUME NEW q \in Sources, Busy(q)'
                 PROVE  table'[task'[q].at] = task'[q].table
    BY DEF Current
  <2>2. CASE q = p
    BY <1>1, <1>4, <2>1, <2>2 DEF Busy, TypeOK
  <2>3. CASE q # p
    <3>1. task'[q] = task[q] /\ Busy(q)
      BY <1>1, <2>1, <2>3 DEF Busy, TypeOK
    <3>2. /\ task[q].at \in Cabinets /\ task[q].table \in Tables
          /\ table[task[q].at] = task[q].table
      BY <3>1, BusyTask DEF Current
    <3> QED
      BY <1>3, <1>4, <3>1, <3>2, NoneAssumption
  <2> QED
    BY <2>2, <2>3
<1> QED
  BY <1>6, <1>7

(* Every step of the undisturbed bus is a report, or leaves both what the   *)
(* API lists and what the events told as they are.                          *)
LEMMA HeardStep ==
  ASSUME Undisturbed, HeardInv, [Next]_vars
  PROVE  [Lifecycle!Next]_<<Open, heard>> /\ HeardInv'
<1> USE DEF HeardInv
<1>1. HonestInv' /\ TypeOK
  BY HonestStep DEF HonestInv
<1>2. ASSUME UNCHANGED heard, \A d \in Cabinets : Visible(d)' = Visible(d)
      PROVE  UNCHANGED <<Open, heard>> /\ HeardIsVisible'
  BY <1>2 DEF Open, HeardIsVisible
<1>3. ASSUME NEW p \in Sources, NEW c \in Cabinets, Telemetry(p, c)
      PROVE  Lifecycle!Next /\ HeardInv'
  <2>1. Effect(p, c, Own(c), Contents(c)) /\ table' = [table EXCEPT ![c] = Own(c)]
    BY <1>1, <1>3, TelemetryEffect
  <2>2. PICK after \in SUBSET Types, next \in Task :
          /\ Store(p, Own(c), Contents(c), after, next)
          /\ Reports(c, Own(c), Contents(c), after)
          /\ next \notin {Idle, Dead} => next.at = c /\ next.table = Own(c)
    BY <2>1 DEF Effect
  <2> QED
    BY <1>1, <2>1, <2>2, EffectReports
<1>4. ASSUME NEW p \in Sources, Resume(p)
      PROVE  [Lifecycle!Next]_<<Open, heard>> /\ HeardInv'
  <2>1. Busy(p) /\ table' = table /\ task[p].at \in Cabinets /\ task[p].table \in Tables
    BY <1>1, <1>4, ResumeEffect, BusyTask
  <2>2. CASE Effect(p, task[p].at, task[p].table, alarms)
    <3>1. PICK c \in Cabinets : c = task[p].at
      BY <2>1
    <3>2. table[c] = task[p].table /\ table[c] # None
      BY <2>1, <3>1, NoneAssumption DEF Current
    <3>3. Own(c) = task[p].table /\ Contents(c) = alarms
      BY <3>2 DEF Own, Contents
    <3>4. table' = [table EXCEPT ![c] = Own(c)]
      BY <1>1, <2>1, <3>2, <3>3 DEF TypeOK
    <3>5. PICK after \in SUBSET Types, next \in Task :
            /\ Store(p, Own(c), Contents(c), after, next)
            /\ Reports(c, Own(c), Contents(c), after)
            /\ next \notin {Idle, Dead} => next.at = c /\ next.table = Own(c)
      BY <2>2, <3>1, <3>3 DEF Effect
    <3> QED
      BY <1>1, <3>4, <3>5, EffectReports
  <2>3. CASE task' = [task EXCEPT ![p] = Idle] /\ UNCHANGED <<alarms, heard, settled, link>>
    <3>1. \A d \in Cabinets : Visible(d)' = Visible(d)
      BY <2>1, <2>3 DEF Visible
    <3>2. Current'
      BY <1>1, <2>1, <2>3 DEF Current, Busy, TypeOK
    <3> QED
      BY <1>1, <1>2, <2>3, <3>1, <3>2
  <2> QED
    BY <1>1, <1>4, <2>2, <2>3, ResumeEffect
<1>5. ASSUME NEW p \in Sources, PublishFails(p)
      PROVE  UNCHANGED <<Open, heard>> /\ HeardInv'
  <2>1. UNCHANGED <<table, alarms, heard>>
    BY <1>5 DEF PublishFails
  <2>2. \A q \in Sources : task'[q] = task[q] \/ task'[q] \in {Idle, Dead}
    BY <1>1, <1>5 DEF PublishFails, TypeOK
  <2>3. \A d \in Cabinets : Visible(d)' = Visible(d)
    BY <2>1 DEF Visible
  <2>4. Current'
    BY <2>1, <2>2 DEF Current, Busy
  <2> QED
    BY <1>1, <1>2, <2>1, <2>3, <2>4
<1>6. ASSUME NEW c \in Cabinets, NEW up \in BOOLEAN, Status(c, up)
      PROVE  [Lifecycle!Next]_<<Open, heard>> /\ HeardInv'
  <2>1. "mqtt" \in Sources /\ table' = [table EXCEPT ![c] = Own(c)]
    BY <1>1, <1>6, StatusEffect
  <2>2. PICK after \in SUBSET Types :
          \/ /\ after = Contents(c)[Own(c)]
             /\ alarms' = Contents(c) /\ UNCHANGED <<heard, task>>
          \/ \E next \in Task :
               /\ Store("mqtt", Own(c), Contents(c), after, next)
               /\ Reports(c, Own(c), Contents(c), after)
               /\ next.at = c /\ next.table = Own(c)
    BY <1>1, <1>6, StatusEffect
  <2>3. ASSUME NEW next \in Task, Store("mqtt", Own(c), Contents(c), after, next),
               Reports(c, Own(c), Contents(c), after), next.at = c, next.table = Own(c)
        PROVE  Lifecycle!Next /\ HeardInv'
    BY <1>1, <2>1, <2>3, EffectReports
  <2>4. CASE after = Contents(c)[Own(c)] /\ alarms' = Contents(c) /\ UNCHANGED <<heard, task>>
    <3>1. /\ Own(c) \in Tables /\ Contents(c)[Own(c)] = Visible(c)
          /\ \A t \in Tables : t \in Held => Contents(c)[t] = alarms[t]
          /\ table[c] # None => Own(c) = table[c]
      BY <1>1, OwnType
    <3>2. \A d \in Cabinets : /\ table[d] \in Held /\ table[d] \in Tables \cup {None}
                              /\ table'[d] = IF d = c THEN Own(c) ELSE table[d]
      BY <1>1, <2>1 DEF Held, TypeOK
    <3>3. \A d \in Cabinets : Visible(d)' = Visible(d)
      <4>1. ASSUME NEW d \in Cabinets PROVE Visible(d)' = Visible(d)
        <5>1. CASE d = c
          BY <2>4, <3>1, <3>2, <5>1, NoneAssumption DEF Visible
        <5>2. CASE d # c
          BY <2>4, <3>1, <3>2, <5>2 DEF Visible
        <5> QED
          BY <5>1, <5>2
      <4> QED
        BY <4>1
    <3>4. Current'
      <4>1. SUFFICES ASSUME NEW q \in Sources, Busy(q)
                     PROVE  table'[task[q].at] = task[q].table
        BY <2>4 DEF Current, Busy
      <4>2. /\ task[q].at \in Cabinets /\ task[q].table \in Tables
            /\ table[task[q].at] = task[q].table
        BY <1>1, <4>1, BusyTask DEF Current
      <4> QED
        BY <3>1, <3>2, <4>2, NoneAssumption
    <3> QED
      BY <1>1, <1>2, <2>4, <3>3, <3>4
  <2> QED
    BY <2>2, <2>3, <2>4
<1>7. ASSUME UNCHANGED <<table, alarms, task, heard>>
      PROVE  UNCHANGED <<Open, heard>> /\ HeardInv'
  <2>1. \A d \in Cabinets : Visible(d)' = Visible(d)
    BY <1>7 DEF Visible
  <2>2. Current'
    BY <1>7 DEF Current, Busy
  <2> QED
    BY <1>1, <1>2, <1>7, <2>1, <2>2
<1>8. CASE LinkBreaks
  <2>1. UNCHANGED <<table, alarms, heard>>
    BY <1>8 DEF LinkBreaks
  <2>2. \A d \in Cabinets : Visible(d)' = Visible(d)
    BY <2>1 DEF Visible
  <2>3. Current'
    BY <1>1, <1>8, <2>1, BreakKeepsTasks DEF Current
  <2> QED
    BY <1>1, <1>2, <2>1, <2>2, <2>3
<1>9. ~Operators /\ ~Restart
  BY DEF Undisturbed, Operators, Acknowledge, Forget, Restart
<1> QED
  BY <1>3, <1>4, <1>5, <1>6, <1>7, <1>8, <1>9
     DEF Next, Feed, Environment, Change, Connect, LinkLost, vars

(* Every event that is sent goes with a change of the list, none is sent    *)
(* twice in a row, and a listener agrees with the list unless the last      *)
(* event was not sent, with both tasks at work and the broker failing at    *)
(* any moment: the bus implements AlarmLifecycle as long as no one          *)
(* acknowledges, deletes or restarts (which do break it).                   *)
THEOREM BusImplementsLifecycle ==
  ASSUME Undisturbed
  PROVE  Spec => LifecycleSpec
<1>1. Init => HeardInv /\ Lifecycle!Init
  BY DEF Init, HeardInv, HonestInv, TypeOK, Task, News, OnlineHonest, Visible, Distinct,
         HeldByOne, Busy, HeardIsVisible, Current, Lifecycle!Init
<1>2. HeardInv /\ [Next]_vars => [Lifecycle!Next]_<<Open, heard>> /\ HeardInv'
  BY Undisturbed, HeardStep
<1>3. HeardInv /\ [Next]_vars
        => [Lifecycle!Next]_<<[c \in Cabinets |-> Visible(c)], heard>> /\ HeardInv'
  BY <1>2 DEF Open
<1> QED
  BY <1>1, <1>3, PTL DEF Spec, LifecycleSpec, Lifecycle!Spec

-----------------------------------------------------------------------------
(* One task alone.  What it is suspended in tells how far it has got: the   *)
(* first loop has listed what it has passed of the sample; in the second,   *)
(* the dictionary is the sample and what is still to be cleared.  Of its    *)
(* own cabinet nothing is settled meanwhile.                                *)

Alone == \A p, q \in Sources : p = q

InProgress(q, listed) ==
  /\ q.pc = "raise" => q.todo \subseteq q.sample /\ q.sample \ q.todo \subseteq listed
  /\ q.pc = "clear" => /\ q.sample \cap q.todo = {}
                       /\ listed \ {CommLoss} = q.sample \cup q.todo

Working ==
  \A p \in Sources : Busy(p) /\ task[p].pc # "status" =>
    /\ InProgress(task[p], alarms[task[p].table])
    /\ table[task[p].at] = task[p].table => settled[task[p].at] = {}

AloneInv == HonestInv /\ Working /\ SettledAccurate /\ IngestSurvives

(* A stretch of reconciliation that is in line with its sample: done, with  *)
(* the dictionary settled, or suspended on the way.                         *)
Stretch(p, c, t, base) ==
  \E after \in SUBSET Types, next \in Task :
    /\ Store(p, t, base, after, next)
    /\ \/ /\ next = Idle
          /\ Settle(c, t, {after \ {CommLoss}})
       \/ /\ next # Dead /\ next.at = c /\ next.table = t
          /\ InProgress(next, after)
          /\ Settle(c, t, {})

(* The second loop pops what is listed only, so KeyError is out of the      *)
(* question.                                                                *)
LEMMA ClearOnStretch ==
  ASSUME TypeOK, NEW p \in Sources, NEW c \in Cabinets, NEW t \in Tables, NEW base,
         NEW content \in SUBSET Types,
         NEW sample \in SUBSET Conditions, NEW todo \in SUBSET Conditions,
         sample \cap todo = {}, content \ {CommLoss} = sample \cup todo,
         NEW up, ClearOn(p, c, t, base, content, up, sample, todo)
  PROVE  Stretch(p, c, t, base)
<1>1. CommLoss \notin todo /\ CommLoss \notin sample /\ todo \subseteq content
  BY ConditionsAssumption
<1>2. CASE /\ Store(p, t, base, content \ todo, Idle)
           /\ Settle(c, t, {sample})
  <2>1. content \ todo \in SUBSET Types /\ (content \ todo) \ {CommLoss} = sample
    BY <1>1
  <2>2. Idle \in Task
    BY DEF Task
  <2> QED
    BY <1>2, <2>1, <2>2 DEF Stretch
<1>3. ASSUME NEW x \in todo \cap content,
             Store(p, t, base, content \ {x},
                      [pc |-> "clear", at |-> c, table |-> t, sample |-> sample,
                       todo |-> todo \ {x}, wait |-> AwaitAck]),
             Settle(c, t, {})
      PROVE  Stretch(p, c, t, base)
  <2> DEFINE next == [pc |-> "clear", at |-> c, table |-> t, sample |-> sample,
                      todo |-> todo \ {x}, wait |-> AwaitAck]
  <2>1. next \in Task /\ next.at = c /\ next.table = t /\ next # Dead
    BY AckWaits DEF Task, Dead
  <2>2. content \ {x} \in SUBSET Types
    OBVIOUS
  <2>3. InProgress(next, content \ {x})
    <3>1. sample \cap (todo \ {x}) = {}
      OBVIOUS
    <3>2. (content \ {x}) \ {CommLoss} = sample \cup (todo \ {x})
      BY <1>1
    <3> QED
      BY <3>1, <3>2 DEF InProgress
  <2>4. Store(p, t, base, content \ {x}, next)
    BY <1>3
  <2> HIDE DEF next
  <2> QED
    BY <1>3, <2>1, <2>2, <2>3, <2>4 DEF Stretch
<1> QED
  BY <1>1, <1>2, <1>3 DEF ClearOn

(* Both loops: when the first is through, the sample is listed.             *)
LEMMA RaiseOnStretch ==
  ASSUME TypeOK, NEW p \in Sources, NEW c \in Cabinets, NEW t \in Tables,
         NEW base \in [Tables -> SUBSET Types],
         NEW sample \in SUBSET Conditions, NEW todo \in SUBSET Conditions,
         todo \subseteq sample, sample \ todo \subseteq base[t],
         RaiseOn(p, c, t, base, sample, todo)
  PROVE  Stretch(p, c, t, base)
<1> DEFINE missing == Missing(base[t], todo)
           full == base[t] \cup missing
<1>1. missing \in SUBSET Conditions /\ base[t] \in SUBSET Types /\ full \in SUBSET Types
  BY DEF Missing, Types
<1>2. CASE ClearOn(p, c, t, base, full, missing, sample, Stale(full, sample))
  <2>1. Stale(full, sample) \in SUBSET Conditions
    BY <1>1 DEF Stale, Types
  <2>2. sample \subseteq full
    BY DEF Missing
  <2>3. /\ sample \cap Stale(full, sample) = {}
        /\ full \ {CommLoss} = sample \cup Stale(full, sample)
    BY <2>2, ConditionsAssumption DEF Stale
  <2> HIDE DEF full, missing
  <2> QED
    BY <1>1, <1>2, <2>1, <2>3, ClearOnStretch
<1>3. ASSUME NEW x \in missing, NEW passed \in SUBSET (todo \cap base[t]),
             Store(p, t, base, base[t] \cup {x},
                      [pc |-> "raise", at |-> c, table |-> t, sample |-> sample,
                       todo |-> todo \ (passed \cup {x}), wait |-> AwaitAck]),
             Settle(c, t, {})
      PROVE  Stretch(p, c, t, base)
  <2> DEFINE next == [pc |-> "raise", at |-> c, table |-> t, sample |-> sample,
                      todo |-> todo \ (passed \cup {x}), wait |-> AwaitAck]
  <2>1. next \in Task /\ next.at = c /\ next.table = t /\ next # Dead
    BY AckWaits DEF Task, Dead
  <2>2. base[t] \cup {x} \in SUBSET Types
    BY <1>1 DEF Types
  <2>3. InProgress(next, base[t] \cup {x})
    <3>1. todo \ (passed \cup {x}) \subseteq sample
      OBVIOUS
    <3>2. sample \ (todo \ (passed \cup {x})) \subseteq base[t] \cup {x}
      OBVIOUS
    <3> QED
      BY <3>1, <3>2 DEF InProgress
  <2>4. Store(p, t, base, base[t] \cup {x}, next)
    BY <1>3
  <2> HIDE DEF next
  <2> QED
    BY <1>3, <2>1, <2>2, <2>3, <2>4 DEF Stretch
<1> QED
  BY <1>2, <1>3 DEF RaiseOn

(* Whatever the dictionary a stretch has worked on still is, its own        *)
(* cabinet's or nobody's, what has been settled is what is shown.           *)
LEMMA StretchKeeps ==
  ASSUME Alone, AloneInv, HonestInv', NEW p \in Sources, NEW c \in Cabinets, NEW t \in Tables,
         NEW base \in [Tables -> SUBSET Types], Stretch(p, c, t, base),
         \A u \in Tables : u \in Held => base[u] = alarms[u],
         \A d \in Cabinets : table'[d] = t => d = c,
         \A d \in Cabinets : table'[d] = table[d] \/ table'[d] = t
  PROVE  AloneInv'
<1> USE DEF AloneInv
<1>1. TypeOK /\ TypeOK'
  BY DEF HonestInv
<1>2. PICK after \in SUBSET Types, next \in Task :
        /\ Store(p, t, base, after, next)
        /\ \/ next = Idle /\ Settle(c, t, {after \ {CommLoss}})
           \/ /\ next # Dead /\ next.at = c /\ next.table = t
              /\ InProgress(next, after)
              /\ Settle(c, t, {})
  BY DEF Stretch
<1>3. /\ alarms' = [base EXCEPT ![t] = after] /\ task' = [task EXCEPT ![p] = next]
  BY <1>2 DEF Store
<1>4. next # Dead
  BY <1>2 DEF Idle, Dead
<1>5. PICK samples : /\ samples = {} \/ samples = {after \ {CommLoss}}
                     /\ next # Idle => samples = {}
                     /\ Settle(c, t, samples)
  BY <1>2
<1>6. \A d \in Cabinets :
        /\ table'[d] = t => Visible(d)' = after
        /\ table'[d] # t => Visible(d)' = Visible(d)
  <2>1. SUFFICES ASSUME NEW d \in Cabinets
                 PROVE  /\ table'[d] = t => Visible(d)' = after
                        /\ table'[d] # t => Visible(d)' = Visible(d)
    OBVIOUS
  <2>2. table[d] \in Tables \cup {None} /\ table[d] \in Held
    BY <1>1 DEF TypeOK, Held
  <2>3. \A u \in Tables : alarms'[u] = IF u = t THEN after ELSE base[u]
    BY <1>3
  <2> QED
    BY <2>2, <2>3, NoneAssumption DEF Visible
<1>7. \A d \in Cabinets : settled'[d] = IF table'[d] = t THEN samples ELSE settled[d]
  BY <1>1, <1>5 DEF Settle, TypeOK
<1>8. SettledAccurate'
  <2>1. SUFFICES ASSUME NEW d \in Cabinets, NEW sample \in settled'[d]
                 PROVE  Visible(d)' \ {CommLoss} = sample
    BY DEF SettledAccurate
  <2>2. CASE table'[d] = t
    BY <1>5, <1>6, <1>7, <2>1, <2>2
  <2>3. CASE table'[d] # t
    BY <1>6, <1>7, <2>1, <2>3 DEF SettledAccurate
  <2> QED
    BY <2>2, <2>3
<1>9. Working'
  <2>1. SUFFICES ASSUME NEW q \in Sources, Busy(q)', task'[q].pc # "status"
                 PROVE  /\ InProgress(task'[q], alarms'[task'[q].table])
                        /\ table'[task'[q].at] = task'[q].table => settled'[task'[q].at] = {}
    BY DEF Working, InProgress
  <2>2. q = p /\ task'[q] = next
    BY <1>1, <1>3 DEF Alone, TypeOK
  <2>3. next # Idle
    BY <2>1, <2>2 DEF Busy
  <2>4. next.at = c /\ next.table = t /\ InProgress(next, after) /\ alarms'[t] = after
    BY <1>2, <1>3, <2>3
  <2> QED
    BY <1>5, <1>7, <2>2, <2>3, <2>4
<1>10. IngestSurvives'
  BY <1>1, <1>3, <1>4 DEF IngestSurvives, TypeOK
<1> QED
  BY <1>8, <1>9, <1>10

(* A step that leaves the tasks and what they hold alone keeps their        *)
(* progress, if it settles nothing.                                         *)
LEMMA WorkingKept ==
  ASSUME TypeOK, Working, task' = task,
         \A t \in Tables : t \in Held => alarms'[t] = alarms[t],
         \A c \in Cabinets : settled'[c] \in {settled[c], {}},
         \A p \in Sources : Busy(p) /\ table'[task[p].at] = task[p].table
                              => table[task[p].at] = task[p].table
  PROVE  Working'
<1>1. SUFFICES ASSUME NEW p \in Sources, Busy(p), task[p].pc # "status"
               PROVE  /\ InProgress(task[p], alarms'[task[p].table])
                      /\ table'[task[p].at] = task[p].table => settled'[task[p].at] = {}
  BY DEF Working, Busy, InProgress
<1>2. task[p].at \in Cabinets /\ task[p].table \in Tables /\ task[p].table \in Held
  BY <1>1, BusyTask DEF Held
<1> QED
  BY <1>1, <1>2 DEF Working

LEMMA AloneStep ==
  ASSUME Alone, AloneInv, [Next]_vars
  PROVE  AloneInv'
<1> USE DEF AloneInv
<1>1. TypeOK /\ HonestInv' /\ Distinct /\ HeldByOne
  BY HonestStep DEF HonestInv
<1>2. ASSUME NEW p \in Sources, NEW c \in Cabinets, Telemetry(p, c)
      PROVE  AloneInv'
  <2>1. /\ Effect(p, c, Own(c), Contents(c)) /\ table' = [table EXCEPT ![c] = Own(c)]
    BY <1>1, <1>2, TelemetryEffect
  <2>2. \A d \in Cabinets : table'[d] = Own(c) => d = c
    <3>1. PICK next \in Task : /\ task' = [task EXCEPT ![p] = next]
                               /\ next \notin {Idle, Dead} => next.at = c /\ next.table = Own(c)
      BY <2>1 DEF Effect, Store
    <3> QED
      BY <1>1, <2>1, <3>1, MessageKeepsApart
  <2>3. /\ Own(c) \in Tables /\ Contents(c) \in [Tables -> SUBSET Types]
        /\ \A t \in Tables : t \in Held => Contents(c)[t] = alarms[t]
    BY <1>1, OwnType
  <2>4. \A d \in Cabinets : table'[d] = table[d] \/ table'[d] = Own(c)
    BY <1>1, <2>1 DEF TypeOK
  <2>5. reading[c] \in SUBSET Conditions
    BY <1>1 DEF TypeOK
  <2>6. RaiseOn(p, c, Own(c), Contents(c), reading[c], reading[c])
    BY <1>2 DEF Telemetry
  <2>7. Stretch(p, c, Own(c), Contents(c))
    BY <1>1, <2>3, <2>5, <2>6, RaiseOnStretch
  <2> QED
    BY <1>1, <2>2, <2>3, <2>4, <2>7, StretchKeeps
<1>3. ASSUME NEW p \in Sources, Resume(p)
      PROVE  AloneInv'
  <2>1. Busy(p) /\ UNCHANGED table
    BY <1>3 DEF Resume
  <2>2. /\ task[p].at \in Cabinets /\ task[p].table \in Tables
        /\ task[p].pc # "status" => task[p].sample \in SUBSET Conditions
                                    /\ task[p].todo \in SUBSET Conditions
    BY <1>1, <2>1, BusyTask
  <2>3. alarms \in [Tables -> SUBSET Types] /\ alarms[task[p].table] \in SUBSET Types
    BY <1>1, <2>2 DEF TypeOK
  <2>4. task[p].pc # "status" => InProgress(task[p], alarms[task[p].table])
    BY <2>1 DEF Working
  <2>5. CASE /\ task[p].pc = "raise"
             /\ RaiseOn(p, task[p].at, task[p].table, alarms, task[p].sample, task[p].todo)
    <3>1. Stretch(p, task[p].at, task[p].table, alarms)
      <4>1. /\ task[p].todo \subseteq task[p].sample
            /\ task[p].sample \ task[p].todo \subseteq alarms[task[p].table]
        BY <2>4, <2>5 DEF InProgress
      <4> QED
        BY <1>1, <2>2, <2>3, <2>5, <4>1, RaiseOnStretch
    <3> QED
      BY <1>1, <2>1, <2>2, <2>3, <3>1, StretchKeeps DEF HeldByOne
  <2>6. CASE /\ task[p].pc = "clear"
             /\ ClearOn(p, task[p].at, task[p].table, alarms, alarms[task[p].table],
                        {}, task[p].sample, task[p].todo)
    <3>1. Stretch(p, task[p].at, task[p].table, alarms)
      <4>1. /\ task[p].sample \cap task[p].todo = {}
            /\ alarms[task[p].table] \ {CommLoss} = task[p].sample \cup task[p].todo
        BY <2>4, <2>6 DEF InProgress
      <4> QED
        BY <1>1, <2>2, <2>3, <2>6, <4>1, ClearOnStretch
    <3> QED
      BY <1>1, <2>1, <2>2, <2>3, <3>1, StretchKeeps DEF HeldByOne
  <2>7. CASE task' = [task EXCEPT ![p] = Idle] /\ UNCHANGED <<alarms, heard, settled, link>>
    <3>1. \A q \in Sources : task'[q] = Idle
      BY <1>1, <2>7 DEF Alone, TypeOK
    <3>2. Working' /\ IngestSurvives'
      BY <3>1 DEF Working, Busy, IngestSurvives, Idle, Dead
    <3> QED
      BY <1>1, <2>1, <2>7, <3>2 DEF SettledAccurate, Visible
  <2> QED
    BY <1>3, <2>5, <2>6, <2>7 DEF Resume
<1>4. ASSUME NEW p \in Sources, PublishFails(p)
      PROVE  AloneInv'
  <2>1. /\ \A q \in Sources : task'[q] \in {Idle, Dead}
        /\ "mqtt" \in Sources => task'["mqtt"] # Dead
        /\ UNCHANGED <<table, alarms, settled>>
    BY <1>1, <1>4 DEF PublishFails, Alone, TypeOK, Idle, Dead
  <2> QED
    BY <1>1, <2>1 DEF Working, Busy, IngestSurvives, SettledAccurate, Visible
<1>5. ASSUME NEW c \in Cabinets, NEW up \in BOOLEAN, Status(c, up)
      PROVE  AloneInv'
  <2>1. /\ "mqtt" \in Sources /\ task["mqtt"] = Idle
        /\ table' = [table EXCEPT ![c] = Own(c)] /\ settled' = settled
    BY <1>5 DEF Status
  <2>2. \A q \in Sources : task[q] = Idle
    BY <2>1 DEF Alone
  <2> DEFINE base == Contents(c)
             t == Own(c)
  <2>3. PICK after \in SUBSET Types :
          /\ after \ {CommLoss} = base[t] \ {CommLoss}
          /\ \/ after = base[t] /\ alarms' = base /\ UNCHANGED task
             \/ \E wait \in Waits :
                  Store("mqtt", t, base, after,
                           [pc |-> "status", at |-> c, table |-> t, wait |-> wait])
    <3> DEFINE after == IF up THEN base[t] \ {CommLoss} ELSE base[t] \cup {CommLoss}
    <3>1. base[t] \in SUBSET Types
      BY <1>1, OwnType
    <3>2. after \in SUBSET Types /\ after \ {CommLoss} = base[t] \ {CommLoss}
      BY <3>1 DEF Types
    <3>3. \/ after = base[t] /\ alarms' = base /\ UNCHANGED task
          \/ Store("mqtt", t, base, after,
                      [pc |-> "status", at |-> c, table |-> t, wait |-> AwaitAck])
      BY <1>5 DEF Status
    <3> HIDE DEF base, t, after
    <3> QED
      BY <3>2, <3>3, AckWaits
  <2>4. /\ t \in Tables /\ base \in [Tables -> SUBSET Types] /\ base[t] = Visible(c)
        /\ \A u \in Tables : u \in Held => base[u] = alarms[u]
    BY <1>1, OwnType
  <2>5. alarms' = [base EXCEPT ![t] = after]
    BY <2>3, <2>4 DEF Store
  <2>6. \A q \in Sources : task'[q] = Idle \/ task'[q].pc = "status"
    BY <1>1, <2>2, <2>3 DEF Store, TypeOK
  <2>7. (\A d \in Cabinets : d # c => table'[d] = table[d]) /\ table'[c] = t
    BY <1>1, <2>1 DEF TypeOK
  <2>8. \A d \in Cabinets : table'[d] = t => d = c
    <3>1. table[c] = None => t \notin Held
      BY <1>1, FreshIsFree, OwnType
    <3>2. table[c] # None => t = table[c]
      BY <1>1, OwnType
    <3>3. \A d \in Cabinets : table[d] \in Held
      BY DEF Held
    <3> QED
      BY <1>1, <2>7, <3>1, <3>2, <3>3 DEF Distinct
  <2>9. \A d \in Cabinets : (d # c => Visible(d)' = Visible(d)) /\ (d = c => Visible(d)' = after)
    BY <1>1, <2>4, <2>5, <2>7, <2>8, OneShows
  <2>10. \A d \in Cabinets : Visible(d)' \ {CommLoss} = Visible(d) \ {CommLoss}
    BY <2>3, <2>4, <2>9
  <2>11. Working' /\ IngestSurvives'
    BY <2>6 DEF Working, Busy, IngestSurvives, Idle, Dead
  <2> QED
    BY <1>1, <2>1, <2>10, <2>11 DEF SettledAccurate
<1>6. ASSUME NEW c \in Cabinets, Acknowledge(c)
      PROVE  AloneInv'
  <2>1. /\ Fresh \in Tables /\ Fresh \notin Held /\ task' = task
        /\ table' = [table EXCEPT ![c] = Fresh] /\ alarms' = [alarms EXCEPT ![Fresh] = {}]
        /\ settled' = [settled EXCEPT ![c] = {}]
    BY <1>1, <1>6, FreshIsFree DEF Acknowledge
  <2>2. /\ \A d \in Cabinets : settled'[d] = IF d = c THEN {} ELSE settled[d]
        /\ \A d \in Cabinets : table'[d] = IF d = c THEN Fresh ELSE table[d]
        /\ \A u \in Tables : alarms'[u] = IF u = Fresh THEN {} ELSE alarms[u]
    BY <1>1, <2>1 DEF TypeOK
  <2>3. \A d \in Cabinets : table[d] \in Held /\ table[d] \in Tables \cup {None}
    BY <1>1 DEF Held, TypeOK
  <2>4. \A d \in Cabinets : d # c => Visible(d)' = Visible(d)
    BY <2>1, <2>2, <2>3 DEF Visible
  <2>5. SettledAccurate'
    BY <2>2, <2>4 DEF SettledAccurate
  <2>6. \A q \in Sources : Busy(q) => task[q].table \in Held /\ task[q].at \in Cabinets
    BY <1>1, BusyTask DEF Held
  <2>7. Working'
    BY <1>1, <2>1, <2>2, <2>6, WorkingKept
  <2> QED
    BY <1>1, <2>1, <2>5, <2>7 DEF IngestSurvives
<1>7. ASSUME NEW cs \in (SUBSET Cabinets) \ {{}}, Forget(cs)
      PROVE  AloneInv'
  <2>1. /\ \A d \in Cabinets : table'[d] = IF d \in cs THEN None ELSE table[d]
        /\ \A d \in Cabinets : settled'[d] = IF d \in cs THEN {} ELSE settled[d]
        /\ alarms' = alarms /\ task' = task
    BY <1>7 DEF Forget
  <2>2. \A d \in Cabinets : d \notin cs => Visible(d)' = Visible(d)
    BY <2>1 DEF Visible
  <2>3. SettledAccurate'
    BY <2>1, <2>2 DEF SettledAccurate
  <2>4. \A q \in Sources : Busy(q) => task[q].table # None /\ task[q].at \in Cabinets
    BY <1>1, BusyTask, NoneAssumption
  <2>5. Working'
    BY <1>1, <2>1, <2>4, WorkingKept
  <2> QED
    BY <1>1, <2>1, <2>3, <2>5 DEF IngestSurvives
<1>8. ASSUME UNCHANGED <<table, alarms, task, settled>>
      PROVE  AloneInv'
  BY <1>1, <1>8, WorkingKept DEF SettledAccurate, Visible, IngestSurvives
<1>9. CASE LinkBreaks
  <2>1. UNCHANGED <<table, alarms, settled>>
    BY <1>9 DEF LinkBreaks
  <2>2. SettledAccurate'
    BY <2>1 DEF SettledAccurate, Visible
  <2>3. \A q \in Sources : \/ task'[q] = task[q]
                           \/ Busy(q) /\ task'[q] = [task[q] EXCEPT !.wait = "lost"]
    <3>1. PICK gone \in SUBSET {q \in Sources : Busy(q)} :
            task' = [q \in Sources |-> IF q \in gone THEN [task[q] EXCEPT !.wait = "lost"]
                                       ELSE task[q]]
      BY <1>9 DEF LinkBreaks
    <3> QED
      BY <3>1
  <2>4. \A q \in Sources :
          /\ Busy(q)' <=> Busy(q)
          /\ Busy(q) => /\ task'[q].pc = task[q].pc /\ task'[q].at = task[q].at
                        /\ task'[q].table = task[q].table
                        /\ task[q].pc # "status" => /\ task'[q].sample = task[q].sample
                                                    /\ task'[q].todo = task[q].todo
    <3> DEFINE Same(q) == /\ task'[q].pc = task[q].pc /\ task'[q].at = task[q].at
                          /\ task'[q].table = task[q].table
                          /\ task[q].pc # "status" => /\ task'[q].sample = task[q].sample
                                                      /\ task'[q].todo = task[q].todo
    <3> SUFFICES ASSUME NEW q \in Sources
                 PROVE  (Busy(q)' <=> Busy(q)) /\ (Busy(q) => Same(q))
      OBVIOUS
    <3>0. Busy(q)' <=> Busy(q)
      BY <1>1, <1>9, BreakKeepsTasks
    <3>1. SUFFICES ASSUME Busy(q) PROVE Same(q)
      BY <3>0
    <3>2. task[q] \in Task /\ task[q] # Idle /\ task[q] # Dead
      BY <1>1, <3>1 DEF TypeOK, Busy
    <3>3. CASE task[q] \in [pc: {"status"}, at: Cabinets, table: Tables, wait: Waits]
      BY <2>3, <3>1, <3>3
    <3>4. CASE task[q] \in [pc: {"raise", "clear"}, at: Cabinets, table: Tables,
                            sample: SUBSET Conditions, todo: SUBSET Conditions, wait: Waits]
      BY <2>3, <3>1, <3>4
    <3> QED
      BY <3>2, <3>3, <3>4 DEF Task
  <2>5. Working'
    <3>1. SUFFICES ASSUME NEW q \in Sources, Busy(q)', task'[q].pc # "status"
                   PROVE  /\ InProgress(task'[q], alarms'[task'[q].table])
                          /\ table'[task'[q].at] = task'[q].table => settled'[task'[q].at] = {}
      BY DEF Working, InProgress
    <3> QED
      BY <2>1, <2>4, <3>1 DEF Working, InProgress
  <2>6. IngestSurvives'
    <3>1. \A q \in Sources : task[q] # Dead => task'[q] # Dead
      BY <2>3, <2>4 DEF Busy
    <3> QED
      BY <3>1 DEF IngestSurvives
  <2> QED
    BY <1>1, <2>2, <2>5, <2>6
<1>10. CASE Restart
  BY <1>1, <1>10 DEF Restart, Working, Busy, SettledAccurate, IngestSurvives, Idle, Dead
<1> QED
  BY <1>2, <1>3, <1>4, <1>5, <1>6, <1>7, <1>8, <1>9, <1>10
     DEF Next, Feed, Operators, Environment, Change, Connect, LinkLost, vars

LEMMA AloneInitially == Init => AloneInv
BY DEF Init, AloneInv, HonestInv, TypeOK, Task, News, OnlineHonest, Visible, Distinct, HeldByOne,
       Busy, Working, SettledAccurate, IngestSurvives, Idle, Dead

(* With a single task, a sample that has been worked through without        *)
(* interruption leaves exactly its conditions listed, for any number of     *)
(* cabinets and whatever is acknowledged, deleted or broken meanwhile (two  *)
(* tasks may undo what the other has settled).                              *)
THEOREM OneSourceSettles ==
  ASSUME Alone
  PROVE  Spec => []SettledAccurate
<1>1. AloneInv /\ [Next]_vars => AloneInv'
  BY Alone, AloneStep
<1>2. AloneInv => SettledAccurate
  BY DEF AloneInv
<1> QED
  BY <1>1, <1>2, AloneInitially, PTL DEF Spec

(* A single task never pops an alarm twice: without the demo loop no        *)
(* KeyError ends the ingestion (with it, one may).                          *)
THEOREM OneSourceSurvives ==
  ASSUME Alone
  PROVE  Spec => []IngestSurvives
<1>1. AloneInv /\ [Next]_vars => AloneInv'
  BY Alone, AloneStep
<1>2. AloneInv => IngestSurvives
  BY DEF AloneInv
<1> QED
  BY <1>1, <1>2, AloneInitially, PTL DEF Spec

=============================================================================
