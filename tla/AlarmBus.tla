------------------------------ MODULE AlarmBus ------------------------------
(***************************************************************************)
(* The active alarms of the MQTT bus (core/mqtt_client.py) and the API     *)
(* calls that touch them (api/v1/alarms.py, api/v1/cabinets.py).           *)
(*                                                                         *)
(* Two tasks feed the bus: "mqtt" (_run) with telemetry and status         *)
(* messages, and "demo" (_demo_loop) with synthetic telemetry.  Each works *)
(* through one message at a time, but suspends at every alarm it           *)
(* publishes, holding a reference to the cabinet's dictionary of alarms.   *)
(* The dictionaries are therefore objects of their own here: a task may    *)
(* hold one that the bus has replaced or dropped meanwhile.                *)
(***************************************************************************)
EXTENDS Naturals, FiniteSets

CONSTANTS
  Cabinets,     (* cabinet codes                                            *)
  Sources,      (* the tasks that run, of "mqtt" and "demo"                 *)
  Conditions,   (* alarm types the rule engine derives from a sample        *)
  Tables,       (* identities of dictionary objects                         *)
  Events,       (* which outside events can happen                          *)
  None          (* Python's None / a missing dictionary entry               *)

CommLoss == "COMMUNICATION_LOSS"
Types == Conditions \cup {CommLoss}

ASSUME ConditionsAssumption == CommLoss \notin Conditions
ASSUME SourcesAssumption == Sources \subseteq {"mqtt", "demo"}
ASSUME NoneAssumption == None \notin Tables
(* Every cabinet and every task can refer to an object, and one is free.    *)
ASSUME TablesAssumption ==
  /\ IsFiniteSet(Cabinets) /\ IsFiniteSet(Tables)
  /\ Cardinality(Tables) > Cardinality(Cabinets) + 2

VARIABLES
  table,     (* bus.active_alarms: code -> dictionary object or None        *)
  alarms,    (* the contents: object -> alarm types                         *)
  task,      (* task -> what it is suspended in                             *)
  link,      (* broker connection: "none", "up", "broken"                   *)
  reading,   (* the conditions that hold at each cabinet                    *)
  heard,     (* history: the last event a listener got about each alarm     *)
  settled,   (* history: the sample, if any, that the alarms have been      *)
             (*   brought in line with, and that nobody has undone          *)
  offline,   (* history: the last status of a cabinet said offline          *)
  wiped      (* history: acknowledged, deleted or restarted since then      *)

vars == <<table, alarms, task, link, reading, heard, settled, offline, wiped>>

-----------------------------------------------------------------------------
Idle == [pc |-> "idle"]
Dead == [pc |-> "dead"]
Waits == {"ack", "lost"}

(* What a listener knows of an alarm: the last event it got, "missed" when  *)
(* that one was not sent, "again" once an event has been repeated to it.    *)
News == {"raised", "cleared", "missed", "again"}

Task == {Idle, Dead}
        \cup [pc: {"status"}, at: Cabinets, table: Tables, wait: Waits]
        \cup [pc: {"raise", "clear"}, at: Cabinets, table: Tables,
              sample: SUBSET Conditions, todo: SUBSET Conditions, wait: Waits]

TypeOK ==
  /\ table \in [Cabinets -> Tables \cup {None}]
  /\ alarms \in [Tables -> SUBSET Types]
  /\ task \in [Sources -> Task]
  /\ link \in {"none", "up", "broken"}
  /\ reading \in [Cabinets -> SUBSET Conditions]
  /\ heard \in [Cabinets -> [Types -> News]]
  /\ settled \in [Cabinets -> SUBSET SUBSET Conditions]
  /\ offline \in [Cabinets -> BOOLEAN]
  /\ wiped \subseteq Cabinets

(* What GET /cabinets/{id}/alarms lists.                                    *)
Visible(c) == IF table[c] = None THEN {} ELSE alarms[table[c]]

Busy(p) == task[p] \notin {Idle, Dead}
Held == {table[c] : c \in Cabinets} \cup {task[p].table : p \in {q \in Sources : Busy(q)}}
Fresh == CHOOSE t \in Tables : t \notin Held

(* active_alarms.setdefault(c, {})                                          *)
Own(c) == IF table[c] = None THEN Fresh ELSE table[c]
Contents(c) == IF table[c] = None THEN [alarms EXCEPT ![Fresh] = {}] ELSE alarms

AwaitAck == IF link = "up" THEN "ack" ELSE "lost"

(* Task p changes object t from base[t] to after and goes to state next.    *)
Store(p, t, base, after, next) ==
  /\ alarms' = [base EXCEPT ![t] = after]
  /\ task' = [task EXCEPT ![p] = next]

(* A raised event for each alarm of up, a cleared event for each of down:   *)
(* without a client _safe_publish swallows them, and what goes into a dead  *)
(* connection reaches nobody.                                               *)
Hear(last, event) == IF last \in {event, "again"} THEN "again" ELSE event
Announce(c, up, down) ==
  heard' = [heard EXCEPT ![c] =
    [x \in Types |-> IF x \notin up \cup down THEN @[x]
                     ELSE IF link # "up" THEN "missed"
                     ELSE Hear(@[x], IF x \in down THEN "cleared" ELSE "raised")]]

Settle(c, t, samples) ==
  settled' = IF table'[c] = t THEN [settled EXCEPT ![c] = samples] ELSE settled

-----------------------------------------------------------------------------
(* _reconcile_alarms.  The first loop raises what is in the sample and not  *)
(* in the dictionary, the second clears what is listed at its start and not *)
(* in the sample, COMMUNICATION_LOSS excepted.  Each publish suspends, or,  *)
(* without a client, does nothing at all.                                   *)

(* Faulty variants: nothing is raised while something is listed; what is    *)
(* listed is raised all the same.                                           *)
MissingWhenQuiet(present, sample) == IF present = {} THEN sample ELSE {}
MissingAnyway(present, sample) == sample

Missing(present, sample) == sample \ present

(* Faulty variants: nothing is managed elsewhere; alarms are only cleared   *)
(* all together; everything the sample does not show is popped.             *)
EverythingStale(present, sample) == present \ sample
StaleWhenQuiet(present, sample) ==
  IF sample = {} THEN present \ {CommLoss} ELSE {}

Stale(present, sample) == (present \ sample) \ {CommLoss}

(* Popping an alarm that another task has popped raises KeyError, which no  *)
(* one catches: the task is gone, and with "mqtt" the connection.           *)
KeyError(p, c, t, base, content) ==
  /\ Store(p, t, base, content, Dead)
  /\ link' = IF p = "mqtt" THEN "broken" ELSE link
  /\ Settle(c, t, {})

(* The alarms of up have just been raised, without a suspension.            *)
ClearOn(p, c, t, base, content, up, sample, todo) ==
  \/ /\ todo = {} \/ (link = "none" /\ todo \subseteq content)
     /\ Store(p, t, base, content \ todo, Idle)
     /\ Announce(c, up, todo)
     /\ Settle(c, t, {sample})
     /\ UNCHANGED link
  \/ /\ link # "none"
     /\ \E x \in todo \cap content :
          /\ Store(p, t, base, content \ {x},
                   [pc |-> "clear", at |-> c, table |-> t, sample |-> sample,
                    todo |-> todo \ {x}, wait |-> AwaitAck])
          /\ Announce(c, up, {x})
     /\ Settle(c, t, {})
     /\ UNCHANGED link
  \/ /\ ~(todo \subseteq content)
     /\ \E popped \in SUBSET (todo \cap content) :
          /\ link # "none" => popped = {}
          /\ KeyError(p, c, t, base, content \ popped)
          /\ Announce(c, up, popped)

(* The loop goes through the sample in its order: some of the alarms        *)
(* already present come before the next one that is raised.                 *)
RaiseOn(p, c, t, base, sample, todo) ==
  LET missing == Missing(base[t], todo)
      full == base[t] \cup missing
  IN \/ /\ missing = {} \/ link = "none"
        /\ ClearOn(p, c, t, base, full, missing, sample, Stale(full, sample))
     \/ /\ link # "none"
        /\ \E x \in missing, passed \in SUBSET (todo \cap base[t]) :
             /\ Store(p, t, base, base[t] \cup {x},
                      [pc |-> "raise", at |-> c, table |-> t, sample |-> sample,
                       todo |-> todo \ (passed \cup {x}), wait |-> AwaitAck])
             /\ Announce(c, {x}, {})
        /\ Settle(c, t, {})
        /\ UNCHANGED link

(* ingest: the sample reflects the conditions at the cabinet.               *)
Telemetry(p, c) ==
  /\ task[p] = Idle
  /\ p = "mqtt" => link # "none"
  /\ table' = [table EXCEPT ![c] = Own(c)]
  /\ RaiseOn(p, c, Own(c), Contents(c), reading[c], reading[c])
  /\ UNCHANGED <<reading, offline, wiped>>

Resume(p) ==
  /\ Busy(p) /\ task[p].wait = "ack"
  /\ UNCHANGED table
  /\ LET q == task[p] IN
       \/ /\ q.pc = "raise"
          /\ RaiseOn(p, q.at, q.table, alarms, q.sample, q.todo)
       \/ /\ q.pc = "clear"
          /\ ClearOn(p, q.at, q.table, alarms, alarms[q.table], {}, q.sample, q.todo)
       \/ /\ q.pc = "status"
          /\ task' = [task EXCEPT ![p] = Idle]
          /\ UNCHANGED <<alarms, heard, settled, link>>
  /\ UNCHANGED <<reading, offline, wiped>>

(* _handle_status: the retained status of the controller or its last will.  *)
Status(c, up) ==
  /\ "mqtt" \in Sources /\ task["mqtt"] = Idle /\ link # "none"
  /\ table' = [table EXCEPT ![c] = Own(c)]
  /\ offline' = [offline EXCEPT ![c] = ~up]
  /\ wiped' = wiped \ {c}
  /\ LET t == Own(c)
         base == Contents(c)
         after == IF up THEN base[t] \ {CommLoss} ELSE base[t] \cup {CommLoss}
     IN IF after = base[t]
        THEN alarms' = base /\ UNCHANGED <<heard, task>>
        ELSE /\ Store("mqtt", t, base, after,
                      [pc |-> "status", at |-> c, table |-> t, wait |-> AwaitAck])
             /\ IF up THEN Announce(c, {}, {CommLoss}) ELSE Announce(c, {CommLoss}, {})
  /\ UNCHANGED <<link, reading, settled>>

(* MqttError: _run catches it and reconnects; the demo task dies of it.     *)
PublishFails(p) ==
  /\ Busy(p) /\ task[p].wait = "lost"
  /\ \/ p = "mqtt" /\ task' = [task EXCEPT ![p] = Idle] /\ link' = "none"
     \/ p = "demo" /\ task' = [task EXCEPT ![p] = Dead] /\ UNCHANGED link
  /\ UNCHANGED <<table, alarms, reading, heard, settled, offline, wiped>>

-----------------------------------------------------------------------------
(* Operators.                                                               *)

(* DELETE /cabinets/{id}/alarms installs a new, empty dictionary and        *)
(* publishes nothing.                                                       *)
Acknowledge(c) ==
  /\ "ack" \in Events
  /\ table' = [table EXCEPT ![c] = Fresh]
  /\ alarms' = [alarms EXCEPT ![Fresh] = {}]
  /\ settled' = [settled EXCEPT ![c] = {}]
  /\ wiped' = wiped \cup {c}
  /\ UNCHANGED <<task, link, reading, heard, offline>>

(* Deleting a cabinet, or all of them.                                      *)
Forget(cs) ==
  /\ "registry" \in Events
  /\ table' = [c \in Cabinets |-> IF c \in cs THEN None ELSE table[c]]
  /\ settled' = [c \in Cabinets |-> IF c \in cs THEN {} ELSE settled[c]]
  /\ wiped' = wiped \cup cs
  /\ UNCHANGED <<alarms, task, link, reading, heard, offline>>

(* The environment.                                                         *)
Change(c) ==
  /\ \E r \in SUBSET Conditions : reading' = [reading EXCEPT ![c] = r]
  /\ UNCHANGED <<table, alarms, task, link, heard, settled, offline, wiped>>

Connect ==
  /\ "mqtt" \in Sources /\ task["mqtt"] = Idle /\ link = "none"
  /\ link' = "up"
  /\ UNCHANGED <<table, alarms, task, reading, heard, settled, offline, wiped>>

LinkBreaks ==
  /\ "link" \in Events /\ link = "up"
  /\ link' = "broken"
  /\ \E gone \in SUBSET {p \in Sources : Busy(p)} :
       task' = [p \in Sources |-> IF p \in gone THEN [task[p] EXCEPT !.wait = "lost"]
                                  ELSE task[p]]
  /\ UNCHANGED <<table, alarms, reading, heard, settled, offline, wiped>>

LinkLost ==
  /\ link = "broken" /\ task["mqtt"] = Idle
  /\ link' = "none"
  /\ UNCHANGED <<table, alarms, task, reading, heard, settled, offline, wiped>>

Restart ==
  /\ "restart" \in Events
  /\ table' = [c \in Cabinets |-> None]
  /\ task' = [p \in Sources |-> Idle]
  /\ link' = "none"
  /\ settled' = [c \in Cabinets |-> {}]
  /\ wiped' = Cabinets
  /\ UNCHANGED <<alarms, reading, heard, offline>>

-----------------------------------------------------------------------------
Init ==
  /\ table = [c \in Cabinets |-> None]
  /\ alarms = [t \in Tables |-> {}]
  /\ task = [p \in Sources |-> Idle]
  /\ link = "none"
  /\ reading = [c \in Cabinets |-> {}]
  /\ heard = [c \in Cabinets |-> [x \in Types |-> "cleared"]]
  /\ settled = [c \in Cabinets |-> {}]
  /\ offline = [c \in Cabinets |-> FALSE]
  /\ wiped = {}

Feed(p) == Resume(p) \/ PublishFails(p) \/ \E c \in Cabinets : Telemetry(p, c)

Operators ==
  \/ \E c \in Cabinets : Acknowledge(c)
  \/ \E cs \in (SUBSET Cabinets) \ {{}} : Forget(cs)

Environment ==
  \/ \E c \in Cabinets : Change(c)
  \/ Connect \/ LinkBreaks \/ LinkLost \/ Restart

Next ==
  \/ \E p \in Sources : Feed(p)
  \/ \E c \in Cabinets, up \in BOOLEAN : Status(c, up)
  \/ Operators
  \/ Environment

Spec == Init /\ [][Next]_vars

(* Every controller reports periodically and the bus gets to each message;  *)
(* the broker answers or the connection is seen to fail; the bus reconnects.*)
FairSpec ==
  /\ Spec
  /\ WF_vars(Connect) /\ WF_vars(LinkLost)
  /\ \A p \in Sources :
       /\ WF_vars(Resume(p) \/ PublishFails(p))
       /\ \A c \in Cabinets : SF_vars(Telemetry(p, c))

-----------------------------------------------------------------------------
(* Properties                                                               *)

(* When a sample has been worked through without interruption, and nothing  *)
(* was acknowledged or deleted since, the cabinet's alarms are exactly the  *)
(* conditions of that sample, COMMUNICATION_LOSS aside.                     *)
SettledAccurate ==
  \A c \in Cabinets : \A sample \in settled[c] : Visible(c) \ {CommLoss} = sample

(* The panel shows a cabinet offline only when its last status said so, and *)
(* whenever it said so until somebody acknowledges, deletes or restarts: no *)
(* interleaving of telemetry, of either task, hides or invents it.          *)
OnlineHonest ==
  \A c \in Cabinets :
    /\ CommLoss \in Visible(c) => offline[c]
    /\ offline[c] /\ c \notin wiped => CommLoss \in Visible(c)

(* The same without that excuse: an alarm acknowledged while the cabinet is *)
(* offline shows it online, until it goes offline anew.                     *)
OfflineShown == \A c \in Cabinets : offline[c] => CommLoss \in Visible(c)

(* An alarm is raised once and cleared once: a listener gets no event twice *)
(* in a row, and what it last got agrees with the list that the API shows,  *)
(* unless that event was not sent for want of a connection.                 *)
HeardIsVisible ==
  \A c \in Cabinets, x \in Types :
    /\ heard[c][x] # "again"
    /\ heard[c][x] = "raised" => x \in Visible(c)
    /\ heard[c][x] = "cleared" => x \notin Visible(c)

(* The same as an abstract specification, implemented by the bus as long as *)
(* nobody acknowledges, deletes or restarts: each event goes with a change  *)
(* of the list, at both tasks, through failing publishes.                   *)
Lifecycle == INSTANCE AlarmLifecycle WITH open <- [c \in Cabinets |-> Visible(c)]
LifecycleSpec == Lifecycle!Spec

(* As long as one of the tasks lives, a condition that stays, and that both *)
(* report, is listed in the end and stays listed, however often the broker  *)
(* fails and the other conditions come and go.  (Clearing is weaker: it     *)
(* comes after the raises, and a failing publish skips it.)                 *)
ConditionListed ==
  \A p \in Sources, c \in Cabinets, x \in Conditions :
    <>[](x \in reading[c] /\ task[p] # Dead) => <>[](x \in Visible(c))

(* Likewise, a condition that has gone is cleared for good once the broker  *)
(* stays up.                                                                *)
ConditionCleared ==
  \A p \in Sources, c \in Cabinets, x \in Conditions :
    <>[](x \notin reading[c] /\ link = "up" /\ task[p] # Dead) => <>[](x \notin Visible(c))

(* The demo task keeps the panel alive without a broker: losing the broker  *)
(* never ends it.                                                           *)
DemoSurvives == "demo" \in Sources => task["demo"] # Dead

(* Ingestion can be shared by the two tasks: neither kills the other's.     *)
IngestSurvives == "mqtt" \in Sources => task["mqtt"] # Dead

=============================================================================
