------------------------ MODULE CabinetControl_proofs ------------------------
(***************************************************************************)
(* Machine-checked proofs about the command plane, for every number of     *)
(* cabinets, requests and rows, every level and every set of events.       *)
(***************************************************************************)
EXTENDS CabinetControl, TLAPS

(* Any command record keeps its type under the bus's two writes.            *)
LEMMA ShownType ==
  ASSUME TypeOK, NEW c \in Cabinets
  PROVE  /\ Shown(c) \in Command
         /\ \A level \in Levels : WithDim(c, level) \in Command
         /\ \A state \in {"on", "off"} : WithRelay(c, state) \in Command
<1>1. FullLight \in Command
  BY DEF FullLight, Command, Levels
<1>2. Shown(c) \in Command
  BY <1>1 DEF TypeOK, Shown
<1> QED
  BY <1>2 DEF WithDim, WithRelay, Command

(* A publish changes at most one field of one lamp, within its type.        *)
LEMMA DeliverType ==
  ASSUME TypeOK, NEW c \in Cabinets, NEW topic \in {"relay", "dim"}, NEW value,
         topic = "relay" => value \in {"on", "off"},
         topic = "dim" => value \in Levels,
         Deliver(c, topic, value)
  PROVE  lamp' \in [Devices -> Command] /\ AwaitAck \in Waits
<1>1. AwaitAck \in Waits
  BY DEF AwaitAck, Waits
<1>2. CASE link = "up" /\ c \in online
  <2>1. c \in Devices
    BY <1>2 DEF TypeOK
  <2>2. lamp[c] \in Command
    BY <2>1 DEF TypeOK
  <2>3. Applied(lamp[c], topic, value) \in Command
    BY <2>2 DEF Applied, Command
  <2>4. lamp' = [lamp EXCEPT ![c] = Applied(lamp[c], topic, value)]
    BY <1>2 DEF Deliver
  <2> QED
    BY <1>1, <2>1, <2>3, <2>4 DEF TypeOK
<1>3. CASE ~(link = "up" /\ c \in online)
  BY <1>1, <1>3 DEF Deliver, TypeOK
<1> QED
  BY <1>2, <1>3

(* The unit of work writes a row of the right type.                         *)
LEMMA FlushType ==
  ASSUME NEW now \in Row, NEW seen \in Row, NEW want \in Row
  PROVE  /\ Flushed(now, seen, want) \in Row
         /\ Flushed(now, seen, want).id = now.id
         /\ Flushed(now, seen, want).mode =
              IF want.mode # seen.mode THEN want.mode ELSE now.mode
         /\ Flushed(now, seen, want).pre =
              IF want.pre # seen.pre THEN want.pre ELSE now.pre
BY DEF Flushed, Row

(* The commit of an all-on keeps the table well typed.                      *)
LEMMA AllOnCommitType ==
  ASSUME TypeOK, NEW seen \in [Cabinets -> Row \cup {NoRow}], AllOnCommit(seen)
  PROVE  row' \in [Cabinets -> Row \cup {NoRow}]
<1> DEFINE dirty == {c \in Targets(seen) : Changed(seen[c], Emergency(seen[c]))}
<1>1. ASSUME NEW c \in dirty, Writable(row[c], seen[c])
      PROVE  Flushed(row[c], seen[c], Emergency(seen[c])) \in Row
  <2>1. seen[c] \in Row /\ row[c] \in Row
    BY <1>1 DEF Targets, Writable, TypeOK
  <2>2. Emergency(seen[c]) \in Row
    BY <2>1 DEF Emergency, Row, Modes, Manual
  <2> QED
    BY <2>1, <2>2, FlushType
<1>2. CASE \A c \in dirty : Writable(row[c], seen[c])
  <2>1. row' = [c \in Cabinets |-> IF c \in dirty
                                   THEN Flushed(row[c], seen[c], Emergency(seen[c]))
                                   ELSE row[c]]
    BY <1>2 DEF AllOnCommit
  <2> QED
    BY <2>1, <1>1, <1>2 DEF TypeOK
<1>3. CASE ~\A c \in dirty : Writable(row[c], seen[c])
  BY <1>3 DEF AllOnCommit, TypeOK
<1> QED
  BY <1>2, <1>3

(* Recording program levels for a set of cabinets.                          *)
LEMMA ProgramLevelsType ==
  ASSUME TypeOK, NEW auto \in SUBSET Cabinets, NEW level \in [auto -> AutoLevels]
  PROVE  [c \in Cabinets |-> IF c \in auto THEN WithDim(c, level[c]) ELSE cmd[c]]
           \in [Cabinets -> Command \cup {None}]
<1>1. ASSUME NEW c \in auto PROVE WithDim(c, level[c]) \in Command
  BY ShownType, LevelsAssumption, <1>1 DEF Levels
<1> QED
  BY <1>1 DEF TypeOK

LEMMA AllOnGoOnType ==
  ASSUME TypeOK, NEW r \in Requests, NEW done \in SUBSET Cabinets,
         NEW todo \in SUBSET Cabinets, NEW seen \in [Cabinets -> Row \cup {NoRow}],
         AllOnGoOn(r, done, todo, seen)
  PROVE  /\ row' \in [Cabinets -> Row \cup {NoRow}]
         /\ cmd' \in [Cabinets -> Command \cup {None}]
         /\ request' \in [Requests -> Request]
         /\ lamp' \in [Devices -> Command]
         /\ touched' \subseteq Cabinets
<1>1. FullLight \in Command
  BY DEF FullLight, Command, Levels
<1>2. CASE /\ todo = {} \/ link = "none"
           /\ cmd' = Lit(done \cup todo)
           /\ touched' = touched \ (done \cup todo)
           /\ AllOnCommit(seen)
           /\ EndRequest(r)
           /\ UNCHANGED lamp
  BY <1>1, <1>2, AllOnCommitType DEF TypeOK, Lit, EndRequest, Request
<1>3. ASSUME NEW c \in todo, AllOnPublish(r, c, "relay", "on", todo \ {c}, seen),
             cmd' = Lit(done), touched' = touched \ done, UNCHANGED row
      PROVE  /\ row' \in [Cabinets -> Row \cup {NoRow}]
             /\ cmd' \in [Cabinets -> Command \cup {None}]
             /\ request' \in [Requests -> Request]
             /\ lamp' \in [Devices -> Command]
             /\ touched' \subseteq Cabinets
  <2>1. lamp' \in [Devices -> Command] /\ AwaitAck \in Waits
    BY <1>3, DeliverType DEF AllOnPublish
  <2>2. request' \in [Requests -> Request]
    BY <1>3, <2>1 DEF AllOnPublish, Request, AllOnRequest, TypeOK
  <2> QED
    BY <1>1, <1>3, <2>1, <2>2 DEF Lit, TypeOK
<1> QED
  BY <1>2, <1>3 DEF AllOnGoOn

LEMMA ClearGoOnType ==
  ASSUME TypeOK, NEW r \in Requests, NEW todo \in SUBSET Cabinets,
         NEW modes \in [Cabinets -> Modes], ClearGoOn(r, todo, modes)
  PROVE  /\ cmd' \in [Cabinets -> Command \cup {None}]
         /\ request' \in [Requests -> Request]
         /\ lamp' \in [Devices -> Command]
<1> DEFINE auto == {c \in todo : modes[c] # Manual}
<1>1. ASSUME NEW level \in [auto -> AutoLevels],
             cmd' = [c \in Cabinets |-> IF c \in auto THEN WithDim(c, level[c]) ELSE cmd[c]],
             EndRequest(r), UNCHANGED lamp
      PROVE  /\ cmd' \in [Cabinets -> Command \cup {None}]
             /\ request' \in [Requests -> Request]
             /\ lamp' \in [Devices -> Command]
  <2>1. auto \in SUBSET Cabinets
    OBVIOUS
  <2>2. cmd' \in [Cabinets -> Command \cup {None}]
    <3> HIDE DEF auto
    <3> QED
      BY <1>1, <2>1, ProgramLevelsType
  <2> QED
    BY <1>1, <2>2 DEF EndRequest, Request, TypeOK
<1>2. ASSUME NEW c \in auto, NEW level \in AutoLevels,
             cmd' = [cmd EXCEPT ![c] = WithDim(c, level)],
             Deliver(c, "dim", level),
             request' = [request EXCEPT ![r] =
               [op |-> "clear", todo |-> auto \ {c}, modes |-> modes, wait |-> AwaitAck]]
      PROVE  /\ cmd' \in [Cabinets -> Command \cup {None}]
             /\ request' \in [Requests -> Request]
             /\ lamp' \in [Devices -> Command]
  <2>1. level \in Levels
    BY LevelsAssumption DEF Levels
  <2>2. lamp' \in [Devices -> Command] /\ AwaitAck \in Waits
    BY <1>2, <2>1, DeliverType
  <2>3. request' \in [Requests -> Request]
    BY <1>2, <2>2 DEF Request, ClearRequest, TypeOK
  <2> QED
    BY <1>2, <2>1, <2>2, <2>3, ShownType DEF TypeOK
<1> QED
  BY <1>1, <1>2 DEF ClearGoOn

LEMMA CycleGoOnType ==
  ASSUME TypeOK, NEW todo \in SUBSET Cabinets,
         NEW cfg \in [Cabinets -> Modes], CycleGoOn(todo, cfg)
  PROVE  /\ cmd' \in [Cabinets -> Command \cup {None}]
         /\ scheduler' \in Scheduler
         /\ lamp' \in [Devices -> Command]
<1> DEFINE auto == {c \in todo : cfg[c] # Manual}
<1>1. ASSUME NEW level \in [auto -> AutoLevels],
             cmd' = [c \in Cabinets |-> IF c \in auto THEN WithDim(c, level[c]) ELSE cmd[c]],
             scheduler' = Asleep, UNCHANGED lamp
      PROVE  /\ cmd' \in [Cabinets -> Command \cup {None}]
             /\ scheduler' \in Scheduler
             /\ lamp' \in [Devices -> Command]
  <2>1. auto \in SUBSET Cabinets
    OBVIOUS
  <2>2. cmd' \in [Cabinets -> Command \cup {None}]
    <3> HIDE DEF auto
    <3> QED
      BY <1>1, <2>1, ProgramLevelsType
  <2> QED
    BY <1>1, <2>2 DEF Scheduler, TypeOK
<1>2. ASSUME NEW c \in auto, NEW level \in AutoLevels,
             cmd' = [cmd EXCEPT ![c] = WithDim(c, level)],
             Deliver(c, "dim", level),
             scheduler' = [pc |-> AwaitAck, cfg |-> cfg, todo |-> auto \ {c}]
      PROVE  /\ cmd' \in [Cabinets -> Command \cup {None}]
             /\ scheduler' \in Scheduler
             /\ lamp' \in [Devices -> Command]
  <2>1. level \in Levels
    BY LevelsAssumption DEF Levels
  <2>2. lamp' \in [Devices -> Command] /\ AwaitAck \in Waits
    BY <1>2, <2>1, DeliverType
  <2> QED
    BY <1>2, <2>1, <2>2, ShownType DEF Scheduler, TypeOK
<1> QED
  BY <1>1, <1>2 DEF CycleGoOn

-----------------------------------------------------------------------------
(* Every step keeps every variable in its type.                             *)
LEMMA TakeControlType ==
  ASSUME TypeOK, NEW c \in Cabinets, NEW level \in Levels, NEW seen \in Row,
         TakeControl(c, level, seen)
  PROVE  /\ row' \in [Cabinets -> Row \cup {NoRow}]
         /\ cmd' \in [Cabinets -> Command \cup {None}]
         /\ asked' \in [Cabinets -> SUBSET Modes]
         /\ touched' \subseteq Cabinets
<1> DEFINE want == [seen EXCEPT !.mode = Manual]
<1>1. want \in Row
  BY DEF Row, Modes
<1>2. row' \in [Cabinets -> Row \cup {NoRow}]
  <2>1. CASE Changed(seen, want) /\ Writable(row[c], seen)
    <3>1. row[c] \in Row
      BY <2>1 DEF Writable, TypeOK
    <3>2. Flushed(row[c], seen, want) \in Row
      BY <1>1, <3>1, FlushType
    <3>3. row' = [row EXCEPT ![c] = Flushed(row[c], seen, want)]
      BY <2>1 DEF TakeControl
    <3> QED
      BY <3>2, <3>3 DEF TypeOK
  <2>2. CASE ~(Changed(seen, want) /\ Writable(row[c], seen))
    BY <2>2 DEF TakeControl, TypeOK
  <2> QED
    BY <2>1, <2>2
<1>3. cmd' \in [Cabinets -> Command \cup {None}]
  BY ShownType DEF TakeControl, TypeOK
<1> QED
  BY <1>2, <1>3 DEF TakeControl, TypeOK, Modes

LEMMA TypeStep ==
  ASSUME TypeOK, [Next]_vars
  PROVE  TypeOK'
<1>1. ASSUME NEW r \in Requests, NEW c \in Cabinets, NEW level \in DimLevels,
             SetDim(r, c, level)
      PROVE  TypeOK'
  <2>1. level \in Levels /\ row[c] \in Row
    BY <1>1, LevelsAssumption DEF SetDim, Registered, Levels, TypeOK
  <2>2. CASE link = "none"
    BY <1>1, <2>1, <2>2, TakeControlType DEF SetDim, TypeOK, hardware
  <2>3. CASE link # "none"
    <3>1. lamp' \in [Devices -> Command] /\ AwaitAck \in Waits
      BY <1>1, <2>1, <2>3, DeliverType DEF SetDim
    <3>2. request' \in [Requests -> Request]
      BY <1>1, <2>1, <2>3, <3>1 DEF SetDim, Request, DimRequest, TypeOK
    <3> QED
      BY <1>1, <2>3, <3>1, <3>2 DEF SetDim, TypeOK
  <2> QED
    BY <2>2, <2>3
<1>2. ASSUME NEW r \in Requests, NEW c \in Cabinets, NEW state \in RelayStates,
             SetRelay(r, c, state)
      PROVE  TypeOK'
  <2>1. state \in {"on", "off"}
    BY RelayAssumption
  <2>2. CASE link = "none"
    BY <1>2, <2>1, <2>2, ShownType DEF SetRelay, TypeOK, hardware
  <2>3. CASE link # "none"
    <3>1. lamp' \in [Devices -> Command] /\ AwaitAck \in Waits
      BY <1>2, <2>1, <2>3, DeliverType DEF SetRelay
    <3>2. request' \in [Requests -> Request]
      BY <1>2, <2>1, <2>3, <3>1 DEF SetRelay, Request, RelayRequest, TypeOK
    <3> QED
      BY <1>2, <2>3, <3>1, <3>2 DEF SetRelay, TypeOK
  <2> QED
    BY <2>2, <2>3
<1>3. ASSUME NEW r \in Requests, NEW scope \in (SUBSET Cabinets) \ {{}}, AllOn(r, scope)
      PROVE  TypeOK'
  <2> DEFINE seen == [c \in Cabinets |-> IF c \in scope THEN row[c] ELSE NoRow]
  <2>1. seen \in [Cabinets -> Row \cup {NoRow}] /\ Targets(seen) \in SUBSET Cabinets
    BY DEF Targets, TypeOK
  <2>2. AllOnGoOn(r, {}, Targets(seen), seen)
    BY <1>3 DEF AllOn
  <2>3. {} \in SUBSET Cabinets
    OBVIOUS
  <2> HIDE DEF seen
  <2> QED
    BY <1>3, <2>1, <2>2, <2>3, AllOnGoOnType DEF AllOn, TypeOK
<1>4. ASSUME NEW r \in Requests, NEW scope \in (SUBSET Cabinets) \ {{}}, Clear(r, scope)
      PROVE  TypeOK'
  <2> DEFINE flagged == InEmergency(scope)
             modes == [c \in Cabinets |-> IF c \in flagged THEN row[c].pre ELSE Manual]
  <2>1. flagged \in SUBSET Cabinets
    BY DEF InEmergency, Registered
  <2>2. \A c \in flagged : row[c] \in Row /\ row[c].pre \in Modes
    BY DEF InEmergency, Registered, Row, TypeOK
  <2>3. modes \in [Cabinets -> Modes]
    BY <2>2 DEF Modes
  <2>4. row' \in [Cabinets -> Row \cup {NoRow}]
    <3>1. \A c \in flagged : [row[c] EXCEPT !.mode = row[c].pre, !.pre = None] \in Row
      BY <2>2 DEF Row
    <3>2. row' = [c \in Cabinets |-> IF c \in flagged
                                     THEN [row[c] EXCEPT !.mode = row[c].pre, !.pre = None]
                                     ELSE row[c]]
      BY <1>4 DEF Clear
    <3> HIDE DEF flagged
    <3> QED
      BY <3>1, <3>2 DEF TypeOK
  <2>5. ClearGoOn(r, flagged, modes)
    BY <1>4 DEF Clear
  <2> HIDE DEF flagged, modes
  <2> QED
    BY <1>4, <2>1, <2>3, <2>4, <2>5, ClearGoOnType DEF Clear, TypeOK
<1>5. ASSUME NEW r \in Requests, DimAcked(r)
      PROVE  TypeOK'
  <2>1. request[r] \in DimRequest
    BY <1>5 DEF DimAcked, Waiting, TypeOK, Request, Idle, DimRequest, RelayRequest,
                AllOnRequest, ClearRequest
  <2>2. /\ request[r].at \in Cabinets /\ request[r].seen \in Row
        /\ request[r].level \in Levels
    BY <2>1, LevelsAssumption DEF DimRequest, Levels
  <2> QED
    BY <1>5, <2>2, TakeControlType DEF DimAcked, EndRequest, Request, TypeOK, hardware
<1>6. ASSUME NEW r \in Requests, RelayAcked(r)
      PROVE  TypeOK'
  <2>1. request[r] \in RelayRequest
    BY <1>6 DEF RelayAcked, Waiting, TypeOK, Request, Idle, DimRequest, RelayRequest,
                AllOnRequest, ClearRequest
  <2>2. request[r].at \in Cabinets /\ request[r].state \in {"on", "off"}
    BY <2>1, RelayAssumption DEF RelayRequest
  <2> QED
    BY <1>6, <2>2, ShownType DEF RelayAcked, EndRequest, Request, TypeOK, hardware
<1>7. ASSUME NEW r \in Requests, AllOnAcked(r)
      PROVE  TypeOK'
  <2>1. request[r] \in AllOnRequest
    BY <1>7 DEF AllOnAcked, Waiting, TypeOK, Request, Idle, DimRequest, RelayRequest,
                AllOnRequest, ClearRequest
  <2>2. /\ request[r].at \in Cabinets /\ {request[r].at} \in SUBSET Cabinets
        /\ request[r].todo \in SUBSET Cabinets
        /\ request[r].seen \in [Cabinets -> Row \cup {NoRow}]
    BY <2>1 DEF AllOnRequest
  <2>3. CASE request[r].topic = "relay" /\ link # "none"
    <3>1. AllOnPublish(r, request[r].at, "dim", 100, request[r].todo, request[r].seen)
      BY <1>7, <2>3 DEF AllOnAcked
    <3>2. lamp' \in [Devices -> Command] /\ AwaitAck \in Waits
      BY <2>2, <3>1, DeliverType DEF AllOnPublish, Levels
    <3>3. request' \in [Requests -> Request]
      BY <2>2, <3>1, <3>2 DEF AllOnPublish, Request, AllOnRequest, TypeOK
    <3> QED
      BY <1>7, <2>3, <3>2, <3>3 DEF AllOnAcked, TypeOK
  <2>4. CASE ~(request[r].topic = "relay" /\ link # "none")
    <3>1. AllOnGoOn(r, {request[r].at}, request[r].todo, request[r].seen)
      BY <1>7, <2>4 DEF AllOnAcked
    <3>2. UNCHANGED <<known, link, scheduler, online, asked, cleanups>>
      BY <1>7 DEF AllOnAcked
    <3>3. /\ row' \in [Cabinets -> Row \cup {NoRow}]
          /\ cmd' \in [Cabinets -> Command \cup {None}]
          /\ request' \in [Requests -> Request] /\ lamp' \in [Devices -> Command]
          /\ touched' \subseteq Cabinets
      BY <2>2, <3>1, AllOnGoOnType
    <3> QED
      BY <3>2, <3>3 DEF TypeOK
  <2> QED
    BY <2>3, <2>4
<1>8. ASSUME NEW r \in Requests, ClearAcked(r)
      PROVE  TypeOK'
  <2>1. request[r] \in ClearRequest
    BY <1>8 DEF ClearAcked, Waiting, TypeOK, Request, Idle, DimRequest, RelayRequest,
                AllOnRequest, ClearRequest
  <2>2. request[r].todo \in SUBSET Cabinets /\ request[r].modes \in [Cabinets -> Modes]
    BY <2>1 DEF ClearRequest
  <2> QED
    BY <1>8, <2>2, ClearGoOnType DEF ClearAcked, TypeOK
<1>9. ASSUME NEW r \in Requests, RequestFails(r)
      PROVE  TypeOK'
  BY <1>9 DEF RequestFails, EndRequest, Request, TypeOK, hardware
<1>10. CASE WakeUp
  <2>1. LoadedModes \in [Cabinets -> Modes] /\ known \in SUBSET Cabinets
    BY ModesAssumption DEF LoadedModes, TypeOK, Row, Modes
  <2>2. NothingLoaded \in [Cabinets -> Modes]
    BY ModesAssumption DEF NothingLoaded, Modes
  <2>3. /\ cmd' \in [Cabinets -> Command \cup {None}]
        /\ scheduler' \in Scheduler /\ lamp' \in [Devices -> Command]
    BY <1>10, <2>1, <2>2, CycleGoOnType DEF WakeUp
  <2>4. touched' \subseteq Cabinets
    BY <1>10, <2>1 DEF WakeUp, TypeOK
  <2> QED
    BY <1>10, <2>3, <2>4 DEF WakeUp, TypeOK
<1>11. CASE CycleAcked
  <2>1. scheduler.cfg \in [Cabinets -> Modes] /\ scheduler.todo \in SUBSET Cabinets
    BY <1>11 DEF CycleAcked, TypeOK, Scheduler, Asleep, Dead
  <2> QED
    BY <1>11, <2>1, CycleGoOnType DEF CycleAcked, TypeOK
<1>12. CASE CycleFails
  BY <1>12 DEF CycleFails, Scheduler, TypeOK, hardware
<1>13. ASSUME NEW c \in Cabinets, NEW mode \in Modes, SetMode(c, mode)
       PROVE  TypeOK'
  <2>1. row[c] \in Row
    BY <1>13 DEF SetMode, Registered, TypeOK
  <2>2. row' \in [Cabinets -> Row \cup {NoRow}]
    BY <1>13, <2>1 DEF SetMode, Row, TypeOK
  <2>3. CASE mode = Manual
    BY <1>13, <2>2, <2>3 DEF SetMode, TypeOK, hardware
  <2>4. CASE mode # Manual
    <3>1. PICK level \in AutoLevels : /\ cmd' = [cmd EXCEPT ![c] = WithDim(c, level)]
                                      /\ Deliver(c, "dim", level)
      BY <1>13, <2>4 DEF SetMode
    <3>2. level \in Levels
      BY LevelsAssumption DEF Levels
    <3>3. lamp' \in [Devices -> Command]
      BY <3>1, <3>2, DeliverType
    <3> QED
      BY <1>13, <2>2, <2>4, <3>1, <3>2, <3>3, ShownType DEF SetMode, TypeOK
  <2> QED
    BY <2>3, <2>4
<1>14. ASSUME NEW c \in Cabinets, NEW mode \in Modes, PatchMode(c, mode)
       PROVE  TypeOK'
  <2>1. row[c] \in Row
    BY <1>14 DEF PatchMode, Registered, TypeOK
  <2> QED
    BY <1>14, <2>1 DEF PatchMode, Row, TypeOK, hardware
<1>15. ASSUME NEW c \in Cabinets, NEW id \in RowIds, Create(c, id)
       PROVE  TypeOK'
  BY <1>15, ModesAssumption DEF Create, Row, Modes, TypeOK, hardware
<1>16. ASSUME NEW cs \in SUBSET Cabinets, Forget(cs)
       PROVE  TypeOK'
  BY <1>16 DEF Forget, TypeOK, hardware
<1>17. ASSUME NEW c \in Cabinets, Heard(c) \/ DeviceDrops(c) \/ DeviceJoins(c)
       PROVE  TypeOK'
  <2>1. PowerOnLamp \in Command
    BY DEF PowerOnLamp, Command, Levels
  <2> QED
    BY <1>17, <2>1 DEF Heard, DeviceDrops, DeviceJoins, TypeOK, hardware
<1>18. ASSUME NEW c \in Cabinets, DemoTick(c)
       PROVE  TypeOK'
  BY <1>18, ShownType DEF DemoTick, TypeOK, hardware
<1>19. CASE Connect \/ LinkLost
  BY <1>19 DEF Connect, LinkLost, TypeOK, hardware
<1>20. CASE LinkBreaks
  <2>1. scheduler' \in Scheduler
    BY <1>20 DEF LinkBreaks, TypeOK, Scheduler, Asleep, Dead, Waits
  <2>2. \A r \in Requests :
          ~Free(r) => [request[r] EXCEPT !.wait = "lost"] \in Request
    BY DEF TypeOK, Free, Request, Idle, Waits, DimRequest, RelayRequest, AllOnRequest,
           ClearRequest
  <2>3. PICK gone \in SUBSET {r \in Requests : ~Free(r)} :
          request' = [r \in Requests |-> IF r \in gone
                                         THEN [request[r] EXCEPT !.wait = "lost"]
                                         ELSE request[r]]
    BY <1>20 DEF LinkBreaks
  <2>4. request' \in [Requests -> Request]
    BY <2>2, <2>3 DEF TypeOK
  <2> QED
    BY <1>20, <2>1, <2>4 DEF LinkBreaks, TypeOK, hardware
<1>21. CASE Restart
  BY <1>21 DEF Restart, Scheduler, Request, TypeOK, hardware
<1>21a. ASSUME NEW cs \in SUBSET Cabinets, CleanUp(cs)
       PROVE  TypeOK'
  BY <1>21a DEF CleanUp, TypeOK, hardware
<1>22. CASE UNCHANGED vars
  BY <1>22 DEF vars, TypeOK
<1>23. \A r \in Requests : Operator(r) \/ Resumed(r) => TypeOK'
  BY <1>1, <1>2, <1>3, <1>4, <1>5, <1>6, <1>7, <1>8, <1>9 DEF Operator, Resumed
<1>24. DimmingLoop => TypeOK'
  BY <1>10, <1>11, <1>12 DEF DimmingLoop
<1>25. Registry => TypeOK'
  BY <1>13, <1>14, <1>15, <1>16, <1>21a DEF Registry, Delete, WipeAll
<1>26. Environment => TypeOK'
  BY <1>17, <1>18, <1>19, <1>20, <1>21 DEF Environment
<1> QED
  BY <1>22, <1>23, <1>24, <1>25, <1>26 DEF Next

(* Whatever operators, loops and the broker do, in whatever order, every    *)
(* variable of the command plane keeps its type; in particular the modes of *)
(* a cabinet stay within the four the API accepts and a commanded level     *)
(* within 0..100.                                                           *)
THEOREM TypeCorrect == Spec => []TypeOK
<1>1. Init => TypeOK
  BY ModesAssumption DEF Init, TypeOK, Row, Modes, Scheduler, Request, Command, Levels,
                         PowerOnLamp
<1>2. TypeOK /\ [Next]_vars => TypeOK'
  BY TypeStep
<1> QED
  BY <1>1, <1>2, PTL DEF Spec

-----------------------------------------------------------------------------
(* The inductive strengthening of the two safety invariants.  The all-on    *)
(* writes its rows at the end from what it read at the start, so the proof  *)
(* must say what those old values are still good for.                       *)

Flagged(c) == row[c] # NoRow /\ row[c].pre # None
Forced(c) == Flagged(c) /\ row[c].mode = Manual /\ c \notin touched

(* What an all-on in flight read is still true of the tables: its rows are  *)
(* there, a mode it will remember was asked for, and a flag it saw is set.  *)
SeenHolds(seen) ==
  \A c \in Targets(seen) :
    /\ row[c] # NoRow
    /\ seen[c].pre = None => seen[c].mode \in asked[c]
    /\ seen[c].pre # None => row[c].pre # None

AllOnSees == \A r \in Requests : request[r].op = "allon" => SeenHolds(request[r].seen)

(* While an all-on is in flight nobody restores or schedules levels.        *)
AllOnAlone ==
  Running("allon") => scheduler \in {Asleep, Dead} /\ ~Running("clear")

(* The cabinets an all-on has dealt with are lit until someone acts.        *)
AllOnLit ==
  \A r \in Requests : request[r].op = "allon" =>
    \A c \in Targets(request[r].seen) \ (request[r].todo \cup touched) :
      c # request[r].at => Shown(c) = FullLight

(* A cycle or a clear in flight has no cabinet in emergency on its list.    *)
CycleSpares ==
  scheduler.pc \in Waits =>
    \A c \in Cabinets : Forced(c) /\ c \in scheduler.todo => scheduler.cfg[c] = Manual
ClearSpares ==
  \A r \in Requests : request[r].op = "clear" => \A c \in request[r].todo : ~Flagged(c)

ModesInv == TypeOK /\ NoModeFromNowhere /\ AllOnSees
LitInv == TypeOK /\ EmergencyLit /\ AllOnAlone /\ AllOnLit /\ CycleSpares /\ ClearSpares

-----------------------------------------------------------------------------
(* Most steps write rows only by setting a mode that is being asked for,    *)
(* and start no all-on: they keep ModesInv.                                 *)
LEMMA ModesKept ==
  ASSUME ModesInv, TypeOK',
         \A c \in Cabinets : asked[c] \subseteq asked'[c],
         \A c \in Cabinets :
           \/ row'[c] = row[c]
           \/ /\ row[c] # NoRow /\ row'[c] # NoRow
              /\ row'[c].pre = row[c].pre
              /\ row'[c].mode \in asked'[c],
         \A r \in Requests : request'[r].op = "allon" =>
           request[r].op = "allon" /\ request'[r].seen = request[r].seen
  PROVE  ModesInv'
<1>1. NoModeFromNowhere'
  BY DEF ModesInv, NoModeFromNowhere, Registered
<1>2. AllOnSees'
  <2> SUFFICES ASSUME NEW r \in Requests, request'[r].op = "allon",
                      NEW c \in Targets(request[r].seen)
               PROVE  /\ row'[c] # NoRow
                      /\ request[r].seen[c].pre = None =>
                           request[r].seen[c].mode \in asked'[c]
                      /\ request[r].seen[c].pre # None => row'[c].pre # None
    BY DEF AllOnSees, SeenHolds, Targets
  <2>1. c \in Cabinets
    BY DEF Targets
  <2> QED
    BY <2>1 DEF ModesInv, AllOnSees, SeenHolds
<1> QED
  BY <1>1, <1>2 DEF ModesInv

(* The commit of an all-on remembers a mode that was asked for, and leaves  *)
(* what every other all-on read as good as it was.                          *)
LEMMA AllOnKeepsModes ==
  ASSUME ModesInv, TypeOK', NEW r \in Requests, NEW done \in SUBSET Cabinets,
         NEW todo \in SUBSET Cabinets, NEW seen \in [Cabinets -> Row \cup {NoRow}],
         SeenHolds(seen), AllOnGoOn(r, done, todo, seen), asked' = asked
  PROVE  ModesInv'
<1> USE DEF ModesInv
<1>1. CASE AllOnCommit(seen) /\ EndRequest(r)
  <2>1. ASSUME NEW c \in Cabinets, row'[c] # row[c]
        PROVE  /\ row[c] # NoRow /\ row'[c] # NoRow
               /\ row'[c].pre # None
               /\ row'[c].pre \in asked[c]
    <3>1. /\ c \in Targets(seen) /\ Writable(row[c], seen[c])
          /\ row'[c] = Flushed(row[c], seen[c], Emergency(seen[c]))
      BY <1>1, <2>1 DEF AllOnCommit, Targets, TypeOK
    <3>2. row[c] \in Row /\ seen[c] \in Row
      BY <3>1 DEF Writable, Targets, TypeOK
    <3>3. Emergency(seen[c]) \in Row
      BY <3>2 DEF Emergency, Row, Modes
    <3>4. /\ row'[c] \in Row
          /\ row'[c].pre = IF Emergency(seen[c]).pre # seen[c].pre
                           THEN Emergency(seen[c]).pre ELSE row[c].pre
      BY <3>1, <3>2, <3>3, FlushType
    <3>5. Emergency(seen[c]).pre = IF seen[c].pre = None THEN seen[c].mode ELSE seen[c].pre
      BY <3>2 DEF Emergency, Row
    <3>6. CASE seen[c].pre = None
      <4>1. seen[c].mode \in Modes /\ seen[c].mode # None
        BY <3>2, NoneAssumption DEF Row
      <4>2. row'[c].pre = seen[c].mode
        BY <3>4, <3>5, <3>6, <4>1
      <4> QED
        BY <3>1, <3>2, <3>4, <3>6, <4>1, <4>2, NoRowAssumption DEF SeenHolds
    <3>7. CASE seen[c].pre # None
      <4>1. row'[c].pre = row[c].pre /\ row[c].pre # None
        BY <3>1, <3>4, <3>5, <3>7 DEF SeenHolds
      <4>2. row[c].pre \in asked[c]
        BY <3>2, <4>1, NoRowAssumption DEF NoModeFromNowhere, Registered
      <4> QED
        BY <3>2, <3>4, <4>1, <4>2, NoRowAssumption
    <3> QED
      BY <3>6, <3>7
  <2>2. NoModeFromNowhere'
    BY <2>1 DEF NoModeFromNowhere, Registered
  <2>3. AllOnSees'
    <3> SUFFICES ASSUME NEW q \in Requests, request[q].op = "allon",
                        NEW c \in Targets(request[q].seen)
                 PROVE  /\ row'[c] # NoRow
                        /\ request[q].seen[c].pre = None =>
                             request[q].seen[c].mode \in asked[c]
                        /\ request[q].seen[c].pre # None => row'[c].pre # None
      BY <1>1 DEF AllOnSees, SeenHolds, Targets, EndRequest, Idle, TypeOK
    <3>1. c \in Cabinets
      BY DEF Targets
    <3> QED
      BY <2>1, <3>1 DEF AllOnSees, SeenHolds
  <2> QED
    BY <2>2, <2>3
<1>2. ASSUME NEW c \in todo, AllOnPublish(r, c, "relay", "on", todo \ {c}, seen),
             UNCHANGED row
      PROVE  ModesInv'
  <2>1. NoModeFromNowhere'
    BY <1>2 DEF NoModeFromNowhere, Registered
  <2>2. \A q \in Requests : request'[q].op = "allon" =>
          \/ request'[q].seen = seen
          \/ request[q].op = "allon" /\ request'[q].seen = request[q].seen
    BY <1>2 DEF AllOnPublish, TypeOK
  <2>3. AllOnSees'
    BY <1>2, <2>2 DEF AllOnSees, SeenHolds, Targets
  <2> QED
    BY <2>1, <2>3
<1> QED
  BY <1>1, <1>2 DEF AllOnGoOn

(* /dim only ever writes the manual mode it was asked for.                  *)
LEMMA TakeControlModes ==
  ASSUME TypeOK, NEW c \in Cabinets, NEW level, NEW seen \in Row,
         TakeControl(c, level, seen)
  PROVE  /\ \A d \in Cabinets : asked[d] \subseteq asked'[d]
         /\ \A d \in Cabinets :
              \/ row'[d] = row[d]
              \/ /\ row[d] # NoRow /\ row'[d] # NoRow
                 /\ row'[d].pre = row[d].pre
                 /\ row'[d].mode \in asked'[d]
<1> DEFINE want == [seen EXCEPT !.mode = Manual]
<1>1. want \in Row /\ want.mode = Manual /\ want.pre = seen.pre
  BY DEF Row, Modes
<1>2. asked' = [asked EXCEPT ![c] = @ \cup {Manual}]
  BY DEF TakeControl
<1>3. CASE Changed(seen, want) /\ Writable(row[c], seen)
  <2>1. row[c] \in Row /\ row[c] # NoRow
    BY <1>3 DEF Writable, TypeOK
  <2>2. row' = [row EXCEPT ![c] = Flushed(row[c], seen, want)]
    BY <1>3 DEF TakeControl
  <2>3. seen.mode # Manual
    BY <1>1, <1>3 DEF Changed
  <2>4. /\ row'[c] \in Row /\ row'[c].pre = row[c].pre /\ row'[c].mode = Manual
        /\ \A d \in Cabinets \ {c} : row'[d] = row[d]
    <3> HIDE DEF want
    <3> QED
      BY <1>1, <2>1, <2>2, <2>3, FlushType DEF TypeOK
  <2> QED
    BY <1>2, <2>1, <2>4, NoRowAssumption DEF TypeOK
<1>4. CASE ~(Changed(seen, want) /\ Writable(row[c], seen))
  BY <1>2, <1>4 DEF TakeControl, TypeOK
<1> QED
  BY <1>3, <1>4

(* A clear in progress moves only itself, on or to its end.                 *)
LEMMA ClearGoOnOwn ==
  ASSUME TypeOK, NEW r \in Requests, NEW todo, NEW modes, ClearGoOn(r, todo, modes)
  PROVE  /\ \A q \in Requests \ {r} : request'[q] = request[q]
         /\ \/ request'[r].op = "idle"
            \/ request'[r].op = "clear" /\ request'[r].todo \subseteq todo
BY DEF ClearGoOn, EndRequest, Idle, TypeOK

(* A broken connection touches only the acknowledgements.                   *)
LEMMA BreakKeepsRequests ==
  ASSUME TypeOK, LinkBreaks, NEW r \in Requests
  PROVE  /\ request'[r].op = request[r].op
         /\ request[r].op = "allon" =>
              /\ request'[r].at = request[r].at
              /\ request'[r].todo = request[r].todo
              /\ request'[r].seen = request[r].seen
         /\ request[r].op = "clear" => request'[r].todo = request[r].todo
<1>1. PICK gone \in SUBSET {q \in Requests : ~Free(q)} :
        request' = [q \in Requests |-> IF q \in gone
                                       THEN [request[q] EXCEPT !.wait = "lost"]
                                       ELSE request[q]]
  BY DEF LinkBreaks
<1>2. CASE r \in gone
  <2>1. request'[r] = [request[r] EXCEPT !.wait = "lost"]
    BY <1>1, <1>2
  <2>2. request[r] \in Request
    BY DEF TypeOK
  <2>3. CASE request[r] \in AllOnRequest
    BY <2>1, <2>3 DEF AllOnRequest
  <2>4. CASE request[r] \in ClearRequest
    BY <2>1, <2>4 DEF ClearRequest
  <2>5. CASE request[r] \in DimRequest
    BY <2>1, <2>5 DEF DimRequest
  <2>6. CASE request[r] \in RelayRequest
    BY <2>1, <2>6 DEF RelayRequest
  <2>7. request[r] # Idle
    BY <1>2 DEF Free, Idle
  <2> QED
    BY <2>2, <2>3, <2>4, <2>5, <2>6, <2>7 DEF Request
<1>3. CASE r \notin gone
  BY <1>1, <1>3
<1> QED
  BY <1>2, <1>3

LEMMA ModesStep ==
  ASSUME Orderly = TRUE, ModesInv, [Next]_vars
  PROVE  ModesInv'
<1>1. TypeOK /\ TypeOK'
  BY TypeStep DEF ModesInv
<1>2. ASSUME NEW r \in Requests, NEW c \in Cabinets, NEW level \in DimLevels,
             SetDim(r, c, level)
      PROVE  ModesInv'
  <2>1. CASE link = "none"
    <3>1. TakeControl(c, level, row[c]) /\ UNCHANGED request /\ row[c] \in Row
      BY <1>1, <1>2, <2>1 DEF SetDim, Registered, TypeOK
    <3> QED
      BY <1>1, <3>1, TakeControlModes, ModesKept
  <2>2. CASE link # "none"
    BY <1>1, <1>2, <2>2, ModesKept DEF SetDim, TypeOK
  <2> QED
    BY <2>1, <2>2
<1>3. ASSUME NEW r \in Requests, NEW c \in Cabinets, NEW state \in RelayStates,
             SetRelay(r, c, state)
      PROVE  ModesInv'
  BY <1>1, <1>3, ModesKept DEF SetRelay, TypeOK, hardware
<1>4. ASSUME NEW r \in Requests, NEW scope \in (SUBSET Cabinets) \ {{}}, AllOn(r, scope)
      PROVE  ModesInv'
  <2> DEFINE seen == [c \in Cabinets |-> IF c \in scope THEN row[c] ELSE NoRow]
  <2>1. /\ seen \in [Cabinets -> Row \cup {NoRow}] /\ Targets(seen) \in SUBSET Cabinets
        /\ {} \in SUBSET Cabinets
    BY <1>1 DEF Targets, TypeOK
  <2>2. AllOnGoOn(r, {}, Targets(seen), seen) /\ asked' = asked
    BY <1>4 DEF AllOn
  <2>3. SeenHolds(seen)
    BY DEF SeenHolds, Targets, ModesInv, NoModeFromNowhere, Registered
  <2> HIDE DEF seen
  <2> QED
    BY <1>1, <2>1, <2>2, <2>3, AllOnKeepsModes
<1>5. ASSUME NEW r \in Requests, NEW scope \in (SUBSET Cabinets) \ {{}}, Clear(r, scope)
      PROVE  ModesInv'
  <2>1. \A q \in Requests : request[q].op # "allon"
    BY <1>5 DEF Clear, NoAllOn, Running
  <2>2. \A q \in Requests : request'[q].op # "allon"
    BY <1>1, <1>5, <2>1, ClearGoOnOwn DEF Clear
  <2>3. \A c \in Cabinets :
          \/ row'[c] = row[c]
          \/ /\ row[c] # NoRow /\ row[c].pre # None
             /\ row'[c].mode = row[c].pre /\ row'[c].pre = None
    <3>1. ASSUME NEW c \in InEmergency(scope)
          PROVE  /\ row[c] \in Row /\ row[c] # NoRow /\ row[c].pre # None
                 /\ [row[c] EXCEPT !.mode = row[c].pre, !.pre = None].mode = row[c].pre
                 /\ [row[c] EXCEPT !.mode = row[c].pre, !.pre = None].pre = None
      BY <1>1 DEF InEmergency, Registered, TypeOK, Row
    <3>2. row' = [c \in Cabinets |-> IF c \in InEmergency(scope)
                                     THEN [row[c] EXCEPT !.mode = row[c].pre, !.pre = None]
                                     ELSE row[c]]
      BY <1>5 DEF Clear
    <3> QED
      BY <3>1, <3>2
  <2>4. NoModeFromNowhere'
    BY <1>5, <2>3 DEF ModesInv, NoModeFromNowhere, Registered, Clear
  <2>5. AllOnSees'
    BY <2>2 DEF AllOnSees
  <2> QED
    BY <1>1, <2>4, <2>5 DEF ModesInv
<1>6. ASSUME NEW r \in Requests, DimAcked(r)
      PROVE  ModesInv'
  <2>1. request[r] \in DimRequest
    BY <1>1, <1>6 DEF DimAcked, Waiting, TypeOK, Request, Idle, DimRequest, RelayRequest,
                AllOnRequest, ClearRequest
  <2>2. request[r].at \in Cabinets /\ request[r].seen \in Row
    BY <2>1 DEF DimRequest
  <2>3. TakeControl(request[r].at, request[r].level, request[r].seen)
    BY <1>6 DEF DimAcked
  <2>4. \A q \in Requests : request'[q].op = "allon" =>
          request[q].op = "allon" /\ request'[q].seen = request[q].seen
    BY <1>1, <1>6 DEF DimAcked, EndRequest, Idle, TypeOK
  <2> QED
    BY <1>1, <2>2, <2>3, <2>4, TakeControlModes, ModesKept
<1>7. ASSUME NEW r \in Requests, RelayAcked(r) \/ RequestFails(r)
      PROVE  ModesInv'
  BY <1>1, <1>7, ModesKept DEF RelayAcked, RequestFails, EndRequest, Idle, TypeOK, hardware
<1>8. ASSUME NEW r \in Requests, AllOnAcked(r)
      PROVE  ModesInv'
  <2>1. request[r] \in AllOnRequest
    BY <1>1, <1>8 DEF AllOnAcked, Waiting, TypeOK, Request, Idle, DimRequest, RelayRequest,
                AllOnRequest, ClearRequest
  <2>2. /\ {request[r].at} \in SUBSET Cabinets
        /\ request[r].todo \in SUBSET Cabinets
        /\ request[r].seen \in [Cabinets -> Row \cup {NoRow}]
    BY <2>1 DEF AllOnRequest
  <2>3. SeenHolds(request[r].seen) /\ asked' = asked
    BY <1>8 DEF ModesInv, AllOnSees, AllOnAcked, Waiting
  <2>4. CASE request[r].topic = "relay" /\ link # "none"
    BY <1>1, <1>8, <2>1, <2>4, ModesKept
       DEF AllOnAcked, AllOnPublish, AllOnRequest, Waiting, TypeOK
  <2>5. CASE ~(request[r].topic = "relay" /\ link # "none")
    <3>1. AllOnGoOn(r, {request[r].at}, request[r].todo, request[r].seen)
      BY <1>8, <2>5 DEF AllOnAcked
    <3> QED
      BY <1>1, <2>2, <2>3, <3>1, AllOnKeepsModes
  <2> QED
    BY <2>4, <2>5
<1>9. ASSUME NEW r \in Requests, ClearAcked(r)
      PROVE  ModesInv'
  <2>1. \A q \in Requests : request'[q].op = "allon" =>
          request[q].op = "allon" /\ request'[q].seen = request[q].seen
    BY <1>1, <1>9, ClearGoOnOwn DEF ClearAcked
  <2> QED
    BY <1>1, <1>9, <2>1, ModesKept DEF ClearAcked
<1>10. CASE DimmingLoop
  BY <1>1, <1>10, ModesKept DEF DimmingLoop, WakeUp, CycleAcked, CycleFails
<1>11. ASSUME NEW c \in Cabinets, NEW mode \in Modes, SetMode(c, mode) \/ PatchMode(c, mode)
       PROVE  ModesInv'
  <2>1. row[c] \in Row /\ row[c] # NoRow
    BY <1>1, <1>11 DEF SetMode, PatchMode, Registered, TypeOK
  <2>2. row' = [row EXCEPT ![c] = [row[c] EXCEPT !.mode = mode]]
    BY <1>11 DEF SetMode, PatchMode
  <2>3. [row[c] EXCEPT !.mode = mode] \in Row
    BY <2>1 DEF Row
  <2>4. /\ row'[c] # NoRow /\ row'[c].pre = row[c].pre /\ row'[c].mode = mode
        /\ \A d \in Cabinets \ {c} : row'[d] = row[d]
    BY <1>1, <2>1, <2>2, <2>3, NoRowAssumption DEF TypeOK, Row
  <2>5. asked' = [asked EXCEPT ![c] = @ \cup {mode}] /\ UNCHANGED request
    BY <1>11 DEF SetMode, PatchMode
  <2> QED
    BY <1>1, <2>1, <2>4, <2>5, ModesKept DEF TypeOK
<1>12. ASSUME NEW c \in Cabinets, NEW id \in RowIds, Create(c, id)
       PROVE  ModesInv'
  <2>1. NoModeFromNowhere'
    BY <1>1, <1>12, ModesAssumption
       DEF Create, ModesInv, NoModeFromNowhere, Registered, TypeOK
  <2>2. AllOnSees'
    <3>1. \A r \in Requests : request[r].op = "allon" => c \notin Targets(request[r].seen)
      BY <1>12 DEF Create, ModesInv, AllOnSees, SeenHolds
    <3> QED
      BY <1>1, <1>12, <3>1 DEF Create, ModesInv, AllOnSees, SeenHolds, Targets, TypeOK
  <2> QED
    BY <1>1, <2>1, <2>2 DEF ModesInv
<1>13. ASSUME NEW cs \in SUBSET Cabinets, Forget(cs)
       PROVE  ModesInv'
  <2>1. \A q \in Requests : request'[q].op # "allon"
    BY <1>13 DEF Forget, NoAllOn, Running
  <2> QED
    BY <1>1, <1>13, <2>1 DEF Forget, ModesInv, NoModeFromNowhere, AllOnSees, Registered
<1>13a. ASSUME NEW cs \in SUBSET Cabinets, CleanUp(cs)
       PROVE  ModesInv'
  BY <1>1, <1>13a, ModesKept DEF CleanUp, hardware
<1>14. ASSUME NEW c \in Cabinets,
              Heard(c) \/ DemoTick(c) \/ DeviceDrops(c) \/ DeviceJoins(c)
       PROVE  ModesInv'
  BY <1>1, <1>14, ModesKept DEF Heard, DemoTick, DeviceDrops, DeviceJoins, hardware
<1>15. CASE Connect \/ LinkLost \/ UNCHANGED vars
  BY <1>1, <1>15, ModesKept DEF Connect, LinkLost, hardware, vars
<1>16. CASE LinkBreaks
  <2>1. \A r \in Requests : request'[r].op = "allon" =>
          request[r].op = "allon" /\ request'[r].seen = request[r].seen
    BY <1>1, <1>16, BreakKeepsRequests
  <2> QED
    BY <1>1, <1>16, <2>1, ModesKept DEF LinkBreaks
<1>17. CASE Restart
  BY <1>1, <1>17, ModesKept DEF Restart, Idle
<1>18. \A r \in Requests : Operator(r) \/ Resumed(r) => ModesInv'
  BY <1>2, <1>3, <1>4, <1>5, <1>6, <1>7, <1>8, <1>9 DEF Operator, Resumed
<1>19. Registry => ModesInv'
  BY <1>11, <1>12, <1>13, <1>13a DEF Registry, Delete, WipeAll
<1>20. Environment => ModesInv'
  BY <1>14, <1>15, <1>16, <1>17 DEF Environment
<1> QED
  BY <1>10, <1>15, <1>18, <1>19, <1>20 DEF Next

(* When commands do not overlap with an emergency request, no sequence of   *)
(* emergencies, partial clears, failed publishes, deletions and restarts    *)
(* ever leaves a cabinet with a mode that nobody asked for.                 *)
THEOREM ModesAreAsked ==
  ASSUME Orderly = TRUE
  PROVE  Spec => []NoModeFromNowhere
<1>1. Init => ModesInv
  <2>1. Init => TypeOK
    BY ModesAssumption DEF Init, TypeOK, Row, Modes, Scheduler, Request, Command, Levels,
                           PowerOnLamp
  <2>2. Init => NoModeFromNowhere /\ AllOnSees
    BY DEF Init, NoModeFromNowhere, AllOnSees, Registered, Idle
  <2> QED
    BY <2>1, <2>2 DEF ModesInv
<1>2. ModesInv /\ [Next]_vars => ModesInv'
  BY ModesStep
<1>3. ModesInv => NoModeFromNowhere
  BY DEF ModesInv
<1> QED
  BY <1>1, <1>2, <1>3, PTL DEF Spec

-----------------------------------------------------------------------------
(* Most steps set no flag and take nobody's word back; a level they change  *)
(* is that of a cabinet which they mark as touched, or goes back to full    *)
(* light.  They keep LitInv.                                                *)
LEMMA LitKept ==
  ASSUME LitInv, TypeOK',
         \A c \in Cabinets : Flagged(c)' => Flagged(c),
         \A c \in Cabinets : Forced(c)' => Forced(c),
         \A c \in Cabinets \ touched' :
           c \notin touched /\ Shown(c)' \in {Shown(c), FullLight},
         \/ scheduler' \in {Asleep, Dead}
         \/ /\ scheduler.pc \in Waits /\ scheduler'.cfg = scheduler.cfg
            /\ scheduler'.todo = scheduler.todo,
         \A r \in Requests : request'[r].op = "allon" =>
           /\ request[r].op = "allon"
           /\ request'[r].at = request[r].at
           /\ request'[r].todo = request[r].todo
           /\ request'[r].seen = request[r].seen,
         \A r \in Requests : request'[r].op = "clear" =>
           request[r].op = "clear" /\ request'[r].todo = request[r].todo
  PROVE  LitInv'
<1> USE DEF LitInv
<1>1. EmergencyLit'
  BY DEF EmergencyLit, Registered, Forced, Flagged
<1>2. AllOnAlone'
  BY DEF AllOnAlone, Running, Waits, Asleep, Dead
<1>3. AllOnLit'
  <2> SUFFICES ASSUME NEW r \in Requests, request'[r].op = "allon",
                      NEW c \in Targets(request[r].seen)
                                 \ (request[r].todo \cup touched'),
                      c # request[r].at
               PROVE  Shown(c)' = FullLight
    BY DEF AllOnLit, Targets
  <2>1. c \in Cabinets \ touched'
    BY DEF Targets
  <2> QED
    BY <2>1 DEF AllOnLit
<1>4. CycleSpares'
  BY DEF CycleSpares, Waits, Asleep, Dead
<1>5. ClearSpares'
  <2> SUFFICES ASSUME NEW r \in Requests, request'[r].op = "clear",
                      NEW c \in request[r].todo
               PROVE  ~Flagged(c)'
    BY DEF ClearSpares
  <2>1. c \in Cabinets
    BY DEF TypeOK, Request, Idle, DimRequest, RelayRequest, AllOnRequest, ClearRequest
  <2> QED
    BY <2>1 DEF ClearSpares
<1> QED
  BY <1>1, <1>2, <1>3, <1>4, <1>5

(* A step of the loop or of a clear that writes only levels.                *)
LEMMA LevelsKeepLit ==
  ASSUME LitInv, TypeOK', UNCHANGED row, touched \subseteq touched',
         \A r \in Requests : request[r].op # "allon" /\ request'[r].op # "allon",
         \A c \in Cabinets \ touched' : Forced(c) => cmd'[c] = cmd[c],
         CycleSpares', ClearSpares'
  PROVE  LitInv'
BY DEF LitInv, EmergencyLit, AllOnAlone, AllOnLit, Registered, Forced, Flagged, Shown, Running

LEMMA CycleKeepsLit ==
  ASSUME LitInv, TypeOK', NEW todo \in SUBSET Cabinets, NEW cfg \in [Cabinets -> Modes],
         CycleGoOn(todo, cfg), UNCHANGED <<row, request>>, touched \subseteq touched',
         \A r \in Requests : request[r].op # "allon",
         \A c \in todo \ touched' : Forced(c) => cfg[c] = Manual
  PROVE  LitInv'
<1>1. \A c \in Cabinets \ touched' : Forced(c) => cmd'[c] = cmd[c]
  <2> SUFFICES ASSUME NEW c \in Cabinets \ touched', Forced(c)
               PROVE  cmd'[c] = cmd[c]
    OBVIOUS
  <2>1. c \notin {d \in todo : cfg[d] # Manual}
    OBVIOUS
  <2> QED
    BY <2>1 DEF CycleGoOn, LitInv, TypeOK
<1>2. CycleSpares'
  BY DEF CycleGoOn, CycleSpares, Forced, Flagged, Asleep, Waits
<1>3. ClearSpares'
  BY DEF LitInv, ClearSpares, Flagged
<1> QED
  BY <1>1, <1>2, <1>3, LevelsKeepLit

LEMMA AllOnKeepsLit ==
  ASSUME LitInv, TypeOK', NEW r \in Requests, NEW done \in SUBSET Cabinets,
         NEW todo \in SUBSET Cabinets, NEW seen \in [Cabinets -> Row \cup {NoRow}],
         AllOnGoOn(r, done, todo, seen), UNCHANGED scheduler,
         \A q \in Requests : request[q].op # "clear",
         scheduler \in {Asleep, Dead},
         \A c \in Targets(seen) \ (todo \cup done \cup touched) : Shown(c) = FullLight
  PROVE  LitInv'
<1> USE DEF LitInv
<1>1. \A q \in Requests \ {r} : request'[q] = request[q]
  BY DEF AllOnGoOn, AllOnPublish, EndRequest, TypeOK
<1>2. \/ request'[r].op = "idle"
      \/ /\ request'[r].op = "allon" /\ request'[r].seen = seen
         /\ request'[r].at \in todo
         /\ request'[r].todo = todo \ {request'[r].at}
         /\ cmd' = Lit(done) /\ touched' = touched \ done
  BY DEF AllOnGoOn, AllOnPublish, EndRequest, Idle, TypeOK
<1>3. \A c \in Cabinets \ touched' :
        \/ Shown(c)' = FullLight
        \/ c \notin touched /\ Shown(c)' = Shown(c)
  BY DEF AllOnGoOn, Lit, Shown
<1>4. EmergencyLit'
  <2> SUFFICES ASSUME NEW c \in Cabinets \ touched', Flagged(c)', row'[c].mode = Manual
               PROVE  Shown(c)' = FullLight
    BY DEF EmergencyLit, Registered, Flagged
  <2>1. CASE row'[c] = row[c]
    BY <1>3, <2>1 DEF EmergencyLit, Registered, Flagged
  <2>2. CASE row'[c] # row[c]
    <3>1. /\ c \in Targets(seen)
          /\ cmd' = Lit(done \cup todo) /\ touched' = touched \ (done \cup todo)
      BY <2>2 DEF AllOnGoOn, AllOnCommit, TypeOK
    <3> QED
      BY <3>1 DEF Lit, Shown
  <2> QED
    BY <2>1, <2>2
<1>5. AllOnAlone'
  BY <1>1, <1>2 DEF AllOnAlone, Running
<1>6. AllOnLit'
  <2> SUFFICES ASSUME NEW q \in Requests, request'[q].op = "allon",
                      NEW c \in Targets(request'[q].seen)
                                 \ (request'[q].todo \cup touched'),
                      c # request'[q].at
               PROVE  Shown(c)' = FullLight
    BY DEF AllOnLit, Targets
  <2>1. c \in Cabinets
    BY DEF Targets
  <2>2. CASE q # r
    BY <1>1, <1>3, <2>1, <2>2 DEF AllOnLit
  <2>3. CASE q = r
    BY <1>2, <1>3, <2>1, <2>3 DEF Lit, Shown
  <2> QED
    BY <2>2, <2>3
<1>7. CycleSpares'
  BY DEF CycleSpares, Waits, Asleep, Dead
<1>8. ClearSpares'
  BY <1>1, <1>2 DEF ClearSpares
<1> QED
  BY <1>4, <1>5, <1>6, <1>7, <1>8

(* /dim touches the cabinet it moves and leaves the flags alone.            *)
LEMMA TakeControlLit ==
  ASSUME TypeOK, NEW c \in Cabinets, NEW level, NEW seen \in Row,
         TakeControl(c, level, seen)
  PROVE  /\ \A d \in Cabinets : Flagged(d)' => Flagged(d)
         /\ \A d \in Cabinets : Forced(d)' => Forced(d)
         /\ \A d \in Cabinets \ touched' : d \notin touched /\ Shown(d)' = Shown(d)
<1>1. \A d \in Cabinets : \/ row'[d] = row[d]
                          \/ row[d] # NoRow /\ row'[d].pre = row[d].pre
  BY TakeControlModes
<1>2. touched' = touched \cup {c} /\ \A d \in Cabinets \ {c} : cmd'[d] = cmd[d]
  BY DEF TakeControl, TypeOK
<1>3. \A d \in Cabinets \ {c} : row'[d] = row[d]
  BY DEF TakeControl, TypeOK
<1> QED
  BY <1>1, <1>2, <1>3 DEF Flagged, Forced, Shown

LEMMA LitStep ==
  ASSUME Orderly = TRUE, "demo" \notin Events, LitInv, [Next]_vars
  PROVE  LitInv'
<1>1. TypeOK /\ TypeOK'
  BY TypeStep DEF LitInv
<1>2. Asleep.pc \notin Waits /\ Dead.pc \notin Waits
  BY DEF Asleep, Dead, Waits
<1>3. scheduler \in {Asleep, Dead} \/ scheduler.pc \in Waits
  BY <1>1 DEF TypeOK, Scheduler
<1>4. ASSUME NEW r \in Requests, NEW c \in Cabinets, NEW level \in DimLevels,
             SetDim(r, c, level)
      PROVE  LitInv'
  <2>1. CASE link = "none"
    <3>1. TakeControl(c, level, row[c]) /\ UNCHANGED <<request, scheduler>> /\ row[c] \in Row
      BY <1>1, <1>4, <2>1 DEF SetDim, Registered, TypeOK
    <3> QED
      BY <1>1, <1>3, <3>1, TakeControlLit, LitKept
  <2>2. CASE link # "none"
    BY <1>1, <1>3, <1>4, <2>2, LitKept DEF SetDim, TypeOK, Flagged, Forced, Shown
  <2> QED
    BY <2>1, <2>2
<1>5. ASSUME NEW r \in Requests, NEW c \in Cabinets, NEW state \in RelayStates,
             SetRelay(r, c, state)
      PROVE  LitInv'
  BY <1>1, <1>3, <1>5, LitKept DEF SetRelay, TypeOK, hardware, Flagged, Forced, Shown
<1>6. ASSUME NEW r \in Requests, NEW scope \in (SUBSET Cabinets) \ {{}}, AllOn(r, scope)
      PROVE  LitInv'
  <2> DEFINE seen == [c \in Cabinets |-> IF c \in scope THEN row[c] ELSE NoRow]
  <2>1. /\ seen \in [Cabinets -> Row \cup {NoRow}] /\ Targets(seen) \in SUBSET Cabinets
        /\ {} \in SUBSET Cabinets
    BY <1>1 DEF Targets, TypeOK
  <2>2. AllOnGoOn(r, {}, Targets(seen), seen) /\ UNCHANGED scheduler
    BY <1>6 DEF AllOn
  <2>3. scheduler \in {Asleep, Dead} /\ \A q \in Requests : request[q].op # "clear"
    BY <1>6 DEF AllOn, OnlyCommands, Running
  <2> HIDE DEF seen
  <2> QED
    BY <1>1, <2>1, <2>2, <2>3, AllOnKeepsLit
<1>7. ASSUME NEW r \in Requests, NEW scope \in (SUBSET Cabinets) \ {{}}, Clear(r, scope)
      PROVE  LitInv'
  <2> DEFINE flagged == InEmergency(scope)
             modes == [c \in Cabinets |-> IF c \in flagged THEN row[c].pre ELSE Manual]
             cleared == [c \in Cabinets |-> IF c \in flagged
                                      THEN [row[c] EXCEPT !.mode = row[c].pre, !.pre = None]
                                      ELSE row[c]]
  <2>1. flagged \in SUBSET Cabinets
    BY DEF InEmergency, Registered
  <2>2. \A q \in Requests : request[q].op # "allon"
    BY <1>7 DEF Clear, NoAllOn, Running
  <2>3. row' = cleared /\ ClearGoOn(r, flagged, modes) /\ UNCHANGED <<scheduler, touched>>
    BY <1>7 DEF Clear
  <2>4. \A c \in flagged : cleared[c].pre = None
    BY <1>1, <2>1 DEF InEmergency, Registered, TypeOK, Row
  <2>5. \A c \in Cabinets \ flagged : cleared[c] = row[c]
    OBVIOUS
  <2> HIDE DEF flagged, modes, cleared
  <2>6. \A c \in Cabinets : Flagged(c)' => Flagged(c) /\ c \notin flagged /\ row'[c] = row[c]
    BY <2>1, <2>3, <2>4, <2>5 DEF Flagged
  <2>7. /\ \A q \in Requests \ {r} : request'[q] = request[q]
        /\ \/ request'[r].op = "idle"
           \/ request'[r].op = "clear" /\ request'[r].todo \subseteq flagged
    BY <1>1, <2>3, ClearGoOnOwn
  <2>8. \A c \in Cabinets \ flagged : cmd'[c] = cmd[c]
    BY <1>1, <2>3 DEF ClearGoOn, TypeOK
  <2>9. EmergencyLit'
    BY <2>3, <2>6, <2>8 DEF LitInv, EmergencyLit, Registered, Flagged, Shown
  <2>10. AllOnAlone' /\ AllOnLit'
    BY <2>2, <2>7 DEF AllOnAlone, AllOnLit, Running
  <2>11. CycleSpares'
    BY <2>3, <2>6 DEF LitInv, CycleSpares, Forced, Flagged
  <2>12. ClearSpares'
    <3> SUFFICES ASSUME NEW q \in Requests, request'[q].op = "clear",
                        NEW c \in request'[q].todo
                 PROVE  ~Flagged(c)'
      BY DEF ClearSpares
    <3>1. CASE q = r
      BY <2>1, <2>6, <2>7, <3>1
    <3>2. CASE q # r
      <4>1. c \in Cabinets /\ ~Flagged(c)
        BY <1>1, <2>7, <3>2 DEF LitInv, ClearSpares, TypeOK, Request, Idle, DimRequest,
                                RelayRequest, AllOnRequest, ClearRequest
      <4> QED
        BY <2>6, <4>1
    <3> QED
      BY <3>1, <3>2
  <2> QED
    BY <1>1, <2>9, <2>10, <2>11, <2>12 DEF LitInv
<1>8. ASSUME NEW r \in Requests, DimAcked(r)
      PROVE  LitInv'
  <2>1. request[r] \in DimRequest
    BY <1>1, <1>8 DEF DimAcked, Waiting, TypeOK, Request, Idle, DimRequest, RelayRequest,
                AllOnRequest, ClearRequest
  <2>2. request[r].at \in Cabinets /\ request[r].seen \in Row
    BY <2>1 DEF DimRequest
  <2>3. TakeControl(request[r].at, request[r].level, request[r].seen) /\ UNCHANGED scheduler
    BY <1>8 DEF DimAcked
  <2>4. \A q \in Requests : request'[q] = request[q] \/ request'[q].op = "idle"
    BY <1>1, <1>8 DEF DimAcked, EndRequest, Idle, TypeOK
  <2> QED
    BY <1>1, <1>3, <2>2, <2>3, <2>4, TakeControlLit, LitKept
<1>9. ASSUME NEW r \in Requests, RelayAcked(r) \/ RequestFails(r)
      PROVE  LitInv'
  BY <1>1, <1>3, <1>9, LitKept
     DEF RelayAcked, RequestFails, EndRequest, Idle, TypeOK, hardware, Flagged, Forced, Shown
<1>10. ASSUME NEW r \in Requests, AllOnAcked(r)
       PROVE  LitInv'
  <2>1. request[r] \in AllOnRequest
    BY <1>1, <1>10 DEF AllOnAcked, Waiting, TypeOK, Request, Idle, DimRequest, RelayRequest,
                AllOnRequest, ClearRequest
  <2>2. /\ {request[r].at} \in SUBSET Cabinets
        /\ request[r].todo \in SUBSET Cabinets
        /\ request[r].seen \in [Cabinets -> Row \cup {NoRow}]
    BY <2>1 DEF AllOnRequest
  <2>3. /\ request[r].op = "allon" /\ UNCHANGED scheduler
        /\ scheduler \in {Asleep, Dead} /\ \A q \in Requests : request[q].op # "clear"
    BY <1>10 DEF AllOnAcked, Waiting, LitInv, AllOnAlone, Running
  <2>4. CASE request[r].topic = "relay" /\ link # "none"
    BY <1>1, <1>10, <2>1, <2>3, <2>4, LitKept
       DEF AllOnAcked, AllOnPublish, AllOnRequest, TypeOK, Flagged, Forced, Shown
  <2>5. CASE ~(request[r].topic = "relay" /\ link # "none")
    <3>1. AllOnGoOn(r, {request[r].at}, request[r].todo, request[r].seen)
      BY <1>10, <2>5 DEF AllOnAcked
    <3>2. \A c \in Targets(request[r].seen)
                     \ (request[r].todo \cup {request[r].at} \cup touched) :
            Shown(c) = FullLight
      BY <2>3 DEF LitInv, AllOnLit
    <3> QED
      BY <1>1, <2>2, <2>3, <3>1, <3>2, AllOnKeepsLit
  <2> QED
    BY <2>4, <2>5
<1>11. ASSUME NEW r \in Requests, ClearAcked(r)
       PROVE  LitInv'
  <2>1. request[r] \in ClearRequest
    BY <1>1, <1>11 DEF ClearAcked, Waiting, TypeOK, Request, Idle, DimRequest, RelayRequest,
                AllOnRequest, ClearRequest
  <2>2. /\ ClearGoOn(r, request[r].todo, request[r].modes)
        /\ UNCHANGED <<row, scheduler, touched>> /\ request[r].op = "clear"
    BY <1>11 DEF ClearAcked, Waiting
  <2>3. \A q \in Requests : request[q].op # "allon"
    BY <2>2 DEF LitInv, AllOnAlone, Running
  <2>4. /\ \A q \in Requests \ {r} : request'[q] = request[q]
        /\ \/ request'[r].op = "idle"
           \/ request'[r].op = "clear" /\ request'[r].todo \subseteq request[r].todo
    BY <1>1, <2>2, ClearGoOnOwn
  <2>5. \A c \in Cabinets : Forced(c) => cmd'[c] = cmd[c]
    <3>1. \A c \in Cabinets \ request[r].todo : cmd'[c] = cmd[c]
      BY <1>1, <2>2 DEF ClearGoOn, TypeOK
    <3> QED
      BY <2>2, <3>1 DEF LitInv, ClearSpares, Forced
  <2>6. CycleSpares'
    BY <2>2 DEF LitInv, CycleSpares, Forced, Flagged
  <2>7. ClearSpares'
    BY <2>2, <2>4 DEF LitInv, ClearSpares, Flagged
  <2> QED
    BY <1>1, <2>2, <2>3, <2>4, <2>5, <2>6, <2>7, LevelsKeepLit
<1>12. CASE WakeUp
  <2>1. /\ LoadedModes \in [Cabinets -> Modes] /\ NothingLoaded \in [Cabinets -> Modes]
        /\ known \in SUBSET Cabinets
    BY <1>1, ModesAssumption DEF LoadedModes, NothingLoaded, TypeOK, Row, Modes
  <2>2. \A c \in Cabinets : Forced(c) => LoadedModes[c] = Manual
    BY DEF Forced, Flagged, LoadedModes
  <2>3. /\ \A r \in Requests : request[r].op # "allon"
        /\ UNCHANGED <<row, request>>
    BY <1>12 DEF WakeUp, NoAllOn, Running
  <2>4. CASE CycleGoOn(known, LoadedModes) /\ UNCHANGED touched
    BY <1>1, <2>1, <2>2, <2>3, <2>4, CycleKeepsLit
  <2>5. CASE CycleGoOn(known, NothingLoaded) /\ touched' = touched \cup known
    BY <1>1, <2>1, <2>3, <2>5, CycleKeepsLit
  <2> QED
    BY <1>12, <2>4, <2>5 DEF WakeUp
<1>13. CASE CycleAcked
  <2>1. /\ scheduler.cfg \in [Cabinets -> Modes] /\ scheduler.todo \in SUBSET Cabinets
        /\ scheduler.pc \in Waits
    BY <1>1, <1>13 DEF CycleAcked, TypeOK, Scheduler, Asleep, Dead, Waits
  <2>2. \A r \in Requests : request[r].op # "allon"
    BY <1>2, <2>1 DEF LitInv, AllOnAlone, Running
  <2>3. \A c \in scheduler.todo \ touched' : Forced(c) => scheduler.cfg[c] = Manual
    BY <2>1 DEF LitInv, CycleSpares
  <2> QED
    BY <1>1, <1>13, <2>1, <2>2, <2>3, CycleKeepsLit DEF CycleAcked
<1>14. CASE CycleFails
  BY <1>1, <1>14, LitKept DEF CycleFails, hardware, Flagged, Forced, Shown
<1>15. ASSUME NEW c \in Cabinets, NEW mode \in Modes, SetMode(c, mode) \/ PatchMode(c, mode)
       PROVE  LitInv'
  <2>1. row[c] \in Row /\ row[c] # NoRow
    BY <1>1, <1>15 DEF SetMode, PatchMode, Registered, TypeOK
  <2>2. row' = [row EXCEPT ![c] = [row[c] EXCEPT !.mode = mode]]
    BY <1>15 DEF SetMode, PatchMode
  <2>3. row'[c].pre = row[c].pre /\ \A d \in Cabinets \ {c} : row'[d] = row[d]
    BY <1>1, <2>1, <2>2 DEF TypeOK, Row
  <2>4. touched' = touched \cup {c} /\ UNCHANGED <<request, scheduler>>
    BY <1>15 DEF SetMode, PatchMode
  <2>5. \A d \in Cabinets \ {c} : Shown(d)' = Shown(d)
    BY <1>1, <1>15 DEF SetMode, PatchMode, Shown, TypeOK
  <2> QED
    BY <1>1, <1>3, <2>1, <2>3, <2>4, <2>5, LitKept DEF Flagged, Forced
<1>16. ASSUME NEW c \in Cabinets, NEW id \in RowIds, Create(c, id)
       PROVE  LitInv'
  BY <1>1, <1>3, <1>16, LitKept DEF Create, hardware, Flagged, Forced, Shown, TypeOK
<1>17. ASSUME NEW cs \in SUBSET Cabinets, Forget(cs)
       PROVE  LitInv'
  BY <1>1, <1>3, <1>17, LitKept DEF Forget, hardware, Flagged, Forced, Shown, TypeOK
<1>17a. ASSUME NEW cs \in SUBSET Cabinets, CleanUp(cs)
       PROVE  LitInv'
  BY <1>1, <1>3, <1>17a, LitKept DEF CleanUp, hardware, Flagged, Forced, Shown, TypeOK
<1>18. ASSUME NEW c \in Cabinets, Heard(c) \/ DeviceDrops(c) \/ DeviceJoins(c)
       PROVE  LitInv'
  BY <1>1, <1>3, <1>18, LitKept
     DEF Heard, DeviceDrops, DeviceJoins, hardware, Flagged, Forced, Shown
<1>19. CASE Connect \/ LinkLost \/ UNCHANGED vars
  BY <1>1, <1>3, <1>19, LitKept DEF Connect, LinkLost, hardware, vars, Flagged, Forced, Shown
<1>20. CASE LinkBreaks
  <2>1. \/ scheduler' \in {Asleep, Dead}
        \/ /\ scheduler.pc \in Waits /\ scheduler'.cfg = scheduler.cfg
           /\ scheduler'.todo = scheduler.todo
    BY <1>1, <1>3, <1>20 DEF LinkBreaks, TypeOK, Scheduler, Waits
  <2>2. UNCHANGED <<row, cmd, touched>>
    BY <1>20 DEF LinkBreaks
  <2> QED
    BY <1>1, <1>20, <2>1, <2>2, BreakKeepsRequests, LitKept DEF Flagged, Forced, Shown
<1>21. CASE Restart
  BY <1>1, <1>21, LitKept DEF Restart, Idle, Flagged, Forced, Shown
<1>22. \A r \in Requests : Operator(r) \/ Resumed(r) => LitInv'
  BY <1>4, <1>5, <1>6, <1>7, <1>8, <1>9, <1>10, <1>11 DEF Operator, Resumed
<1>23. DimmingLoop => LitInv'
  BY <1>12, <1>13, <1>14 DEF DimmingLoop
<1>24. Registry => LitInv'
  BY <1>15, <1>16, <1>17, <1>17a DEF Registry, Delete, WipeAll
<1>25. Environment => LitInv'
  BY <1>18, <1>19, <1>20, <1>21 DEF Environment, DemoTick
<1> QED
  BY <1>19, <1>22, <1>23, <1>24, <1>25 DEF Next

(* When commands do not overlap with an emergency request, a cabinet in     *)
(* emergency that nobody has commanded since is recorded at full light,     *)
(* whatever the dimming loop, failed publishes and restarts do.             *)
THEOREM EmergencyStaysLit ==
  ASSUME Orderly = TRUE, "demo" \notin Events
  PROVE  Spec => []EmergencyLit
<1>1. Init => LitInv
  <2>1. Init => TypeOK
    BY ModesAssumption DEF Init, TypeOK, Row, Modes, Scheduler, Request, Command, Levels,
                           PowerOnLamp
  <2>2. Init => EmergencyLit /\ AllOnAlone /\ AllOnLit /\ CycleSpares /\ ClearSpares
    BY DEF Init, EmergencyLit, AllOnAlone, AllOnLit, CycleSpares, ClearSpares, Running,
           Idle, Asleep, Waits, Registered, Flagged, Forced
  <2> QED
    BY <2>1, <2>2 DEF LitInv
<1>2. LitInv /\ [Next]_vars => LitInv'
  BY LitStep
<1>3. LitInv => EmergencyLit
  BY DEF LitInv
<1> QED
  BY <1>1, <1>2, <1>3, PTL DEF Spec

=============================================================================
