------------------------------ MODULE LiveFeed ------------------------------
(***************************************************************************)
(* How the state of the bus reaches a web panel: bus.notify and the queues *)
(* of the subscribers (core/mqtt_client.py), the WebSocket endpoint        *)
(* (api/v1/realtime.py), and the panel's side of it (frontend/app.js):     *)
(* the socket and its reconnection timer, GET /cabinets, login and logout. *)
(*                                                                         *)
(* The state shown is abstracted to a version number, counting the changes *)
(* that a snapshot makes visible.  One panel, of a user who sees every     *)
(* project, is modelled in full; other subscribers do not affect it.       *)
(***************************************************************************)
EXTENDS Naturals, FiniteSets, SequencesExt

CONSTANTS
  Sockets,      (* WebSocket connections the panel may hold at once         *)
  Gets,         (* GET /cabinets requests that may be in flight at once     *)
  Projects,     (* projects (cities) among which the cabinets are divided   *)
  All,          (* no project selected: every city                          *)
  QueueSize,    (* frames a subscriber's queue holds                        *)
  LastVersion,  (* bound: changes of the bus state                          *)
  MaxLogins,    (* bound: logins                                            *)
  Events,       (* {"loss"} if sockets and requests may fail, or {}         *)
  None          (* null                                                     *)

ASSUME QueueAssumption == QueueSize \in Nat \ {0}
ASSUME BoundsAssumption == LastVersion \in Nat /\ MaxLogins \in Nat
ASSUME AllAssumption == All \notin Projects
ASSUME NoneAssumption == None \notin Sockets /\ None \notin Nat
ASSUME SlotsAssumption == IsFiniteSet(Sockets) /\ IsFiniteSet(Gets)

VARIABLES
  version,    (* the state of the bus                                       *)
  announced,  (* its state at the last notify                               *)
  owed,       (* a suspended handler still has its notify to do             *)
  deleted,    (* the last change that was the deletion of a cabinet, or 0   *)
  feed,       (* socket -> its two ends, its queue and the frame under way  *)
  get,        (* slot -> request in flight                                  *)
  token,      (* state.token: somebody is logged in                         *)
  me,         (* state.me: the panel knows who, and shows itself            *)
  ws,         (* window._ws                                                 *)
  timers,     (* pending setTimeout(connectWS)                              *)
  logins,     (* logins so far                                              *)
  project,    (* state.activeProject                                        *)
  view        (* state.cabinets: the version it shows, whether without any  *)
              (*   cabinet that has been deleted, and whose cabinets        *)

bus == <<version, announced, owed, deleted>>
page == <<token, me, ws, timers, logins, project>>
vars == <<bus, feed, get, page, view>>

-----------------------------------------------------------------------------
Versions == 0..LastVersion
NoFeed == [client |-> "none", server |-> "none", queue |-> <<>>, frame |-> None, sent |-> 0]
Feed == [client: {"none", "on", "closing"}, server: {"none", "accepting", "open"},
         queue: Seq(Versions), frame: Versions \cup {None}, sent: Versions]
NoGet == [pc |-> "free"]
Get == {NoGet} \cup [pc: {"who"}, boot: {TRUE}]
       \cup [pc: {"asked"}, scope: Projects \cup {All}, boot: BOOLEAN]
       \cup [pc: {"answered"}, scope: Projects \cup {All}, boot: BOOLEAN, at: Versions]

View == [at: Versions, whole: BOOLEAN, shows: SUBSET Projects]

TypeOK ==
  /\ version \in Versions /\ announced \in Versions /\ owed \in BOOLEAN
  /\ deleted \in Versions
  /\ feed \in [Sockets -> Feed]
  /\ \A s \in Sockets : Len(feed[s].queue) <= QueueSize
  /\ get \in [Gets -> Get]
  /\ token \in BOOLEAN /\ me \in BOOLEAN
  /\ ws \in Sockets \cup {None}
  /\ timers \in Nat
  /\ logins \in 0..MaxLogins
  /\ project \in Projects \cup {All}
  /\ view \in View

InScope(p) == IF p = All THEN Projects ELSE {p}

(* window._ws is there and its readyState is OPEN.                          *)
Connected == ws # None /\ feed[ws].client = "on" /\ feed[ws].server = "open"

(* Faulty variants: the queue has no limit; a full queue refuses the new    *)
(* frame; the newest frame comes first.                                     *)
PushUnbounded(queue, frame) == Append(queue, frame)
PushRefused(queue, frame) == IF Len(queue) = QueueSize THEN queue ELSE Append(queue, frame)
PushFront(queue, frame) ==
  <<frame>> \o IF Len(queue) = QueueSize THEN Tail(queue) ELSE queue

(* notify makes room by dropping the oldest frame.                          *)
Push(queue, frame) ==
  Append(IF Len(queue) = QueueSize THEN Tail(queue) ELSE queue, frame)

(* Faulty variant: a state is announced only once.                          *)
AnnounceOnce(v) ==
  /\ announced' = v
  /\ feed' = [s \in Sockets |-> IF feed[s].server = "open" /\ announced # v
                                THEN [feed[s] EXCEPT !.queue = Push(@, v)]
                                ELSE feed[s]]

Announce(v) ==
  /\ announced' = v
  /\ feed' = [s \in Sockets |-> IF feed[s].server = "open"
                                THEN [feed[s] EXCEPT !.queue = Push(@, v)]
                                ELSE feed[s]]

-----------------------------------------------------------------------------
(* The bus.                                                                 *)

(* A change and its notify in one go: a command, or telemetry without a     *)
(* broker.                                                                  *)
ChangeAndNotify ==
  /\ version < LastVersion
  /\ version' = version + 1
  /\ Announce(version + 1)
  /\ UNCHANGED <<owed, deleted, get, page, view>>

(* A change whose notify comes after a publish: an alarm, a new mode.       *)
ChangeThenSuspend ==
  /\ version < LastVersion
  /\ version' = version + 1
  /\ owed' = TRUE
  /\ UNCHANGED <<announced, deleted, feed, get, page, view>>

Notify ==
  /\ owed
  /\ owed' = FALSE
  /\ Announce(version)
  /\ UNCHANGED <<version, deleted, get, page, view>>

(* A change without any notify: the dimming loop, an acknowledgement.       *)
ChangeQuietly ==
  /\ version < LastVersion
  /\ version' = version + 1
  /\ UNCHANGED <<announced, owed, deleted, feed, get, page, view>>

(* The deletion of a cabinet, which is not announced either.                *)
Delete ==
  /\ version < LastVersion
  /\ version' = version + 1
  /\ deleted' = version + 1
  /\ view' = [view EXCEPT !.whole = FALSE]
  /\ UNCHANGED <<announced, owed, feed, get, page>>

(* A sample that changes nothing else; it ends in a notify all the same.    *)
Sample ==
  /\ Announce(version)
  /\ UNCHANGED <<version, owed, deleted, get, page, view>>

-----------------------------------------------------------------------------
(* The endpoint /ws.                                                        *)

(* accept, subscribe and the first snapshot.                                *)
Accept(s) ==
  /\ feed[s].server = "accepting"
  /\ feed' = [feed EXCEPT ![s] =
       IF feed[s].client = "on"
       THEN [@ EXCEPT !.server = "open", !.queue = <<>>, !.frame = version]
       ELSE [@ EXCEPT !.server = "none"]]
  /\ UNCHANGED <<bus, get, page, view>>

TakeFrame(s) ==
  /\ feed[s].server = "open" /\ feed[s].frame = None /\ feed[s].queue # <<>>
  /\ feed' = [feed EXCEPT ![s].frame = Head(feed[s].queue), ![s].queue = Tail(@)]
  /\ UNCHANGED <<bus, get, page, view>>

(* Sending to a client that has gone raises WebSocketDisconnect.            *)
SendFails(s) ==
  /\ feed[s].server = "open" /\ feed[s].frame # None /\ feed[s].client # "on"
  /\ feed' = [feed EXCEPT ![s] =
       [NoFeed EXCEPT !.client = feed[s].client]]
  /\ UNCHANGED <<bus, get, page, view>>

-----------------------------------------------------------------------------
(* The panel.                                                               *)

(* ws.onmessage and applyLive: the cabinets of the frame are updated or     *)
(* added, and none is removed.  A frame from before a deletion brings the   *)
(* cabinet back.                                                            *)
Receive(s) ==
  /\ feed[s].client = "on" /\ feed[s].frame # None
  /\ view' = [at |-> feed[s].frame, shows |-> Projects,
              whole |-> view.whole /\ deleted <= feed[s].frame]
  /\ feed' = [feed EXCEPT ![s].sent = feed[s].frame, ![s].frame = None]
  /\ UNCHANGED <<bus, get, page>>

ConnectWS ==
  IF token
  THEN \E s \in Sockets :
         /\ feed[s].client = "none" /\ feed[s].server = "none"
         /\ feed' = [feed EXCEPT ![s] = [NoFeed EXCEPT !.client = "on", !.server = "accepting"]]
         /\ ws' = s
  ELSE UNCHANGED <<feed, ws>>

Breaks(s) ==
  /\ "loss" \in Events /\ feed[s].client = "on"
  /\ feed' = [feed EXCEPT ![s].client = "closing"]
  /\ UNCHANGED <<bus, get, page, view>>

(* ws.onclose forgets window._ws, whichever socket that is by now.          *)
OnClose(s) ==
  /\ feed[s].client = "closing"
  /\ feed' = [feed EXCEPT ![s].client = "none"]
  /\ ws' = None
  /\ timers' = timers + 1
  /\ UNCHANGED <<bus, get, token, me, logins, project, view>>

Reconnect ==
  /\ timers > 0
  /\ timers' = timers - 1
  /\ ConnectWS
  /\ UNCHANGED <<bus, get, token, me, logins, project, view>>

Ask(g, boot) ==
  /\ get[g] = NoGet
  /\ get' = [get EXCEPT ![g] = [pc |-> "asked", scope |-> project, boot |-> boot]]

(* refreshLive after a command, or on picking a project.                    *)
Refresh(g) ==
  /\ token /\ me /\ Ask(g, FALSE)
  /\ UNCHANGED <<bus, feed, page, view>>

PickProject(g, p) ==
  /\ token /\ me /\ p # project /\ get[g] = NoGet
  /\ project' = p
  /\ get' = [get EXCEPT ![g] = [pc |-> "asked", scope |-> p, boot |-> FALSE]]
  /\ UNCHANGED <<bus, feed, token, me, ws, timers, logins, view>>

(* Faulty variant: only a socket that is gone counts.                       *)
PollDueWithoutSocket == ws = None

PollDue == ~Connected

(* The 10-second fallback.                                                  *)
Poll(g) ==
  /\ token /\ me /\ PollDue /\ Ask(g, FALSE)
  /\ UNCHANGED <<bus, feed, page, view>>

Answer(g) ==
  /\ get[g].pc = "asked"
  /\ get' = [get EXCEPT ![g] = [pc |-> "answered", scope |-> @.scope, boot |-> @.boot,
                                at |-> version]]
  /\ UNCHANGED <<bus, feed, page, view>>

(* Faulty variant: every request goes on to connect.                        *)
OverAndConnect(g) ==
  /\ get' = [get EXCEPT ![g] = NoGet]
  /\ ConnectWS
  /\ UNCHANGED <<bus, token, me, timers, logins, project>>

(* boot goes on to connect once its request is over, failed or not.         *)
Over(g) ==
  /\ get' = [get EXCEPT ![g] = NoGet]
  /\ IF get[g].boot THEN ConnectWS ELSE UNCHANGED <<feed, ws>>
  /\ UNCHANGED <<bus, token, me, timers, logins, project>>

(* The answer replaces the whole list.                                      *)
Arrive(g) ==
  /\ get[g].pc = "answered"
  /\ view' = [at |-> get[g].at, whole |-> deleted <= get[g].at,
              shows |-> InScope(get[g].scope)]
  /\ Over(g)

(* The request or its answer is lost, or refused.                           *)
Fail(g) ==
  /\ "loss" \in Events /\ get[g].pc = "answered"
  /\ Over(g)
  /\ UNCHANGED view

(* The login window is there until boot knows who has logged in.            *)
Login(g) ==
  /\ ~token \/ ~me
  /\ logins < MaxLogins /\ get[g] = NoGet
  /\ token' = TRUE
  /\ logins' = logins + 1
  /\ get' = [get EXCEPT ![g] = [pc |-> "who", boot |-> TRUE]]
  /\ UNCHANGED <<bus, feed, me, ws, timers, project, view>>

(* boot has its answer from /auth/me and goes on to GET /cabinets.          *)
Admit(g) ==
  /\ get[g].pc = "who"
  /\ me' = TRUE
  /\ get' = [get EXCEPT ![g] =
       IF token THEN [pc |-> "asked", scope |-> project, boot |-> TRUE] ELSE NoGet]
  /\ UNCHANGED <<bus, feed, token, ws, timers, logins, project, view>>

(* That first request raises: boot is over, without a socket or a timer.    *)
TurnAway(g) ==
  /\ "loss" \in Events /\ get[g].pc = "who"
  /\ get' = [get EXCEPT ![g] = NoGet]
  /\ UNCHANGED <<bus, feed, page, view>>

Logout ==
  /\ token
  /\ token' = FALSE /\ me' = FALSE
  /\ project' = All
  /\ ws' = None
  /\ feed' = [s \in Sockets |-> IF s = ws /\ feed[s].client = "on"
                                THEN [feed[s] EXCEPT !.client = "closing"]
                                ELSE feed[s]]
  /\ UNCHANGED <<bus, get, timers, logins, view>>

-----------------------------------------------------------------------------
Init ==
  /\ version = 0 /\ announced = 0 /\ owed = FALSE /\ deleted = 0
  /\ feed = [s \in Sockets |-> NoFeed]
  /\ get = [g \in Gets |-> NoGet]
  /\ token = FALSE /\ me = FALSE
  /\ ws = None
  /\ timers = 0
  /\ logins = 0
  /\ project = All
  /\ view = [at |-> 0, whole |-> TRUE, shows |-> {}]

Bus == ChangeAndNotify \/ ChangeThenSuspend \/ Notify \/ ChangeQuietly \/ Delete \/ Sample
Endpoint(s) == Accept(s) \/ TakeFrame(s) \/ SendFails(s)
Socket(s) == Receive(s) \/ Breaks(s) \/ OnClose(s)
Request(g) ==
  \/ Refresh(g) \/ Poll(g) \/ Answer(g) \/ Arrive(g) \/ Fail(g)
  \/ Login(g) \/ Admit(g) \/ TurnAway(g)
  \/ \E p \in Projects \cup {All} : PickProject(g, p)

Next ==
  \/ Bus
  \/ \E s \in Sockets : Endpoint(s) \/ Socket(s)
  \/ \E g \in Gets : Request(g)
  \/ Reconnect \/ Logout

Spec == Init /\ [][Next]_vars

(* Timers fire, sockets and requests make progress, suspended handlers are  *)
(* resumed; requests do not fail for ever.                                  *)
QuietFairSpec ==
  /\ Spec
  /\ WF_vars(Notify) /\ WF_vars(Reconnect)
  /\ \A s \in Sockets :
       /\ WF_vars(Endpoint(s) \/ Receive(s)) /\ WF_vars(OnClose(s))
  /\ WF_vars(\E g \in Gets : Poll(g))
  /\ \A g \in Gets : WF_vars(Admit(g) \/ Answer(g)) /\ SF_vars(Arrive(g))

(* Besides, some controller keeps reporting.                                *)
FairSpec == QuietFairSpec /\ WF_vars(Sample)

-----------------------------------------------------------------------------
(* Properties                                                               *)

(* A feed never goes back: the frames a socket has delivered, is delivering *)
(* and still queues are in the order of the states they show.               *)
FeedInOrder ==
  \A s \in Sockets :
    feed[s].server = "open" =>
      LET q == feed[s].queue IN
      /\ \A i \in 1..(Len(q) - 1) : q[i] <= q[i + 1]
      /\ q # <<>> => feed[s].sent <= q[1]
      /\ feed[s].frame # None =>
           feed[s].sent <= feed[s].frame /\ (q # <<>> => feed[s].frame <= q[1])

(* However slow a client is, dropping stale frames never loses the newest:  *)
(* what was last announced is delivered, under way or queued.               *)
Newest(s) ==
  IF feed[s].queue # <<>> THEN Last(feed[s].queue)
  ELSE IF feed[s].frame # None THEN feed[s].frame
  ELSE feed[s].sent

NewestKept == \A s \in Sockets : feed[s].server = "open" => announced <= Newest(s)

(* Until somebody logs in a second time, the panel has at most one live     *)
(* socket or reconnection under way, whatever breaks and in any order.      *)
Pending == {g \in Gets : get[g] # NoGet /\ get[g].boot}
OneFeed ==
  logins <= 1 => Cardinality({s \in Sockets : feed[s].client # "none"}) + timers + Cardinality(Pending) <= 1

(* Without a socket the panel falls back to polling and still catches up,   *)
(* with deletions too.                                                      *)
PollingCatchesUp ==
  <>[](token /\ me /\ ~Connected) => <>[](view.at = version /\ view.whole)

(* With a socket that stays up the panel catches up with every cabinet that *)
(* there is, also after a late answer to a poll has taken it back.          *)
SocketCatchesUp ==
  <>[](token /\ Connected) => <>[](view.at = version)

(* On the map in real time: with a socket that stays up a deleted cabinet   *)
(* goes from the panel.                                                     *)
DeletedGoes ==
  <>[](token /\ Connected) => <>[]view.whole

(* The client gets a fresh snapshot whenever the bus state changes, whether *)
(* or not a controller happens to report afterwards.                        *)
EveryChangeSent ==
  \A s \in Sockets :
    LET open == feed[s].server = "open" /\ feed[s].client = "on"
    IN <>[]open => <>[](open => Newest(s) = version)

(* Picking a project fetches again so that the lists reflect the new scope: *)
(* once no request is in flight, they do.                                   *)
ScopeShown ==
  (token /\ \A g \in Gets : get[g] = NoGet) => view.shows \subseteq InScope(project)

=============================================================================
