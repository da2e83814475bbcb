--------------------------- MODULE LiveFeed_proofs ---------------------------
(***************************************************************************)
(* Machine-checked proofs about the live feed, for any sockets, requests,  *)
(* projects, queue size and number of changes: types, the order of frames, *)
(* the newest frame, and the one feed of the first login.                  *)
(***************************************************************************)
EXTENDS LiveFeed, SequenceTheorems, FiniteSetTheorems, TLAPS

-----------------------------------------------------------------------------
(* The queue of a subscriber.                                               *)

Sorted(q) == \A i \in 1..(Len(q) - 1) : q[i] <= q[i + 1]

LEMMA VersionsAreNumbers == Versions \subseteq Nat /\ 0 \in Versions /\ None \notin Versions
BY BoundsAssumption, NoneAssumption DEF Versions

LEMMA Transitive == \A a, b, c \in Versions : a <= b /\ b <= c => a <= c
BY BoundsAssumption DEF Versions

(* What a reader takes off a queue, and what notify drops, is its head.     *)
LEMMA HeadTaken ==
  ASSUME NEW q \in Seq(Versions), q # <<>>
  PROVE  /\ Len(q) \in Nat \ {0} /\ Tail(q) \in Seq(Versions) /\ Head(q) \in Versions
         /\ Head(q) = q[1] /\ Len(Tail(q)) = Len(q) - 1
         /\ \A i \in 1..Len(Tail(q)) : Tail(q)[i] = q[i + 1]
         /\ Tail(q) # <<>> => Last(Tail(q)) = Last(q)
         /\ Tail(q) = <<>> => Head(q) = Last(q)
<1>1. Len(q) \in Nat \ {0} /\ Tail(q) \in Seq(Versions) /\ Head(q) \in Versions
      /\ Head(q) = q[1] /\ Len(Tail(q)) = Len(q) - 1
      /\ \A i \in 1..Len(Tail(q)) : Tail(q)[i] = q[i + 1]
  BY EmptySeq, HeadTailProperties
<1>2. Tail(q) # <<>> => Len(Tail(q)) \in Nat \ {0}
  BY <1>1, EmptySeq
<1>3. Tail(q) = <<>> => Len(q) = 1
  BY <1>1, EmptySeq
<1> QED
  BY <1>1, <1>2, <1>3 DEF Last

(* A full queue makes room, so it never grows past its size; the new frame  *)
(* is its last.                                                             *)
LEMMA PushKeepsSize ==
  ASSUME NEW q \in Seq(Versions), Len(q) <= QueueSize, NEW v \in Versions
  PROVE  /\ Push(q, v) \in Seq(Versions) /\ Len(Push(q, v)) <= QueueSize
         /\ Push(q, v) # <<>> /\ Last(Push(q, v)) = v
<1> DEFINE kept == IF Len(q) = QueueSize THEN Tail(q) ELSE q
<1>1. kept \in Seq(Versions) /\ Len(kept) \in Nat /\ Len(kept) < QueueSize
  <2>1. Len(q) \in Nat /\ (q = <<>> => Len(q) = 0)
    BY LenProperties, EmptySeq
  <2>2. CASE Len(q) = QueueSize
    BY <2>1, <2>2, HeadTaken, QueueAssumption
  <2>3. CASE Len(q) # QueueSize
    BY <2>1, <2>3, QueueAssumption
  <2> QED
    BY <2>2, <2>3
<1>2. Push(q, v) = Append(kept, v)
  BY DEF Push
<1> HIDE DEF kept
<1>3. Append(kept, v) \in Seq(Versions) /\ Append(kept, v) # <<>>
      /\ Len(Append(kept, v)) = Len(kept) + 1 /\ Append(kept, v)[Len(kept) + 1] = v
  BY <1>1, AppendProperties
<1> QED
  BY <1>1, <1>2, <1>3, QueueAssumption DEF Last

(* What is left of a queue in order is in order, and begins later.          *)
LEMMA TailKeepsOrder ==
  ASSUME NEW q \in Seq(Versions), q # <<>>, Sorted(q)
  PROVE  /\ Sorted(Tail(q))
         /\ \A i \in 1..Len(Tail(q)) : \E j \in 1..Len(q) : Tail(q)[i] = q[j]
         /\ Len(Tail(q)) > 0 => q[1] <= Tail(q)[1]
<1> DEFINE rest == Tail(q)
           n == Len(q)
           m == Len(rest)
<1>1. n \in Nat \ {0} /\ m = n - 1 /\ \A i \in 1..m : rest[i] = q[i + 1]
  BY HeadTaken
<1>2. \A i \in 1..(n - 1) : q[i] <= q[i + 1]
  BY DEF Sorted
<1> HIDE DEF rest, n, m
<1>3. \A i \in 1..m : i + 1 \in 1..n /\ (i \in 1..(m - 1) => i + 1 \in 1..m)
  BY <1>1
<1>4. \A i \in 1..(m - 1) : rest[i] <= rest[i + 1]
  <2> SUFFICES ASSUME NEW i \in 1..(m - 1) PROVE rest[i] <= rest[i + 1]
    OBVIOUS
  <2>1. i \in 1..m /\ i + 1 \in 1..m /\ i + 1 \in 1..(n - 1)
    BY <1>1
  <2> QED
    BY <1>1, <1>2, <2>1
<1>5. m > 0 => q[1] <= rest[1]
  <2> SUFFICES ASSUME m > 0 PROVE q[1] <= rest[1]
    OBVIOUS
  <2>1. 1 \in 1..m /\ 1 \in 1..(n - 1)
    BY <1>1
  <2>2. rest[1] = q[1 + 1] /\ q[1] <= q[1 + 1]
    BY <1>1, <1>2, <2>1
  <2> QED
    BY <2>2
<1>6. \A i \in 1..m : \E j \in 1..n : rest[i] = q[j]
  BY <1>1, <1>3
<1> QED
  BY <1>4, <1>5, <1>6 DEF rest, n, m, Sorted

(* A frame that is not older than those in the queue keeps it in order, and *)
(* whatever was not newer than any of them is not newer than the new head.  *)
LEMMA PushKeepsOrder ==
  ASSUME NEW q \in Seq(Versions), Len(q) <= QueueSize, NEW v \in Versions,
         Sorted(q), \A i \in 1..Len(q) : q[i] <= v
  PROVE  /\ Sorted(Push(q, v))
         /\ \A i \in 1..Len(Push(q, v)) : Push(q, v)[i] <= v
         /\ \A x \in Versions : x <= v /\ (q # <<>> => x <= q[1]) => x <= Push(q, v)[1]
<1> DEFINE kept == IF Len(q) = QueueSize THEN Tail(q) ELSE q
<1>1. Len(q) \in Nat /\ (q = <<>> <=> Len(q) = 0) /\ \A i \in 1..Len(q) : q[i] \in Versions
  BY LenProperties, EmptySeq, ElementOfSeq
<1>2. /\ kept \in Seq(Versions) /\ Len(kept) \in Nat /\ Sorted(kept)
      /\ \A i \in 1..Len(kept) : kept[i] <= v
      /\ \A x \in Versions : Len(kept) > 0 /\ (q # <<>> => x <= q[1]) => x <= kept[1]
  <2>1. CASE Len(q) = QueueSize
    <3>1. kept = Tail(q) /\ q # <<>>
      BY <1>1, <2>1, QueueAssumption
    <3> DEFINE rest == Tail(q)
    <3>2. rest \in Seq(Versions) /\ Len(rest) \in Nat /\ 1 \in 1..Len(q)
          /\ \A i \in 1..Len(rest) : rest[i] \in Versions
      BY <1>1, <3>1, HeadTaken, LenProperties, ElementOfSeq
    <3>3. /\ Sorted(rest)
          /\ Len(rest) > 0 => q[1] <= rest[1]
          /\ \A i \in 1..Len(rest) : \E j \in 1..Len(q) : rest[i] = q[j]
      BY <3>1, TailKeepsOrder
    <3>4. kept = rest
      BY <3>1
    <3> HIDE DEF rest, kept
    <3>5. \A i \in 1..Len(rest) : rest[i] <= v
      BY <3>3
    <3>6. \A x \in Versions : Len(rest) > 0 /\ x <= q[1] => x <= rest[1]
      <4> SUFFICES ASSUME NEW x \in Versions, Len(rest) > 0, x <= q[1] PROVE x <= rest[1]
        OBVIOUS
      <4>1. x \in Nat /\ q[1] \in Nat /\ rest[1] \in Nat
        <5>1. 1 \in 1..Len(rest)
          BY <3>2
        <5>2. q[1] \in Versions /\ rest[1] \in Versions
          BY <1>1, <3>2, <5>1
        <5> QED
          BY <5>2, VersionsAreNumbers
      <4> QED
        BY <3>3, <4>1
    <3> QED
      BY <3>1, <3>2, <3>3, <3>4, <3>5, <3>6
  <2>2. CASE Len(q) # QueueSize
    BY <1>1, <2>2
  <2> QED
    BY <2>1, <2>2
<1>3. Push(q, v) = Append(kept, v)
  BY DEF Push
<1> HIDE DEF kept
<1> DEFINE new == Append(kept, v)
<1>4. /\ Len(new) = Len(kept) + 1 /\ new[Len(kept) + 1] = v
      /\ \A i \in 1..Len(kept) : new[i] = kept[i]
  BY <1>2, AppendProperties
<1> HIDE DEF new
<1>5. Sorted(new)
  BY <1>2, <1>4 DEF Sorted
<1>6. \A i \in 1..Len(new) : new[i] <= v
  BY <1>2, <1>4, VersionsAreNumbers
<1>7. \A x \in Versions : x <= v /\ (q # <<>> => x <= q[1]) => x <= new[1]
  BY <1>2, <1>4
<1> QED
  BY <1>3, <1>5, <1>6, <1>7 DEF new

-----------------------------------------------------------------------------
(* Types.                                                                   *)

FeedOK(f) == f \in Feed /\ Len(f.queue) <= QueueSize

LEMMA NoFeedOK == FeedOK(NoFeed) /\ NoFeed \in Feed
<1>1. <<>> \in Seq(Versions) /\ Len(<<>>) = 0
  BY EmptySeq
<1> QED
  BY <1>1, VersionsAreNumbers, QueueAssumption DEF FeedOK, NoFeed, Feed

(* Pushing to a subscriber changes its queue only.                          *)
LEMMA PushedOK ==
  ASSUME NEW f, FeedOK(f), NEW v \in Versions
  PROVE  FeedOK([f EXCEPT !.queue = Push(@, v)])
<1>1. Push(f.queue, v) \in Seq(Versions) /\ Len(Push(f.queue, v)) <= QueueSize
  BY PushKeepsSize DEF FeedOK, Feed
<1> DEFINE q == Push(f.queue, v)
<1> HIDE DEF q
<1>2. q \in Seq(Versions) /\ Len(q) <= QueueSize => FeedOK([f EXCEPT !.queue = q])
  BY DEF FeedOK, Feed
<1> QED
  BY <1>1, <1>2 DEF q

LEMMA AnnounceTypes ==
  ASSUME TypeOK, NEW v \in Versions, Announce(v)
  PROVE  announced' \in Versions /\ feed' \in [Sockets -> Feed]
         /\ \A s \in Sockets : FeedOK(feed'[s])
<1>1. \A s \in Sockets : FeedOK(feed[s])
  BY DEF TypeOK, FeedOK
<1>2. \A s \in Sockets : FeedOK([feed[s] EXCEPT !.queue = Push(@, v)])
  BY <1>1, PushedOK
<1>3. announced' = v
      /\ feed' = [s \in Sockets |-> IF feed[s].server = "open"
                                    THEN [feed[s] EXCEPT !.queue = Push(@, v)]
                                    ELSE feed[s]]
  BY DEF Announce
<1>4. \A s \in Sockets : FeedOK(feed'[s])
  BY <1>1, <1>2, <1>3
<1> QED
  BY <1>3, <1>4 DEF FeedOK

(* What the page's reconnection does to one socket.                         *)
LEMMA ConnectTypes ==
  ASSUME TypeOK, ConnectWS \/ UNCHANGED <<feed, ws>>
  PROVE  ws' \in Sockets \cup {None} /\ feed' \in [Sockets -> Feed]
         /\ \A s \in Sockets : Len(feed'[s].queue) <= QueueSize
<1> DEFINE new == [NoFeed EXCEPT !.client = "on", !.server = "accepting"]
<1>1. new \in Feed /\ Len(new.queue) <= QueueSize
  BY NoFeedOK DEF FeedOK, Feed, NoFeed
<1>2. CASE \E s \in Sockets : feed' = [feed EXCEPT ![s] = new] /\ ws' = s
  <2> HIDE DEF new
  <2> QED
    BY <1>1, <1>2 DEF TypeOK
<1>3. CASE UNCHANGED <<feed, ws>>
  BY <1>3 DEF TypeOK
<1> QED
  BY <1>2, <1>3 DEF ConnectWS

LEMMA OverTypes ==
  ASSUME TypeOK, NEW g \in Gets, Over(g)
  PROVE  /\ get' \in [Gets -> Get] /\ ws' \in Sockets \cup {None}
         /\ feed' \in [Sockets -> Feed]
         /\ \A s \in Sockets : Len(feed'[s].queue) <= QueueSize
         /\ UNCHANGED <<bus, token, me, timers, logins, project>>
<1>1. ConnectWS \/ UNCHANGED <<feed, ws>>
  BY DEF Over
<1>2. get' \in [Gets -> Get]
  BY DEF Over, TypeOK, Get
<1> QED
  BY <1>1, <1>2, ConnectTypes DEF Over

LEMMA BusTypes == ASSUME TypeOK, Bus PROVE TypeOK'
<1>1. version \in Nat /\ LastVersion \in Nat /\ version \in Versions
  BY BoundsAssumption DEF TypeOK, Versions
<1>2. CASE ChangeAndNotify
  <2>1. version + 1 \in Versions
    BY <1>1, <1>2 DEF ChangeAndNotify, Versions
  <2>2. Announce(version + 1) /\ version' = version + 1 /\ UNCHANGED <<owed, deleted, get, page, view>>
    BY <1>2 DEF ChangeAndNotify
  <2> QED
    BY <2>1, <2>2, AnnounceTypes DEF TypeOK, page, FeedOK
<1>3. CASE ChangeThenSuspend
  BY <1>1, <1>3 DEF ChangeThenSuspend, TypeOK, page, Versions
<1>4. CASE Notify
  BY <1>1, <1>4, AnnounceTypes DEF Notify, TypeOK, page, FeedOK
<1>5. CASE ChangeQuietly
  BY <1>1, <1>5 DEF ChangeQuietly, TypeOK, page, Versions
<1>5a. CASE Delete
  <2>1. view' \in View
    BY <1>5a DEF Delete, TypeOK, View
  <2> QED
    BY <1>1, <1>5a, <2>1 DEF Delete, TypeOK, page, Versions
<1>6. CASE Sample
  BY <1>1, <1>6, AnnounceTypes DEF Sample, TypeOK, page, FeedOK
<1> QED
  BY <1>2, <1>3, <1>4, <1>5, <1>5a, <1>6 DEF Bus

(* A step that changes one socket.                                          *)
LEMMA SocketTypes ==
  ASSUME TypeOK, NEW s \in Sockets, NEW f, FeedOK(f), feed' = [feed EXCEPT ![s] = f],
         UNCHANGED <<bus, get, token, me, logins, project>>, ws' \in Sockets \cup {None},
         timers' \in Nat, view' \in View
  PROVE  TypeOK'
BY DEF TypeOK, bus, FeedOK

LEMMA EndpointTypes ==
  ASSUME TypeOK, NEW s \in Sockets, Endpoint(s) \/ Socket(s)
  PROVE  TypeOK'
<1> DEFINE f == feed[s]
<1>1. f \in Feed /\ FeedOK(f)
  BY DEF TypeOK, FeedOK
<1>2. f.queue \in Seq(Versions) /\ f.frame \in Versions \cup {None} /\ f.client \in {"none", "on", "closing"}
      /\ Len(f.queue) \in Nat /\ version \in Versions
  BY <1>1, LenProperties DEF Feed, TypeOK
<1>3. ws \in Sockets \cup {None} /\ timers \in Nat /\ timers + 1 \in Nat
      /\ view \in View
  BY DEF TypeOK
<1>4. CASE Accept(s)
  <2> DEFINE open == [f EXCEPT !.server = "open", !.queue = <<>>, !.frame = version]
             refused == [f EXCEPT !.server = "none"]
  <2>1. <<>> \in Seq(Versions) /\ Len(<<>>) <= QueueSize
    BY EmptySeq, QueueAssumption
  <2>2. FeedOK(open) /\ FeedOK(refused)
    BY <1>1, <1>2, <2>1 DEF FeedOK, Feed
  <2>3. feed' = [feed EXCEPT ![s] = open] \/ feed' = [feed EXCEPT ![s] = refused]
    BY <1>4 DEF Accept, page, TypeOK
  <2>4. UNCHANGED <<bus, get, token, me, ws, timers, logins, project, view>>
    BY <1>4 DEF Accept, page
  <2> HIDE DEF open, refused
  <2> QED
    BY <1>3, <2>2, <2>3, <2>4, SocketTypes
<1>5. CASE TakeFrame(s)
  <2> DEFINE head == Head(f.queue)
             rest == Tail(f.queue)
             new == [f EXCEPT !.frame = head, !.queue = rest]
  <2>1. head \in Versions /\ rest \in Seq(Versions) /\ Len(rest) = Len(f.queue) - 1
    BY <1>2, <1>5, HeadTaken DEF TakeFrame
  <2>2. feed' = [feed EXCEPT ![s] = new] /\ UNCHANGED <<bus, get, token, me, ws, timers, logins, project, view>>
    BY <1>5 DEF TakeFrame, page, TypeOK
  <2> HIDE DEF head, rest
  <2>3. Len(rest) <= QueueSize
    BY <1>1, <1>2, <2>1, QueueAssumption DEF FeedOK
  <2>4. FeedOK(new)
    BY <1>1, <2>1, <2>3 DEF FeedOK, Feed
  <2> HIDE DEF new
  <2> QED
    BY <1>3, <2>2, <2>4, SocketTypes
<1>6. CASE SendFails(s)
  <2> DEFINE new == [NoFeed EXCEPT !.client = f.client]
  <2>1. FeedOK(new)
    BY <1>2, NoFeedOK DEF FeedOK, Feed, NoFeed
  <2>2. feed' = [feed EXCEPT ![s] = new] /\ UNCHANGED <<bus, get, token, me, ws, timers, logins, project, view>>
    BY <1>6 DEF SendFails, page
  <2> HIDE DEF new
  <2> QED
    BY <1>3, <2>1, <2>2, SocketTypes
<1>7. CASE Receive(s)
  <2> DEFINE new == [f EXCEPT !.sent = f.frame, !.frame = None]
  <2>1. f.frame \in Versions
    BY <1>2, <1>7 DEF Receive
  <2>2. FeedOK(new)
    BY <1>1, <2>1 DEF FeedOK, Feed
  <2>3. feed' = [feed EXCEPT ![s] = new] /\ UNCHANGED <<bus, get, token, me, ws, timers, logins, project>>
        /\ view' = [at |-> f.frame, shows |-> Projects,
                    whole |-> view.whole /\ deleted <= f.frame]
    BY <1>7 DEF Receive, page, TypeOK
  <2>4. view' \in View
    BY <1>3, <2>1, <2>3 DEF View
  <2> HIDE DEF new
  <2> QED
    BY <1>3, <2>2, <2>3, <2>4, SocketTypes
<1>8. CASE Breaks(s)
  <2> DEFINE new == [f EXCEPT !.client = "closing"]
  <2>1. FeedOK(new)
    BY <1>1 DEF FeedOK, Feed
  <2>2. feed' = [feed EXCEPT ![s] = new] /\ UNCHANGED <<bus, get, token, me, ws, timers, logins, project, view>>
    BY <1>8 DEF Breaks, page
  <2> HIDE DEF new
  <2> QED
    BY <1>3, <2>1, <2>2, SocketTypes
<1>9. CASE OnClose(s)
  <2> DEFINE new == [f EXCEPT !.client = "none"]
  <2>1. FeedOK(new)
    BY <1>1 DEF FeedOK, Feed
  <2>2. feed' = [feed EXCEPT ![s] = new] /\ UNCHANGED <<bus, get, token, me, logins, project, view>>
        /\ ws' = None /\ timers' = timers + 1
    BY <1>9 DEF OnClose
  <2> HIDE DEF new
  <2> QED
    BY <1>3, <2>1, <2>2, SocketTypes
<1> QED
  BY <1>4, <1>5, <1>6, <1>7, <1>8, <1>9 DEF Endpoint, Socket

(* What a request in flight is made of.                                     *)
LEMMA GetFields ==
  ASSUME NEW x \in Get
  PROVE  /\ x.pc \in {"free", "who", "asked", "answered"}
         /\ x = NoGet <=> x.pc = "free"
         /\ x.pc = "who" => x.boot = TRUE
         /\ x.pc \in {"asked", "answered"} => x.scope \in Projects \cup {All} /\ x.boot \in BOOLEAN
         /\ x.pc = "answered" => x.at \in Versions
<1>1. CASE x = NoGet
  BY <1>1 DEF NoGet
<1>2. CASE x \in [pc: {"who"}, boot: {TRUE}]
  <2>1. x.pc = "who" /\ x.boot = TRUE
    BY <1>2
  <2>2. x # NoGet
    BY <2>1 DEF NoGet
  <2> QED
    BY <2>1, <2>2
<1>3. CASE x \in [pc: {"asked"}, scope: Projects \cup {All}, boot: BOOLEAN]
  BY <1>3 DEF NoGet
<1>4. CASE x \in [pc: {"answered"}, scope: Projects \cup {All}, boot: BOOLEAN, at: Versions]
  BY <1>4 DEF NoGet
<1> QED
  BY <1>1, <1>2, <1>3, <1>4 DEF Get

LEMMA AskTypes ==
  ASSUME TypeOK, NEW g \in Gets, NEW p \in Projects \cup {All}, NEW boot \in BOOLEAN,
         get' = [get EXCEPT ![g] = [pc |-> "asked", scope |-> p, boot |-> boot]]
  PROVE  get' \in [Gets -> Get]
BY DEF TypeOK, Get

LEMMA RequestTypes ==
  ASSUME TypeOK, NEW g \in Gets, Request(g)
  PROVE  TypeOK'
<1>1. get[g] \in Get
  BY DEF TypeOK
<1>2. CASE Refresh(g) \/ Poll(g)
  BY <1>2, AskTypes DEF Refresh, Poll, Ask, TypeOK, bus, page
<1>3. CASE Answer(g)
  <2>1. get[g].scope \in Projects \cup {All} /\ get[g].boot \in BOOLEAN
    BY <1>1, <1>3, GetFields DEF Answer
  <2> DEFINE new == [pc |-> "answered", scope |-> get[g].scope, boot |-> get[g].boot, at |-> version]
  <2>2. get' = [get EXCEPT ![g] = new] /\ UNCHANGED <<bus, feed, page, view>>
    BY <1>3 DEF Answer, TypeOK
  <2>3. new \in Get
    BY <2>1 DEF Get, TypeOK
  <2> HIDE DEF new
  <2> QED
    BY <2>2, <2>3 DEF TypeOK, bus, page
<1>4. CASE Arrive(g)
  <2>1. get[g].scope \in Projects \cup {All} /\ get[g].at \in Versions
    BY <1>1, <1>4, GetFields DEF Arrive
  <2>2. view' \in View
    BY <1>4, <2>1 DEF Arrive, InScope, View
  <2> QED
    BY <1>4, <2>2, OverTypes DEF Arrive, TypeOK, bus
<1>5. CASE Fail(g)
  BY <1>5, OverTypes DEF Fail, TypeOK, bus
<1>6. CASE Login(g)
  <2>1. logins + 1 \in 0..MaxLogins
    BY <1>6, BoundsAssumption DEF Login, TypeOK
  <2>2. get' \in [Gets -> Get]
    BY <1>6 DEF Login, TypeOK, Get
  <2> QED
    BY <1>6, <2>1, <2>2 DEF Login, TypeOK, bus
<1>6a. CASE Admit(g)
  <2>1. project \in Projects \cup {All}
    BY DEF TypeOK
  <2>2. get' \in [Gets -> Get]
    BY <1>6a, <2>1 DEF Admit, TypeOK, Get
  <2> QED
    BY <1>6a, <2>2 DEF Admit, TypeOK, bus
<1>6b. CASE TurnAway(g)
  BY <1>6b DEF TurnAway, TypeOK, Get, bus, page
<1>7. CASE \E p \in Projects \cup {All} : PickProject(g, p)
  BY <1>7, AskTypes DEF PickProject, TypeOK, bus
<1> QED
  BY <1>2, <1>3, <1>4, <1>5, <1>6, <1>6a, <1>6b, <1>7 DEF Request

LEMMA TypeStep == TypeOK /\ [Next]_vars => TypeOK'
<1> SUFFICES ASSUME TypeOK, [Next]_vars PROVE TypeOK'
  OBVIOUS
<1>1. CASE Reconnect
  BY <1>1, ConnectTypes DEF Reconnect, TypeOK, bus
<1>2. CASE Logout
  <2>1. \A s \in Sockets : FeedOK(feed[s]) /\ FeedOK([feed[s] EXCEPT !.client = "closing"])
    BY DEF TypeOK, FeedOK, Feed
  <2>2. feed' \in [Sockets -> Feed] /\ \A s \in Sockets : FeedOK(feed'[s])
    BY <1>2, <2>1 DEF Logout, FeedOK
  <2> QED
    BY <1>2, <2>2 DEF Logout, TypeOK, bus, FeedOK
<1>3. CASE UNCHANGED vars
  BY <1>3 DEF vars, bus, page, TypeOK
<1> QED
  BY <1>1, <1>2, <1>3, BusTypes, EndpointTypes, RequestTypes DEF Next

LEMMA InitTypes == Init => TypeOK
<1>1. NoFeed \in Feed /\ Len(NoFeed.queue) <= QueueSize /\ 0 \in Versions /\ 0 \in 0..MaxLogins
  BY NoFeedOK, VersionsAreNumbers, BoundsAssumption DEF FeedOK
<1> SUFFICES ASSUME Init PROVE TypeOK
  OBVIOUS
<1>2. feed \in [Sockets -> Feed] /\ \A s \in Sockets : Len(feed[s].queue) <= QueueSize
  BY <1>1 DEF Init
<1>3. get \in [Gets -> Get]
  BY DEF Init, Get
<1>4. view \in View
  BY <1>1 DEF Init, View
<1> QED
  BY <1>1, <1>2, <1>3, <1>4 DEF Init, TypeOK

(* Every variable keeps its type; in particular no queue outgrows its size. *)
THEOREM FeedTypes == Spec => []TypeOK
BY InitTypes, TypeStep, PTL DEF Spec

-----------------------------------------------------------------------------
(* The order of frames, and the newest of them.                             *)

(* FeedInOrder and Newest for one subscriber, and that it has been sent     *)
(* nothing from the future.                                                 *)
Ordered(f) ==
  /\ Sorted(f.queue) /\ (f.queue # <<>> => f.sent <= f.queue[1])
  /\ f.frame # None => f.sent <= f.frame /\ (f.queue # <<>> => f.frame <= f.queue[1])
NewestOf(f) ==
  IF f.queue # <<>> THEN Last(f.queue) ELSE IF f.frame # None THEN f.frame ELSE f.sent
UpTo(f, v) ==
  f.sent <= v /\ (f.frame # None => f.frame <= v) /\ \A i \in 1..Len(f.queue) : f.queue[i] <= v

(* A subscriber is well when it has all frames in order and the newest.     *)
Well(f, v) == UpTo(f, v) /\ (f.server = "open" => Ordered(f) /\ announced <= NewestOf(f))

OrderInv ==
  /\ TypeOK
  /\ announced <= version
  /\ \A s \in Sockets : Well(feed[s], version)

LEMMA WellIsInOrder == OrderInv => FeedInOrder /\ NewestKept
BY DEF OrderInv, Well, Ordered, NewestOf, FeedInOrder, NewestKept, Newest, Sorted

(* After an announcement of v the queue ends in v and is still in order.    *)
LEMMA PushedWell ==
  ASSUME NEW f, FeedOK(f), NEW u \in Versions, NEW v \in Versions, u <= v,
         UpTo(f, u), Ordered(f)
  PROVE  LET new == [f EXCEPT !.queue = Push(@, v)]
         IN Ordered(new) /\ UpTo(new, v) /\ NewestOf(new) = v
<1> DEFINE q == f.queue
           p == Push(q, v)
           new == [f EXCEPT !.queue = p]
<1>1. /\ f \in Feed /\ q \in Seq(Versions) /\ Len(q) <= QueueSize /\ Len(q) \in Nat
      /\ f.sent \in Versions /\ f.frame \in Versions \cup {None}
      /\ \A i \in 1..Len(q) : q[i] \in Versions
  BY LenProperties, ElementOfSeq DEF FeedOK, Feed
<1>2. Sorted(q) /\ \A i \in 1..Len(q) : q[i] <= v
  <2>1. Sorted(q)
    BY DEF Ordered
  <2>2. ASSUME NEW i \in 1..Len(q) PROVE q[i] <= v
    <3>1. q[i] <= u
      BY DEF UpTo
    <3>2. q[i] \in Versions
      BY <1>1
    <3> HIDE DEF q
    <3> QED
      BY <3>1, <3>2, Transitive
  <2> QED
    BY <2>1, <2>2
<1>3. /\ Sorted(p) /\ p # <<>> /\ Last(p) = v
      /\ \A i \in 1..Len(p) : p[i] <= v
      /\ \A x \in Versions : x <= v /\ (q # <<>> => x <= q[1]) => x <= p[1]
  BY <1>1, <1>2, PushKeepsOrder, PushKeepsSize
<1>4. f.sent <= v /\ (f.frame # None => f.frame <= v)
  BY <1>1, Transitive DEF UpTo
<1>5. f.sent <= p[1] /\ (f.frame # None => f.frame <= p[1])
  BY <1>1, <1>3, <1>4 DEF Ordered
<1>6. new.queue = p /\ new.sent = f.sent /\ new.frame = f.frame
  BY <1>1 DEF Feed
<1> HIDE DEF p, new
<1>7. Ordered(new) /\ UpTo(new, v) /\ NewestOf(new) = v
  BY <1>3, <1>4, <1>5, <1>6 DEF Ordered, UpTo, NewestOf
<1> QED
  BY <1>7 DEF p, new

(* Whatever a subscriber has is still not from the future later.            *)
LEMMA UpToLater ==
  ASSUME NEW f, FeedOK(f), NEW u \in Versions, NEW v \in Versions, u <= v, UpTo(f, u)
  PROVE  UpTo(f, v)
<1>1. /\ f.sent \in Versions /\ f.frame \in Versions \cup {None}
      /\ \A i \in 1..Len(f.queue) : f.queue[i] \in Versions
  BY ElementOfSeq DEF FeedOK, Feed
<1> QED
  BY <1>1, Transitive DEF UpTo

(* An announcement leaves everybody well.                                   *)
LEMMA AnnounceWell ==
  ASSUME OrderInv, TypeOK', NEW v \in Versions, version <= v, version' = v, Announce(v)
  PROVE  OrderInv'
<1>1. announced' = v /\ announced' <= version'
  BY VersionsAreNumbers DEF Announce
<1>2. ASSUME NEW s \in Sockets PROVE Well(feed[s], version)' 
  <2> DEFINE f == feed[s]
  <2>1. FeedOK(f) /\ version \in Versions /\ UpTo(f, version) /\ (f.server = "open" => Ordered(f))
    BY DEF OrderInv, TypeOK, FeedOK, Well
  <2>2. CASE f.server = "open"
    <3> DEFINE new == [f EXCEPT !.queue = Push(@, v)]
    <3>1. Ordered(new) /\ UpTo(new, v) /\ NewestOf(new) = v
      BY <2>1, <2>2, PushedWell
    <3>2. feed'[s] = new
      BY <2>2 DEF Announce
    <3> HIDE DEF new
    <3> QED
      BY <1>1, <3>1, <3>2, VersionsAreNumbers DEF Well
  <2>3. CASE f.server # "open"
    <3>1. feed'[s] = f
      BY <2>3 DEF Announce
    <3>2. UpTo(f, v)
      BY <2>1, UpToLater
    <3> QED
      BY <2>3, <3>1, <3>2 DEF Well
  <2> QED
    BY <2>2, <2>3
<1> QED
  BY <1>1, <1>2 DEF OrderInv

(* So does a change that nobody is told of.                                 *)
LEMMA ChangeWell ==
  ASSUME OrderInv, TypeOK', version' = version + 1, UNCHANGED <<announced, feed>>
  PROVE  OrderInv'
<1>1. version \in Versions /\ version' \in Versions /\ announced \in Versions /\ version <= version'
      /\ announced' <= version'
  BY VersionsAreNumbers DEF OrderInv, TypeOK
<1>2. \A s \in Sockets : UpTo(feed[s], version')
  BY <1>1, UpToLater DEF OrderInv, Well, TypeOK, FeedOK
<1> QED
  BY <1>1, <1>2 DEF OrderInv, Well

(* A step that changes one socket, and leaves it well.                      *)
LEMMA SocketWell ==
  ASSUME OrderInv, TypeOK', NEW s \in Sockets, NEW f, feed' = [feed EXCEPT ![s] = f],
         UNCHANGED bus, Well(f, version)
  PROVE  OrderInv'
BY DEF OrderInv, Well, TypeOK, bus

LEMMA NewConnectionWell ==
  ASSUME TypeOK
  PROVE  /\ Well([NoFeed EXCEPT !.client = "on", !.server = "accepting"], version)
         /\ \A x : Well([NoFeed EXCEPT !.client = x], version)
<1>1. <<>> \in Seq(Versions) /\ Len(<<>>) = 0 /\ 0 <= version
  BY EmptySeq, VersionsAreNumbers DEF TypeOK
<1> QED
  BY <1>1 DEF Well, UpTo, NoFeed

LEMMA EndpointWell ==
  ASSUME OrderInv, TypeOK', NEW s \in Sockets, Endpoint(s) \/ Socket(s)
  PROVE  OrderInv'
<1> DEFINE f == feed[s]
           q == f.queue
<1>1. /\ TypeOK /\ f \in Feed /\ q \in Seq(Versions) /\ f.sent \in Versions
      /\ f.frame \in Versions \cup {None} /\ version \in Versions /\ announced \in Versions
      /\ announced <= version
      /\ Well(f, version) /\ \A i \in 1..Len(q) : q[i] \in Versions
      /\ Len(q) \in Nat /\ (q # <<>> <=> Len(q) > 0)
  BY ElementOfSeq, LenProperties, EmptySeq DEF OrderInv, TypeOK, Feed
<1>2. CASE Accept(s)
  <2> DEFINE open == [f EXCEPT !.server = "open", !.queue = <<>>, !.frame = version]
             refused == [f EXCEPT !.server = "none"]
  <2>1. feed' = [feed EXCEPT ![s] = open] \/ feed' = [feed EXCEPT ![s] = refused]
    BY <1>2 DEF Accept, OrderInv, TypeOK
  <2>2. open.sent = f.sent /\ open.queue = <<>> /\ open.frame = version /\ version # None
    BY <1>1, VersionsAreNumbers DEF Feed
  <2>3. refused.sent = f.sent /\ refused.queue = q /\ refused.frame = f.frame
        /\ refused.server = "none"
    BY <1>1 DEF Feed
  <2> HIDE DEF open, refused
  <2>4. Len(<<>>) = 0
    BY EmptySeq
  <2>5. UpTo(open, version)
    BY <1>1, <2>2, <2>4, VersionsAreNumbers DEF Well, UpTo
  <2>6. Ordered(open) /\ NewestOf(open) = version
    BY <1>1, <2>2, <2>4 DEF Ordered, Sorted, NewestOf, Well, UpTo
  <2>7. Well(open, version) /\ Well(refused, version)
    BY <1>1, <2>3, <2>5, <2>6 DEF Well, UpTo
  <2> QED
    BY <1>2, <2>1, <2>7, SocketWell DEF Accept
<1>3. CASE TakeFrame(s)
  <2> DEFINE head == Head(q)
             rest == Tail(q)
             new == [f EXCEPT !.frame = head, !.queue = rest]
  <2>1. feed' = [feed EXCEPT ![s] = new] /\ f.server = "open" /\ q # <<>> /\ f.frame = None
    BY <1>3 DEF TakeFrame, OrderInv, TypeOK
  <2>2. UpTo(f, version) /\ Ordered(f) /\ announced <= NewestOf(f)
    BY <1>1, <2>1 DEF Well
  <2>3. /\ head = q[1] /\ head \in Versions /\ rest \in Seq(Versions)
        /\ (rest # <<>> => Last(rest) = Last(q)) /\ (rest = <<>> => head = Last(q))
    BY <1>1, <2>1, HeadTaken
  <2>4. /\ Sorted(rest) /\ (Len(rest) > 0 => q[1] <= rest[1])
        /\ \A i \in 1..Len(rest) : \E j \in 1..Len(q) : rest[i] = q[j]
    BY <1>1, <2>1, <2>2, TailKeepsOrder DEF Ordered
  <2>5. new.frame = head /\ new.queue = rest /\ new.sent = f.sent /\ new.server = "open"
        /\ head # None
    BY <1>1, <2>1, <2>3, VersionsAreNumbers DEF Feed
  <2>6. rest # <<>> => Len(rest) > 0
    BY <2>3, EmptySeq
  <2> HIDE DEF new, head, rest
  <2>7. UpTo(new, version)
    <3>1. \A i \in 1..Len(rest) : rest[i] <= version
      BY <2>2, <2>4 DEF UpTo
    <3>2. 1 \in 1..Len(q)
      BY <1>1, <2>1
    <3> QED
      BY <2>2, <2>3, <2>5, <3>1, <3>2 DEF UpTo
  <2>8. Ordered(new)
    <3>1. f.sent <= head
      BY <2>1, <2>2, <2>3 DEF Ordered
    <3>2. rest # <<>> => head <= rest[1] /\ rest[1] \in Versions
      <4> SUFFICES ASSUME rest # <<>> PROVE head <= rest[1] /\ rest[1] \in Versions
        OBVIOUS
      <4>1. Len(rest) \in Nat /\ 1 \in 1..Len(rest)
        BY <2>3, <2>6, LenProperties
      <4> QED
        BY <2>3, <2>4, <2>6, <4>1, ElementOfSeq
    <3>3. rest # <<>> => f.sent <= rest[1]
      BY <1>1, <2>3, <3>1, <3>2, Transitive
    <3> QED
      BY <2>4, <2>5, <3>1, <3>2, <3>3 DEF Ordered
  <2>9. NewestOf(new) = NewestOf(f)
    BY <2>1, <2>3, <2>5 DEF NewestOf
  <2> QED
    BY <1>3, <2>1, <2>2, <2>7, <2>8, <2>9, SocketWell DEF TakeFrame, Well
<1>4. CASE SendFails(s)
  BY <1>1, <1>4, NewConnectionWell, SocketWell DEF SendFails
<1>5. CASE Receive(s)
  <2> DEFINE new == [f EXCEPT !.sent = f.frame, !.frame = None]
  <2>1. feed' = [feed EXCEPT ![s] = new] /\ f.frame # None
    BY <1>5 DEF Receive, OrderInv, TypeOK
  <2>2. new.sent = f.frame /\ new.frame = None /\ new.queue = q /\ new.server = f.server
    BY <1>1 DEF Feed
  <2> HIDE DEF new
  <2>3. Well(new, version)
    BY <1>1, <2>1, <2>2 DEF Well, UpTo, Ordered, NewestOf
  <2> QED
    BY <1>5, <2>1, <2>3, SocketWell DEF Receive
<1>6. CASE Breaks(s) \/ OnClose(s)
  <2>1. PICK x \in {"closing", "none"} : feed' = [feed EXCEPT ![s] = [f EXCEPT !.client = x]]
        /\ UNCHANGED bus
    BY <1>6 DEF Breaks, OnClose, OrderInv, TypeOK
  <2> DEFINE new == [f EXCEPT !.client = x]
  <2>2. new.sent = f.sent /\ new.frame = f.frame /\ new.queue = q /\ new.server = f.server
    BY <1>1 DEF Feed
  <2> HIDE DEF new
  <2>3. Well(new, version)
    BY <1>1, <2>2 DEF Well, UpTo, Ordered, NewestOf
  <2> QED
    BY <2>1, <2>3, SocketWell DEF new
<1> QED
  BY <1>2, <1>3, <1>4, <1>5, <1>6 DEF Endpoint, Socket

LEMMA OrderStep == OrderInv /\ [Next]_vars => OrderInv'
<1> SUFFICES ASSUME OrderInv, [Next]_vars PROVE OrderInv'
  OBVIOUS
<1>1. TypeOK /\ TypeOK' /\ version \in Versions
  BY TypeStep DEF OrderInv, TypeOK
<1>2. ASSUME UNCHANGED <<bus, feed>> PROVE OrderInv'
  BY <1>1, <1>2 DEF OrderInv, Well, bus
<1>3. ASSUME ConnectWS \/ UNCHANGED <<feed, ws>>, UNCHANGED bus PROVE OrderInv'
  <2>1. CASE UNCHANGED feed
    BY <1>2, <1>3, <2>1
  <2> DEFINE new == [NoFeed EXCEPT !.client = "on", !.server = "accepting"]
  <2>2. CASE \E s \in Sockets : feed' = [feed EXCEPT ![s] = new]
    BY <1>1, <1>3, <2>2, NewConnectionWell, SocketWell
  <2> QED
    BY <1>3, <2>1, <2>2 DEF ConnectWS
<1>4. CASE ChangeAndNotify \/ Notify \/ Sample
  <2>1. PICK v \in {version, version + 1} : Announce(v) /\ version' = v
    BY <1>4 DEF ChangeAndNotify, Notify, Sample, bus
  <2>2. v \in Versions /\ version <= v
    BY <1>1, <2>1, VersionsAreNumbers DEF TypeOK
  <2> QED
    BY <1>1, <2>1, <2>2, AnnounceWell
<1>5. CASE ChangeThenSuspend \/ ChangeQuietly \/ Delete
  BY <1>1, <1>5, ChangeWell DEF ChangeThenSuspend, ChangeQuietly, Delete
<1>6. CASE \E s \in Sockets : Endpoint(s) \/ Socket(s)
  BY <1>1, <1>6, EndpointWell
<1>7. ASSUME NEW g \in Gets, Request(g) PROVE OrderInv'
  BY <1>2, <1>3, <1>7
     DEF Request, Refresh, Poll, Ask, Answer, Arrive, Fail, Over, Login, Admit, TurnAway,
         PickProject
<1>8. CASE Reconnect
  BY <1>3, <1>8 DEF Reconnect
<1>9. CASE Logout
  <2>1. ASSUME NEW s \in Sockets PROVE Well(feed[s], version)'
    <3> DEFINE f == feed[s]
               new == [f EXCEPT !.client = "closing"]
    <3>1. f \in Feed /\ Well(f, version)
      BY DEF OrderInv, TypeOK
    <3>2. new.sent = f.sent /\ new.frame = f.frame /\ new.queue = f.queue /\ new.server = f.server
      BY <3>1 DEF Feed
    <3>3. (feed'[s] = f \/ feed'[s] = new) /\ UNCHANGED <<version, announced>>
      BY <1>9 DEF Logout, bus
    <3> HIDE DEF new
    <3> QED
      BY <3>1, <3>2, <3>3 DEF Well, UpTo, Ordered, NewestOf
  <2> QED
    BY <1>1, <1>9, <2>1 DEF Logout, bus, OrderInv
<1>10. CASE UNCHANGED vars
  BY <1>2, <1>10 DEF vars
<1> QED
  BY <1>4, <1>5, <1>6, <1>7, <1>8, <1>9, <1>10 DEF Next, Bus

LEMMA OrderHolds == Spec => []OrderInv
<1>1. ASSUME Init PROVE OrderInv
  <2>1. TypeOK /\ announced <= version /\ \A s \in Sockets : feed[s] = [NoFeed EXCEPT !.client = "none"]
    BY <1>1, InitTypes DEF Init, NoFeed
  <2> QED
    BY <2>1, NewConnectionWell DEF OrderInv
<1> QED
  BY <1>1, OrderStep, PTL DEF Spec

(* A slow client sees fewer frames, never older ones after newer ones, for  *)
(* any size of its queue.                                                   *)
THEOREM FramesInOrder == Spec => []FeedInOrder
BY OrderHolds, WellIsInOrder, PTL

(* Whatever a full queue drops, the state last announced is not lost.       *)
THEOREM NewestFrameKept == Spec => []NewestKept
BY OrderHolds, WellIsInOrder, PTL

-----------------------------------------------------------------------------
(* One feed.                                                                *)

Live == {s \in Sockets : feed[s].client # "none"}
Boots(x) == x # NoGet /\ x.boot
Feeds == Cardinality(Live) + timers + Cardinality(Pending)

(* Before the first login there is none at all.                             *)
OneInv == TypeOK /\ (logins <= 1 => Feeds <= logins)

LEMMA Counted ==
  /\ Live \subseteq Sockets /\ IsFiniteSet(Live) /\ Cardinality(Live) \in Nat
  /\ Pending \subseteq Gets /\ IsFiniteSet(Pending) /\ Cardinality(Pending) \in Nat
<1>1. Live \in SUBSET Sockets /\ Pending \in SUBSET Gets
  BY DEF Live, Pending
<1>2. IsFiniteSet(Live) /\ IsFiniteSet(Pending)
  BY <1>1, FS_Subset, SlotsAssumption
<1> QED
  BY <1>1, <1>2, FS_CardinalityType

LEMMA CountedNext ==
  /\ Cardinality(Live') \in Nat /\ Cardinality(Pending') \in Nat
<1>1. Live' \in SUBSET Sockets /\ Pending' \in SUBSET Gets
  BY DEF Live, Pending
<1>2. IsFiniteSet(Live') /\ IsFiniteSet(Pending')
  BY <1>1, FS_Subset, SlotsAssumption
<1> QED
  BY <1>2, FS_CardinalityType

(* connectWS opens one socket at most.                                      *)
LEMMA ConnectsOne ==
  ASSUME TypeOK, ConnectWS \/ UNCHANGED <<feed, ws>>
  PROVE  Cardinality(Live') <= Cardinality(Live) + 1
<1>1. CASE UNCHANGED feed
  <2>1. Live' = Live
    BY <1>1 DEF Live
  <2> QED
    BY <2>1, Counted
<1>2. CASE \E s \in Sockets :
             /\ feed[s].client = "none"
             /\ feed' = [feed EXCEPT ![s] = [NoFeed EXCEPT !.client = "on", !.server = "accepting"]]
  <2>1. PICK s \in Sockets :
             /\ feed[s].client = "none"
             /\ feed' = [feed EXCEPT ![s] = [NoFeed EXCEPT !.client = "on", !.server = "accepting"]]
    BY <1>2
  <2>2. Live' = Live \cup {s} /\ s \notin Live
    BY <2>1 DEF Live, TypeOK, NoFeed
  <2>3. Cardinality(Live \cup {s}) = Cardinality(Live) + 1
    BY <2>2, Counted, FS_AddElement
  <2> QED
    BY <2>2, <2>3, Counted
<1> QED
  BY <1>1, <1>2 DEF ConnectWS

(* boot's request turns into its socket, or into nothing.                   *)
LEMMA OverCounts ==
  ASSUME TypeOK, NEW g \in Gets, get[g].pc = "answered", Over(g)
  PROVE  Feeds' <= Feeds /\ logins' = logins
<1>1. get[g] # NoGet /\ timers' = timers /\ logins' = logins /\ timers \in Nat
      /\ get' = [get EXCEPT ![g] = NoGet] /\ get[g].boot \in BOOLEAN
  <2>1. get[g] \in Get
    BY DEF TypeOK
  <2> QED
    BY <2>1, GetFields DEF Over, TypeOK
<1>2. Pending' = Pending \ {g}
  BY <1>1 DEF Pending, TypeOK
<1>3. CASE get[g].boot
  <2>1. g \in Pending
    BY <1>1, <1>3 DEF Pending
  <2>2. Cardinality(Pending') = Cardinality(Pending) - 1
    BY <1>2, <2>1, Counted, FS_RemoveElement
  <2>3. Cardinality(Live') <= Cardinality(Live) + 1
    BY <1>3, ConnectsOne DEF Over
  <2> QED
    BY <1>1, <2>2, <2>3, Counted, CountedNext DEF Feeds
<1>4. CASE ~get[g].boot
  <2>1. Pending' = Pending /\ Live' = Live
    BY <1>2, <1>4 DEF Pending, Live, Over
  <2> QED
    BY <1>1, <2>1, Counted, CountedNext DEF Feeds
<1> QED
  BY <1>3, <1>4

LEMMA OneStep == OneInv /\ [Next]_vars => OneInv'
<1> SUFFICES ASSUME OneInv, [Next]_vars PROVE OneInv'
  OBVIOUS
<1>1. TypeOK /\ TypeOK' /\ timers \in Nat /\ timers' \in Nat /\ logins \in Nat
      /\ logins' \in Nat
  BY TypeStep, BoundsAssumption DEF OneInv, TypeOK
<1>2. Feeds \in Nat /\ Feeds' \in Nat
  BY <1>1, Counted, CountedNext DEF Feeds
<1>3. SUFFICES \/ Feeds' <= Feeds /\ logins' = logins
               \/ logins' = logins + 1 /\ Feeds' <= Feeds + 1
  BY <1>1, <1>2 DEF OneInv
<1>4. ASSUME Live' = Live, Pending' = Pending, UNCHANGED <<timers, logins>>
      PROVE  Feeds' <= Feeds /\ logins' = logins
  BY <1>2, <1>4 DEF Feeds
<1>5. ASSUME \A s \in Sockets : feed'[s].client = feed[s].client
      PROVE  Live' = Live
  BY <1>5 DEF Live
<1>6. CASE Bus
  <2>1. ASSUME NEW v, Announce(v) PROVE Live' = Live
    BY <1>1, <1>5, <2>1 DEF Announce, TypeOK, Feed
  <2>2. Live' = Live /\ UNCHANGED <<get, timers, logins>>
    BY <1>6, <2>1, <1>5 DEF Bus, ChangeAndNotify, ChangeThenSuspend, Notify, ChangeQuietly, Delete, Sample, page
  <2> QED
    BY <1>4, <2>2 DEF Pending
<1>7. ASSUME NEW s \in Sockets, Endpoint(s) \/ Receive(s) \/ Breaks(s) 
      PROVE  Feeds' <= Feeds /\ logins' = logins
  <2>1. UNCHANGED <<get, timers, logins>>
    BY <1>7 DEF Endpoint, Accept, TakeFrame, SendFails, Receive, Breaks, page
  <2>2. \A x \in Sockets : feed'[x].client = feed[x].client
                           \/ (feed'[x].client = "closing" /\ feed[x].client = "on")
    <3>1. feed[s] \in Feed /\ feed \in [Sockets -> Feed]
      BY <1>1 DEF TypeOK
    <3>2. CASE Accept(s)
      BY <3>1, <3>2 DEF Accept, Feed
    <3>3. CASE TakeFrame(s)
      BY <3>1, <3>3 DEF TakeFrame, Feed
    <3>3a. CASE Receive(s)
      <4>1. feed' = [feed EXCEPT ![s].sent = feed[s].frame, ![s].frame = None]
        BY <3>3a DEF Receive
      <4> QED
        BY <3>1, <4>1 DEF Feed
    <3>4. CASE SendFails(s)
      BY <3>1, <3>4 DEF SendFails, Feed, NoFeed
    <3>5. CASE Breaks(s)
      BY <3>1, <3>5 DEF Breaks, Feed
    <3> QED
      BY <1>7, <3>2, <3>3, <3>3a, <3>4, <3>5 DEF Endpoint
  <2>3. Live' = Live
    BY <2>2 DEF Live
  <2> QED
    BY <1>4, <2>1, <2>3 DEF Pending
<1>8. ASSUME NEW s \in Sockets, OnClose(s) PROVE Feeds' <= Feeds /\ logins' = logins
  <2>1. /\ feed' = [feed EXCEPT ![s].client = "none"] /\ feed[s].client = "closing"
        /\ timers' = timers + 1 /\ UNCHANGED <<get, logins>>
    BY <1>8 DEF OnClose
  <2>2. Live' = Live \ {s} /\ s \in Live
    BY <1>1, <2>1 DEF Live, TypeOK, Feed
  <2>3. Cardinality(Live') = Cardinality(Live) - 1
    BY <2>2, Counted, FS_RemoveElement
  <2>4. Pending' = Pending
    BY <2>1 DEF Pending
  <2> QED
    BY <1>1, <1>2, <2>1, <2>3, <2>4, Counted, CountedNext DEF Feeds
<1>9. CASE Reconnect
  <2>1. timers' = timers - 1 /\ UNCHANGED <<get, logins>> /\ ConnectWS
    BY <1>9 DEF Reconnect
  <2>2. Pending' = Pending /\ Cardinality(Live') <= Cardinality(Live) + 1
    BY <1>1, <2>1, ConnectsOne DEF Pending
  <2> QED
    BY <1>1, <1>2, <2>1, <2>2, Counted, CountedNext DEF Feeds
<1>10. CASE Logout
  <2>1. \A x \in Sockets : feed'[x].client = feed[x].client
                           \/ (feed'[x].client = "closing" /\ feed[x].client = "on")
    BY <1>1, <1>10 DEF Logout, TypeOK, Feed
  <2>2. Live' = Live
    BY <2>1 DEF Live
  <2> QED
    BY <1>4, <1>10, <2>2 DEF Logout, Pending
<1>11. ASSUME NEW g \in Gets, Arrive(g) \/ Fail(g)
       PROVE  Feeds' <= Feeds /\ logins' = logins
  BY <1>1, <1>11, OverCounts DEF Arrive, Fail
<1>12. ASSUME NEW g \in Gets, Refresh(g) \/ Poll(g) \/ Answer(g) \/ \E p \in Projects \cup {All} : PickProject(g, p)
       PROVE  Feeds' <= Feeds /\ logins' = logins
  <2>1. UNCHANGED <<feed, timers, logins>>
    BY <1>12 DEF Refresh, Poll, Answer, PickProject, page
  <2>2. PICK new : get' = [get EXCEPT ![g] = new] /\ (Boots(new) <=> Boots(get[g]))
    <3>1. CASE Answer(g)
      <4> DEFINE new == [pc |-> "answered", scope |-> get[g].scope, boot |-> get[g].boot, at |-> version]
      <4>1. get[g] # NoGet /\ new # NoGet /\ new.boot = get[g].boot
        BY <3>1 DEF Answer, NoGet
      <4>2. get' = [get EXCEPT ![g] = new]
        BY <1>1, <3>1 DEF Answer, TypeOK
      <4> HIDE DEF new
      <4>3. Boots(new) <=> Boots(get[g])
        BY <4>1, Zenon DEF Boots
      <4> QED
        BY <4>2, <4>3
    <3>2. CASE ~Answer(g)
      <4>1. PICK p : get[g] = NoGet /\ get' = [get EXCEPT ![g] = [pc |-> "asked", scope |-> p, boot |-> FALSE]]
        BY <1>12, <3>2 DEF Refresh, Poll, Ask, PickProject
      <4>2. ~Boots(NoGet) /\ ~Boots([pc |-> "asked", scope |-> p, boot |-> FALSE])
        BY DEF Boots
      <4> QED
        BY <4>1, <4>2
    <3> QED
      BY <3>1, <3>2
  <2>3. Pending' = Pending
    <3>1. Pending = {x \in Gets : Boots(get[x])} /\ Pending' = {x \in Gets : Boots(get'[x])}
      BY DEF Pending, Boots
    <3>2. \A x \in Gets : Boots(get'[x]) <=> Boots(get[x])
      BY <1>1, <2>2 DEF TypeOK
    <3> QED
      BY <3>1, <3>2
  <2> QED
    BY <1>4, <2>1, <2>3 DEF Live
<1>13. ASSUME NEW g \in Gets, Login(g) PROVE logins' = logins + 1 /\ Feeds' <= Feeds + 1
  <2> DEFINE new == [pc |-> "who", boot |-> TRUE]
  <2>1. logins' = logins + 1 /\ UNCHANGED <<feed, timers>> /\ get[g] = NoGet
        /\ get' = [get EXCEPT ![g] = new]
    BY <1>13 DEF Login
  <2>2. new # NoGet /\ new.boot
    BY DEF NoGet
  <2> HIDE DEF new
  <2>3. Pending' = Pending \cup {g} /\ Live' = Live
    BY <1>1, <2>1, <2>2 DEF Pending, Live, TypeOK
  <2>4. Cardinality(Pending \cup {g}) <= Cardinality(Pending) + 1
    <3>1. Cardinality(Pending \cup {g})
            = IF g \in Pending THEN Cardinality(Pending) ELSE Cardinality(Pending) + 1
      BY Counted, FS_AddElement
    <3> QED
      BY <3>1, Counted
  <2> QED
    BY <1>1, <1>2, <2>1, <2>3, <2>4, Counted, CountedNext DEF Feeds
<1>13a. ASSUME NEW g \in Gets, Admit(g) \/ TurnAway(g)
        PROVE  Feeds' <= Feeds /\ logins' = logins
  <2>1. UNCHANGED <<feed, timers, logins>> /\ get[g].pc = "who"
    BY <1>13a DEF Admit, TurnAway, page
  <2>2. PICK new : get' = [get EXCEPT ![g] = new]
    BY <1>13a DEF Admit, TurnAway
  <2>3. get[g] # NoGet /\ get[g].boot = TRUE
    <3>1. get[g] \in Get
      BY <1>1 DEF TypeOK
    <3> QED
      BY <2>1, <3>1, GetFields
  <2>4. g \in Pending /\ (Pending' = Pending \/ Pending' = Pending \ {g})
    BY <1>1, <2>2, <2>3 DEF Pending, TypeOK
  <2>5. Cardinality(Pending \ {g}) = Cardinality(Pending) - 1
    BY <2>4, Counted, FS_RemoveElement
  <2>6. Live' = Live
    BY <2>1 DEF Live
  <2>7. Cardinality(Pending') <= Cardinality(Pending)
    <3>1. Cardinality(Pending) \in Nat
      BY Counted
    <3>2. CASE Pending' = Pending
      BY <3>1, <3>2
    <3>3. CASE Pending' = Pending \ {g}
      <4>1. Cardinality(Pending') = Cardinality(Pending) - 1
        BY <2>5, <3>3
      <4> QED
        BY <3>1, <4>1
    <3> QED
      BY <2>4, <3>2, <3>3
  <2>8. Cardinality(Live') = Cardinality(Live) /\ timers' = timers /\ logins' = logins
    BY <2>1, <2>6
  <2> QED
    BY <1>1, <1>2, <2>7, <2>8, Counted, CountedNext DEF Feeds
<1>14. CASE UNCHANGED vars
  BY <1>4, <1>14 DEF vars, page, Live, Pending
<1> QED
  BY <1>6, <1>7, <1>8, <1>9, <1>10, <1>11, <1>12, <1>13, <1>13a, <1>14
     DEF Next, Socket, Request

(* Until a second login, sockets, timers and pending boots are one feed at  *)
(* most, for any number of slots and however often connections break.       *)
THEOREM OneFeedAtATime == Spec => []OneFeed
<1>1. ASSUME Init PROVE OneInv
  <2>1. TypeOK /\ Live = {} /\ Pending = {} /\ timers = 0 /\ logins = 0
    BY <1>1, InitTypes DEF Init, Live, Pending, NoFeed
  <2> QED
    BY <2>1, FS_EmptySet DEF OneInv, Feeds
<1>2. OneInv => OneFeed
  <2> SUFFICES ASSUME OneInv, logins <= 1 PROVE Feeds <= 1
    BY DEF OneFeed, Feeds, Live
  <2>1. timers \in Nat /\ logins \in Nat
    BY BoundsAssumption DEF OneInv, TypeOK
  <2> QED
    BY <2>1, Counted DEF OneInv, Feeds
<1> QED
  BY <1>1, <1>2, OneStep, PTL DEF Spec
=============================================================================
