----------------------------- MODULE Login_proofs -----------------------------
(* The lockout, the recovery codes and the types of Login, for any          *)
(* addresses, codes, limits and times, checked by TLAPS, when requests for  *)
(* the account do not overlap.                                              *)
EXTENDS Login, SequenceTheorems, WellFoundedInduction, TLAPS

Fates == {"unused", "given", "dead", "reused"}
Loaded == [at : Windows \cup {"register"}, ip : Ips, row : Row]

Types ==
  /\ account \in Row
  /\ fate \in [Codes -> Fates]
  /\ request \in [Requests -> Loaded \cup {Idle}]

(* A handler that is going to compare a credential still has the account's  *)
(* row as it is, and not locked, so that time does not change it: nobody    *)
(* else is at work.                                                         *)
Held ==
  /\ \A r, x \in InFlight : r = x
  /\ \A r \in InFlight :
       request[r].at \in Windows => request[r].row = account /\ ~IsLocked(account)

IInv == Types /\ Held /\ LockMatchesCounter /\ RecoveryOnce

-----------------------------------------------------------------------------
(* The row is a record of these columns.                                    *)
LEMMA Columns ==
  ASSUME NEW row \in Row
  PROVE  /\ DOMAIN row = {"attempts", "lock", "pattern", "totp", "codes"}
         /\ row.attempts \in 0..MaxFailed /\ row.lock \in 0..LockTime \cup {None}
         /\ row.codes \subseteq Codes
BY DEF Row

(* A request that is idle has not loaded anything.                          *)
LEMMA IdleOrLoaded ==
  ASSUME Types, NEW r \in Requests
  PROVE  /\ request[r].at # "idle" => request[r] \in Loaded /\ r \in InFlight
         /\ request[r].at = "idle" => request[r] = Idle
BY DEF Types, Loaded, Windows, Idle, InFlight

(* What finishes leaves the others as they are.                             *)
LEMMA Finishes ==
  ASSUME Types, NEW r \in Requests, Finish(r)
  PROVE  /\ request' \in [Requests -> Loaded \cup {Idle}]
         /\ InFlight' = InFlight \ {r}
         /\ \A x \in InFlight' : request'[x] = request[x]
BY DEF Types, Finish, InFlight

(* Written with an up-to-date row is the new row.                           *)
LEMMA WrittenNow ==
  ASSUME NEW row \in Row, account = row, NEW new \in Row
  PROVE  Written(row, new) = new
<1>1. DOMAIN account = DOMAIN new
  BY Columns
<1>2. new = [f \in DOMAIN new |-> new[f]]
  BY DEF Row
<1> QED
  BY <1>1, <1>2 DEF Written

(* One failure more keeps counter and lock together.                        *)
LEMMA FailureCounts ==
  ASSUME account \in Row, LockMatchesCounter
  PROVE  /\ Failure(account) \in Row
         /\ Failure(account).attempts >= MaxFailed <=> Failure(account).lock # None
         /\ Failure(account).codes = account.codes
<1> DEFINE n == IF account.attempts < MaxFailed THEN account.attempts + 1 ELSE MaxFailed
           lock == IF n >= MaxFailed THEN LockTime ELSE account.lock
           new == [account EXCEPT !.attempts = n, !.lock = lock]
<1>1. account.attempts \in 0..MaxFailed /\ MaxFailed \in Nat \ {0} /\ LockTime \in Nat \ {0}
  BY Columns, BoundsAssumption
<1>2. n \in 0..MaxFailed
  BY <1>1
<1>3. lock \in 0..LockTime \cup {None} /\ (n >= MaxFailed <=> lock # None)
  <2>1. CASE n >= MaxFailed
    BY <2>1, <1>1, TimesAssumption
  <2>2. CASE ~(n >= MaxFailed)
    <3>1. lock = account.lock
      BY <2>2
    <3>2. ~(account.attempts >= MaxFailed)
      BY <2>2, <1>1
    <3> QED
      BY <2>2, <3>1, <3>2, Columns DEF LockMatchesCounter
  <2> QED
    BY <2>1, <2>2
<1>4. Failure(account) = new
  BY DEF Failure
<1> HIDE DEF n, lock
<1>5. new \in Row /\ new.attempts = n /\ new.lock = lock /\ new.codes = account.codes
  BY <1>2, <1>3 DEF Row
<1> HIDE DEF new
<1> QED
  BY <1>3, <1>4, <1>5

(* A success leaves no trace of the failures.                               *)
LEMMA ForgivenClean ==
  ASSUME NEW row \in Row
  PROVE  /\ Forgiven(row) \in Row /\ Forgiven(row).codes = row.codes
         /\ ~(Forgiven(row).attempts >= MaxFailed) /\ Forgiven(row).lock = None
<1> DEFINE new == [row EXCEPT !.attempts = 0, !.lock = None]
<1>1. 0 \in 0..MaxFailed /\ ~(0 >= MaxFailed)
  BY BoundsAssumption
<1>2. new \in Row /\ new.codes = row.codes /\ new.attempts = 0 /\ new.lock = None
  BY <1>1 DEF Row
<1> QED
  BY <1>1, <1>2 DEF Forgiven

-----------------------------------------------------------------------------
(* A handler at a window is alone, with the account as it is.               *)
LEMMA Alone ==
  ASSUME IInv, NEW r \in Requests, request[r].at \in Windows
  PROVE  request[r].row = account /\ InFlight = {r}
<1>1. r \in InFlight
  BY IdleOrLoaded DEF IInv, Windows
<1> QED
  BY <1>1 DEF IInv, Held

(* When a request ends, none is left.                                       *)
LEMMA AllRest ==
  ASSUME IInv, NEW r \in Requests, request[r].at # "idle", Finish(r)
  PROVE  request' \in [Requests -> Loaded \cup {Idle}] /\ Held'
<1>1. r \in InFlight
  BY IdleOrLoaded DEF IInv
<1>2. InFlight = {r}
  BY <1>1 DEF IInv, Held
<1>3. InFlight' = {} /\ request' \in [Requests -> Loaded \cup {Idle}]
  BY <1>2, Finishes DEF IInv
<1> QED
  BY <1>3 DEF Held

(* A request that begins begins alone.                                      *)
LEMMA Begins ==
  ASSUME Orderly, IInv, NEW r \in Requests, NEW ip \in Ips,
         NEW what \in Windows \cup {"register"},
         what \in Windows => ~IsLocked(account), Load(r, ip, what)
  PROVE  IInv'
<1> DEFINE new == [at |-> what, ip |-> ip, row |-> account]
<1>1. InFlight = {} /\ request' = [request EXCEPT ![r] = new] /\ UNCHANGED <<account, fate>>
  BY DEF Load
<1>2. new \in Loaded /\ new.at = what /\ new.row = account
  BY DEF Loaded, IInv, Types
<1> HIDE DEF new
<1>3. Types'
  BY <1>1, <1>2 DEF IInv, Types
<1>4. \A x \in InFlight' : x = r /\ request'[x] = new
  BY <1>1 DEF InFlight, IInv, Types
<1>5. Held'
  BY <1>1, <1>2, <1>4 DEF Held, IsLocked
<1>6. LockMatchesCounter' /\ RecoveryOnce'
  BY <1>1 DEF IInv, LockMatchesCounter, RecoveryOnce
<1> QED
  BY <1>3, <1>5, <1>6 DEF IInv

(* The token: what the handler wrote, with counter and lock cleared.        *)
LEMMA Issued ==
  ASSUME IInv, NEW r \in Requests, request[r].at \in Windows, NEW new \in Row,
         account' = Written(request[r].row, Forgiven(new))
  PROVE  account' \in Row /\ account'.codes = new.codes /\ LockMatchesCounter'
<1>1. account' = Forgiven(new)
  BY Alone, ForgivenClean, WrittenNow DEF IInv, Types
<1> QED
  BY <1>1, ForgivenClean DEF LockMatchesCounter

-----------------------------------------------------------------------------
(* A handler's step, whichever it is.                                       *)
LEMMA HandlerStep ==
  ASSUME IInv, NEW r \in Requests, Handler(r)
  PROVE  IInv'
<1>1. account \in Row /\ fate \in [Codes -> Fates] /\ LockMatchesCounter /\ RecoveryOnce
  BY DEF IInv, Types
<1> SUFFICES /\ request[r].at # "idle" /\ Finish(r)
             /\ account' \in Row /\ fate' \in [Codes -> Fates]
             /\ LockMatchesCounter' /\ RecoveryOnce'
  BY AllRest DEF IInv, Types
<1>2. ASSUME UNCHANGED <<account, fate>>
      PROVE  /\ account' \in Row /\ fate' \in [Codes -> Fates]
             /\ LockMatchesCounter' /\ RecoveryOnce'
  BY <1>1, <1>2 DEF LockMatchesCounter, RecoveryOnce
<1>3. ASSUME request[r].at \in Windows, UNCHANGED fate,
             account' = Written(request[r].row, Forgiven(request[r].row))
      PROVE  /\ account' \in Row /\ fate' \in [Codes -> Fates]
             /\ LockMatchesCounter' /\ RecoveryOnce'
  <2>1. request[r].row = account
    BY <1>3, Alone
  <2>2. account' \in Row /\ account'.codes = account.codes /\ LockMatchesCounter'
    BY <1>1, <1>3, <2>1, Issued
  <2> QED
    BY <1>1, <1>3, <2>2 DEF RecoveryOnce
<1>4. CASE RegisterCommit(r)
  BY <1>2, <1>4 DEF RegisterCommit
<1>5. CASE Wrong(r)
  <2>1. request[r].at \in Windows /\ account' = Failure(request[r].row) /\ fate' = fate /\ Finish(r)
    BY <1>5 DEF Wrong
  <2>2. account' = Failure(account) /\ request[r].at # "idle"
    BY <2>1, Alone DEF Windows
  <2>3. account' \in Row /\ account'.codes = account.codes /\ LockMatchesCounter'
    BY <1>1, <2>2, FailureCounts DEF LockMatchesCounter
  <2> QED
    BY <1>1, <2>1, <2>2, <2>3 DEF RecoveryOnce
<1>6. CASE Password(r)
  BY <1>2, <1>3, <1>6 DEF Password, Challenge, Issue, Windows
<1>7. CASE Pattern(r)
  BY <1>2, <1>3, <1>7 DEF Pattern, Challenge, Issue, Windows
<1>8. CASE Totp(r)
  BY <1>3, <1>8 DEF Totp, Issue, Windows
<1>9. CASE Recovery(r)
  <2>1. request[r].at \in Windows /\ request[r].at # "idle"
    BY <1>9 DEF Recovery, Windows
  <2>2. request[r].row = account
    BY <2>1, Alone
  <2>3. PICK k \in account.codes :
          Issue(r, [account EXCEPT !.codes = @ \ {k}]) /\ fate' = Spent({k})
    BY <1>9, <2>2 DEF Recovery
  <2> DEFINE new == [account EXCEPT !.codes = @ \ {k}]
  <2>4. new \in Row /\ new.codes = account.codes \ {k} /\ k \in Codes
    BY <1>1 DEF Row
  <2>5. Finish(r) /\ account' = Written(request[r].row, Forgiven(new))
    BY <2>3 DEF Issue
  <2> HIDE DEF new
  <2>6. account' \in Row /\ account'.codes = account.codes \ {k} /\ LockMatchesCounter'
    BY <2>1, <2>4, <2>5, Issued
  <2>7. fate[k] = "given"
    BY <1>1, <2>3, <2>4 DEF RecoveryOnce
  <2>8. fate' = [c \in Codes |-> IF c = k THEN "dead" ELSE fate[c]]
    BY <2>3, <2>7 DEF Spent
  <2>9. fate' \in [Codes -> Fates] /\ RecoveryOnce'
    BY <1>1, <2>4, <2>6, <2>8 DEF RecoveryOnce, Fates
  <2> QED
    BY <2>1, <2>5, <2>6, <2>9
<1>10. CASE UnlockScreen(r)
  BY <1>3, <1>10 DEF UnlockScreen, Windows
<1> QED
  BY <1>4, <1>5, <1>6, <1>7, <1>8, <1>9, <1>10 DEF Handler

(* The old codes are put an end to when new ones are given.                 *)
LEMMA Replaced ==
  ASSUME Types, RecoveryOnce, NEW given \in SUBSET Codes,
         fate' = NewCodes(given), account'.codes = given
  PROVE  fate' \in [Codes -> Fates] /\ RecoveryOnce'
<1>1. fate' = [k \in Codes |-> IF k \in given THEN "given"
                 ELSE IF k \in account.codes /\ fate[k] = "given" THEN "dead" ELSE fate[k]]
  BY DEF NewCodes
<1> QED
  BY <1>1 DEF RecoveryOnce, Types, Fates

(* Settings change the factors, never counter and lock.                     *)
LEMMA SettingsStep ==
  ASSUME Orderly, IInv, Settings
  PROVE  IInv'
<1>1. InFlight' = {} /\ request' = request
  BY DEF Settings, InFlight
<1>2. account \in Row /\ fate \in [Codes -> Fates] /\ LockMatchesCounter /\ RecoveryOnce /\ Types
  BY DEF IInv, Types
<1> SUFFICES /\ account' \in Row /\ fate' \in [Codes -> Fates] /\ RecoveryOnce'
             /\ account'.attempts = account.attempts /\ account'.lock = account.lock
  BY <1>1, <1>2 DEF IInv, Types, Held, LockMatchesCounter
<1>3. CASE \E on \in BOOLEAN : SetPattern(on)
  BY <1>2, <1>3 DEF SetPattern, Row, RecoveryOnce
<1>4. CASE TotpVerify
  BY <1>2, <1>4 DEF TotpVerify, Row, RecoveryOnce
<1>5. CASE TotpDisable
  <2>1. /\ account' \in Row /\ account'.codes = {} /\ fate' = NewCodes({})
        /\ account'.attempts = account.attempts /\ account'.lock = account.lock
    BY <1>2, <1>5 DEF TotpDisable, Row
  <2> QED
    BY <1>2, <2>1, Replaced
<1>6. CASE TotpSetup
  <2>1. PICK k \in Fresh : /\ account' = [account EXCEPT !.totp = "pending", !.codes = {k}]
                           /\ fate' = NewCodes({k})
    BY <1>6 DEF TotpSetup
  <2>2. {k} \in SUBSET Codes
    BY DEF Fresh
  <2>3. /\ account' \in Row /\ account'.codes = {k}
        /\ account'.attempts = account.attempts /\ account'.lock = account.lock
    BY <1>2, <2>1, <2>2 DEF Row
  <2> QED
    BY <1>2, <2>1, <2>2, <2>3, Replaced
<1>7. CASE RegenerateRecovery
  <2>1. PICK k \in Fresh : /\ account' = [account EXCEPT !.codes = {k}]
                           /\ fate' = NewCodes({k})
    BY <1>7 DEF RegenerateRecovery
  <2>2. {k} \in SUBSET Codes
    BY DEF Fresh
  <2>3. /\ account' \in Row /\ account'.codes = {k}
        /\ account'.attempts = account.attempts /\ account'.lock = account.lock
    BY <1>2, <2>1, <2>2 DEF Row
  <2> QED
    BY <1>2, <2>1, <2>2, <2>3, Replaced
<1> QED
  BY <1>3, <1>4, <1>5, <1>6, <1>7 DEF Settings

(* Time wears a lock off but never takes it away, nor puts one on: a row    *)
(* that is not locked stays as it is.                                       *)
LEMMA TickStep ==
  ASSUME IInv, Tick
  PROVE  IInv'
<1>1. /\ account \in Row /\ LockMatchesCounter /\ RecoveryOnce
      /\ account.lock \in 0..LockTime \cup {None} /\ LockTime \in Nat
  BY Columns, BoundsAssumption DEF IInv, Types
<1> DEFINE less == Less(account.lock)
<1>2. less \in 0..LockTime \cup {None} /\ (less # None <=> account.lock # None)
  BY <1>1, TimesAssumption DEF Less
<1>3. ~IsLocked(account) => less = account.lock
  BY DEF IsLocked, Less
<1>4. account' = [account EXCEPT !.lock = less] /\ request' = request /\ fate' = fate
  BY DEF Tick
<1> HIDE DEF less
<1>5. /\ account' \in Row /\ account'.lock = less
      /\ account'.attempts = account.attempts /\ account'.codes = account.codes
      /\ less = account.lock => account' = account
  BY <1>1, <1>2, <1>4 DEF Row
<1>6. Types'
  BY <1>4, <1>5 DEF IInv, Types
<1>7. Held'
  BY <1>3, <1>4, <1>5 DEF IInv, Held, InFlight, IsLocked
<1>8. LockMatchesCounter' /\ RecoveryOnce'
  BY <1>1, <1>2, <1>4, <1>5 DEF LockMatchesCounter, RecoveryOnce
<1> QED
  BY <1>6, <1>7, <1>8 DEF IInv

-----------------------------------------------------------------------------
LEMMA Inductive ==
  ASSUME Orderly
  PROVE  (Init => IInv) /\ (IInv /\ [Next]_vars => IInv')
<1>1. ASSUME Init PROVE IInv
  <2>1. account.attempts = 0 /\ account.lock = None /\ account.codes = {} /\ account \in Row
    BY <1>1, BoundsAssumption DEF Init, Row
  <2>2. InFlight = {} /\ Types
    BY <1>1, <2>1 DEF Init, InFlight, Types, Fates
  <2>3. LockMatchesCounter /\ RecoveryOnce
    BY <1>1, <2>1, BoundsAssumption DEF Init, LockMatchesCounter, RecoveryOnce
  <2> QED
    BY <2>2, <2>3 DEF IInv, Held
<1>2. ASSUME IInv, [Next]_vars PROVE IInv'
  <2>1. ASSUME UNCHANGED <<account, request, fate>> PROVE IInv'
    BY <1>2, <2>1 DEF IInv, Types, Held, InFlight, IsLocked, LockMatchesCounter, RecoveryOnce
  <2>2. CASE \E r \in Requests, ip \in Ips : Register(r, ip)
    BY <1>2, <2>2, Begins DEF Register, Windows
  <2>3. CASE \E r \in Requests, ip \in Ips, w \in Windows : Enter(r, ip, w)
    BY <1>2, <2>3, Begins DEF Enter
  <2>4. CASE \E r \in Requests : Handler(r)
    BY <1>2, <2>4, HandlerStep
  <2>5. CASE Settings
    BY <1>2, <2>5, SettingsStep
  <2>6. CASE Tick
    BY <1>2, <2>6, TickStep
  <2>7. CASE (\E ip \in Ips : UnknownUser(ip)) \/ Administer \/ SessionExpires \/ UNCHANGED vars
    BY <2>1, <2>7 DEF UnknownUser, Administer, SessionExpires, vars
  <2>8. CASE Restart
    <3>1. /\ request' = [r \in Requests |-> Idle] /\ account' = account /\ fate' = fate
          /\ InFlight' = {}
      BY <2>8 DEF Restart, InFlight
    <3> QED
      BY <1>2, <3>1 DEF IInv, Types, Held, LockMatchesCounter, RecoveryOnce
  <2> QED
    BY <1>2, <2>2, <2>3, <2>4, <2>5, <2>6, <2>7, <2>8 DEF Next
<1> QED
  BY <1>1, <1>2

(* The account is locked exactly since its counter reached the limit, for   *)
(* any limit and any times, whatever the requests do one after the other.   *)
THEOREM LockTold == ASSUME Orderly PROVE Spec => []LockMatchesCounter
<1>1. IInv => LockMatchesCounter
  BY DEF IInv
<1> QED
  BY Inductive, <1>1, PTL DEF Spec

(* No recovery code opens the account twice or comes back, for any number   *)
(* of codes.                                                                *)
THEOREM CodesOnce == ASSUME Orderly PROVE Spec => []RecoveryOnce
<1>1. IInv => RecoveryOnce
  BY DEF IInv
<1> QED
  BY Inductive, <1>1, PTL DEF Spec

-----------------------------------------------------------------------------
(* Types: what the row does not hold.                                       *)
Door ==
  /\ registered \in 0..1
  /\ \A r \in InFlight : request[r].at = "register" => registered = 0
  /\ challenge \in [{"pattern", "totp"} -> 0..TTL] /\ session \in BOOLEAN

Guard ==
  /\ bucket \in [Ips -> Seq(1..Window)]
  /\ \A ip \in Ips : Len(bucket[ip]) < Threshold
  /\ ban \in [Ips -> 0..BanTime \cup {Forever}]
  /\ siege \in BOOLEAN /\ whitelist \subseteq Ips

LEMMA GreatestElement ==
  ASSUME NEW n \in Nat, NEW S \in SUBSET (1..n), S # {}
  PROVE  \E x \in S : \A y \in S : x >= y
<1> DEFINE T == {k \in 0..n : \A y \in S : y <= k}
<1>1. n \in T /\ T \subseteq Nat
  OBVIOUS
<1>2. PICK k \in T : \A j \in T : ~ (<<j, k>> \in OpToRel(<, Nat))
  BY <1>1, NatLessThanWellFounded, WFMin
<1>3. k \in Nat /\ \A j \in T : ~(j < k)
  BY <1>1, <1>2 DEF OpToRel
<1>4. k \in S
  <2>1. SUFFICES ASSUME k \notin S PROVE FALSE
    OBVIOUS
  <2>2. PICK y \in S : TRUE
    OBVIOUS
  <2>3. y <= k /\ y # k /\ y \in 1..n
    BY <2>1
  <2>4. k - 1 \in 0..n
    BY <1>3, <2>3
  <2>5. \A z \in S : z <= k - 1
    BY <1>3, <2>1
  <2>6. k - 1 \in T
    BY <2>4, <2>5
  <2> QED
    BY <1>3, <2>6
<1>5. \A y \in S : k >= y
  BY <1>3
<1> QED
  BY <1>4, <1>5

(* What is left of a queue are failures that are not over.                  *)
LEMMA UnexpiredLeft ==
  ASSUME NEW s \in Seq(0..Window)
  PROVE  Unexpired(s) \in Seq(1..Window) /\ Len(Unexpired(s)) <= Len(s)
<1> DEFINE over == {i \in DOMAIN s : s[i] = 0}
           n == Len(s)
<1>0. Window \in Nat
  BY BoundsAssumption
<1>1. /\ n \in Nat /\ DOMAIN s = 1..n /\ s \in [1..n -> 0..Window]
      /\ \A i \in 1..n : s[i] \in 0..Window
  BY LenProperties, ElementOfSeq
<1>2. CASE over = {}
  <2>1. Unexpired(s) = s
    BY <1>2 DEF Unexpired
  <2>2. \A i \in 1..n : s[i] \in 1..Window
    <3> SUFFICES ASSUME NEW i \in 1..n PROVE s[i] \in 1..Window
      OBVIOUS
    <3>1. s[i] # 0 /\ s[i] \in 0..Window
      BY <1>1, <1>2
    <3> QED
      BY <1>0, <3>1
  <2> HIDE DEF n
  <2>3. s \in [1..n -> 1..Window]
    BY <1>1, <2>2
  <2> DEFINE Left == 1..Window
  <2>4. n \in Nat /\ s \in [1..n -> Left]
    BY <1>1, <2>3
  <2> HIDE DEF Left
  <2>5. s \in Seq(Left)
    BY <2>4, SeqDef
  <2> QED
    BY <1>1, <2>1, <2>5 DEF n, Left
<1>3. CASE over # {}
  <2> DEFINE m == Max(over)
  <2>1. \E x \in over : \A y \in over : x >= y
    BY <1>1, <1>3, GreatestElement
  <2>2. m \in over /\ \A y \in over : m >= y
    BY <2>1 DEF Max
  <2>3. Unexpired(s) = SubSeq(s, m + 1, n)
    BY <1>3 DEF Unexpired
  <2>4. m \in 1..n
    BY <1>1, <2>2
  <2> HIDE DEF m
  <2>5. \A i \in (m + 1)..n : s[i] \in 1..Window
    <3> SUFFICES ASSUME NEW i \in (m + 1)..n PROVE s[i] \in 1..Window
      OBVIOUS
    <3>1. i \in 1..n /\ ~(m >= i)
      BY <1>1, <2>4
    <3>2. s[i] # 0
      BY <1>1, <2>2, <3>1
    <3> QED
      BY <1>1, <3>1, <3>2, BoundsAssumption
  <2>6. /\ SubSeq(s, m + 1, n) \in Seq(1..Window)
        /\ Len(SubSeq(s, m + 1, n)) = IF m + 1 <= n THEN n - (m + 1) + 1 ELSE 0
    BY <1>1, <2>4, <2>5, SubSeqProperties
  <2> QED
    BY <1>1, <2>3, <2>4, <2>6
<1> QED
  BY <1>2, <1>3


(* Time goes by for a failure, a ban, a challenge.                          *)
LEMMA LessTime ==
  ASSUME NEW n \in Nat, NEW t \in 0..n
  PROVE  Less(t) \in 0..n
BY TimesAssumption DEF Less

LEMMA IpFailureGuard ==
  ASSUME Guard, NEW ip \in Ips, IpFailure(ip)
  PROVE  /\ bucket' \in [Ips -> Seq(1..Window)] /\ \A x \in Ips : Len(bucket'[x]) < Threshold
         /\ ban' \in [Ips -> 0..BanTime \cup {Forever}]
<1> DEFINE failures == Append(bucket[ip], Window)
<1>1. /\ Window \in 1..Window /\ BanTime \in Nat /\ Threshold \in Nat \ {0}
      /\ bucket[ip] \in Seq(1..Window) /\ ban[ip] \in 0..BanTime \cup {Forever}
  BY BoundsAssumption DEF Guard
<1>2. failures \in Seq(1..Window)
  BY <1>1, AppendProperties
<1>3. <<>> \in Seq(1..Window) /\ Len(<<>>) = 0
  BY EmptySeq
<1> HIDE DEF failures
<1>4. CASE Len(failures) < Threshold
  <2>1. bucket' = [bucket EXCEPT ![ip] = failures] /\ ban' = ban
    BY <1>4 DEF IpFailure, failures
  <2> QED
    BY <1>2, <1>4, <2>1 DEF Guard
<1>5. CASE ~(Len(failures) < Threshold)
  <2>1. /\ bucket' = [bucket EXCEPT ![ip] = <<>>]
        /\ ban' = [ban EXCEPT ![ip] = Longest(ban[ip], BanTime)]
    BY <1>5 DEF IpFailure, failures
  <2>2. Longest(ban[ip], BanTime) \in 0..BanTime \cup {Forever}
    BY <1>1 DEF Longest
  <2>3. ban' \in [Ips -> 0..BanTime \cup {Forever}]
    BY <2>1, <2>2 DEF Guard
  <2>4. bucket' \in [Ips -> Seq(1..Window)] /\ \A x \in Ips : Len(bucket'[x]) < Threshold
    BY <1>1, <1>3, <2>1 DEF Guard
  <2> QED
    BY <2>3, <2>4
<1> QED
  BY <1>4, <1>5

LEMMA IpSuccessGuard ==
  ASSUME Guard, NEW ip \in Ips, IpSuccess(ip), UNCHANGED <<ban, siege, whitelist>>
  PROVE  Guard'
<1>1. <<>> \in Seq(1..Window) /\ Len(<<>>) = 0 /\ Threshold \in Nat \ {0}
  BY EmptySeq, BoundsAssumption
<1>2. bucket' \in [Ips -> Seq(1..Window)] /\ \A x \in Ips : Len(bucket'[x]) < Threshold
  BY <1>1 DEF Guard, IpSuccess
<1> QED
  BY <1>2 DEF Guard

LEMMA HandlerGuard ==
  ASSUME Types, Guard, NEW r \in Requests, Handler(r)
  PROVE  Guard'
<1>1. ASSUME UNCHANGED guard PROVE Guard'
  BY <1>1 DEF Guard, guard
<1>2. request[r].at # "idle" => request[r].ip \in Ips
  BY IdleOrLoaded DEF Loaded
<1>3. ASSUME NEW new, Issue(r, new), request[r].at # "idle" PROVE Guard'
  BY <1>2, <1>3, IpSuccessGuard DEF Issue
<1>4. CASE RegisterCommit(r)
  BY <1>1, <1>4 DEF RegisterCommit
<1>5. CASE Wrong(r)
  <2>1. CASE request[r].at = "unlock"
    BY <1>1, <1>5, <2>1 DEF Wrong, guard
  <2>2. CASE request[r].at # "unlock"
    <3>1. IpFailure(request[r].ip) /\ request[r].ip \in Ips /\ UNCHANGED <<siege, whitelist>>
      BY <1>2, <1>5, <2>2 DEF Wrong, Windows
    <3> QED
      BY <3>1, IpFailureGuard DEF Guard
  <2> QED
    BY <2>1, <2>2
<1>6. CASE Password(r)
  <2>1. request[r].at # "idle"
    BY <1>6 DEF Password
  <2>2. CASE \E w : Challenge(r, w) /\ IpSuccess(request[r].ip)
    BY <1>2, <2>1, <2>2, IpSuccessGuard DEF Challenge
  <2>3. CASE Issue(r, request[r].row)
    BY <1>3, <2>1, <2>3
  <2> QED
    BY <1>6, <2>2, <2>3 DEF Password
<1>7. CASE Pattern(r)
  <2>1. request[r].at # "idle"
    BY <1>7 DEF Pattern
  <2>2. CASE Challenge(r, "totp") /\ UNCHANGED bucket
    BY <1>1, <2>2 DEF Challenge, guard
  <2>3. CASE Issue(r, request[r].row)
    BY <1>3, <2>1, <2>3
  <2> QED
    BY <1>7, <2>2, <2>3 DEF Pattern
<1>8. CASE Totp(r)
  BY <1>3, <1>8 DEF Totp
<1>9. CASE Recovery(r)
  BY <1>3, <1>9 DEF Recovery
<1>10. CASE UnlockScreen(r)
  BY <1>1, <1>10 DEF UnlockScreen
<1> QED
  BY <1>4, <1>5, <1>6, <1>7, <1>8, <1>9, <1>10 DEF Handler

LEMMA AdministerGuard ==
  ASSUME Guard, Administer
  PROVE  Guard'
<1>1. BanTime \in Nat /\ bucket' = bucket
  BY BoundsAssumption DEF Administer
<1>2. PICK ip \in Ips :
        \/ \E t \in {BanTime, Forever} : Ban(ip, t)
        \/ Unban(ip) \/ WhitelistAdd(ip) \/ WhitelistRemove(ip)
        \/ \E on \in BOOLEAN : SetSiege(on)
  BY DEF Administer
<1>3. CASE \E t \in {BanTime, Forever} : Ban(ip, t)
  <2>1. PICK t \in {BanTime, Forever} : Ban(ip, t)
    BY <1>3
  <2>2. Longest(ban[ip], t) \in 0..BanTime \cup {Forever}
    BY <1>1 DEF Longest, Guard
  <2> QED
    BY <1>1, <2>1, <2>2 DEF Ban, Guard
<1>4. CASE Unban(ip)
  BY <1>1, <1>4 DEF Unban, Guard
<1>5. CASE WhitelistAdd(ip) \/ WhitelistRemove(ip) \/ \E on \in BOOLEAN : SetSiege(on)
  BY <1>1, <1>5 DEF WhitelistAdd, WhitelistRemove, SetSiege, Guard
<1> QED
  BY <1>2, <1>3, <1>4, <1>5

LEMMA TickGuard ==
  ASSUME Guard, Tick
  PROVE  Guard'
<1>1. ASSUME NEW ip \in Ips
      PROVE  LET s == Unexpired([i \in DOMAIN bucket[ip] |-> Less(bucket[ip][i])])
             IN s \in Seq(1..Window) /\ Len(s) < Threshold
  <2> DEFINE b == bucket[ip]
             t == [i \in DOMAIN b |-> Less(b[i])]
  <2>1. /\ b \in Seq(1..Window) /\ Len(b) < Threshold
        /\ Window \in Nat /\ Threshold \in Nat
    BY BoundsAssumption DEF Guard
  <2> HIDE DEF b
  <2>2. Len(b) \in Nat /\ DOMAIN b = 1..Len(b) /\ \A i \in 1..Len(b) : b[i] \in 1..Window
    BY <2>1, LenProperties, ElementOfSeq
  <2>3. \A i \in 1..Len(b) : Less(b[i]) \in 0..Window
    BY <2>1, <2>2, LessTime
  <2>4. t \in [1..Len(b) -> 0..Window]
    BY <2>2, <2>3
  <2>5. t \in Seq(0..Window) /\ Len(t) = Len(b)
    BY <2>2, <2>4, SeqDef, LenProperties
  <2> HIDE DEF t
  <2>6. Unexpired(t) \in Seq(1..Window) /\ Len(Unexpired(t)) <= Len(t)
    BY <2>5, UnexpiredLeft
  <2>7. Len(Unexpired(t)) < Threshold
    BY <2>1, <2>2, <2>5, <2>6, LenProperties
  <2> QED
    BY <2>6, <2>7 DEF t, b
<1>2. bucket' \in [Ips -> Seq(1..Window)] /\ \A ip \in Ips : Len(bucket'[ip]) < Threshold
  <2>1. bucket' = [ip \in Ips |-> Unexpired([i \in DOMAIN bucket[ip] |-> Less(bucket[ip][i])])]
    BY DEF Tick
  <2> QED
    BY <1>1, <2>1
<1>3. ban' \in [Ips -> 0..BanTime \cup {Forever}]
  <2>1. \A ip \in Ips : Less(ban[ip]) \in 0..BanTime \cup {Forever}
    BY BoundsAssumption, LessTime DEF Guard, Less
  <2> QED
    BY <2>1 DEF Tick
<1> QED
  BY <1>2, <1>3 DEF Tick, Guard

LEMMA GuardStep ==
  ASSUME Types, Guard, [Next]_vars
  PROVE  Guard'
<1>1. ASSUME UNCHANGED guard PROVE Guard'
  BY <1>1 DEF Guard, guard
<1>2. CASE \E r \in Requests, ip \in Ips : Register(r, ip)
  BY <1>1, <1>2 DEF Register, Load
<1>3. CASE \E r \in Requests, ip \in Ips, w \in Windows : Enter(r, ip, w)
  BY <1>1, <1>3 DEF Enter, Load
<1>4. CASE \E r \in Requests : Handler(r)
  BY <1>4, HandlerGuard
<1>5. CASE Restart
  <2>1. <<>> \in Seq(1..Window) /\ Len(<<>>) = 0 /\ Threshold \in Nat \ {0}
    BY EmptySeq, BoundsAssumption
  <2>2. bucket' = [ip \in Ips |-> <<>>] /\ UNCHANGED <<ban, siege, whitelist>>
    BY <1>5 DEF Restart
  <2>3. bucket' \in [Ips -> Seq(1..Window)] /\ \A ip \in Ips : Len(bucket'[ip]) < Threshold
    BY <2>1, <2>2
  <2> QED
    BY <2>2, <2>3 DEF Guard
<1>6. CASE Settings \/ SessionExpires \/ UNCHANGED vars
  BY <1>1, <1>6 DEF Settings, SessionExpires, vars
<1>7. ASSUME NEW ip \in Ips, UnknownUser(ip) PROVE Guard'
  <2>1. IpFailure(ip) /\ UNCHANGED <<siege, whitelist>>
    BY <1>7 DEF UnknownUser
  <2> QED
    BY <2>1, IpFailureGuard DEF Guard
<1> QED
  BY <1>2, <1>3, <1>4, <1>5, <1>6, <1>7, AdministerGuard, TickGuard DEF Next

(* Accounts, challenges and tokens: a registration that is under way is     *)
(* alone and there is no account yet.                                       *)
LEMMA DoorStep ==
  ASSUME Orderly, IInv, Door, [Next]_vars
  PROVE  Door'
<1>1. TTL \in 0..TTL /\ TTL \in Nat
  BY BoundsAssumption
<1>2. Types /\ \A r, x \in InFlight : r = x
  BY DEF IInv, Held
<1>3. ASSUME UNCHANGED <<registered, challenge, session, request>> PROVE Door'
  BY <1>3 DEF Door, InFlight
<1>4. ASSUME NEW r \in Requests, NEW ip \in Ips, NEW what \in Windows \cup {"register"},
             what = "register" => registered = 0, Load(r, ip, what)
      PROVE  Door'
  <2> DEFINE new == [at |-> what, ip |-> ip, row |-> account]
  <2>1. /\ InFlight = {} /\ request' = [request EXCEPT ![r] = new] /\ new.at = what
        /\ UNCHANGED <<registered, challenge, session>>
    BY <1>4 DEF Load
  <2> HIDE DEF new
  <2>2. \A x \in InFlight' : request'[x] = new
    BY <1>2, <2>1 DEF InFlight, Types
  <2> QED
    BY <1>4, <2>1, <2>2 DEF Door
<1>5. CASE \E r \in Requests, ip \in Ips : Register(r, ip)
  BY <1>4, <1>5 DEF Register
<1>6. CASE \E r \in Requests, ip \in Ips, w \in Windows : Enter(r, ip, w)
  BY <1>4, <1>6 DEF Enter, Windows
<1>7. CASE \E r \in Requests : Handler(r)
  <2>1. PICK r \in Requests : Handler(r)
    BY <1>7
  <2>2. request[r].at # "idle" /\ Finish(r)
    BY <2>1 DEF Handler, RegisterCommit, Wrong, Password, Pattern, Totp, Recovery, UnlockScreen,
                Challenge, Issue, Windows
  <2>3. r \in InFlight /\ InFlight' = {}
    BY <1>2, <2>2, IdleOrLoaded, Finishes
  <2>4. registered' \in 0..1
    <3>1. CASE RegisterCommit(r)
      BY <2>3, <3>1 DEF RegisterCommit, Door
    <3>2. CASE registered' = registered
      BY <3>2 DEF Door
    <3> QED
      BY <2>1, <3>1, <3>2 DEF Handler, Wrong, Password, Pattern, Totp, Recovery, UnlockScreen,
                              Challenge, Issue
  <2>5. challenge' = challenge \/ \E w \in {"pattern", "totp"} : Challenge(r, w)
    BY <2>1 DEF Handler, RegisterCommit, Wrong, Password, Pattern, Totp, Recovery, UnlockScreen,
                Issue
  <2>6. challenge' \in [{"pattern", "totp"} -> 0..TTL]
    BY <1>1, <2>5 DEF Challenge, Door
  <2>7. session' \in BOOLEAN
    <3>1. session' = session \/ session' = TRUE
      BY <2>1, Zenon DEF Handler, RegisterCommit, Wrong, Password, Pattern, Totp, Recovery,
                         UnlockScreen, Challenge, Issue
    <3> QED
      BY <3>1 DEF Door
  <2> QED
    BY <2>3, <2>4, <2>6, <2>7 DEF Door
<1>8. CASE Tick
  <2>1. \A w \in {"pattern", "totp"} : Less(challenge[w]) \in 0..TTL
    BY <1>1, LessTime DEF Door
  <2>2. /\ challenge' = [w \in {"pattern", "totp"} |-> Less(challenge[w])]
        /\ UNCHANGED <<registered, session, request>>
    BY <1>8 DEF Tick
  <2>3. challenge' \in [{"pattern", "totp"} -> 0..TTL]
    BY <2>1, <2>2
  <2> QED
    BY <2>2, <2>3 DEF Door, InFlight
<1>9. CASE SessionExpires
  BY <1>9 DEF SessionExpires, Door, InFlight
<1>10. CASE Restart
  BY <1>10 DEF Restart, Door, InFlight
<1>11. CASE (\E ip \in Ips : UnknownUser(ip)) \/ Settings \/ Administer \/ UNCHANGED vars
  BY <1>3, <1>11 DEF UnknownUser, Settings, Administer, vars
<1> QED
  BY <1>5, <1>6, <1>7, <1>8, <1>9, <1>10, <1>11 DEF Next

(* One account at most is ever registered, the counter, the lock and every  *)
(* timer stay within their bounds, and no address keeps as many failures as *)
(* would ban it.                                                            *)
THEOREM LoginTypes == ASSUME Orderly PROVE Spec => []TypeOK
<1> DEFINE All == IInv /\ Door /\ Guard
<1>1. Init => All
  <2> SUFFICES ASSUME Init PROVE Door /\ Guard
    BY Inductive
  <2>1. /\ 0 \in 0..1 /\ 0 \in 0..TTL /\ 0 \in 0..BanTime /\ Threshold \in Nat \ {0}
        /\ <<>> \in Seq(1..Window) /\ Len(<<>>) = 0
    BY BoundsAssumption, EmptySeq
  <2>2. Door
    BY <2>1 DEF Init, Door, InFlight
  <2>3. bucket \in [Ips -> Seq(1..Window)] /\ \A ip \in Ips : Len(bucket[ip]) < Threshold
    BY <2>1 DEF Init
  <2> QED
    BY <2>1, <2>2, <2>3 DEF Init, Guard
<1>2. All /\ [Next]_vars => All'
  <2>1. IInv /\ [Next]_vars => IInv'
    BY Inductive
  <2> QED
    BY <2>1, GuardStep, DoorStep DEF IInv
<1>3. All => TypeOK
  <2> SUFFICES ASSUME All PROVE TypeOK
    OBVIOUS
  <2>1. ASSUME NEW ip \in Ips
        PROVE  Len(bucket[ip]) < Threshold /\ ToSet(bucket[ip]) \subseteq 1..Window
    <3>1. bucket[ip] \in Seq(1..Window) /\ Len(bucket[ip]) < Threshold
      BY DEF Guard
    <3>2. /\ DOMAIN bucket[ip] = 1..Len(bucket[ip])
          /\ \A i \in 1..Len(bucket[ip]) : bucket[ip][i] \in 1..Window
      BY <3>1, LenProperties, ElementOfSeq
    <3>3. ToSet(bucket[ip]) \subseteq 1..Window
      BY <3>2 DEF ToSet
    <3> QED
      BY <3>1, <3>3
  <2> QED
    BY <2>1 DEF TypeOK, IInv, Types, Door, Guard
<1> QED
  BY <1>1, <1>2, <1>3, PTL DEF Spec
=============================================================================
