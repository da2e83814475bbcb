-------------------------------- MODULE Login --------------------------------
(***************************************************************************)
(* Signing in: api/v1/auth.py with services/auth_guard.py (the counter that*)
(* locks an account), services/ip_guard.py (bans, siege mode, whitelist),  *)
(* the challenge tokens of core/security.py and the recovery codes of      *)
(* services/totp.py; also the credential resets of api/v1/users.py and the *)
(* switches of api/v1/security.py.  One account, settings.lockout_enabled. *)
(*                                                                         *)
(* A handler loads the account's row, spends a while on PBKDF2, and then   *)
(* commits; handlers run on worker threads.  Times are timers that Tick    *)
(* counts down: 0 is over, None is not set.  The password and the PIN are  *)
(* one credential here.                                                    *)
(***************************************************************************)
EXTENDS Naturals, Sequences, FiniteSets, SequencesExt

CONSTANTS
  Ips, Codes,
  MaxFailed,    (* auth_max_failed_attempts                                 *)
  LockTime,     (* auth_lockout_minutes                                     *)
  Threshold, Window, BanTime,   (* ip_ban_*: failures, minutes, minutes     *)
  TTL,          (* life of a challenge token                                *)
  Requests,     (* slots for requests that may be in flight at once         *)
  Orderly,      (* TRUE: requests for the account do not overlap            *)
  None, Forever (* no time, no end                                          *)

ASSUME BoundsAssumption ==
  {MaxFailed, LockTime, Threshold, Window, BanTime, TTL} \subseteq Nat \ {0}
ASSUME OrderlyAssumption == Orderly \in BOOLEAN
ASSUME TimesAssumption == None \notin Nat /\ Forever \notin Nat

VARIABLES
  registered, (* accounts made by /auth/register                            *)
  account,    (* the row: counter, lock, second factors, recovery codes     *)
  challenge,  (* time left to the newest challenge for window 2 and 3       *)
  session,    (* somebody holds an access token                             *)
  request,    (* request slot -> the row its handler loaded, what it does   *)
  bucket,     (* ip_guard._failures: time until each failure is forgotten   *)
  ban,        (* ip_bans table: ip -> time left of the longest ban          *)
  siege, whitelist,   (* its sentinel rows                                  *)
  fate        (* history: recovery code -> what became of it                *)

guard == <<bucket, ban, siege, whitelist>>
vars == <<registered, account, challenge, session, request, guard, fate>>

Idle == [at |-> "idle"]
InFlight == {r \in Requests : request[r] # Idle}

-----------------------------------------------------------------------------
(* services/auth_guard.py                                                   *)

IsLocked(row) == row.lock \notin {None, 0}

(* The commit of a handler that loaded "old" and made it "new" writes the   *)
(* columns that changed.                                                    *)
Written(old, new) ==
  [f \in DOMAIN account |-> IF new[f] # old[f] THEN new[f] ELSE account[f]]

(* register_failure: always a new count and, at the limit, a new lock.  The *)
(* count stops at the limit, past which nothing tells its values apart.     *)
Failure(old) ==
  LET n == IF old.attempts < MaxFailed THEN old.attempts + 1 ELSE MaxFailed
  IN [account EXCEPT !.attempts = n, !.lock = IF n >= MaxFailed THEN LockTime ELSE @]

(* Faulty variant: the lock is left to lapse by itself.                     *)
ForgivenCounterOnly(row) == [row EXCEPT !.attempts = 0]

(* register_success                                                         *)
Forgiven(row) == [row EXCEPT !.attempts = 0, !.lock = None]

-----------------------------------------------------------------------------
(* services/ip_guard.py                                                     *)

CheckBlocked(ip) == ban[ip] # 0 \/ (siege /\ ip \notin whitelist)

Longest(s, t) == IF Forever \in {s, t} THEN Forever ELSE IF s >= t THEN s ELSE t

(* The failures queue up in the order of their time: those that are over    *)
(* are at the front, and leave.                                             *)
Unexpired(queue) ==
  LET over == {i \in DOMAIN queue : queue[i] = 0}
  IN IF over = {} THEN queue ELSE SubSeq(queue, Max(over) + 1, Len(queue))

IpFailure(ip) ==
  LET failures == Append(bucket[ip], Window)
  IN IF Len(failures) < Threshold
       THEN bucket' = [bucket EXCEPT ![ip] = failures] /\ UNCHANGED ban
       ELSE /\ bucket' = [bucket EXCEPT ![ip] = <<>>]
            /\ ban' = [ban EXCEPT ![ip] = Longest(@, BanTime)]

IpSuccess(ip) == bucket' = [bucket EXCEPT ![ip] = <<>>]

(* POST and DELETE /security/bans, /security/siege, /security/whitelist, by *)
(* an administrator at a place that is not blocked.                         *)
Ban(ip, t) == ban' = [ban EXCEPT ![ip] = Longest(@, t)] /\ UNCHANGED <<siege, whitelist>>
Unban(ip) == ban' = [ban EXCEPT ![ip] = 0] /\ UNCHANGED <<siege, whitelist>>
SetSiege(on) == siege' = on /\ UNCHANGED <<ban, whitelist>>
WhitelistAdd(ip) == whitelist' = whitelist \cup {ip} /\ UNCHANGED <<ban, siege>>
WhitelistRemove(ip) == whitelist' = whitelist \ {ip} /\ UNCHANGED <<ban, siege>>

Administer ==
  /\ registered > 0
  /\ \E here \in Ips : ~CheckBlocked(here)
  /\ \E ip \in Ips :
       \/ \E t \in {BanTime, Forever} : Ban(ip, t)
       \/ Unban(ip) \/ WhitelistAdd(ip) \/ WhitelistRemove(ip)
       \/ \E on \in BOOLEAN : SetSiege(on)
  /\ UNCHANGED <<registered, account, challenge, session, request, bucket, fate>>

-----------------------------------------------------------------------------
(* Requests                                                                 *)

Load(r, ip, what) ==
  /\ request[r] = Idle
  /\ Orderly => InFlight = {}
  /\ ~CheckBlocked(ip)
  /\ request' = [request EXCEPT ![r] = [at |-> what, ip |-> ip, row |-> account]]
  /\ UNCHANGED <<registered, account, challenge, session, guard, fate>>

Finish(r) == request' = [request EXCEPT ![r] = Idle]

(* Faulty variant: whether accounts exist is not asked.                     *)
RegisterAlways(r, ip) == registered < 2 /\ Load(r, ip, "register")

(* POST /auth/register: only while there is no account.                     *)
Register(r, ip) == registered = 0 /\ Load(r, ip, "register")

RegisterCommit(r) ==
  /\ request[r].at = "register"
  /\ registered' = registered + 1
  /\ Finish(r)
  /\ UNCHANGED <<account, challenge, session, guard, fate>>

(* The three windows of a login, the last two with a challenge that has not *)
(* expired.  "unlock" is the lock screen, for whoever holds a token:        *)
(* get_current_user asks for a valid signature and an active account, not   *)
(* for the token's step.                                                    *)
Windows == {"password", "pattern", "totp", "unlock"}
Entitled(w) ==
  CASE w = "password" -> registered > 0
    [] w \in {"pattern", "totp"} -> challenge[w] > 0
    [] OTHER -> session \/ challenge["pattern"] > 0 \/ challenge["totp"] > 0

(* Faulty variant: a locked account is told so after the comparison.        *)
EnterUnchecked(r, ip, w) == Entitled(w) /\ Load(r, ip, w)

Enter(r, ip, w) == Entitled(w) /\ ~IsLocked(account) /\ Load(r, ip, w)

(* A credential that is wrong, or that the row does not have.               *)
Wrong(r) ==
  /\ request[r].at \in Windows
  /\ account' = Failure(request[r].row)
  /\ IF request[r].at = "unlock" THEN UNCHANGED <<bucket, ban>> ELSE IpFailure(request[r].ip)
  /\ Finish(r)
  /\ UNCHANGED <<registered, challenge, session, siege, whitelist, fate>>

(* A login with an unknown user name counts against the address alone.      *)
UnknownUser(ip) ==
  /\ ~CheckBlocked(ip)
  /\ IpFailure(ip)
  /\ UNCHANGED <<registered, account, challenge, session, request, siege, whitelist, fate>>

(* A window passed with another to come: a challenge for it.                *)
Challenge(r, w) ==
  /\ challenge' = [challenge EXCEPT ![w] = TTL]
  /\ Finish(r)
  /\ UNCHANGED <<registered, account, session, ban, siege, whitelist, fate>>

(* _issue_login_token for a handler that has made "new" of its row.         *)
Issue(r, new) ==
  /\ account' = Written(request[r].row, Forgiven(new))
  /\ session' = TRUE
  /\ IpSuccess(request[r].ip)
  /\ Finish(r)
  /\ UNCHANGED <<registered, challenge, ban, siege, whitelist>>

Password(r) ==
  LET row == request[r].row
  IN /\ request[r].at = "password"
     /\ \/ row.pattern /\ Challenge(r, "pattern") /\ IpSuccess(request[r].ip)
        \/ ~row.pattern /\ row.totp = "on" /\ Challenge(r, "totp") /\ IpSuccess(request[r].ip)
        \/ ~row.pattern /\ row.totp # "on" /\ Issue(r, row) /\ UNCHANGED fate

Pattern(r) ==
  LET row == request[r].row
  IN /\ request[r].at = "pattern" /\ row.pattern
     /\ \/ row.totp = "on" /\ Challenge(r, "totp") /\ UNCHANGED bucket
        \/ row.totp # "on" /\ Issue(r, row) /\ UNCHANGED fate

Totp(r) ==
  /\ request[r].at = "totp" /\ request[r].row.totp = "on"
  /\ Issue(r, request[r].row) /\ UNCHANGED fate

Spent(codes) ==
  [k \in Codes |-> IF k \notin codes THEN fate[k]
                   ELSE IF fate[k] = "dead" THEN "reused" ELSE "dead"]

(* Faulty variant: the code is accepted and not consumed.                   *)
RecoveryKept(r) ==
  LET row == request[r].row
  IN /\ request[r].at = "totp" /\ row.totp = "on"
     /\ \E k \in row.codes : Issue(r, row) /\ fate' = Spent({k})

(* A recovery code, consumed by writing the list without it (committed just *)
(* before the token is issued).                                             *)
Recovery(r) ==
  LET row == request[r].row
  IN /\ request[r].at = "totp" /\ row.totp = "on"
     /\ \E k \in row.codes :
          Issue(r, [row EXCEPT !.codes = @ \ {k}]) /\ fate' = Spent({k})

UnlockScreen(r) ==
  /\ request[r].at = "unlock"
  /\ account' = Written(request[r].row, Forgiven(request[r].row))
  /\ session' = TRUE
  /\ Finish(r)
  /\ UNCHANGED <<registered, challenge, guard, fate>>

-----------------------------------------------------------------------------
(* Self-service and resets by an administrator: one commit each.            *)

Fresh == {k \in Codes : fate[k] = "unused"}

(* New recovery codes, one here, put an end to the old ones.                *)
NewCodes(codes) ==
  [k \in Codes |-> IF k \in codes THEN "given"
                   ELSE IF k \in account.codes /\ fate[k] = "given" THEN "dead" ELSE fate[k]]

SetPattern(on) == account' = [account EXCEPT !.pattern = on] /\ UNCHANGED fate

TotpSetup ==
  /\ account.totp # "on"
  /\ \E k \in Fresh :
       /\ account' = [account EXCEPT !.totp = "pending", !.codes = {k}]
       /\ fate' = NewCodes({k})

TotpVerify ==
  /\ account.totp # "off"
  /\ account' = [account EXCEPT !.totp = "on"]
  /\ UNCHANGED fate

TotpDisable ==
  /\ account' = [account EXCEPT !.totp = "off", !.codes = {}]
  /\ fate' = NewCodes({})

RegenerateRecovery ==
  /\ account.totp = "on"
  /\ \E k \in Fresh : account' = [account EXCEPT !.codes = {k}] /\ fate' = NewCodes({k})

Settings ==
  /\ registered > 0
  /\ Orderly => InFlight = {}
  /\ \/ \E on \in BOOLEAN : SetPattern(on)
     \/ TotpSetup \/ TotpVerify \/ TotpDisable \/ RegenerateRecovery
  /\ UNCHANGED <<registered, challenge, session, request, guard>>

-----------------------------------------------------------------------------
Less(t) == IF t \in {None, Forever, 0} THEN t ELSE t - 1

(* A minute goes by.                                                        *)
Tick ==
  /\ account' = [account EXCEPT !.lock = Less(@)]
  /\ challenge' = [w \in {"pattern", "totp"} |-> Less(challenge[w])]
  /\ bucket' = [ip \in Ips |-> Unexpired([i \in DOMAIN bucket[ip] |-> Less(bucket[ip][i])])]
  /\ ban' = [ip \in Ips |-> Less(ban[ip])]
  /\ UNCHANGED <<registered, session, request, siege, whitelist, fate>>

SessionExpires ==
  /\ session' = FALSE
  /\ UNCHANGED <<registered, account, challenge, request, guard, fate>>

(* The failures of ip_guard are in memory only.                             *)
Restart ==
  /\ request' = [r \in Requests |-> Idle]
  /\ bucket' = [ip \in Ips |-> <<>>]
  /\ UNCHANGED <<registered, account, challenge, session, ban, siege, whitelist, fate>>

Init ==
  /\ registered = 0
  /\ account = [attempts |-> 0, lock |-> None, pattern |-> FALSE, totp |-> "off", codes |-> {}]
  /\ challenge = [w \in {"pattern", "totp"} |-> 0]
  /\ session = FALSE
  /\ request = [r \in Requests |-> Idle]
  /\ bucket = [ip \in Ips |-> <<>>]
  /\ ban = [ip \in Ips |-> 0]
  /\ siege = FALSE /\ whitelist = {}
  /\ fate = [k \in Codes |-> "unused"]

Handler(r) ==
  \/ RegisterCommit(r) \/ Wrong(r) \/ Password(r) \/ Pattern(r) \/ Totp(r)
  \/ Recovery(r) \/ UnlockScreen(r)

Next ==
  \/ \E r \in Requests, ip \in Ips : Register(r, ip) \/ \E w \in Windows : Enter(r, ip, w)
  \/ \E r \in Requests : Handler(r)
  \/ \E ip \in Ips : UnknownUser(ip)
  \/ Settings \/ Administer \/ Tick \/ SessionExpires \/ Restart

Spec == Init /\ [][Next]_vars

(* Time goes on.                                                            *)
FairSpec == Spec /\ WF_vars(Tick)

-----------------------------------------------------------------------------
(* Properties                                                               *)

Row == [attempts : 0..MaxFailed, lock : 0..LockTime \cup {None}, pattern : BOOLEAN,
        totp : {"off", "pending", "on"}, codes : SUBSET Codes]

(* Types; registration only makes the first account.                        *)
TypeOK ==
  /\ registered \in 0..1
  /\ account \in Row
  /\ challenge \in [{"pattern", "totp"} -> 0..TTL] /\ session \in BOOLEAN
  /\ \A ip \in Ips : Len(bucket[ip]) < Threshold /\ ToSet(bucket[ip]) \subseteq 1..Window
  /\ ban \in [Ips -> 0..BanTime \cup {Forever}]
  /\ siege \in BOOLEAN /\ whitelist \subseteq Ips

(* The counter and the lock tell the same story: the account was locked     *)
(* when the limit was reached, and a success clears both.                   *)
LockMatchesCounter == account.attempts >= MaxFailed <=> account.lock # None

(* "Claves de recuperación ... se consumen al usarse", "invalida las        *)
(* anteriores": a code that was used or replaced neither opens the account  *)
(* again nor returns to the row.                                            *)
RecoveryOnce ==
  \A k \in Codes : fate[k] # "reused" /\ (k \in account.codes => fate[k] = "given")

(* "the lockout auto-clears, so it self-heals": whatever is tried while it  *)
(* lasts, it comes to an end.                                               *)
LockLapses == IsLocked(account) ~> ~IsLocked(account)

(* After a lapse the account has all its attempts again.                    *)
LapseForgives == account.lock = 0 => account.attempts < MaxFailed

(* There is always a way in again: not everybody is shut out for good.      *)
SomebodyGetsIn == []<>(\E ip \in Ips : ~CheckBlocked(ip))
=============================================================================
