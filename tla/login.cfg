SPECIFICATION FairSpec
CONSTANTS
 Ips = {i}
 Codes = {k1, k2}
 MaxFailed = 3
 LockTime = 2
 Threshold = 3
 Window = 2
 BanTime = 2
 TTL = 2
 Requests = {r}
 Orderly = TRUE
 None = None
 Forever = Forever
INVARIANT TypeOK
INVARIANT LockMatchesCounter
INVARIANT RecoveryOnce
PROPERTY LockLapses
