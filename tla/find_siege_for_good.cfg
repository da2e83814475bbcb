SPECIFICATION FairSpec
CONSTANTS
 Ips = {i}
 Codes = {k1, k2}
 MaxFailed = 2
 LockTime = 2
 Threshold = 2
 Window = 1
 BanTime = 1
 TTL = 1
 Requests = {r}
 Orderly = TRUE
 None = None
 Forever = Forever
PROPERTY SomebodyGetsIn
