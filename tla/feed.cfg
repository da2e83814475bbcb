SPECIFICATION FairSpec
CONSTANTS
 Sockets = {s1, s2}
 Gets = {g1}
 Projects = {m}
 All = All
 QueueSize = 2
 LastVersion = 1
 MaxLogins = 1
 Events = {"loss"}
 None = None
INVARIANT TypeOK
INVARIANT FeedInOrder
INVARIANT NewestKept
INVARIANT OneFeed
PROPERTY PollingCatchesUp
PROPERTY SocketCatchesUp
