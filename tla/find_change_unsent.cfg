SPECIFICATION QuietFairSpec
CONSTANTS
 Sockets = {s1}
 Gets = {g1}
 Projects = {m}
 All = All
 QueueSize = 1
 LastVersion = 2
 MaxLogins = 1
 Events = {}
 None = None
PROPERTY EveryChangeSent
