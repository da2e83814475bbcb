SPECIFICATION Spec
CONSTANTS
 Sockets = {s1}
 Gets = {g1}
 Projects = {m, b}
 All = All
 QueueSize = 2
 LastVersion = 2
 MaxLogins = 1
 Events = {}
 None = None
INVARIANT ScopeShown
