SPECIFICATION FairSpec
CONSTANTS
 Cabinets = {c1}
 Sources = {"mqtt", "demo"}
 Conditions = {lampOut, doorOpen}
 Tables = {1, 2, 3, 4}
 Events = {"link"}
 None = None
PROPERTY LifecycleSpec
INVARIANT OnlineHonest
PROPERTY ConditionListed
PROPERTY ConditionCleared
