SPECIFICATION Spec
CONSTANTS
 Cabinets = {c1}
 Sources = {"mqtt"}
 Conditions = {lampOut, doorOpen}
 Tables = {1, 2, 3, 4}
 Events = {"link", "restart", "ack", "registry"}
 None = None
SYMMETRY ConditionSymmetry
INVARIANT TypeOK
INVARIANT SettledAccurate
