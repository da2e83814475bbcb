SPECIFICATION Spec
CONSTANTS
 Cabinets = {c1}
 Requests = {r1, r2}
 Devices = {}
 AutoModes = {"schedule"}
 AutoLevels = {20}
 DimLevels = {60}
 RelayStates = {"off"}
 RowIds = {1}
 Events = {"link", "restart", "registry", "database"}
 Orderly = TRUE
 NoRow = NoRow
 None = None
SYMMETRY RequestSymmetry
INVARIANT TypeOK
INVARIANT NoModeFromNowhere
INVARIANT EmergencyLit
