SPECIFICATION FairSpec
CONSTANTS
 Cabinets = {c1}
 Requests = {r1}
 Devices = {c1}
 AutoModes = {"schedule"}
 AutoLevels = {20}
 DimLevels = {60}
 RelayStates = {}
 RowIds = {1}
 Events = {"link", "restart", "device", "demo", "database"}
 Orderly = FALSE
 NoRow = NoRow
 None = None
PROPERTY LampHeals
PROPERTY ProgramEnforced
