SPECIFICATION Spec
CONSTANTS
 Cabinets = {c1, c2}
 Requests = {r1}
 Devices = {}
 AutoModes = {"schedule"}
 AutoLevels = {20}
 DimLevels = {60}
 RelayStates = {}
 RowIds = {1}
 Events = {}
 Orderly = FALSE
 NoRow = NoRow
 None = None
PROPERTY LoopLeavesManualAlone
