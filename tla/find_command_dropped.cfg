SPECIFICATION Spec
CONSTANTS
 Cabinets = {c1}
 Requests = {r1}
 Devices = {}
 AutoModes = {"schedule"}
 AutoLevels = {20}
 DimLevels = {60}
 RelayStates = {}
 RowIds = {1}
 Events = {"link"}
 Orderly = FALSE
 NoRow = NoRow
 None = None
PROPERTY CommandRecorded
