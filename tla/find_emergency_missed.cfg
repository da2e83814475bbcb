SPECIFICATION FairSpec
CONSTANTS
 Cabinets = {c1}
 Requests = {r1}
 Devices = {c1}
 AutoModes = {"schedule"}
 AutoLevels = {20}
 DimLevels = {}
 RelayStates = {}
 RowIds = {1}
 Events = {"device"}
 Orderly = FALSE
 NoRow = NoRow
 None = None
PROPERTY EmergencyReachesLamp
