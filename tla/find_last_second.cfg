SPECIFICATION Spec
CONSTANTS
 None = None
 Times <- LateTimes
 Luxes = {None}
 Tariffs <- MCTariffs
 DimLevels = {40}
 Faults = {"none", "blown", "half", "stuck"}
 Volts = {230}
 Street = "arterial"
 ServerAhead = 0
 Nominal = 1000
PROPERTY NightLit
