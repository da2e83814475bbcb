SPECIFICATION Spec
CONSTANTS
 None = None
 Times <- MCTimes
 Luxes <- MCLuxes
 Tariffs <- MCTariffs
 DimLevels = {50}
 Faults = {"none", "blown", "half", "leak", "stuck", "line"}
 Volts = {230}
 Street = "arterial"
 ServerAhead <- MCServerAhead
 Nominal = 1000
PROPERTY HealthyQuiet
PROPERTY FaultsTold
PROPERTY StreetKeptSafe
