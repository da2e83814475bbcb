SPECIFICATION Spec
CONSTANTS
 Codes = {a, b}
 CircuitIds = {1, 2}
 LightIds = {1, 2}
 CircuitNumbers = {1}
 LightNumbers = {1}
 Powers = {1}
 Files <- MCFiles
 BackupFiles <- MCBackupFiles
 Requests = {r1, r2}
 Orderly = TRUE
 Crashes = TRUE
 NoRow = NoRow
SYMMETRY Symmetry
INVARIANT TypeOK
INVARIANT TotalsExact
INVARIANT OwnCircuit
