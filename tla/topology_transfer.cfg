SPECIFICATION Spec
CONSTANTS
 Codes = {a, b}
 CircuitIds = {1, 2}
 LightIds = {1, 2}
 CircuitNumbers = {1, 2}
 LightNumbers = {1, 2}
 Powers = {1}
 Files <- MCFiles
 BackupFiles <- MCBackupFiles
 Requests = {r1}
 Orderly = TRUE
 Crashes = TRUE
 NoRow = NoRow
SYMMETRY Symmetry
INVARIANT BackupRoundTrip
INVARIANT ImportUpserts
