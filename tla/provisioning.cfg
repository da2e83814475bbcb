SPECIFICATION Spec
CONSTANTS
 ProjectIds = {p}
 Users = {boss, u, v}
 Owners = {boss}
 Codes = {c}
 Serials = {s, t}
 DemoProject = p
 DemoCabinets = {c}
 DemoMode = TRUE
 Strict = FALSE
 Requests = {r1, r2}
 Orderly = TRUE
 Careful = TRUE
 NoRow = NoRow
 None = None
SYMMETRY Symmetry
INVARIANT TypeOK
INVARIANT NoDangling
INVARIANT HomeInScope
INVARIANT ScopesAgree
PROPERTY BindingSpec
PROPERTY OwnDataStay
