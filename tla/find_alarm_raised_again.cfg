SPECIFICATION Spec
CONSTANTS
 Cabinets = {c1}
 Sources = {"mqtt"}
 Conditions = {lampOut}
 Tables = {1, 2, 3, 4}
 Events = {"ack"}
 None = None
INVARIANT HeardIsVisible
