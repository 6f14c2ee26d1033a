CONSTANTS
    None = None
    Tenants = {acme, beta}
    Own = {}
    ResetLimit = 3
    MaxLinks = 2
    MaxResets = 2
    MaxSessions = 1
    MaxEdits = 0
    Slots = {r1, r2}
CHECK_DEADLOCK FALSE
SPECIFICATION Spec
INVARIANTS LinkUsedOnce
