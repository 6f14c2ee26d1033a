CONSTANTS
    None = None
    Members = {ann}
    Requests = {r1}
    FeatureTargets = {"IN_PROGRESS", "DONE"}
    BugTargets = {}
    Webhooks = {"IN_PROGRESS", "IN_REVIEW"}
    MaxUpdates = 3
CHECK_DEADLOCK FALSE
SPECIFICATION Spec
INVARIANTS Delivered
