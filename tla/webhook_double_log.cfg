CONSTANTS
    p1 = p1
    f1 = f1
    f2 = f2
    ann = ann
    bob = bob
    h1 = h1
    h2 = h2
    None = None
    PRs = {p1}
    Features = {f1}
    Members = {ann}
    Handlers = {h1, h2}
    BranchRef <- LookupRef
    InitAssignee <- AnnOwns
    Kinds = {"opened", "merged"}
    Chosen = {"DONE"}
    Ordered = FALSE
    MaxEvents = 2
    MaxTimeouts = 1
    MaxFaults = 0
    MaxEdits = 0
CHECK_DEADLOCK FALSE
SPECIFICATION Spec
INVARIANT MergeLoggedOnce
