CONSTANTS
    p1 = p1
    f1 = f1
    f2 = f2
    ann = ann
    bob = bob
    h1 = h1
    h2 = h2
    None = None
    PRs = {p1}
    Features = {f1}
    Members = {ann}
    Handlers = {h1, h2}
    BranchRef <- LookupRef
    InitAssignee <- AnnOwns
    Kinds = {"opened", "closed", "merged", "reopened", "synchronize", "edited"}
    Chosen = {"DONE"}
    Ordered = TRUE
    MaxEvents = 5
    MaxTimeouts = 0
    MaxFaults = 2
    MaxEdits = 1
CHECK_DEADLOCK FALSE
SPECIFICATION Spec
SYMMETRY Symmetry
INVARIANTS RowAgreesWithGitHub FeatureFollowsPR
PROPERTY ProcessedFinal
