CONSTANTS
    p1 = p1
    f1 = f1
    f2 = f2
    ann = ann
    bob = bob
    h1 = h1
    h2 = h2
    None = None
    PRs = {p1}
    Features = {f1, f2}
    Members = {ann, bob}
    Handlers = {h1, h2}
    BranchRef <- VerbatimRef
    InitAssignee <- AnnOwns
    Kinds = {"opened", "merged"}
    Chosen = {"IN_REVIEW"}
    Ordered = FALSE
    MaxEvents = 2
    MaxTimeouts = 2
    MaxFaults = 1
    MaxEdits = 1
CHECK_DEADLOCK FALSE
SPECIFICATION Spec
SYMMETRY Symmetry
INVARIANTS TypeOK AutoLinkLogged OneOpenedNotice ProcessedMeansRecorded MergeLogged
PROPERTY ManualLinkKept
