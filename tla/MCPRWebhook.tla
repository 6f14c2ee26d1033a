---------------------------- MODULE MCPRWebhook ----------------------------
(* Small instances of PRWebhook: one pull request, whose branch carries an   *)
(* issue key (LookupRef) or a feature's id (VerbatimRef).                    *)
EXTENDS PRWebhook, TLC

CONSTANTS p1, f1, f2, ann, bob, h1, h2

LookupRef == [p \in PRs |-> [kind |-> "lookup", feature |-> f1]]
VerbatimRef == [p \in PRs |-> [kind |-> "verbatim", feature |-> f1]]
AnnOwns == [f \in Features |-> ann]

Symmetry == Permutations(Handlers)
=============================================================================
