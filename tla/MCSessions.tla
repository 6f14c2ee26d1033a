----------------------------- MODULE MCSessions -----------------------------
(* Sessions at both ends: at the server, with everything that issues and    *)
(* revokes tokens, and in the tabs of a browser.  The components share no    *)
(* variable: one of them steps, the other stays in an initial state.         *)
EXTENDS AuthSessions, TLC

CONSTANTS r1, r2, t1, t2, k1, k2, w1, w2

\* Of the browser.
CONSTANTS Tabs, Tokens, WorkspaceOf

VARIABLES part, alive, issued, stored, tab, calls, strayed

InBrowser == INSTANCE BrowserSession

\* Tokens of two workspaces.
TheWorkspaces == k1 :> w1 @@ k2 :> w2

browser == <<alive, issued, stored, tab, calls, strayed>>

ASSUME BrowserAssumption == InBrowser!SessionAssumption

PartInit ==
    /\ part \in {"server", "browser"}
    /\ Init /\ (part # "server" => ~user.exists)
    /\ InBrowser!Init

PartNext ==
    \/ part = "server" /\ Next /\ UNCHANGED <<part, browser>>
    \/ part = "browser" /\ InBrowser!Next /\ UNCHANGED <<part, vars>>

PartSpec == PartInit /\ [][PartNext]_<<part, vars, browser>>

Symmetry == Permutations(Slots)

\* The two type invariants.
AllTypeOK == TypeOK /\ InBrowser!TypeOK

\* What a tab shows is of the workspace of its session, unless the user signed in over it.
CacheScoped == InBrowser!CacheScoped
=============================================================================
