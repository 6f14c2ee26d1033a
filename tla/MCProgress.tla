----------------------------- MODULE MCProgress -----------------------------
(* What has to come in the end: answers about projects, the removal of the   *)
(* app's installation, a dismissed panel, the queries that a tab keeps.  The  *)
(* components share no variable: one of them steps, with its fairness, and   *)
(* the others stay in an initial state.                                      *)
EXTENDS Projects, TLC

CONSTANTS r1, r2, r3, p1, p2, p3, p4, p5, WEB, ann, T1, i1, x1, n1, NotAsked, Asked

VARIABLES
    part,
    github, redirects, events, nonce, inst, repo, installReq, crashes, revived, late,
    role, server, invited, page, panelCache, panelInvalid, panelFetch, acks, undone,
    panelFailures, clicks,
    query, changes, applied, ended, told, cache, fetch, invalid, mounted, missed, failures

InInstallation == INSTANCE Installation WITH
    Tenants <- {T1}, Installations <- {i1}, Repos <- {x1}, Nonces <- {n1},
    Requests <- {r1, r2, r3}, Calls <- {"url", "callback", "disconnect", "connect"},
    MaxCrashes <- 1, req <- installReq

InPanel == INSTANCE Onboarding WITH
    Roles <- {"VIEWER"}, MaxUndone <- 0, MaxFailures <- 1, MaxClicks <- 2, Idle <- NotAsked,
    cache <- panelCache, invalid <- panelInvalid, fetch <- panelFetch, failures <- panelFailures

InQueries == INSTANCE QueryCaches WITH
    Queries <- {"features", "feature", "bugs", "bug", "projects", "project", "releases", "release",
                "users", "user", "me", "invitations", "pullRequests", "pullRequest",
                "workspace", "stats", "installation"},
    MaxChanges <- 1, MaxFailures <- 1, Idle <- NotAsked

installation == <<github, redirects, events, nonce, inst, repo, installReq, crashes, revived, late>>
panel == <<role, server, invited, page, panelCache, panelInvalid, panelFetch, acks, undone,
           panelFailures, clicks>>
queries == <<query, changes, applied, ended, told, cache, fetch, invalid, mounted, missed, failures>>
partVars == <<part, vars, installation, panel, queries>>

ASSUME ProgressAssumption ==
       InInstallation!InstallationAssumption /\ InPanel!OnboardingAssumption
       /\ InQueries!CachesAssumption

PartInit ==
    /\ part \in {"projects", "installation", "panel", "queries"}
    /\ Init /\ InInstallation!Init
    /\ InPanel!Init /\ (part # "panel" => server = {})
    /\ InQueries!Init /\ (part # "queries" => query = "features")

PartNext ==
    \/ part = "projects" /\ Next /\ UNCHANGED <<part, installation, panel, queries>>
    \/ part = "installation" /\ InInstallation!Next
                             /\ UNCHANGED <<part, vars, panel, queries>>
    \/ part = "panel" /\ InPanel!Next /\ UNCHANGED <<part, vars, installation, queries>>
    \/ part = "queries" /\ InQueries!Next /\ UNCHANGED <<part, vars, installation, panel>>

\* The fairness of each component, for the one that steps.
PartSpec ==
    /\ PartInit /\ [][PartNext]_partVars
    /\ \A r \in {r1, r2, r3} :
          /\ WF_vars(part = "projects" /\ Step(r))
          /\ WF_installation(part = "installation" /\ InInstallation!Step(r))
    /\ WF_installation(part = "installation" /\ InInstallation!HandleOf("created", i1))
    /\ WF_installation(part = "installation" /\ InInstallation!HandleOf("deleted", i1))
    /\ \A q \in InPanel!Queries :
          /\ WF_panel(part = "panel" /\ InPanel!Read(q))
          /\ WF_panel(part = "panel" /\ InPanel!Answer(q))
          /\ WF_panel(part = "panel" /\ InPanel!Age(q))
          /\ WF_panel(part = "panel" /\ InPanel!Invalidate(q))
    /\ WF_panel(part = "panel" /\ InPanel!Enter) /\ WF_panel(part = "panel" /\ InPanel!Leave)
    /\ WF_panel(part = "panel" /\ InPanel!Render)
    /\ WF_queries(part = "queries" /\ InQueries!Read)
    /\ WF_queries(part = "queries" /\ InQueries!NotFound)
    /\ WF_queries(part = "queries" /\ InQueries!Answer)
    /\ WF_queries(part = "queries" /\ InQueries!Age)
    /\ WF_queries(part = "queries" /\ InQueries!Mount)
    /\ WF_queries(part = "queries" /\ InQueries!Unmount)

\* What GitHub has uninstalled comes to be removed here, unless a callback saved it again.
Follows == InInstallation!Follows

\* A dismissal lasts: whatever answers were under way, in the end the panel stays away.
DismissalLasts == InPanel!DismissalLasts

\* In the end a change is shown: the missed ones, those whose answer was lost and those that
\* no hook looks after too.
CatchesUp == InQueries!CatchesUp
=============================================================================
