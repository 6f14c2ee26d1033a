----------------------------- MODULE QueryCaches -----------------------------
(***************************************************************************)
(* What the pages show of the workspace: cached answers of queries, which   *)
(* a member's own change marks as invalid when its answer comes.  Which     *)
(* change invalidates which query is a matter of key prefixes, hook by      *)
(* hook.  One query of one browser tab, and the changes made in the tab.    *)
(*                                                                         *)
(* The query library is external: one fetch of a query at a time; an        *)
(* invalidation restarts the fetch of a query in use, unless it is the      *)
(* first one; an answer clears the mark, whenever it was read.              *)
(***************************************************************************)
EXTENDS Naturals, FiniteSets, Sequences, SequencesExt

CONSTANTS
    Queries,     \* those looked at
    MaxChanges,  \* bound: changes made in the tab
    MaxFailures, \* bound: requests that fail, or whose answer is lost
    None, Idle, Asked

\* Two functions as one.
f ++ g == [x \in DOMAIN f \cup DOMAIN g |-> IF x \in DOMAIN f THEN f[x] ELSE g[x]]

(***************************************************************************)
(* The keys of the queries; "id" stands for the record that is looked at.   *)
(***************************************************************************)

FeatureKeys == [features |-> <<"features">>, feature |-> <<"features", "id">>]
BugKeys == [bugs |-> <<"bugs">>, bug |-> <<"bugs", "id">>]
ProjectKeys == [projects |-> <<"projects">>, project |-> <<"projects", "id">>]
ReleaseKeys == [releases |-> <<"releases">>, release |-> <<"releases", "id">>]
UserKeys == [users |-> <<"users">>, me |-> <<"users", "me">>, user |-> <<"users", "id">>]
InvitationKeys == [invitations |-> <<"invitations">>]
PullRequestKeys ==
    [pullRequests |-> <<"pull-requests">>, pullRequest |-> <<"pull-requests", "id">>]
WorkspaceKeys == [workspace |-> <<"workspace">>, stats |-> <<"workspace", "stats">>]
GitHubKeys == [installation |-> <<"github", "installation">>]

Key == FeatureKeys ++ BugKeys ++ ProjectKeys ++ ReleaseKeys ++ UserKeys ++ InvitationKeys
           ++ PullRequestKeys ++ WorkspaceKeys ++ GitHubKeys

CachesAssumption ==
    Queries \subseteq DOMAIN Key /\ {MaxChanges, MaxFailures} \subseteq Nat

(***************************************************************************)
(* The changes, and the key prefixes that their hooks invalidate.           *)
(***************************************************************************)

Stats == <<"workspace", "stats">>

FeatureOps ==
    [createFeature |-> {<<"features">>, Stats},
     updateFeature |-> {<<"features">>, <<"features", "id">>, Stats},
     deleteFeature |-> {<<"features">>, Stats}]

\* Mutant: a new bug is not looked for in the features.
BugOps_Alone ==
    [createBug |-> {<<"bugs">>, Stats},
     updateBug |-> {<<"bugs">>, <<"bugs", "id">>, Stats, <<"features">>},
     deleteBug |-> {<<"bugs">>, Stats, <<"features">>}]

BugOps ==
    [createBug |-> {<<"bugs">>, Stats, <<"features">>},
     updateBug |-> {<<"bugs">>, <<"bugs", "id">>, Stats, <<"features">>},
     deleteBug |-> {<<"bugs">>, Stats, <<"features">>}]

ProjectOps ==
    [createProject |-> {<<"projects">>, Stats},
     updateProject |-> {<<"projects">>, <<"projects", "id">>},
     deleteProject |-> {<<"projects">>, Stats}]

ReleaseOps ==
    [createRelease |-> {<<"releases">>, Stats, <<"features">>},
     updateRelease |-> {<<"releases">>, <<"releases", "id">>},
     deleteRelease |-> {<<"releases">>, Stats}]

UserOps ==
    [updateMe |-> {<<"users", "me">>, <<"users">>},
     createUser |-> {<<"users">>, Stats},
     updateUser |-> {<<"users">>, <<"users", "id">>},
     deactivateUser |-> {<<"users">>, Stats}]

InvitationOps ==
    [op \in {"createInvitation", "resendInvitation", "cancelInvitation"} |-> {<<"invitations">>}]

PullRequestOps ==
    [op \in {"linkPR", "unlinkPR"} |-> {<<"pull-requests">>, <<"features">>}]

WorkspaceOps == [updateWorkspace |-> {<<"workspace">>}]

GitHubOps ==
    [op \in {"disconnectGitHub", "connectRepository"} |->
        {<<"github", "installation">>, <<"projects">>}]

Invalidates == FeatureOps ++ BugOps ++ ProjectOps ++ ReleaseOps ++ UserOps ++ InvitationOps
                   ++ PullRequestOps ++ WorkspaceOps ++ GitHubOps

Ops == DOMAIN Invalidates

(***************************************************************************)
(* What a change touches and what an answer has: the number of the records  *)
(* of a kind, their names (titles), a member's role and whether it is       *)
(* active, and, as "state", what else there is.                             *)
(***************************************************************************)

Aspects == {"number", "name", "state", "role", "active"}

All(kinds) == kinds \X Aspects

Edited(kind) == {kind} \X {"name", "state"}

\* The counter and, for a project older than issue keys, the key are the project's.
FeatureTouches ==
    [createFeature |-> {<<"feature", "number">>, <<"project", "state">>},
     updateFeature |-> Edited("feature"),
     deleteFeature |-> All({"feature"})]

\* An update may move the bug to another feature.
BugTouches ==
    [createBug |-> {<<"bug", "number">>},
     updateBug |-> All({"bug"}),
     deleteBug |-> All({"bug"})]

\* The features, bugs and memberships go with their project; its repositories are let go.
ProjectTouches ==
    [createProject |-> {<<"project", "number">>},
     updateProject |-> Edited("project"),
     deleteProject |-> All({"project", "feature", "bug", "membership"})
                           \cup {<<"repository", "state">>}]

ReleaseTouches ==
    [createRelease |-> {<<"release", "number">>},
     updateRelease |-> Edited("release"),
     deleteRelease |-> All({"release"})]

UserTouches ==
    [updateMe |-> Edited("member"),
     createUser |-> {<<"member", "number">>, <<"member", "active">>},
     updateUser |-> Edited("member") \cup {<<"member", "role">>},
     deactivateUser |-> {<<"member", "active">>}]

InvitationTouches == [op \in DOMAIN InvitationOps |-> All({"invitation"})]
PullRequestTouches == [op \in DOMAIN PullRequestOps |-> All({"pullRequest"})]
WorkspaceTouches == [updateWorkspace |-> All({"tenant"})]
GitHubTouches == [op \in DOMAIN GitHubOps |-> {<<"repository", "state">>}]

Touches == FeatureTouches ++ BugTouches ++ ProjectTouches ++ ReleaseTouches ++ UserTouches
               ++ InvitationTouches ++ PullRequestTouches ++ WorkspaceTouches ++ GitHubTouches

FeatureAnswers ==
    [features |-> All({"feature"}) \cup {"pullRequest", "bug"} \X {"number"}
                      \cup {"project", "member"} \X {"name"},
     feature |-> All({"feature", "pullRequest", "bug"})
                     \cup {"project", "member"} \X {"name"}]

BugAnswers ==
    [bugs |-> All({"bug"}) \cup {"feature", "project", "member"} \X {"name"},
     bug |-> All({"bug"}) \cup {"feature", "project", "member"} \X {"name"}
                 \cup {<<"feature", "state">>}]

ProjectAnswers ==
    [projects |-> All({"project"}) \cup {"feature", "membership"} \X {"number"},
     project |-> All({"project", "membership", "feature", "bug", "repository"})
                     \cup {"member"} \X {"name", "role"}]

ReleaseAnswers ==
    [releases |-> All({"release"}) \cup {"feature"} \X {"name", "state"},
     release |-> All({"release"}) \cup {"feature"} \X {"name", "state"}
                     \cup {<<"project", "name">>}]

\* The features are those assigned to the member, or made by it.
UserAnswers ==
    [users |-> All({"member"}) \cup {"feature"} \X {"number", "state"}
                   \cup {<<"membership", "number">>},
     me |-> All({"member"}),
     user |-> All({"member", "feature", "membership"}) \cup {<<"project", "name">>}]

InvitationAnswers == [invitations |-> All({"invitation"})]

PullRequestAnswers ==
    [pullRequests |-> All({"pullRequest"}) \cup {"feature"} \X {"name", "state"}
                          \cup {<<"repository", "name">>},
     pullRequest |-> All({"pullRequest"}) \cup {"feature"} \X {"name", "state"}
                         \cup {"repository", "project"} \X {"name"}]

CurrentAnswer == [workspace |-> All({"tenant"})]

StatsAnswer ==
    [stats |-> {"member", "project", "feature", "bug", "release"} \X {"number"}
                   \cup {"feature", "bug"} \X {"state"} \cup {<<"member", "active">>}]

InstallationAnswer == [installation |-> All({"repository"})]

About == FeatureAnswers ++ BugAnswers ++ ProjectAnswers ++ ReleaseAnswers ++ UserAnswers
             ++ InvitationAnswers ++ PullRequestAnswers ++ CurrentAnswer ++ StatsAnswer
             ++ InstallationAnswer

Matters(op, q) == Touches[op] \cap About[q] # {}

Names(op, q) == \E prefix \in Invalidates[op] : IsPrefix(prefix, Key[q])

(***************************************************************************)
(* What no hook looks after: a change that the answer has something of and  *)
(* whose hook does not name the query.                                      *)
(***************************************************************************)

Overlooked == UNION
    {{"createFeature", "updateFeature", "deleteFeature"} \X {"project", "users", "user"},
     {"createFeature", "deleteFeature"} \X {"projects"},
     {"updateFeature", "deleteFeature"}
         \X {"bugs", "bug", "releases", "release", "pullRequests", "pullRequest"},
     {"createBug", "updateBug", "deleteBug"} \X {"project"},
     {"updateProject", "deleteProject"}
         \X {"features", "feature", "bugs", "bug", "release", "user", "pullRequest"},
     {"deleteProject"} \X {"releases", "users", "pullRequests", "installation"},
     {"updateMe", "updateUser"} \X {"features", "feature", "bugs", "bug", "project"}}

\* Deleting the record that a page looks at, or the project it is in: there is no answer any more.
Removes(op, q) ==
    \/ op = "deleteFeature" /\ q = "feature"
    \/ op = "deleteBug" /\ q = "bug"
    \/ op = "deleteProject" /\ q \in {"project", "feature", "bug"}
    \/ op = "deleteRelease" /\ q = "release"

VARIABLES
    query,   \* the query looked at
    changes, \* the changes made: their operations, oldest first
    applied, \* those the server has made
    ended,   \* those whose call has ended
    told,    \* those whose answer has come
    cache,   \* None, or the changes that the cached answer has
    fetch,   \* Idle, Asked, or the changes that the answer under way has
    invalid, \* whether the cached answer is marked, or a minute old
    mounted, \* whether a page uses the query
    missed,  \* told while an older answer was under way that could not be called off
    failures

vars == <<query, changes, applied, ended, told, cache, fetch, invalid, mounted, missed, failures>>

Ids == 1..MaxChanges

TypeOK ==
    /\ query \in Queries /\ changes \in Seq(Ops) /\ Len(changes) <= MaxChanges
    /\ applied \subseteq DOMAIN changes /\ ended \subseteq DOMAIN changes
    /\ told \subseteq applied \cap ended /\ missed \subseteq told
    /\ cache = None \/ cache \subseteq applied
    /\ fetch \in {Idle, Asked} \/ fetch \subseteq applied
    /\ {invalid, mounted} \subseteq BOOLEAN /\ failures \in 0..MaxFailures

Init ==
    /\ query \in Queries /\ changes = <<>> /\ applied = {} /\ ended = {} /\ told = {}
    /\ cache = None /\ fetch = Idle /\ invalid = FALSE /\ mounted = FALSE
    /\ missed = {} /\ failures = 0

Gone == \E i \in applied : Removes(changes[i], query)

(***************************************************************************)
(* Changes.                                                                 *)
(***************************************************************************)

Hit(op) == Names(op, query)

\* Of the changes that have to do with the query.
Change(op) ==
    /\ Len(changes) < MaxChanges /\ (Hit(op) \/ Matters(op, query))
    /\ changes' = Append(changes, op)
    /\ UNCHANGED <<query, applied, ended, told, cache, fetch, invalid, mounted, missed, failures>>

Apply(i) ==
    /\ i \in DOMAIN changes \ (applied \cup ended) /\ applied' = applied \cup {i}
    /\ UNCHANGED <<query, changes, ended, told, cache, fetch, invalid, mounted, missed, failures>>

\* The call fails, or its answer is lost: nothing is invalidated.
Lose(i) ==
    /\ i \in DOMAIN changes \ ended /\ failures < MaxFailures
    /\ ended' = ended \cup {i} /\ failures' = failures + 1
    /\ UNCHANGED <<query, changes, applied, told, cache, fetch, invalid, mounted, missed>>

Restarts == mounted /\ (cache # None \/ fetch = Idle)

\* onSuccess.
Succeed(i) ==
    /\ i \in applied \ ended /\ ended' = ended \cup {i} /\ told' = told \cup {i}
    /\ IF Hit(changes[i])
       THEN /\ invalid' = (cache # None \/ fetch # Idle)
            /\ fetch' = IF Restarts THEN Asked ELSE fetch
            /\ missed' = IF Restarts \/ fetch \in {Idle, Asked} \/ i \in fetch
                         THEN missed ELSE missed \cup {i}
       ELSE UNCHANGED <<invalid, fetch, missed>>
    /\ UNCHANGED <<query, changes, applied, cache, mounted, failures>>

(***************************************************************************)
(* The query.                                                               *)
(***************************************************************************)

\* Mutant: what is there is never asked for again.
Due_Missing == cache = None

Due == cache = None \/ invalid

Mount ==
    /\ ~mounted /\ mounted' = TRUE
    /\ fetch' = IF Due /\ fetch = Idle THEN Asked ELSE fetch
    /\ UNCHANGED <<query, changes, applied, ended, told, cache, invalid, missed, failures>>

Unmount ==
    /\ mounted /\ mounted' = FALSE
    /\ UNCHANGED <<query, changes, applied, ended, told, cache, fetch, invalid, missed, failures>>

Read ==
    /\ fetch = Asked /\ ~Gone /\ fetch' = applied
    /\ UNCHANGED <<query, changes, applied, ended, told, cache, invalid, mounted, missed, failures>>

Answer ==
    /\ fetch \notin {Idle, Asked} /\ cache' = fetch
    /\ fetch' = Idle /\ invalid' = FALSE
    /\ UNCHANGED <<query, changes, applied, ended, told, mounted, missed, failures>>

\* There is nothing to answer with.
NotFound ==
    /\ fetch = Asked /\ Gone /\ fetch' = Idle
    /\ UNCHANGED <<query, changes, applied, ended, told, cache, invalid, mounted, missed, failures>>

Fail ==
    /\ fetch # Idle /\ failures < MaxFailures
    /\ fetch' = Idle /\ failures' = failures + 1
    /\ UNCHANGED <<query, changes, applied, ended, told, cache, invalid, mounted, missed>>

\* A minute has passed since the answer.
Age ==
    /\ cache # None /\ ~invalid /\ invalid' = TRUE
    /\ UNCHANGED <<query, changes, applied, ended, told, cache, fetch, mounted, missed, failures>>

Next ==
    \/ \E op \in Ops : Change(op)
    \/ \E i \in Ids : Apply(i)
    \/ \E i \in Ids : Lose(i)
    \/ \E i \in Ids : Succeed(i)
    \/ Mount
    \/ Unmount
    \/ Read
    \/ Answer
    \/ NotFound
    \/ Fail
    \/ Age

Spec == Init /\ [][Next]_vars

(***************************************************************************)
(* Properties.                                                              *)
(***************************************************************************)

\* But for the pairs that are overlooked, the hooks name every query that a change matters to:
\* an answer that is shown as good has each change that the member was told of, except one
\* whose invalidation met an older answer under way and could not call it off.
OwnChangesShown ==
    cache # None /\ fetch = Idle /\ ~invalid =>
        \A i \in told \ missed :
            Matters(changes[i], query) /\ <<changes[i], query>> \notin Overlooked => i \in cache

\* In the end a change is shown: the missed ones, those whose answer was lost and those that
\* no hook looks after too.
CatchesUp ==
    \A i \in Ids : (i \in applied) ~> (cache # None /\ i \in cache) \/ Gone
=============================================================================
