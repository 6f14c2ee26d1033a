----------------------------- MODULE Onboarding ------------------------------
(***************************************************************************)
(* The onboarding panel of the dashboard: a checklist for the member's      *)
(* role, whose boxes are ticked from cached answers of three queries, and   *)
(* which hides itself when it is done or dismissed.  One member's browser,  *)
(* a workspace that others change too.                                      *)
(***************************************************************************)
EXTENDS Naturals, FiniteSets

CONSTANTS
    Roles,       \* of the member: some of ADMIN, MANAGER, DEVELOPER, VIEWER
    MaxUndone,   \* bound: deletions by others
    MaxFailures, \* bound: queries that fail
    MaxClicks,   \* bound: on the button that dismisses
    None, Idle, Asked

Signals == {"github", "project", "team", "feature", "bug", "release", "username"}
Queries == {"stats", "me", "installation"}

\* The boxes of a role; its other steps have none.
Boxes(r) ==
    CASE r = "ADMIN" -> {"github", "project", "team", "feature"}
      [] r = "MANAGER" -> {"project", "feature", "team", "release"}
      [] r = "DEVELOPER" -> {"username", "feature", "bug"}
      [] OTHER -> {}

\* What the guards of the operations behind a box let a role do.
Allowed(r, s) ==
    \/ s \in {"project", "team", "release"} /\ r \in {"ADMIN", "MANAGER"}
    \/ s \in {"feature", "bug"} /\ r \in {"ADMIN", "MANAGER", "DEVELOPER"}
    \/ s \in {"github", "username"}

\* What the pages offer: none has a field for the username.
Offered == Signals \ {"username"}

OnboardingAssumption ==
    /\ Roles \subseteq {"ADMIN", "MANAGER", "DEVELOPER", "VIEWER"} /\ Roles # {}
    /\ MaxUndone \in Nat /\ MaxFailures \in Nat /\ MaxClicks \in Nat

VARIABLES
    role,
    server,   \* what is done in the workspace, and "dismissed"
    invited,  \* whether an invitation waits to be accepted
    page,     \* "away", "loading" the statistics, or the dashboard is "shown"
    cache,    \* of each query: None or what its answer had of the server
    invalid,  \* queries whose data is out of date by age or by a change of the member's
    fetch,    \* of each query: Idle, Asked, or the answer under way
    acks,     \* queries to invalidate once the answer to a change has come
    undone, failures, clicks

vars == <<role, server, invited, page, cache, invalid, fetch, acks, undone, failures, clicks>>

client == <<page, cache, invalid, fetch>>

Part == [stats |-> {"project", "team", "feature", "bug", "release"},
         me |-> {"username", "dismissed"}, installation |-> {"github"}]

TypeOK ==
    /\ role \in Roles /\ server \subseteq Signals \cup {"dismissed"} /\ invited \in BOOLEAN
    /\ page \in {"away", "loading", "shown"}
    /\ \A q \in Queries :
           /\ cache[q] = None \/ cache[q] \subseteq Part[q]
           /\ fetch[q] \in {Idle, Asked} \/ fetch[q] \subseteq Part[q]
    /\ invalid \subseteq Queries /\ acks \subseteq Queries
    /\ undone \in 0..MaxUndone /\ failures \in 0..MaxFailures
    /\ clicks \in 0..MaxClicks

Relevant(r) == Boxes(r) \cup {"project"}

Init ==
    /\ role \in Roles
    /\ server \in SUBSET Relevant(role) /\ ("feature" \in server => "project" \in server)
    /\ invited = FALSE /\ page = "away"
    /\ cache = [q \in Queries |-> None] /\ invalid = {} /\ fetch = [q \in Queries |-> Idle]
    /\ acks = {} /\ undone = 0 /\ failures = 0 /\ clicks = 0

(***************************************************************************)
(* The panel.                                                               *)
(***************************************************************************)

Ticked(s) == \E q \in Queries : cache[q] # None /\ s \in cache[q]

Shown ==
    /\ page = "shown" /\ cache["me"] # None /\ "dismissed" \notin cache["me"]
    /\ Boxes(role) # {} => \E s \in Boxes(role) : ~Ticked(s)

(***************************************************************************)
(* Queries.                                                                 *)
(***************************************************************************)

Active(q) == page = "shown" \/ (page = "loading" /\ q = "stats")

\* Mutant: what is there is never read again.
Due_Missing(q) == cache[q] = None

Due(q) == cache[q] = None \/ q \in invalid

Sent(qs) ==
    [q \in Queries |-> IF q \in qs /\ Due(q) /\ fetch[q] = Idle THEN Asked ELSE fetch[q]]

Read(q) ==
    /\ fetch[q] = Asked /\ fetch' = [fetch EXCEPT ![q] = server \cap Part[q]]
    /\ UNCHANGED <<role, server, invited, page, cache, invalid, acks, undone, failures, clicks>>

Answer(q) ==
    /\ fetch[q] \notin {Idle, Asked}
    /\ cache' = [cache EXCEPT ![q] = fetch[q]]
    /\ invalid' = invalid \ {q} /\ fetch' = [fetch EXCEPT ![q] = Idle]
    /\ UNCHANGED <<role, server, invited, page, acks, undone, failures, clicks>>

Fail(q) ==
    /\ fetch[q] # Idle /\ failures < MaxFailures
    /\ fetch' = [fetch EXCEPT ![q] = Idle] /\ failures' = failures + 1
    /\ UNCHANGED <<role, server, invited, page, cache, invalid, acks, undone, clicks>>

\* A minute has passed since the answer.
Age(q) ==
    /\ cache[q] # None /\ q \notin invalid /\ invalid' = invalid \cup {q}
    /\ UNCHANGED <<role, server, invited, page, cache, fetch, acks, undone, failures, clicks>>

\* The answer to a change: a query in use is read again, unless its first answer is awaited.
Invalidate(q) ==
    /\ q \in acks /\ acks' = acks \ {q}
    /\ invalid' = invalid \cup {q}
    /\ fetch' = IF Active(q) /\ (cache[q] # None \/ fetch[q] = Idle)
                THEN [fetch EXCEPT ![q] = Asked] ELSE fetch
    /\ UNCHANGED <<role, server, invited, page, cache, undone, failures, clicks>>

(***************************************************************************)
(* The member.                                                              *)
(***************************************************************************)

Enter ==
    /\ page = "away" /\ page' = "loading"
    /\ fetch' = Sent({"stats"})
    /\ UNCHANGED <<role, server, invited, cache, invalid, acks, undone, failures, clicks>>

\* The statistics are there, or could not be read.
Render ==
    /\ page = "loading" /\ (cache["stats"] # None \/ fetch["stats"] = Idle)
    /\ page' = "shown" /\ fetch' = Sent({"me", "installation"})
    /\ UNCHANGED <<role, server, invited, cache, invalid, acks, undone, failures, clicks>>

Leave ==
    /\ page # "away" /\ page' = "away"
    /\ UNCHANGED <<role, server, invited, cache, invalid, fetch, acks, undone, failures, clicks>>

\* A project, a feature, a bug or a release is created; a feature and a bug need a project.
Create(s) ==
    /\ page = "away" /\ s \in Part["stats"] \ ({"team"} \cup server)
    /\ s \in Relevant(role) \cap Offered /\ Allowed(role, s)
    /\ s # "project" => "project" \in server
    /\ server' = server \cup {s} /\ acks' = acks \cup {"stats"}
    /\ UNCHANGED <<role, invited, client, undone, failures, clicks>>

Invite ==
    /\ page = "away" /\ "team" \in Relevant(role) \ server /\ Allowed(role, "team")
    /\ ~invited /\ invited' = TRUE
    /\ UNCHANGED <<role, server, client, acks, undone, failures, clicks>>

\* By way of GitHub: the page is loaded again.
Connect ==
    /\ page = "away" /\ "github" \in Relevant(role) \ server
    /\ server' = server \cup {"github"}
    /\ cache' = [q \in Queries |-> None] /\ fetch' = [q \in Queries |-> Idle]
    /\ invalid' = {} /\ acks' = {}
    /\ UNCHANGED <<role, invited, page, undone, failures, clicks>>

Dismiss ==
    /\ Shown /\ "me" \notin acks /\ clicks < MaxClicks
    /\ clicks' = clicks + 1
    /\ server' = server \cup {"dismissed"} /\ acks' = acks \cup {"me"}
    /\ UNCHANGED <<role, invited, client, undone, failures>>

(***************************************************************************)
(* Others.                                                                  *)
(***************************************************************************)

Join ==
    /\ invited /\ invited' = FALSE /\ server' = server \cup {"team"}
    /\ UNCHANGED <<role, client, acks, undone, failures, clicks>>

\* The only project takes its features and bugs along.
Delete(s) ==
    /\ s \in server \cap {"project", "feature", "bug", "release", "github"} /\ undone < MaxUndone
    /\ server' = server \ (IF s = "project" THEN {"project", "feature", "bug"} ELSE {s})
    /\ undone' = undone + 1
    /\ UNCHANGED <<role, invited, client, acks, failures, clicks>>

Next ==
    \/ \E q \in Queries : Read(q)
    \/ \E q \in Queries : Answer(q)
    \/ \E q \in Queries : Fail(q)
    \/ \E q \in Queries : Age(q)
    \/ \E q \in Queries : Invalidate(q)
    \/ Enter
    \/ Render
    \/ Leave
    \/ \E s \in Signals : Create(s)
    \/ Invite
    \/ Connect
    \/ Dismiss
    \/ Join
    \/ \E s \in Signals : Delete(s)

Spec == Init /\ [][Next]_vars

(***************************************************************************)
(* Properties.                                                              *)
(***************************************************************************)

\* A dismissal lasts: whatever answers were under way, in the end the panel stays away.
DismissalLasts == "dismissed" \in server ~> []~Shown
=============================================================================
