--------------------------- MODULE BrowserSession ---------------------------
(***************************************************************************)
(* The session of a browser: one token in the storage that its tabs share,  *)
(* and in each tab what AuthContext, the API client and the query cache     *)
(* hold.  A request takes the stored token when it is sent; its answer may  *)
(* come after anything else.  A user's data is told apart by workspace.     *)
(***************************************************************************)
EXTENDS Naturals, FiniteSets

CONSTANTS
    Tabs,
    Tokens,      \* bound: tokens the server issues
    WorkspaceOf, \* of each token
    None

SessionAssumption == None \notin Tokens /\ DOMAIN WorkspaceOf = Tokens

Workspaces == {WorkspaceOf[t] : t \in Tokens}

VARIABLES
    alive,  \* tokens the server takes
    issued, \* tokens the server has issued
    stored, \* localStorage: the token, or None
    tab,    \* of each tab: whether its state is being loaded, token, user, cached data
    calls,  \* requests under way
    strayed \* tabs whose stored token another tab changed, or that signed in over a session

vars == <<alive, issued, stored, tab, calls, strayed>>

Fresh == [loading |-> FALSE, token |-> None, user |-> None, data |-> None]

Calls ==
    [tab : Tabs, kind : {"load", "login", "query"}, token : Tokens]
        \cup [tab : Tabs, kind : {"switch"}, token : Tokens, to : Workspaces]

TypeOK ==
    /\ alive \subseteq issued /\ issued \subseteq Tokens
    /\ stored \in issued \cup {None}
    /\ tab \in [Tabs -> [loading : BOOLEAN, token : issued \cup {None},
                         user : Workspaces \cup {None}, data : Workspaces \cup {None}]]
    /\ calls \subseteq Calls /\ \A c \in calls : c.token \in issued
    /\ strayed \subseteq Tabs

Init ==
    /\ alive = {} /\ issued = {} /\ stored = None
    /\ tab = [t \in Tabs |-> Fresh]
    /\ calls = {} /\ strayed = {}

IsAuthenticated(t) == tab[t].user # None /\ tab[t].token # None

Issue(k) == k \notin issued /\ issued' = issued \cup {k} /\ alive' = alive \cup {k}

\* A token expires, or its holder is deactivated.
Expire(k) ==
    /\ k \in alive /\ alive' = alive \ {k}
    /\ UNCHANGED <<issued, stored, tab, calls, strayed>>

Of(t) == {c \in calls : c.tab = t}
Queries(t) == {c \in Of(t) : c.kind = "query"}

\* Another token for tab t strays the tabs that run on the one before.
Stray(t) == {s \in Tabs \ {t} : tab[s].token # None}

(***************************************************************************)
(* AuthContext.                                                             *)
(***************************************************************************)

\* A tab is opened, or its page loaded again.
Load(t) ==
    /\ tab' = [tab EXCEPT ![t] = [Fresh EXCEPT !.loading = stored # None, !.token = stored]]
    /\ calls' = (calls \ Of(t))
                    \cup (IF stored = None THEN {} ELSE {[tab |-> t, kind |-> "load", token |-> stored]})
    /\ strayed' = strayed \ {t}
    /\ UNCHANGED <<alive, issued, stored>>

\* login: the token is stored, and the user and the workspace are asked for.
Login(t, k, under) ==
    /\ stored' = k
    /\ calls' = under \cup {[tab |-> t, kind |-> "login", token |-> k]}

\* The sign-in, the workspace selection, the OAuth callback, the accepted invitation.
SignIn(t, k) ==
    /\ Issue(k) /\ Login(t, k, calls)
    /\ tab' = [tab EXCEPT ![t].token = k]
    /\ strayed' = strayed \cup Stray(t) \cup {s \in {t} : tab[s].data # None \/ Queries(s) # {}}

Cleared(r) == [r EXCEPT !.user = None, !.token = None, !.data = None]

Logout(t) ==
    /\ tab' = [tab EXCEPT ![t] = Cleared(tab[t])]
    /\ stored' = None /\ calls' = calls \ Queries(t)
    /\ strayed' = (strayed \cup Stray(t)) \ {t}
    /\ UNCHANGED <<alive, issued>>

SignOut(t) == IsAuthenticated(t) /\ Logout(t)

\* The notification stream, opened with the tab's token, is refused.
StreamRefused(t) ==
    /\ IsAuthenticated(t) /\ tab[t].token \notin alive
    /\ Logout(t)

SendSwitch(t, w) ==
    /\ IsAuthenticated(t) /\ stored # None /\ w # tab[t].user
    /\ ~ \E c \in Of(t) : c.kind = "switch"
    /\ calls' = calls \cup {[tab |-> t, kind |-> "switch", token |-> stored, to |-> w]}
    /\ UNCHANGED <<alive, issued, stored, tab, strayed>>

\* Mutant: the data of the workspace before stays.
Switched_Kept(r, k) == [r EXCEPT !.token = k]

Switched(r, k) == [r EXCEPT !.token = k, !.data = None]

Switch(c, k) ==
    /\ c.kind = "switch" /\ c.token \in alive /\ WorkspaceOf[k] = c.to
    /\ Issue(k)
    /\ Login(c.tab, k, calls \ ({c} \cup Queries(c.tab)))
    /\ tab' = [tab EXCEPT ![c.tab] = Switched(tab[c.tab], k)]
    /\ strayed' = (strayed \cup Stray(c.tab)) \ {c.tab}

(***************************************************************************)
(* Answers.                                                                 *)
(***************************************************************************)

\* A page under ProtectedRoute reads its data; without a stored token it is refused.
Query(t) ==
    /\ IsAuthenticated(t) /\ stored # None /\ Queries(t) = {}
    /\ calls' = calls \cup {[tab |-> t, kind |-> "query", token |-> stored]}
    /\ UNCHANGED <<alive, issued, stored, tab, strayed>>

Accepted(c) ==
    /\ c.kind # "switch" /\ c.token \in alive
    /\ LET w == WorkspaceOf[c.token] IN
       tab' = [tab EXCEPT ![c.tab] =
           IF c.kind = "query" THEN [@ EXCEPT !.data = w]
           ELSE [@ EXCEPT !.user = w, !.loading = tab[c.tab].loading /\ c.kind # "load"]]
    /\ calls' = calls \ {c}
    /\ UNCHANGED <<alive, issued, stored, strayed>>

\* 401: the interceptor drops the session and loads the sign-in page.
Refused(c) ==
    /\ c.token \notin alive
    /\ stored' = None
    /\ tab' = [tab EXCEPT ![c.tab] = Fresh] /\ calls' = calls \ Of(c.tab)
    /\ strayed' = (strayed \cup Stray(c.tab)) \ {c.tab}
    /\ UNCHANGED <<alive, issued>>

\* No answer: a load logs out; a login leaves the token and the user there was.
Unanswered(c) ==
    IF c.kind = "load"
    THEN /\ tab' = [tab EXCEPT ![c.tab] = [Cleared(tab[c.tab]) EXCEPT !.loading = FALSE]]
         /\ stored' = None /\ calls' = calls \ ({c} \cup Queries(c.tab))
         /\ strayed' = (strayed \cup Stray(c.tab)) \ {c.tab}
         /\ UNCHANGED <<alive, issued>>
    ELSE /\ calls' = calls \ {c}
         /\ UNCHANGED <<alive, issued, stored, tab, strayed>>

Next ==
    \/ \E k \in Tokens : Expire(k)
    \/ \E t \in Tabs : Load(t)
    \/ \E t \in Tabs, k \in Tokens : SignIn(t, k)
    \/ \E t \in Tabs : SignOut(t)
    \/ \E t \in Tabs : StreamRefused(t)
    \/ \E t \in Tabs, w \in Workspaces : SendSwitch(t, w)
    \/ \E c \in calls, k \in Tokens : Switch(c, k)
    \/ \E t \in Tabs : Query(t)
    \/ \E c \in calls : Accepted(c)
    \/ \E c \in calls : Refused(c)
    \/ \E c \in calls : Unanswered(c)

Spec == Init /\ [][Next]_vars

(***************************************************************************)
(* Properties.                                                              *)
(***************************************************************************)

\* What a tab shows is of the workspace of its session, unless another tab changed the
\* session or the user signed in over one.
CacheScoped ==
    \A t \in Tabs \ strayed :
        tab[t].data # None
            => tab[t].token # None /\ tab[t].data = WorkspaceOf[tab[t].token]

=============================================================================
