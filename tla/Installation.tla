---------------------------- MODULE Installation ----------------------------
(***************************************************************************)
(* The GitHub App: install links and their states, the callback after an    *)
(* installation, disconnecting, repositories and their projects, and        *)
(* GitHub's installation events.  Requests and event handlers interleave at *)
(* the database calls; events arrive in any order, callbacks repeatedly.    *)
(* Requests die between two steps; the handler of an event fails or dies,    *)
(* and then GitHub may deliver the event again.                              *)
(***************************************************************************)
EXTENDS Naturals, FiniteSets

CONSTANTS
    Tenants,
    Installations,  \* GitHub's; installing again makes another one
    Repos,          \* repositories of the account, in every installation of it
    Nonces,         \* states that may be made
    Requests,       \* each makes one call
    Calls,          \* the calls made: subset of AllCalls
    MaxCrashes,     \* bound: requests and event handlers that fail or die half-way
    None

AllCalls == {"url", "callback", "disconnect", "connect"}

InstallationAssumption ==
    /\ Calls \subseteq AllCalls /\ MaxCrashes \in Nat
    /\ None \notin Tenants \cup Installations \cup Repos \cup Nonces

VARIABLES
    github,    \* the installations as GitHub has them
    redirects, \* callbacks a browser may make: nonce and installation
    events,    \* installation events: sent, being handled, or to be delivered again
    nonce,     \* table GitHubInstallState
    inst,      \* table GitHubInstallation
    repo,      \* table GitHubRepository; linked stands for projectId and webhookActive
    req,       \* where each request stands
    crashes,
    revived,   \* for properties: installations saved when GitHub had them no more
    late       \* for properties: repositories linked while their installation was not, or was
               \* about to be no longer, active

vars == <<github, redirects, events, nonce, inst, repo, req, crashes, revived, late>>
external == <<github, redirects>>
ghosts == <<crashes, revived, late>>

Idle == [at |-> "idle", call |-> None, tenant |-> None, nonce |-> None, inst |-> None,
         repo |-> None, uninstalled |-> FALSE]
Known(i) == inst[i].tenant # None
Active(t) == {i \in Installations : inst[i] = [tenant |-> t, status |-> "ACTIVE"]}
OfInstallation(i) == {x \in Repos : repo[x].inst = i}

TypeOK ==
    /\ github \in [Installations -> {"absent", "installed", "uninstalled"}]
    /\ redirects \subseteq Nonces \X Installations
    /\ \A e \in events : /\ e.kind \in {"created", "deleted"} /\ e.inst \in Installations
                         /\ e.at \in {"sent", "sync", "mark", "unlink", "again"}
                         /\ e.left \subseteq Repos
                         /\ e.at # "sent" => Known(e.inst)
    /\ nonce \in [Nonces -> [tenant : Tenants \cup {None}, state : {"none", "fresh", "used", "expired"}]]
    /\ inst \in [Installations -> [tenant : Tenants \cup {None}, status : {"ACTIVE", "REMOVED"}]]
    /\ repo \in [Repos -> [inst : Installations \cup {None}, tenant : Tenants \cup {None},
                           linked : BOOLEAN]]
    /\ \A x \in Repos : repo[x].inst # None => repo[x].tenant = inst[repo[x].inst].tenant
    /\ \A r \in Requests : req[r].at \in {"idle", "create", "mark", "save", "uninstall", "unlink",
                                          "remove", "link", "done", "refused", "crashed"}
    /\ crashes \in 0..MaxCrashes

Init ==
    /\ github = [i \in Installations |-> "absent"] /\ redirects = {} /\ events = {}
    /\ nonce = [n \in Nonces |-> [tenant |-> None, state |-> "none"]]
    /\ inst = [i \in Installations |-> [tenant |-> None, status |-> "REMOVED"]]
    /\ repo = [x \in Repos |-> [inst |-> None, tenant |-> None, linked |-> FALSE]]
    /\ req = [r \in Requests |-> Idle]
    /\ crashes = 0 /\ revived = {} /\ late = {}

At(r, call, step) == req[r].call = call /\ req[r].at = step
Go(r, step) == req' = [req EXCEPT ![r].at = step]
Call(r, call) == call \in Calls /\ req[r].at = "idle"
Start(r, call, fields) == req' = [req EXCEPT ![r] = [fields EXCEPT !.call = call]]

(***************************************************************************)
(* GitHub: one installation of the account at a time; its events.           *)
(***************************************************************************)

\* A member follows an install link.  GitHub tells the app, and sends the browser back.
Install(n, i) ==
    /\ nonce[n].state = "fresh" /\ github[i] = "absent"
    /\ \A j \in Installations : github[j] # "installed"
    /\ github' = [github EXCEPT ![i] = "installed"]
    /\ redirects' = redirects \cup {<<n, i>>}
    /\ events' = events \cup {[kind |-> "created", inst |-> i, at |-> "sent", left |-> Repos]}
    /\ UNCHANGED <<nonce, inst, repo, req, ghosts>>

\* Or follows it where the app is installed already.
Reconfigure(n, i) ==
    /\ nonce[n].state = "fresh" /\ github[i] = "installed"
    /\ redirects' = redirects \cup {<<n, i>>}
    /\ UNCHANGED <<github, events, nonce, inst, repo, req, ghosts>>

Uninstalls(i) ==
    /\ github' = [github EXCEPT ![i] = "uninstalled"]
    /\ events' = events \cup {[kind |-> "deleted", inst |-> i, at |-> "sent", left |-> {}]}

UninstallOnGitHub(i) ==
    /\ github[i] = "installed" /\ Uninstalls(i)
    /\ UNCHANGED <<redirects, nonce, inst, repo, req, ghosts>>

Expire(n) ==
    /\ nonce[n].state = "fresh" /\ nonce' = [nonce EXCEPT ![n].state = "expired"]
    /\ UNCHANGED <<external, events, inst, repo, req, ghosts>>

(***************************************************************************)
(* Install link and callback.                                               *)
(***************************************************************************)

\* getInstallUrl; with an active installation the link goes there instead.
GetInstallUrl(r, t) ==
    /\ Call(r, "url") /\ Active(t) = {}
    /\ Start(r, "url", [Idle EXCEPT !.tenant = t, !.at = "create"])
    /\ UNCHANGED <<external, events, nonce, inst, repo, ghosts>>

CreateState(r) ==
    /\ At(r, "url", "create")
    /\ \E n \in Nonces :
          /\ nonce[n].state = "none"
          /\ nonce' = [nonce EXCEPT ![n] = [tenant |-> req[r].tenant, state |-> "fresh"]]
    /\ Go(r, "done")
    /\ UNCHANGED <<external, events, inst, repo, ghosts>>

ReadState(r, n, i) ==
    /\ Call(r, "callback") /\ <<n, i>> \in redirects
    /\ Start(r, "callback", [Idle EXCEPT !.nonce = n, !.inst = i, !.tenant = nonce[n].tenant,
                               !.at = IF nonce[n].state = "fresh" THEN "mark" ELSE "refused"])
    /\ UNCHANGED <<external, events, nonce, inst, repo, ghosts>>

MarkState(r) ==
    /\ At(r, "callback", "mark")
    /\ nonce' = [nonce EXCEPT ![req[r].nonce].state = "used"]
    /\ Go(r, "save")
    /\ UNCHANGED <<external, events, inst, repo, ghosts>>

\* Mutant: whoever installs last gets the installation.
SaveInstallation_Moves(r) ==
    LET i == req[r].inst IN
    /\ At(r, "callback", "save")
    /\ inst' = [inst EXCEPT ![i] = [tenant |-> req[r].tenant, status |-> "ACTIVE"]]
    /\ revived' = IF github[i] = "uninstalled" THEN revived \cup {i} ELSE revived
    /\ Go(r, "done")
    /\ UNCHANGED <<external, events, nonce, repo, crashes, late>>

\* An upsert by GitHub's id: a row that exists keeps its tenant.
SaveInstallation(r) ==
    LET i == req[r].inst IN
    /\ At(r, "callback", "save")
    /\ inst' = [inst EXCEPT ![i] = [tenant |-> IF Known(i) THEN @.tenant ELSE req[r].tenant,
                                    status |-> "ACTIVE"]]
    /\ revived' = IF github[i] = "uninstalled" THEN revived \cup {i} ELSE revived
    /\ Go(r, "done")
    /\ UNCHANGED <<external, events, nonce, repo, crashes, late>>

(***************************************************************************)
(* Disconnecting, and connecting a repository.                              *)
(***************************************************************************)

Disconnect(r, i) ==
    /\ Call(r, "disconnect") /\ Known(i)
    /\ Start(r, "disconnect", [Idle EXCEPT !.inst = i, !.at = "uninstall"])
    /\ UNCHANGED <<external, events, nonce, inst, repo, ghosts>>

\* uninstallFromGitHub: 404 counts as a success; without a usable answer it may have been
\* done or not, and the local state is cleaned up in any case.
Uninstall(r) ==
    LET i == req[r].inst IN
    /\ At(r, "disconnect", "uninstall")
    /\ \/ /\ github[i] = "installed" /\ Uninstalls(i)
          /\ \E answered \in BOOLEAN :
                req' = [req EXCEPT ![r] = [@ EXCEPT !.at = "unlink", !.uninstalled = answered]]
       \/ /\ \E answered \in {FALSE, github[i] # "installed"} :
                req' = [req EXCEPT ![r] = [@ EXCEPT !.at = "unlink", !.uninstalled = answered]]
          /\ UNCHANGED <<github, events>>
    /\ UNCHANGED <<redirects, nonce, inst, repo, ghosts>>

Unlinked(i) == [x \in Repos |-> IF repo[x].inst = i THEN [repo[x] EXCEPT !.linked = FALSE] ELSE repo[x]]

UnlinkRepos(r) ==
    /\ At(r, "disconnect", "unlink")
    /\ repo' = Unlinked(req[r].inst) /\ Go(r, "remove")
    /\ UNCHANGED <<external, events, nonce, inst, ghosts>>

MarkRemoved(r) ==
    /\ At(r, "disconnect", "remove")
    /\ inst' = [inst EXCEPT ![req[r].inst].status = "REMOVED"] /\ Go(r, "done")
    /\ UNCHANGED <<external, events, nonce, repo, ghosts>>

\* Only that repository and project are of the workspace is asked.
Connect(r, t, x) ==
    /\ Call(r, "connect") /\ repo[x].tenant = t
    /\ Start(r, "connect", [Idle EXCEPT !.repo = x, !.tenant = t, !.at = "link"])
    /\ UNCHANGED <<external, events, nonce, inst, repo, ghosts>>

\* A removal of i that has begun and not ended.
Removing(i) ==
    \/ \E r \in Requests : req[r].inst = i /\ req[r].at \in {"unlink", "remove"}
    \/ \E e \in events : e.inst = i /\ e.at \in {"mark", "unlink"}

Link(r) ==
    LET x == req[r].repo
        i == repo[x].inst
    IN
    /\ At(r, "connect", "link")
    /\ repo' = [repo EXCEPT ![x].linked = TRUE] /\ Go(r, "done")
    /\ late' = IF inst[i].status # "ACTIVE" \/ Removing(i) THEN late \cup {x} ELSE late \ {x}
    /\ UNCHANGED <<external, events, nonce, inst, crashes, revived>>

(***************************************************************************)
(* handleInstallationEvent.                                                 *)
(***************************************************************************)

Becomes(e, f) == events' = (events \ {e}) \cup {f}

\* Mutant: the deletion of an installation that is marked already is taken for a duplicate.
FindInstallation_SkipsRemoved(e) ==
    /\ e.at \in {"sent", "again"}
    /\ IF Known(e.inst) /\ (e.kind = "deleted" => inst[e.inst].status = "ACTIVE")
       THEN Becomes(e, [e EXCEPT !.at = IF e.kind = "created" THEN "sync" ELSE "mark"])
       ELSE events' = events \ {e}
    /\ UNCHANGED <<external, nonce, inst, repo, req, ghosts>>

\* An event of an installation that has not been saved is ignored.
FindInstallation(e) ==
    /\ e.at \in {"sent", "again"}
    /\ IF Known(e.inst)
       THEN Becomes(e, [e EXCEPT !.at = IF e.kind = "created" THEN "sync" ELSE "mark"])
       ELSE events' = events \ {e}
    /\ UNCHANGED <<external, nonce, inst, repo, req, ghosts>>

\* One upsert per repository, by GitHub's id: a row that exists stays where it is.
SyncRepo(e) ==
    /\ e.at = "sync"
    /\ \/ /\ e.left = {} /\ events' = events \ {e} /\ UNCHANGED repo
       \/ \E x \in e.left :
             /\ repo' = IF repo[x].inst # None THEN repo
                        ELSE [repo EXCEPT ![x] = [inst |-> e.inst, tenant |-> inst[e.inst].tenant,
                                                  linked |-> FALSE]]
             /\ Becomes(e, [e EXCEPT !.left = @ \ {x}])
    /\ UNCHANGED <<external, nonce, inst, req, ghosts>>

EventMarksRemoved(e) ==
    /\ e.at = "mark"
    /\ inst' = [inst EXCEPT ![e.inst].status = "REMOVED"]
    /\ Becomes(e, [e EXCEPT !.at = "unlink"])
    /\ UNCHANGED <<external, nonce, repo, req, ghosts>>

EventUnlinks(e) ==
    /\ e.at = "unlink" /\ repo' = Unlinked(e.inst) /\ events' = events \ {e}
    /\ UNCHANGED <<external, nonce, inst, req, ghosts>>

\* A database call of the handler throws, or the process dies; or GitHub gives up waiting
\* while the handler goes on.  No transaction: what was written stays.  "GitHub retries
\* webhook deliveries on timeout/error": from the beginning, and nothing tells the attempts apart.
EventFails(e) ==
    LET again == [e EXCEPT !.at = "again", !.left = IF e.kind = "created" THEN Repos ELSE {}] IN
    /\ crashes < MaxCrashes /\ e.at \in {"sync", "mark", "unlink"}
    /\ Becomes(e, again) \/ events' = events \cup {again}
    /\ crashes' = crashes + 1
    /\ UNCHANGED <<external, nonce, inst, repo, req, revived, late>>

\* A request dies between two of its steps.
Crash(r) ==
    /\ crashes < MaxCrashes /\ req[r].at \in {"create", "save", "unlink", "remove", "link"}
    /\ Go(r, "crashed") /\ crashes' = crashes + 1
    /\ UNCHANGED <<external, events, nonce, inst, repo, revived, late>>

Step(r) == CreateState(r) \/ MarkState(r) \/ SaveInstallation(r) \/ Uninstall(r) \/ UnlinkRepos(r)
           \/ MarkRemoved(r) \/ Link(r)
Handle(e) == FindInstallation(e) \/ SyncRepo(e) \/ EventMarksRemoved(e) \/ EventUnlinks(e)
HandleOf(kind, i) == \E e \in events : e.kind = kind /\ e.inst = i /\ Handle(e)

Next ==
    \/ \E n \in Nonces, i \in Installations : Install(n, i) \/ Reconfigure(n, i)
    \/ \E i \in Installations : UninstallOnGitHub(i)
    \/ \E n \in Nonces : Expire(n)
    \/ \E r \in Requests :
          \/ Step(r) \/ Crash(r)
          \/ \E t \in Tenants : GetInstallUrl(r, t)
          \/ \E n \in Nonces, i \in Installations : ReadState(r, n, i)
          \/ \E i \in Installations : Disconnect(r, i)
          \/ \E t \in Tenants, x \in Repos : Connect(r, t, x)
    \/ \E e \in events : Handle(e) \/ EventFails(e)

Spec == Init /\ [][Next]_vars

(***************************************************************************)
(* Properties.                                                              *)
(***************************************************************************)

Gone(i) == inst[i].status = "REMOVED" /\ \A x \in OfInstallation(i) : repo[x].linked => x \in late

\* The handler of i's deletion failed, perhaps between its two writes, and GitHub has not
\* delivered the event again.
Outstanding(i) == \E e \in events : e.kind = "deleted" /\ e.inst = i /\ e.at = "again"

\* Once i is removed none of its repositories is linked to a project, unless by a request
\* that ran while i was removed or being removed, or a failed deletion is outstanding: its
\* handler marks i before it unlinks, so what it leaves half-done only GitHub can finish.
RemovedUnlinked ==
    \A i \in Installations :
        inst[i].status = "REMOVED" /\ ~Removing(i) /\ ~Outstanding(i) => Gone(i)

\* What GitHub has uninstalled comes to be removed here and its repositories unlinked, on
\* its event, delivered again after a failure, or by the disconnect that did it, though
\* requests and handlers die, unless a callback saved it again afterwards.
Follows ==
    \A i \in Installations : github[i] = "uninstalled" ~> Gone(i) \/ i \in revived

=============================================================================
