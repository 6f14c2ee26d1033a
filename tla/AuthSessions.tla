---------------------------- MODULE AuthSessions ----------------------------
(***************************************************************************)
(* Sign-in and what ends it: AuthService (password and OAuth login, the     *)
(* choice of a workspace, reset links), JwtStrategy.validate, and the       *)
(* operations of UserService and InvitationsService that create, change or  *)
(* deactivate the memberships a token speaks of.                            *)
(*                                                                         *)
(* One person, by e-mail address, and the workspaces he may belong to.      *)
(* Every request is a slot of its own; one action is what lies between two  *)
(* awaits that another request can tell apart, and a $transaction is one    *)
(* action.  Passwords are told apart by the number of resets before them.   *)
(* Hashing, signing and the expiry of a token are left out, and so are      *)
(* requests that are refused before they write anything.                    *)
(***************************************************************************)
EXTENDS Naturals, FiniteSets

CONSTANTS
    Tenants,      \* workspaces of others that the person may be added to
    Own,          \* ids of workspaces made by his own first sign-in
    Slots,        \* requests in progress at once
    None,
    ResetLimit,   \* RESET_REQUESTS_PER_WINDOW
    MaxLinks,     \* bound: rows of PasswordResetToken
    MaxResets,    \* bound: resets that commit
    MaxSessions,  \* bound: rows of LoginSession
    MaxEdits      \* bound: membership operations of administrators

\* Two of the four roles: which one is held matters only as being the same or not.
Roles == {"ADMIN", "DEVELOPER"}
Workspaces == Tenants \cup Own
Links == 1..MaxLinks
Sessions == 1..MaxSessions

ASSUME SessionsAssumption ==
    /\ Tenants \cap Own = {} /\ None \notin Workspaces \cup Roles /\ None \notin BOOLEAN
    /\ IsFiniteSet(Slots)
    /\ ResetLimit \in Nat \ {0} /\ {MaxLinks, MaxResets, MaxSessions, MaxEdits} \subseteq Nat

VARIABLES
    user,     \* table User: whether the row exists and has a passwordHash
    identity, \* table AuthIdentity: the provider's account is linked
    epoch,    \* resets committed so far, which names the current password
    member,   \* table WorkspaceMember by workspace
    link,     \* table PasswordResetToken
    session,  \* table LoginSession
    request,  \* what each slot is working on
    jwt,      \* the access tokens that were signed
    told,     \* ROLE_CHANGED notices: workspace, old and new role
    edits,
    uses      \* for properties: resets made with each link

vars == <<user, identity, epoch, member, link, session, request, jwt, told, edits, uses>>
accounts == <<user, identity>>

NotMember == [status |-> "NONE", role |-> "DEVELOPER", version |-> 0]
NoLink == [state |-> "NONE", age |-> "recent", at |-> 0]
NoSession == [status |-> "NONE", fresh |-> TRUE, choice |-> {}, at |-> 0]
Idle == [op |-> "idle"]

Active(w) == member[w].status = "ACTIVE"
ActiveSet == {w \in Workspaces : Active(w)}

Token == [tenant : Workspaces, role : Roles, version : Nat, at : Nat]

TypeOK ==
    /\ user \in [exists : BOOLEAN, hasPassword : BOOLEAN]
    /\ identity \in BOOLEAN /\ epoch \in Nat
    /\ member \in [Workspaces -> [status : {"NONE", "ACTIVE", "INACTIVE"},
                                  role : Roles, version : Nat]]
    /\ link \in [Links -> [state : {"NONE", "LIVE", "USED"},
                           age : {"recent", "old", "expired"}, at : Nat]]
    /\ session \in [Sessions -> [status : {"NONE", "PENDING", "USED", "EXPIRED"},
                                 fresh : BOOLEAN, choice : SUBSET Workspaces, at : Nat]]
    /\ DOMAIN request = Slots
    /\ jwt \subseteq Token
    /\ told \subseteq Workspaces \X Roles \X Roles
    /\ edits \in 0..MaxEdits
    /\ uses \in [Links -> Nat]

\* The person may have an account already, with memberships or without.
Init ==
    /\ user \in {u \in [exists : BOOLEAN, hasPassword : BOOLEAN] : u.hasPassword => u.exists}
    /\ identity = FALSE
    /\ epoch = 0
    /\ \E joined \in SUBSET Tenants :
          /\ joined # {} => user.exists
          /\ member = [w \in Workspaces |->
                IF w \in joined THEN [NotMember EXCEPT !.status = "ACTIVE"] ELSE NotMember]
    /\ link = [l \in Links |-> NoLink]
    /\ session = [s \in Sessions |-> NoSession]
    /\ request = [r \in Slots |-> Idle]
    /\ jwt = {} /\ told = {} /\ edits = 0
    /\ uses = [l \in Links |-> 0]

\* JwtStrategy.validate: the membership is active and of the token's version.
Accepted(t) == Active(t.tenant) /\ member[t.tenant].version = t.version

Free(r) == request[r] = Idle
At(r, op) == request[r].op = op
Become(r, req) == request' = [request EXCEPT ![r] = req]
Done(r) == Become(r, Idle)

\* signToken, for a membership read as m.
Sign(w, m) == jwt' = jwt \cup
    {[tenant |-> w, role |-> m.role, version |-> m.version, at |-> epoch]}

(***************************************************************************)
(* Sign-in.                                                                 *)
(***************************************************************************)

\* The transaction of createWorkspace: the address must be new; the row of the
\* user, the workspace and its administrator are written together.
Register(w) ==
    /\ ~user.exists /\ w \in Own /\ member[w] = NotMember
    /\ user' = [exists |-> TRUE, hasPassword |-> TRUE]
    /\ member' = [member EXCEPT ![w] = [status |-> "ACTIVE", role |-> "ADMIN", version |-> 0]]
    /\ Sign(w, member'[w])
    /\ UNCHANGED <<identity, epoch, link, session, request, told, edits, uses>>

\* loginByEmail has read the user and compared the password.
Login(r) ==
    /\ Free(r) /\ user.exists /\ user.hasPassword
    /\ Become(r, [op |-> "memberships", oauth |-> FALSE])
    /\ UNCHANGED <<accounts, epoch, member, link, session, jwt, told, edits, uses>>

\* validateOAuthUser reads the user by address ...
OAuthLogin(r) ==
    /\ Free(r)
    /\ Become(r, [op |-> IF user.exists THEN "identity" ELSE "newUser"])
    /\ UNCHANGED <<accounts, epoch, member, link, session, jwt, told, edits, uses>>

\* ... and creates it, unless another request was first: User.email is unique.
CreateUser(r) ==
    /\ At(r, "newUser")
    /\ \/ user.exists /\ Done(r) /\ UNCHANGED user
       \/ /\ ~user.exists
          /\ user' = [exists |-> TRUE, hasPassword |-> FALSE]
          /\ Become(r, [op |-> "identity"])
    /\ UNCHANGED <<identity, epoch, member, link, session, jwt, told, edits, uses>>

FindIdentity(r) ==
    /\ At(r, "identity")
    /\ Become(r, IF identity THEN [op |-> "memberships", oauth |-> TRUE]
                             ELSE [op |-> "newIdentity"])
    /\ UNCHANGED <<accounts, epoch, member, link, session, jwt, told, edits, uses>>

CreateIdentity(r) ==
    /\ At(r, "newIdentity")
    /\ identity' = TRUE
    /\ Become(r, IF identity THEN Idle ELSE [op |-> "memberships", oauth |-> TRUE])
    /\ UNCHANGED <<user, epoch, member, link, session, jwt, told, edits, uses>>

\* The active memberships decide: none, one that is signed for, or a choice.
Memberships(r) ==
    /\ At(r, "memberships")
    /\ \/ /\ ActiveSet = {} /\ UNCHANGED jwt
          /\ Become(r, IF request[r].oauth THEN [op |-> "newWorkspace"] ELSE Idle)
       \/ \E w \in ActiveSet : ActiveSet = {w} /\ Sign(w, member[w]) /\ Done(r)
       \/ /\ Cardinality(ActiveSet) > 1 /\ UNCHANGED jwt
          /\ Become(r, [op |-> "newSession", choice |-> ActiveSet])
    /\ UNCHANGED <<accounts, epoch, member, link, session, told, edits, uses>>

\* createOAuthWorkspace: a workspace of his own, as its administrator.
CreateOAuthWorkspace(r) ==
    /\ At(r, "newWorkspace")
    /\ \E w \in Own :
          /\ member[w] = NotMember
          /\ member' = [member EXCEPT ![w] =
                [status |-> "ACTIVE", role |-> "ADMIN", version |-> 0]]
          /\ Sign(w, member'[w])
    /\ Done(r)
    /\ UNCHANGED <<accounts, epoch, link, session, told, edits, uses>>

\* The next row of a table whose rows are numbered as they are made.
Next1(table, field) ==
    {i \in DOMAIN table : /\ table[i][field] = "NONE"
                          /\ \A j \in 1..(i - 1) : table[j][field] # "NONE"}

CreateLoginSession(r) ==
    /\ At(r, "newSession")
    /\ \E s \in Next1(session, "status") :
          session' = [session EXCEPT ![s] = [status |-> "PENDING", fresh |-> TRUE,
                                             choice |-> request[r].choice, at |-> epoch]]
    /\ Done(r)
    /\ UNCHANGED <<accounts, epoch, member, link, jwt, told, edits, uses>>

\* selectWorkspace finds the session pending and the workspace among its choices ...
FindSession(r, s, w) ==
    /\ Free(r) /\ session[s].status = "PENDING" /\ session[s].fresh
    /\ w \in session[s].choice
    /\ Become(r, [op |-> "selected", session |-> s, tenant |-> w])
    /\ UNCHANGED <<accounts, epoch, member, link, session, jwt, told, edits, uses>>

\* ... reads the membership ...
ReadSelected(r) ==
    LET w == request[r].tenant IN
    /\ At(r, "selected")
    /\ Become(r, IF Active(w)
                 THEN [op |-> "use", session |-> request[r].session,
                       tenant |-> w, member |-> member[w]]
                 ELSE Idle)
    /\ UNCHANGED <<accounts, epoch, member, link, session, jwt, told, edits, uses>>

\* ... marks the session used, whatever it is by now, and signs what was read.
UseSession(r) ==
    LET s == request[r].session IN
    /\ At(r, "use")
    /\ session' = [session EXCEPT ![s].status = "USED"]
    /\ Sign(request[r].tenant, request[r].member)
    /\ Done(r)
    /\ UNCHANGED <<accounts, epoch, member, link, told, edits, uses>>

\* JwtAuthGuard lets the request to switch in ...
Authorise(r, t, w) ==
    /\ Free(r) /\ t \in jwt /\ Accepted(t)
    /\ Become(r, [op |-> "switch", tenant |-> w])
    /\ UNCHANGED <<accounts, epoch, member, link, session, jwt, told, edits, uses>>

\* ... and switchWorkspace signs for the membership it reads.
SwitchWorkspace(r) ==
    LET w == request[r].tenant IN
    /\ At(r, "switch")
    /\ IF Active(w) THEN Sign(w, member[w]) ELSE UNCHANGED jwt
    /\ Done(r)
    /\ UNCHANGED <<accounts, epoch, member, link, session, told, edits, uses>>

(***************************************************************************)
(* Reset links.                                                             *)
(***************************************************************************)

RecentLinks == {l \in Links : link[l].state # "NONE" /\ link[l].age = "recent"}

\* requestPasswordReset counts the requests of the window ...
CountRecent(r) ==
    /\ Free(r) /\ user.exists /\ Cardinality(RecentLinks) < ResetLimit
    /\ Become(r, [op |-> "revoke"])
    /\ UNCHANGED <<accounts, epoch, member, link, session, jwt, told, edits, uses>>

UseAll == [l \in Links |-> IF link[l].state = "LIVE"
                           THEN [link[l] EXCEPT !.state = "USED"] ELSE link[l]]

\* ... kills the links that are out ...
RevokeLinks(r) ==
    /\ At(r, "revoke")
    /\ link' = UseAll
    /\ Become(r, [op |-> "newLink"])
    /\ UNCHANGED <<accounts, epoch, member, session, jwt, told, edits, uses>>

\* ... and makes the new one.
CreateLink(r) ==
    /\ At(r, "newLink")
    /\ \E l \in Next1(link, "state") :
          link' = [link EXCEPT ![l] = [state |-> "LIVE", age |-> "recent", at |-> epoch]]
    /\ Done(r)
    /\ UNCHANGED <<accounts, epoch, member, session, jwt, told, edits, uses>>

\* resetPassword finds the link unused and in time, then hashes the password.
CheckLink(r, l) ==
    /\ Free(r) /\ link[l].state = "LIVE" /\ link[l].age # "expired"
    /\ Become(r, [op |-> "reset", link |-> l])
    /\ UNCHANGED <<accounts, epoch, member, link, session, jwt, told, edits, uses>>

BumpAll == [w \in Workspaces |-> IF member[w].status = "NONE" THEN member[w]
                                 ELSE [member[w] EXCEPT !.version = @ + 1]]
ExpireAll == [s \in Sessions |-> IF session[s].status = "PENDING"
                                 THEN [session[s] EXCEPT !.status = "EXPIRED"]
                                 ELSE session[s]]

\* Mutant: only the link itself is marked.
CommitReset_OneLink(r) ==
    LET l == request[r].link IN
    /\ At(r, "reset") /\ epoch < MaxResets
    /\ user' = [user EXCEPT !.hasPassword = TRUE]
    /\ epoch' = epoch + 1
    /\ link' = [link EXCEPT ![l].state = "USED"]
    /\ member' = BumpAll /\ session' = ExpireAll
    /\ uses' = [uses EXCEPT ![l] = @ + 1]
    /\ Done(r)
    /\ UNCHANGED <<identity, jwt, told, edits>>

\* Mutant: the versions stay as they are.
CommitReset_NoBump(r) ==
    LET l == request[r].link IN
    /\ At(r, "reset") /\ epoch < MaxResets
    /\ user' = [user EXCEPT !.hasPassword = TRUE]
    /\ epoch' = epoch + 1
    /\ link' = [UseAll EXCEPT ![l].state = "USED"]
    /\ session' = ExpireAll
    /\ uses' = [uses EXCEPT ![l] = @ + 1]
    /\ Done(r)
    /\ UNCHANGED <<identity, member, jwt, told, edits>>

\* Its transaction: the new password, every link used, every membership's
\* tokenVersion incremented and every pending session expired.
CommitReset(r) ==
    LET l == request[r].link IN
    /\ At(r, "reset") /\ epoch < MaxResets
    /\ user' = [user EXCEPT !.hasPassword = TRUE]
    /\ epoch' = epoch + 1
    /\ link' = [UseAll EXCEPT ![l].state = "USED"]
    /\ member' = BumpAll /\ session' = ExpireAll
    /\ uses' = [uses EXCEPT ![l] = @ + 1]
    /\ Done(r)
    /\ UNCHANGED <<identity, jwt, told, edits>>

\* Time: a link leaves the window of the limit, then expires, in order of age.
LinkAges(l) ==
    /\ link[l].state # "NONE" /\ link[l].age # "expired"
    /\ \A k \in 1..(l - 1) : link[k].age \notin {"recent", link[l].age}
    /\ link' = [link EXCEPT ![l].age = IF @ = "recent" THEN "old" ELSE "expired"]
    /\ UNCHANGED <<accounts, epoch, member, session, request, jwt, told, edits, uses>>

SessionAges(s) ==
    /\ session[s].status = "PENDING" /\ session[s].fresh
    /\ session' = [session EXCEPT ![s].fresh = FALSE]
    /\ UNCHANGED <<accounts, epoch, member, link, request, jwt, told, edits, uses>>

(***************************************************************************)
(* Memberships, by administrators of the workspaces.                        *)
(***************************************************************************)

Edit == edits < MaxEdits /\ edits' = edits + 1

\* UserService.create: find or create the user, insert the membership.
AddMember(w, role) ==
    /\ Edit /\ w \in Tenants /\ member[w].status = "NONE"
    /\ user' = [user EXCEPT !.exists = TRUE]
    /\ member' = [member EXCEPT ![w] = [status |-> "ACTIVE", role |-> role, version |-> 0]]
    /\ UNCHANGED <<identity, epoch, link, session, request, jwt, told, uses>>

\* UserService.update reads the row; role and active are the new values or None.
ReadMember(r, w, role, active) ==
    /\ Edit /\ Free(r) /\ member[w].status # "NONE" /\ ~(role = None /\ active = None)
    /\ Become(r, [op |-> "update", tenant |-> w, role |-> role, active |-> active,
                  old |-> member[w]])
    /\ UNCHANGED <<accounts, epoch, member, link, session, jwt, told, uses>>

RoleChanged(req) == req.role # None /\ req.role # req.old.role
ActiveChanged(req) == req.active # None /\ req.active # (req.old.status = "ACTIVE")

\* Mutant: a role that is not given is written as null.
Updated_NullRole(m, req, bump) ==
    [status |-> IF req.active = None THEN m.status
                ELSE IF req.active THEN "ACTIVE" ELSE "INACTIVE",
     role |-> req.role,
     version |-> IF bump THEN m.version + 1 ELSE m.version]

\* The row that UserService.update leaves.
Updated(m, req, bump) ==
    [status |-> IF req.active = None THEN m.status
                ELSE IF req.active THEN "ACTIVE" ELSE "INACTIVE",
     role |-> IF req.role = None THEN m.role ELSE req.role,
     version |-> IF bump THEN m.version + 1 ELSE m.version]

\* The update: the version moves when the values differ from those read before.
UpdateMember(r) ==
    LET req == request[r]
        m == Updated(member[req.tenant], req, RoleChanged(req) \/ ActiveChanged(req))
    IN
    /\ At(r, "update")
    /\ member' = [member EXCEPT ![req.tenant] = m]
    /\ Become(r, IF RoleChanged(req)
                 THEN [op |-> "notify", tenant |-> req.tenant, role |-> req.role, old |-> req.old]
                 ELSE Idle)
    /\ UNCHANGED <<accounts, epoch, link, session, jwt, told, edits, uses>>

NotifyRoleChanged(r) ==
    LET req == request[r] IN
    /\ At(r, "notify")
    /\ told' = told \cup {<<req.tenant, req.old.role, req.role>>}
    /\ Done(r)
    /\ UNCHANGED <<accounts, epoch, member, link, session, jwt, edits, uses>>

\* deactiveUser and reactivateUser write isActive and nothing else.
SetActive(w, active) ==
    LET m == [member[w] EXCEPT !.status = IF active THEN "ACTIVE" ELSE "INACTIVE"] IN
    /\ Edit /\ member[w].status # "NONE"
    /\ member' = [member EXCEPT ![w] = m]
    /\ UNCHANGED <<accounts, epoch, link, session, request, jwt, told, uses>>

SignInStep(r) ==
    \/ Login(r) \/ OAuthLogin(r) \/ CreateUser(r) \/ FindIdentity(r) \/ CreateIdentity(r)
    \/ Memberships(r) \/ CreateOAuthWorkspace(r) \/ CreateLoginSession(r)
    \/ \E s \in Sessions, w \in Workspaces : FindSession(r, s, w)
    \/ ReadSelected(r) \/ UseSession(r)
    \/ \E t \in jwt, w \in Workspaces : Authorise(r, t, w)
    \/ SwitchWorkspace(r)

ResetStep(r) ==
    \/ CountRecent(r) \/ RevokeLinks(r) \/ CreateLink(r)
    \/ \E l \in Links : CheckLink(r, l)
    \/ CommitReset(r)

MemberStep ==
    \/ \E w \in Tenants, role \in Roles : AddMember(w, role)
    \/ \E r \in Slots, w \in Workspaces, role \in Roles \cup {None},
          active \in BOOLEAN \cup {None} : ReadMember(r, w, role, active)
    \/ \E r \in Slots : UpdateMember(r) \/ NotifyRoleChanged(r)
    \/ \E w \in Workspaces, active \in BOOLEAN : SetActive(w, active)

Next ==
    \/ \E w \in Own : Register(w)
    \/ \E r \in Slots : SignInStep(r) \/ ResetStep(r)
    \/ \E l \in Links : LinkAges(l)
    \/ \E s \in Sessions : SessionAges(s)
    \/ MemberStep

Spec == Init /\ [][Next]_vars

(***************************************************************************)
(* Properties.                                                              *)
(***************************************************************************)

\* Whatever a request read before it, a committed reset ends what was issued
\* before: an accepted token was signed, and a pending session made, after it.
ResetEndsAccess ==
    /\ \A t \in jwt : Accepted(t) => t.at = epoch
    /\ \A s \in Sessions : session[s].status = "PENDING" => session[s].at = epoch

\* A reset leaves no earlier link usable, not even one made while it ran.
LinksDieWithReset ==
    \A l \in Links : link[l].state = "LIVE" => link[l].at = epoch

\* "This link ... can only be used once."
LinkUsedOnce == \A l \in Links : uses[l] <= 1

=============================================================================
