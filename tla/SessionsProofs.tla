--------------------------- MODULE SessionsProofs ---------------------------
(***************************************************************************)
(* What is proved of the sessions at both ends: at the server, what a       *)
(* committed reset ends, for any number of requests, workspaces, links and  *)
(* resets; in the browser, whose data a tab shows, for any number of tabs   *)
(* and tokens; and the type invariants of both.                             *)
(***************************************************************************)
EXTENDS MCSessions, TLAPS

(***************************************************************************)
(* AuthSessions.                                                            *)
(***************************************************************************)

Row == [status : {"NONE", "ACTIVE", "INACTIVE"}, role : Roles, version : Nat]
LinkRow == [state : {"NONE", "LIVE", "USED"}, age : {"recent", "old", "expired"}, at : Nat]
SessionRow == [status : {"NONE", "PENDING", "USED", "EXPIRED"}, fresh : BOOLEAN,
               choice : SUBSET Workspaces, at : Nat]

(***************************************************************************)
(* The inductive invariant.                                                 *)
(***************************************************************************)

EpochInv == epoch \in Nat
MemberInv == member \in [Workspaces -> Row]
LinkInv == link \in [Links -> LinkRow]
SessionInv == session \in [Sessions -> SessionRow]

\* Of what a request holds: the fields that it writes later.
RequestsInv ==
    /\ DOMAIN request = Slots
    /\ \A r \in Slots :
          /\ At(r, "update") => request[r].role \in Roles \cup {None}
          /\ At(r, "newSession") => request[r].choice \in SUBSET Workspaces
          /\ At(r, "selected") \/ At(r, "switch") => request[r].tenant \in Workspaces

\* A token is signed for a membership that there is, at no later version than it has now.
Known(w, version) ==
    /\ w \in Workspaces /\ version \in Nat
    /\ member[w].status # "NONE" /\ version <= member[w].version

\* A token from before the last reset has been overtaken by its membership ...
TokensInv ==
    \A t \in jwt : /\ Known(t.tenant, t.version)
                   /\ t.at = epoch \/ t.version < member[t.tenant].version

\* ... and a request that is about to sign holds no later version than there is.
HeldInv == \A r \in Slots : At(r, "use") => Known(request[r].tenant, request[r].member.version)

PendingInv == \A s \in Sessions : session[s].status = "PENDING" => session[s].at = epoch

IInv ==
    /\ EpochInv /\ MemberInv /\ LinkInv /\ SessionInv
    /\ RequestsInv /\ TokensInv /\ HeldInv /\ PendingInv /\ LinksDieWithReset

LEMMA IInvInit == Init => IInv
<1> SUFFICES ASSUME Init PROVE IInv
    OBVIOUS
<1>1. EpochInv /\ MemberInv
    BY DEF Init, EpochInv, MemberInv, Row, NotMember, Roles
<1>2. LinkInv /\ LinksDieWithReset
    BY DEF Init, LinkInv, LinkRow, NoLink, LinksDieWithReset
<1>3. SessionInv /\ PendingInv
    BY DEF Init, SessionInv, SessionRow, NoSession, PendingInv
<1>4. RequestsInv /\ HeldInv
    BY DEF Init, RequestsInv, HeldInv, At, Idle
<1>5. TokensInv
    BY DEF Init, TokensInv
<1>6. QED
    BY <1>1, <1>2, <1>3, <1>4, <1>5 DEF IInv

(***************************************************************************)
(* Members.                                                                 *)
(***************************************************************************)

\* A member stays one and no version goes back.
Grows == \A w \in Workspaces : member[w].status # "NONE" =>
            member'[w].status # "NONE" /\ member[w].version <= member'[w].version

LEMMA GrowsWhenUnchanged == MemberInv /\ UNCHANGED member => MemberInv' /\ Grows
BY DEF MemberInv, Grows, Row

LEMMA GrowsInOne ==
    ASSUME MemberInv, NEW w, NEW m, member' = [member EXCEPT ![w] = m],
           w \in Workspaces => /\ m \in Row /\ member[w].version <= m.version
                               /\ member[w].status # "NONE" => m.status # "NONE"
    PROVE  MemberInv' /\ Grows
<1>1. MemberInv'
    BY DEF MemberInv
<1>2. ASSUME NEW v \in Workspaces, member[v].status # "NONE"
      PROVE  member'[v].status # "NONE" /\ member[v].version <= member'[v].version
    <2>1. member[v].version \in Nat
        BY DEF MemberInv, Row
    <2>2. member'[v] = IF v = w THEN m ELSE member[v]
        BY DEF MemberInv
    <2>3. CASE v = w
        BY <2>2, <2>3, <1>2
    <2>4. CASE v # w
        BY <2>1, <2>2, <2>4, <1>2
    <2>5. QED
        BY <2>3, <2>4
<1>3. QED
    BY <1>1, <1>2 DEF Grows

LEMMA NewMemberGrows ==
    ASSUME MemberInv, NEW w, NEW role \in Roles, member[w].status = "NONE",
           member' = [member EXCEPT ![w] = [status |-> "ACTIVE", role |-> role, version |-> 0]]
    PROVE  MemberInv' /\ Grows
<1> DEFINE m == [status |-> "ACTIVE", role |-> role, version |-> 0]
<1>1. m \in Row
    BY DEF Row
<1>2. MemberInv'
    BY <1>1 DEF MemberInv
<1>3. ASSUME NEW v \in Workspaces, member[v].status # "NONE"
      PROVE  member'[v].status # "NONE" /\ member[v].version <= member'[v].version
    <2>1. member[v].version \in Nat /\ member'[v] = member[v]
        BY <1>3 DEF MemberInv, Row
    <2>2. QED
        BY <2>1, <1>3
<1>4. QED
    BY <1>2, <1>3 DEF Grows

LEMMA MemberStepGrows ==
    ASSUME MemberInv, RequestsInv, MemberStep
    PROVE  MemberInv' /\ Grows
<1>1. ASSUME NEW w \in Tenants, NEW role \in Roles, AddMember(w, role)
      PROVE  MemberInv' /\ Grows
    BY <1>1, NewMemberGrows DEF AddMember
<1>2. ASSUME NEW r \in Slots, UpdateMember(r)
      PROVE  MemberInv' /\ Grows
    <2> DEFINE req == request[r]
    <2> DEFINE m == Updated(member[req.tenant], req, RoleChanged(req) \/ ActiveChanged(req))
    <2>1. member' = [member EXCEPT ![req.tenant] = m]
        BY <1>2 DEF UpdateMember
    <2>2. req.role \in Roles \cup {None}
        BY <1>2 DEF UpdateMember, RequestsInv
    <2>3. ASSUME req.tenant \in Workspaces
          PROVE  /\ m \in Row /\ member[req.tenant].version <= m.version
                 /\ member[req.tenant].status # "NONE" => m.status # "NONE"
        <3>1. member[req.tenant] \in Row
            BY <2>3 DEF MemberInv
        <3>2. QED
            BY <3>1, <2>2 DEF Updated, Row
    <2>4. QED
        BY <2>1, <2>3, GrowsInOne
<1>3. ASSUME NEW w \in Workspaces, NEW active \in BOOLEAN, SetActive(w, active)
      PROVE  MemberInv' /\ Grows
    BY <1>3 DEF SetActive, Grows, MemberInv, Row
<1>4. CASE \/ \E r \in Slots, w \in Workspaces, role \in Roles \cup {None},
                  active \in BOOLEAN \cup {None} : ReadMember(r, w, role, active)
           \/ \E r \in Slots : NotifyRoleChanged(r)
    BY <1>4, GrowsWhenUnchanged DEF ReadMember, NotifyRoleChanged
<1>5. QED
    BY <1>1, <1>2, <1>3, <1>4 DEF MemberStep

LEMMA BumpGrows ==
    ASSUME MemberInv, member' = BumpAll
    PROVE  /\ MemberInv' /\ Grows
           /\ \A w \in Workspaces : member[w].status # "NONE" =>
                 member'[w].version = member[w].version + 1
<1>1. ASSUME NEW w \in Workspaces
      PROVE  /\ member[w] \in Row /\ member'[w] \in Row
             /\ member[w].status # "NONE" =>
                   /\ member'[w].status # "NONE"
                   /\ member'[w].version = member[w].version + 1
    <2>1. member[w] \in Row
        BY DEF MemberInv
    <2>2. member'[w] = IF member[w].status = "NONE" THEN member[w]
                       ELSE [member[w] EXCEPT !.version = @ + 1]
        BY DEF BumpAll
    <2>3. QED
        BY <2>1, <2>2 DEF Row
<1>2. MemberInv'
    <2>1. member' = [w \in Workspaces |-> member'[w]]
        BY DEF BumpAll
    <2>2. QED
        BY <2>1, <1>1 DEF MemberInv
<1>3. Grows
    BY <1>1 DEF Grows, Row
<1>4. QED
    BY <1>1, <1>2, <1>3

\* Every step leaves the members that there are, and takes no version back.
LEMMA NextGrows ==
    ASSUME IInv, [Next]_vars
    PROVE  MemberInv' /\ Grows
<1> USE DEF IInv
<1>1. ASSUME NEW w \in Own, Register(w)
      PROVE  MemberInv' /\ Grows
    <2>1. /\ member[w].status = "NONE"
          /\ member' = [member EXCEPT ![w] = [status |-> "ACTIVE", role |-> "ADMIN", version |-> 0]]
        BY <1>1 DEF Register, NotMember
    <2>2. "ADMIN" \in Roles
        BY DEF Roles
    <2>3. QED
        BY <2>1, <2>2, NewMemberGrows
<1>2. ASSUME NEW r \in Slots, SignInStep(r)
      PROVE  MemberInv' /\ Grows
    <2>1. CASE CreateOAuthWorkspace(r)
        <3>1. PICK w \in Own :
                 /\ member[w] = NotMember
                 /\ member' = [member EXCEPT ![w] =
                       [status |-> "ACTIVE", role |-> "ADMIN", version |-> 0]]
            BY <2>1, Zenon DEF CreateOAuthWorkspace
        <3>2. "ADMIN" \in Roles
            BY DEF Roles
        <3>3. member[w].status = "NONE"
            BY <3>1 DEF NotMember
        <3>4. QED
            BY <3>1, <3>2, <3>3, NewMemberGrows
    <2>2. CASE ~CreateOAuthWorkspace(r)
        BY <1>2, <2>2, GrowsWhenUnchanged
        DEF SignInStep, Login, OAuthLogin, CreateUser, FindIdentity, CreateIdentity, Memberships,
            CreateLoginSession, FindSession, ReadSelected, UseSession, Authorise, SwitchWorkspace
    <2>3. QED
        BY <2>1, <2>2
<1>3. ASSUME NEW r \in Slots, ResetStep(r)
      PROVE  MemberInv' /\ Grows
    BY <1>3, GrowsWhenUnchanged, BumpGrows
    DEF ResetStep, CountRecent, RevokeLinks, CreateLink, CheckLink, CommitReset
<1>4. CASE \/ UNCHANGED vars
           \/ \E l \in Links : LinkAges(l)
           \/ \E s \in Sessions : SessionAges(s)
    BY <1>4, GrowsWhenUnchanged DEF vars, LinkAges, SessionAges
<1>5. CASE MemberStep
    BY <1>5, MemberStepGrows
<1>6. QED
    BY <1>1, <1>2, <1>3, <1>4, <1>5 DEF Next

\* Known(w, version) of the membership that a step leaves.
KnownThen(w, version) ==
    /\ w \in Workspaces /\ version \in Nat
    /\ member'[w].status # "NONE" /\ version <= member'[w].version

\* What is known of a membership stays known.
LEMMA KnownStays ==
    ASSUME IInv, [Next]_vars, NEW w, NEW version, Known(w, version)
    PROVE  KnownThen(w, version)
<1>1. MemberInv' /\ Grows
    BY NextGrows
<1>2. w \in Workspaces /\ member[w] \in Row /\ member'[w] \in Row
    BY <1>1 DEF Known, IInv, MemberInv
<1>3. member'[w].status # "NONE" /\ member[w].version <= member'[w].version
    BY <1>1, <1>2 DEF Grows, Known
<1>4. QED
    BY <1>2, <1>3 DEF Known, KnownThen, Row

(***************************************************************************)
(* Requests.                                                                *)
(***************************************************************************)

LEMMA BecomeOne ==
    ASSUME RequestsInv, NEW r \in Slots, NEW req, Become(r, req)
    PROVE  /\ DOMAIN request' = Slots
           /\ request'[r] = req
           /\ \A q \in Slots : q # r => request'[q] = request[q]
BY DEF RequestsInv, Become

\* A request that takes up req keeps what is known of requests.
LEMMA BecomeKeeps ==
    ASSUME IInv, [Next]_vars, NEW r \in Slots, NEW req, Become(r, req),
           req.op = "update" => req.role \in Roles \cup {None},
           req.op = "newSession" => req.choice \in SUBSET Workspaces,
           req.op \in {"selected", "switch"} => req.tenant \in Workspaces,
           req.op = "use" => KnownThen(req.tenant, req.member.version)
    PROVE  RequestsInv' /\ HeldInv'
<1>1. /\ DOMAIN request' = Slots
      /\ request'[r] = req
      /\ \A q \in Slots : q # r => request'[q] = request[q]
    BY BecomeOne DEF IInv
<1>2. RequestsInv'
    BY <1>1 DEF IInv, RequestsInv, At
<1>3. ASSUME NEW q \in Slots, request'[q].op = "use"
      PROVE  KnownThen(request'[q].tenant, request'[q].member.version)
    <2>1. CASE q = r
        BY <2>1, <1>1, <1>3
    <2>2. CASE q # r
        <3>1. Known(request[q].tenant, request[q].member.version)
            BY <2>2, <1>1, <1>3 DEF At, HeldInv, IInv
        <3>2. KnownThen(request[q].tenant, request[q].member.version)
            BY <3>1, KnownStays
        <3>3. QED
            BY <3>2, <2>2, <1>1
    <2>3. QED
        BY <2>1, <2>2
<1>4. QED
    BY <1>2, <1>3 DEF HeldInv, At, Known, KnownThen

LEMMA RequestsUnchanged ==
    ASSUME IInv, [Next]_vars, UNCHANGED request
    PROVE  RequestsInv' /\ HeldInv'
<1>1. RequestsInv'
    BY DEF IInv, RequestsInv, At
<1>2. ASSUME NEW q \in Slots, request[q].op = "use"
      PROVE  KnownThen(request[q].tenant, request[q].member.version)
    BY <1>2, KnownStays DEF IInv, HeldInv, At
<1>3. QED
    BY <1>1, <1>2 DEF HeldInv, At, Known, KnownThen

\* A request that turns to anything that is not told of in RequestsInv and HeldInv.
LEMMA BecomePlain ==
    ASSUME IInv, [Next]_vars, NEW r \in Slots, NEW req, Become(r, req),
           req.op \notin {"update", "newSession", "selected", "switch", "use"}
    PROVE  RequestsInv' /\ HeldInv'
BY BecomeKeeps

LEMMA SignInRequests ==
    ASSUME IInv, [Next]_vars, NEW r \in Slots, SignInStep(r)
    PROVE  RequestsInv' /\ HeldInv'
<1>1. CASE Login(r) \/ OAuthLogin(r)
    BY <1>1, BecomePlain DEF Login, OAuthLogin
<1>2. CASE CreateUser(r) \/ FindIdentity(r) \/ CreateIdentity(r)
    BY <1>2, BecomePlain DEF CreateUser, FindIdentity, CreateIdentity, Done, Idle
<1>3. CASE Memberships(r)
    <2>1. CASE Become(r, [op |-> "newSession", choice |-> ActiveSet])
        <3>1. ActiveSet \in SUBSET Workspaces
            BY DEF ActiveSet
        <3>2. QED
            BY <2>1, <3>1, BecomeKeeps
    <2>2. CASE Become(r, [op |-> "newWorkspace"]) \/ Become(r, Idle)
        BY <2>2, BecomePlain DEF Idle
    <2>3. QED
        BY <1>3, <2>1, <2>2 DEF Memberships, Done
<1>4. CASE CreateOAuthWorkspace(r) \/ CreateLoginSession(r) \/ UseSession(r) \/ SwitchWorkspace(r)
    BY <1>4, BecomePlain
    DEF CreateOAuthWorkspace, CreateLoginSession, UseSession, SwitchWorkspace, Done, Idle
<1>5. CASE \/ \E s \in Sessions, w \in Workspaces : FindSession(r, s, w)
           \/ \E t \in jwt, w \in Workspaces : Authorise(r, t, w)
    BY <1>5, BecomeKeeps DEF FindSession, Authorise
<1>6. CASE ReadSelected(r)
    <2> DEFINE w == request[r].tenant
    <2> DEFINE req == [op |-> "use", session |-> request[r].session,
                       tenant |-> w, member |-> member[w]]
    <2>1. CASE Become(r, req) /\ Active(w)
        <3>1. w \in Workspaces
            BY <1>6 DEF ReadSelected, IInv, RequestsInv
        <3>2. Known(w, member[w].version)
            BY <2>1, <3>1 DEF Active, Known, IInv, MemberInv, Row
        <3>3. KnownThen(w, member[w].version)
            BY <3>2, KnownStays
        <3>4. QED
            BY <2>1, <3>3, BecomeKeeps
    <2>2. CASE Become(r, Idle)
        BY <2>2, BecomePlain DEF Idle
    <2>3. QED
        BY <1>6, <2>1, <2>2 DEF ReadSelected
<1>7. QED
    BY <1>1, <1>2, <1>3, <1>4, <1>5, <1>6 DEF SignInStep

LEMMA NextRequests ==
    ASSUME IInv, [Next]_vars
    PROVE  RequestsInv' /\ HeldInv'
<1>1. ASSUME NEW r \in Slots, SignInStep(r)
      PROVE  RequestsInv' /\ HeldInv'
    BY <1>1, SignInRequests
<1>2. ASSUME NEW r \in Slots, ResetStep(r)
      PROVE  RequestsInv' /\ HeldInv'
    BY <1>2, BecomePlain
    DEF ResetStep, CountRecent, RevokeLinks, CreateLink, CheckLink, CommitReset, Done, Idle
<1>3. ASSUME NEW r \in Slots, NEW w \in Workspaces, NEW role \in Roles \cup {None},
             NEW active \in BOOLEAN \cup {None}, ReadMember(r, w, role, active)
      PROVE  RequestsInv' /\ HeldInv'
    BY <1>3, BecomeKeeps DEF ReadMember
<1>4. ASSUME NEW r \in Slots, UpdateMember(r)
      PROVE  RequestsInv' /\ HeldInv'
    <2>1. CASE Become(r, Idle)
        BY <2>1, BecomePlain DEF Idle
    <2>2. CASE Become(r, [op |-> "notify", tenant |-> request[r].tenant,
                          role |-> request[r].role, old |-> request[r].old])
        BY <2>2, BecomePlain
    <2>3. QED
        BY <1>4, <2>1, <2>2 DEF UpdateMember
<1>5. ASSUME NEW r \in Slots, NotifyRoleChanged(r)
      PROVE  RequestsInv' /\ HeldInv'
    BY <1>5, BecomePlain DEF NotifyRoleChanged, Done, Idle
<1>6. CASE \/ UNCHANGED vars
           \/ \E w \in Own : Register(w)
           \/ \E l \in Links : LinkAges(l)
           \/ \E s \in Sessions : SessionAges(s)
           \/ \E w \in Tenants, role \in Roles : AddMember(w, role)
           \/ \E w \in Workspaces, active \in BOOLEAN : SetActive(w, active)
    <2>1. UNCHANGED request
        BY <1>6 DEF vars, Register, LinkAges, SessionAges, AddMember, SetActive
    <2>2. QED
        BY <2>1, RequestsUnchanged
<1>7. QED
    BY <1>1, <1>2, <1>3, <1>4, <1>5, <1>6 DEF Next, MemberStep

(***************************************************************************)
(* Tokens.                                                                  *)
(***************************************************************************)

LEMMA TokenStays ==
    ASSUME IInv, [Next]_vars, UNCHANGED epoch, NEW t \in jwt
    PROVE  /\ KnownThen(t.tenant, t.version)
           /\ t.at = epoch' \/ t.version < member'[t.tenant].version
<1>1. Known(t.tenant, t.version)
    BY DEF IInv, TokensInv
<1>2. KnownThen(t.tenant, t.version)
    BY <1>1, KnownStays
<1>3. MemberInv' /\ Grows
    BY NextGrows
<1>4. /\ t.version \in Nat /\ member[t.tenant].version \in Nat
      /\ member'[t.tenant].version \in Nat
      /\ member[t.tenant].version <= member'[t.tenant].version
    BY <1>1, <1>3 DEF Known, IInv, MemberInv, Row, Grows
<1>5. t.at = epoch \/ t.version < member[t.tenant].version
    BY DEF IInv, TokensInv
<1>6. QED
    BY <1>2, <1>4, <1>5

LEMMA TokensKept ==
    ASSUME IInv, [Next]_vars, UNCHANGED <<jwt, epoch>>
    PROVE  TokensInv'
BY TokenStays DEF TokensInv, Known, KnownThen

\* Signing for what there is, at the version it has or an earlier one.
LEMMA TokensSigned ==
    ASSUME IInv, [Next]_vars, UNCHANGED epoch, NEW w, NEW m, Sign(w, m),
           KnownThen(w, m.version)
    PROVE  TokensInv'
<1>1. ASSUME NEW t \in jwt'
      PROVE  /\ KnownThen(t.tenant, t.version)
             /\ t.at = epoch' \/ t.version < member'[t.tenant].version
    <2>1. CASE t \in jwt
        BY <2>1, TokenStays
    <2>2. CASE t = [tenant |-> w, role |-> m.role, version |-> m.version, at |-> epoch]
        BY <2>2
    <2>3. QED
        BY <1>1, <2>1, <2>2 DEF Sign
<1>2. QED
    BY <1>1 DEF TokensInv, Known, KnownThen

\* An active membership that the step leaves, or that it finds.
LEMMA ActiveKnown ==
    ASSUME IInv, [Next]_vars, NEW w \in Workspaces
    PROVE  /\ Active(w) => KnownThen(w, member[w].version)
           /\ member'[w].status = "ACTIVE" => KnownThen(w, member'[w].version)
<1>1. member[w] \in Row /\ member'[w] \in Row
    BY NextGrows DEF IInv, MemberInv
<1>2. Active(w) => Known(w, member[w].version)
    BY <1>1 DEF Active, Known, Row
<1>3. Active(w) => KnownThen(w, member[w].version)
    BY <1>2, KnownStays
<1>4. member'[w].status = "ACTIVE" => KnownThen(w, member'[w].version)
    BY <1>1 DEF KnownThen, Row
<1>5. QED
    BY <1>3, <1>4

LEMMA SignInTokens ==
    ASSUME IInv, [Next]_vars, NEW r \in Slots, SignInStep(r)
    PROVE  TokensInv'
<1>1. CASE CreateOAuthWorkspace(r)
    <2>1. PICK w \in Own :
             /\ member' = [member EXCEPT ![w] =
                   [status |-> "ACTIVE", role |-> "ADMIN", version |-> 0]]
             /\ Sign(w, member'[w])
        BY <1>1, Zenon DEF CreateOAuthWorkspace
    <2>2. w \in Workspaces /\ member'[w].status = "ACTIVE"
        BY <2>1 DEF IInv, MemberInv, Workspaces
    <2>3. KnownThen(w, member'[w].version)
        BY <2>2, ActiveKnown
    <2>4. UNCHANGED epoch
        BY <1>1, Zenon DEF CreateOAuthWorkspace
    <2>5. QED
        BY <2>1, <2>3, <2>4, TokensSigned
<1>2. CASE Memberships(r)
    <2>1. CASE UNCHANGED jwt
        BY <1>2, <2>1, TokensKept DEF Memberships
    <2>2. ASSUME NEW w \in ActiveSet, Sign(w, member[w])
          PROVE  TokensInv'
        <3>1. w \in Workspaces /\ Active(w)
            BY DEF ActiveSet
        <3>2. KnownThen(w, member[w].version)
            BY <3>1, ActiveKnown
        <3>3. QED
            BY <1>2, <2>2, <3>2, TokensSigned DEF Memberships
    <2>3. QED
        BY <1>2, <2>1, <2>2 DEF Memberships
<1>3. CASE UseSession(r)
    <2>1. Known(request[r].tenant, request[r].member.version)
        BY <1>3 DEF UseSession, IInv, HeldInv
    <2>2. KnownThen(request[r].tenant, request[r].member.version)
        BY <2>1, KnownStays
    <2>3. Sign(request[r].tenant, request[r].member) /\ UNCHANGED epoch
        BY <1>3, Zenon DEF UseSession
    <2>4. QED
        BY <2>2, <2>3, TokensSigned
<1>4. CASE SwitchWorkspace(r)
    <2> DEFINE w == request[r].tenant
    <2>1. w \in Workspaces
        BY <1>4 DEF SwitchWorkspace, IInv, RequestsInv
    <2>2. CASE Active(w)
        <3>1. KnownThen(w, member[w].version)
            BY <2>1, <2>2, ActiveKnown
        <3>2. Sign(w, member[w]) /\ UNCHANGED epoch
            BY <1>4, <2>2, Zenon DEF SwitchWorkspace
        <3>3. QED
            BY <3>1, <3>2, TokensSigned
    <2>3. CASE ~Active(w)
        BY <1>4, <2>3, TokensKept DEF SwitchWorkspace
    <2>4. QED
        BY <2>2, <2>3
<1>5. CASE \/ Login(r) \/ OAuthLogin(r) \/ CreateUser(r) \/ FindIdentity(r)
           \/ CreateIdentity(r) \/ CreateLoginSession(r) \/ ReadSelected(r)
           \/ \E s \in Sessions, w \in Workspaces : FindSession(r, s, w)
           \/ \E t \in jwt, w \in Workspaces : Authorise(r, t, w)
    BY <1>5, TokensKept
    DEF Login, OAuthLogin, CreateUser, FindIdentity, CreateIdentity, CreateLoginSession,
        ReadSelected, FindSession, Authorise
<1>6. QED
    BY <1>1, <1>2, <1>3, <1>4, <1>5 DEF SignInStep

\* The reset overtakes every token that was signed before it.
LEMMA ResetTokens ==
    ASSUME IInv, [Next]_vars, NEW r \in Slots, CommitReset(r)
    PROVE  TokensInv'
<1>1. member' = BumpAll /\ jwt' = jwt
    BY DEF CommitReset
<1>2. ASSUME NEW t \in jwt
      PROVE  KnownThen(t.tenant, t.version) /\ t.version < member'[t.tenant].version
    <2>1. Known(t.tenant, t.version)
        BY DEF IInv, TokensInv
    <2>2. KnownThen(t.tenant, t.version)
        BY <2>1, KnownStays
    <2>3. member'[t.tenant].version = member[t.tenant].version + 1
        BY <1>1, <2>1, BumpGrows DEF IInv, Known
    <2>4. member[t.tenant].version \in Nat
        BY <2>1 DEF Known, IInv, MemberInv, Row
    <2>5. QED
        BY <2>1, <2>2, <2>3, <2>4 DEF Known
<1>3. QED
    BY <1>1, <1>2 DEF TokensInv, Known, KnownThen

LEMMA NextTokens ==
    ASSUME IInv, [Next]_vars
    PROVE  TokensInv'
<1>1. ASSUME NEW w \in Own, Register(w)
      PROVE  TokensInv'
    <2>1. w \in Workspaces /\ member'[w].status = "ACTIVE"
        BY <1>1 DEF Register, IInv, MemberInv, Workspaces
    <2>2. KnownThen(w, member'[w].version)
        BY <2>1, ActiveKnown
    <2>3. Sign(w, member'[w]) /\ UNCHANGED epoch
        BY <1>1, Zenon DEF Register
    <2>4. QED
        BY <2>2, <2>3, TokensSigned
<1>2. ASSUME NEW r \in Slots, SignInStep(r)
      PROVE  TokensInv'
    BY <1>2, SignInTokens
<1>3. ASSUME NEW r \in Slots, ResetStep(r)
      PROVE  TokensInv'
    BY <1>3, ResetTokens, TokensKept
    DEF ResetStep, CountRecent, RevokeLinks, CreateLink, CheckLink
<1>4. CASE MemberStep
    BY <1>4, TokensKept
    DEF MemberStep, AddMember, ReadMember, UpdateMember, NotifyRoleChanged, SetActive
<1>5. CASE \/ UNCHANGED vars
           \/ \E l \in Links : LinkAges(l)
           \/ \E s \in Sessions : SessionAges(s)
    BY <1>5, TokensKept DEF vars, LinkAges, SessionAges
<1>6. QED
    BY <1>1, <1>2, <1>3, <1>4, <1>5 DEF Next

(***************************************************************************)
(* Links.                                                                   *)
(***************************************************************************)

LinksInv == EpochInv /\ LinkInv /\ LinksDieWithReset

LEMMA LinksKept ==
    ASSUME LinksInv, UNCHANGED <<epoch, link>>
    PROVE  LinksInv'
BY DEF LinksInv, EpochInv, LinkInv, LinksDieWithReset

\* UseAll leaves no link that can be used.
LEMMA UseAllUses ==
    ASSUME LinkInv
    PROVE  UseAll \in [Links -> LinkRow] /\ \A l \in Links : UseAll[l].state # "LIVE"
<1>1. ASSUME NEW l \in Links
      PROVE  UseAll[l] \in LinkRow /\ UseAll[l].state # "LIVE"
    <2>1. link[l] \in LinkRow
        BY DEF LinkInv
    <2>2. UseAll[l] = IF link[l].state = "LIVE" THEN [link[l] EXCEPT !.state = "USED"]
                      ELSE link[l]
        BY DEF UseAll
    <2>3. QED
        BY <2>1, <2>2 DEF LinkRow
<1>2. UseAll = [l \in Links |-> UseAll[l]]
    BY DEF UseAll
<1>3. QED
    BY <1>1, <1>2

\* A link of which a row is changed.
LEMMA LinkChanges ==
    ASSUME LinksInv, UNCHANGED epoch, NEW l \in Links, NEW row \in LinkRow,
           link' = [link EXCEPT ![l] = row],
           row.state = "LIVE" => row.at = epoch
    PROVE  LinksInv'
<1>1. LinkInv'
    BY DEF LinksInv, LinkInv
<1>2. ASSUME NEW k \in Links, link'[k].state = "LIVE"
      PROVE  link'[k].at = epoch
    <2>1. link'[k] = IF k = l THEN row ELSE link[k]
        BY DEF LinksInv, LinkInv
    <2>2. QED
        BY <2>1, <1>2 DEF LinksInv, LinksDieWithReset
<1>3. QED
    BY <1>1, <1>2 DEF LinksInv, EpochInv, LinksDieWithReset

LEMMA ResetLinks ==
    ASSUME LinksInv, NEW r \in Slots, ResetStep(r)
    PROVE  LinksInv'
<1>1. CASE CountRecent(r) \/ \E l \in Links : CheckLink(r, l)
    BY <1>1, LinksKept DEF CountRecent, CheckLink
<1>2. CASE RevokeLinks(r)
    <2>1. link' = UseAll /\ UNCHANGED epoch
        BY <1>2 DEF RevokeLinks
    <2>2. QED
        BY <2>1, UseAllUses DEF LinksInv, LinkInv, EpochInv, LinksDieWithReset
<1>3. CASE CreateLink(r)
    <2> DEFINE row == [state |-> "LIVE", age |-> "recent", at |-> epoch]
    <2>1. PICK l \in Next1(link, "state") : link' = [link EXCEPT ![l] = row]
        BY <1>3 DEF CreateLink
    <2>2. l \in Links
        BY DEF Next1, LinksInv, LinkInv
    <2>3. row \in LinkRow
        BY DEF LinksInv, EpochInv, LinkRow
    <2>4. UNCHANGED epoch
        BY <1>3 DEF CreateLink
    <2>5. QED
        BY <2>1, <2>2, <2>3, <2>4, LinkChanges
<1>4. CASE CommitReset(r)
    <2> DEFINE k == request[r].link
    <2>1. link' = [UseAll EXCEPT ![k].state = "USED"] /\ epoch' = epoch + 1
        BY <1>4 DEF CommitReset
    <2>2. UseAll \in [Links -> LinkRow] /\ \A l \in Links : UseAll[l].state # "LIVE"
        BY UseAllUses DEF LinksInv
    <2>3. ASSUME NEW l \in Links
          PROVE  link'[l] \in LinkRow /\ link'[l].state # "LIVE"
        <3>1. link'[l] = IF l = k THEN [UseAll[l] EXCEPT !.state = "USED"] ELSE UseAll[l]
            BY <2>1, <2>2
        <3>2. UseAll[l] \in LinkRow /\ UseAll[l].state # "LIVE"
            BY <2>2
        <3>3. QED
            BY <3>1, <3>2 DEF LinkRow
    <2>4. link' = [l \in Links |-> link'[l]]
        BY <2>1, <2>2
    <2>5. LinkInv'
        BY <2>3, <2>4, Zenon DEF LinkInv
    <2>6. EpochInv'
        BY <2>1 DEF LinksInv, EpochInv
    <2>7. QED
        BY <2>3, <2>5, <2>6 DEF LinksInv, LinksDieWithReset
<1>5. QED
    BY <1>1, <1>2, <1>3, <1>4 DEF ResetStep

LEMMA NextLinks ==
    ASSUME LinksInv, [Next]_vars
    PROVE  LinksInv'
<1>1. ASSUME NEW r \in Slots, SignInStep(r)
      PROVE  LinksInv'
    BY <1>1, LinksKept
    DEF SignInStep, Login, OAuthLogin, CreateUser, FindIdentity, CreateIdentity, Memberships,
        CreateOAuthWorkspace, CreateLoginSession, FindSession, ReadSelected, UseSession,
        Authorise, SwitchWorkspace
<1>2. ASSUME NEW r \in Slots, ResetStep(r)
      PROVE  LinksInv'
    BY <1>2, ResetLinks
<1>3. ASSUME NEW l \in Links, LinkAges(l)
      PROVE  LinksInv'
    <2> DEFINE row == [link[l] EXCEPT !.age = IF @ = "recent" THEN "old" ELSE "expired"]
    <2>1. link' = [link EXCEPT ![l] = row] /\ UNCHANGED epoch
        BY <1>3 DEF LinkAges
    <2>2. link[l] \in LinkRow
        BY DEF LinksInv, LinkInv
    <2>3. row \in LinkRow /\ row.state = link[l].state /\ row.at = link[l].at
        BY <2>2 DEF LinkRow
    <2>4. row.state = "LIVE" => row.at = epoch
        BY <2>3 DEF LinksInv, LinksDieWithReset
    <2>5. QED
        BY <2>1, <2>3, <2>4, LinkChanges
<1>4. CASE \/ UNCHANGED vars
           \/ \E w \in Own : Register(w)
           \/ \E s \in Sessions : SessionAges(s)
           \/ MemberStep
    BY <1>4, LinksKept
    DEF vars, Register, SessionAges, MemberStep, AddMember, ReadMember, UpdateMember,
        NotifyRoleChanged, SetActive
<1>5. QED
    BY <1>1, <1>2, <1>3, <1>4 DEF Next

(***************************************************************************)
(* Login sessions.                                                          *)
(***************************************************************************)

SessionsInv == SessionInv /\ PendingInv

LEMMA SessionsKept ==
    ASSUME SessionsInv, UNCHANGED <<epoch, session>>
    PROVE  SessionsInv'
BY DEF SessionsInv, SessionInv, PendingInv

LEMMA SessionChanges ==
    ASSUME SessionsInv, UNCHANGED epoch, NEW s, NEW row,
           session' = [session EXCEPT ![s] = row],
           s \in Sessions => row \in SessionRow /\ (row.status = "PENDING" => row.at = epoch)
    PROVE  SessionsInv'
<1>1. SessionInv'
    BY DEF SessionsInv, SessionInv
<1>2. ASSUME NEW q \in Sessions, session'[q].status = "PENDING"
      PROVE  session'[q].at = epoch
    <2>1. session'[q] = IF q = s THEN row ELSE session[q]
        BY DEF SessionsInv, SessionInv
    <2>2. QED
        BY <2>1, <1>2 DEF SessionsInv, PendingInv
<1>3. QED
    BY <1>1, <1>2 DEF SessionsInv, PendingInv

LEMMA ResetSessions ==
    ASSUME SessionsInv, session' = ExpireAll
    PROVE  SessionsInv'
<1>1. ASSUME NEW s \in Sessions
      PROVE  session'[s] \in SessionRow /\ session'[s].status # "PENDING"
    <2>1. session[s] \in SessionRow
        BY DEF SessionsInv, SessionInv
    <2>2. session'[s] = IF session[s].status = "PENDING"
                        THEN [session[s] EXCEPT !.status = "EXPIRED"] ELSE session[s]
        BY DEF ExpireAll
    <2>3. QED
        BY <2>1, <2>2 DEF SessionRow
<1>2. session' = [s \in Sessions |-> session'[s]]
    BY DEF ExpireAll
<1>3. SessionInv'
    BY <1>1, <1>2, Zenon DEF SessionInv
<1>4. QED
    BY <1>1, <1>3 DEF SessionsInv, PendingInv

LEMMA SignInSessions ==
    ASSUME SessionsInv, EpochInv, RequestsInv, NEW r \in Slots, SignInStep(r)
    PROVE  SessionsInv'
<1>1. CASE CreateLoginSession(r)
    <2> DEFINE row == [status |-> "PENDING", fresh |-> TRUE,
                       choice |-> request[r].choice, at |-> epoch]
    <2>1. PICK s \in Next1(session, "status") : session' = [session EXCEPT ![s] = row]
        BY <1>1, Zenon DEF CreateLoginSession
    <2>2. row \in SessionRow
        BY <1>1 DEF CreateLoginSession, RequestsInv, EpochInv, SessionRow
    <2>3. UNCHANGED epoch
        BY <1>1, Zenon DEF CreateLoginSession
    <2>4. QED
        BY <2>1, <2>2, <2>3, SessionChanges
<1>2. CASE UseSession(r)
    <2> DEFINE s == request[r].session
    <2> DEFINE row == [session[s] EXCEPT !.status = "USED"]
    <2>1. session' = [session EXCEPT ![s] = row]
        BY <1>2 DEF UseSession
    <2>2. s \in Sessions => row \in SessionRow /\ row.status = "USED"
        BY DEF SessionsInv, SessionInv, SessionRow
    <2>3. UNCHANGED epoch
        BY <1>2, Zenon DEF UseSession
    <2>4. QED
        BY <2>1, <2>2, <2>3, SessionChanges
<1>3. CASE ~CreateLoginSession(r) /\ ~UseSession(r)
    BY <1>3, SessionsKept
    DEF SignInStep, Login, OAuthLogin, CreateUser, FindIdentity, CreateIdentity, Memberships,
        CreateOAuthWorkspace, FindSession, ReadSelected, Authorise, SwitchWorkspace
<1>4. QED
    BY <1>1, <1>2, <1>3

LEMMA NextSessions ==
    ASSUME IInv, [Next]_vars
    PROVE  SessionsInv'
<1>1. SessionsInv
    BY DEF IInv, SessionsInv
<1>2. ASSUME NEW r \in Slots, SignInStep(r)
      PROVE  SessionsInv'
    BY <1>1, <1>2, SignInSessions DEF IInv
<1>3. ASSUME NEW r \in Slots, ResetStep(r)
      PROVE  SessionsInv'
    BY <1>1, <1>3, SessionsKept, ResetSessions
    DEF ResetStep, CountRecent, RevokeLinks, CreateLink, CheckLink, CommitReset
<1>4. ASSUME NEW s \in Sessions, SessionAges(s)
      PROVE  SessionsInv'
    <2> DEFINE row == [session[s] EXCEPT !.fresh = FALSE]
    <2>1. session' = [session EXCEPT ![s] = row] /\ UNCHANGED epoch
        BY <1>4 DEF SessionAges
    <2>2. row \in SessionRow /\ row.status = session[s].status /\ row.at = session[s].at
        BY <1>1 DEF SessionsInv, SessionInv, SessionRow
    <2>3. row.status = "PENDING" => row.at = epoch
        BY <2>2, <1>1 DEF SessionsInv, PendingInv
    <2>4. QED
        BY <1>1, <2>1, <2>2, <2>3, SessionChanges
<1>5. CASE \/ UNCHANGED vars
           \/ \E w \in Own : Register(w)
           \/ \E l \in Links : LinkAges(l)
           \/ MemberStep
    BY <1>1, <1>5, SessionsKept
    DEF vars, Register, LinkAges, MemberStep, AddMember, ReadMember, UpdateMember,
        NotifyRoleChanged, SetActive
<1>6. QED
    BY <1>2, <1>3, <1>4, <1>5 DEF Next

(***************************************************************************)
(* The theorems.                                                            *)
(***************************************************************************)

LEMMA IInvNext == IInv /\ [Next]_vars => IInv'
<1> SUFFICES ASSUME IInv, [Next]_vars
             PROVE  IInv'
    OBVIOUS
<1>1. LinksInv'
    BY NextLinks DEF IInv, LinksInv
<1>2. MemberInv' /\ RequestsInv' /\ HeldInv' /\ TokensInv' /\ SessionsInv'
    BY NextGrows, NextRequests, NextTokens, NextSessions
<1>3. QED
    BY <1>1, <1>2 DEF IInv, LinksInv, SessionsInv

LEMMA IInvAlways == Spec => []IInv
BY IInvInit, IInvNext, PTL DEF Spec

\* resetPassword increments every membership's tokenVersion and expires the
\* pending sessions in its transaction: whatever requests have read before it,
\* no token of before it is accepted after, and no session of before it is pending.
THEOREM ResetEnds == Spec => []ResetEndsAccess
<1>1. IInv => ResetEndsAccess
    <2> SUFFICES ASSUME IInv PROVE ResetEndsAccess
        OBVIOUS
    <2>1. ASSUME NEW t \in jwt, Accepted(t)
          PROVE  t.at = epoch
        <3>1. member[t.tenant].version = t.version /\ t.version \in Nat
            BY <2>1 DEF Accepted, IInv, TokensInv, Known
        <3>2. QED
            BY <3>1 DEF IInv, TokensInv
    <2>2. QED
        BY <2>1 DEF ResetEndsAccess, IInv, PendingInv
<1>2. QED
    BY <1>1, IInvAlways, PTL

\* The same transaction uses every link of the user, one made while the password
\* was hashed among them: a link that can be used was made after the last reset.
THEOREM LinksDie == Spec => []LinksDieWithReset
<1>1. IInv => LinksDieWithReset
    BY DEF IInv
<1>2. QED
    BY <1>1, IInvAlways, PTL

(***************************************************************************)
(* BrowserSession.                                                          *)
(***************************************************************************)

TabRow == [loading : BOOLEAN, token : Tokens \cup {None},
           user : InBrowser!Workspaces \cup {None}, data : InBrowser!Workspaces \cup {None}]

BrowserTyped ==
    /\ tab \in [Tabs -> TabRow] /\ stored \in Tokens \cup {None}
    /\ \A c \in calls : c.tab \in Tabs /\ c.token \in Tokens

\* A tab runs on the stored token: its data is of that token's workspace, and the queries that
\* will bring more of it were sent with it.
OwnSession(t) ==
    /\ tab[t].token # None => stored = tab[t].token
    /\ tab[t].data # None => tab[t].token # None /\ tab[t].data = WorkspaceOf[tab[t].token]
    /\ \A c \in calls : c.tab = t /\ c.kind = "query" => c.token = tab[t].token

BrowserInv == BrowserTyped /\ \A t \in Tabs \ strayed : OwnSession(t)

LEMMA BrowserInit == InBrowser!Init => BrowserInv
BY DEF InBrowser!Init, InBrowser!Fresh, BrowserInv, BrowserTyped, OwnSession, TabRow

LEMMA TokensAreSome == /\ None \notin Tokens
                       /\ \A k \in Tokens : WorkspaceOf[k] \in InBrowser!Workspaces
BY BrowserAssumption DEF InBrowser!SessionAssumption, InBrowser!Workspaces

\* A step of tab t: the others keep their session, or it strays them.
LEMMA OneTabKeeps ==
    ASSUME BrowserInv, NEW t \in Tabs, NEW r \in TabRow, tab' = [tab EXCEPT ![t] = r],
           stored' \in Tokens \cup {None},
           \A c \in calls' : c \in calls \/ (c.tab = t /\ c.token \in Tokens),
           \A s \in Tabs \ {t} : s \notin strayed' =>
               s \notin strayed /\ (stored' = stored \/ tab[s].token = None),
           t \notin strayed' => OwnSession(t)'
    PROVE  BrowserInv'
<1>1. tab' \in [Tabs -> TabRow] /\ \A s \in Tabs \ {t} : tab'[s] = tab[s]
    BY DEF BrowserInv, BrowserTyped
<1>2. BrowserTyped'
    BY <1>1 DEF BrowserInv, BrowserTyped
<1>3. ASSUME NEW s \in Tabs \ strayed', s # t
      PROVE  OwnSession(s)'
    <2>1. OwnSession(s) /\ tab'[s] = tab[s] /\ (stored' = stored \/ tab[s].token = None)
        BY <1>1, <1>3 DEF BrowserInv
    <2>2. QED
        BY <1>3, <2>1 DEF OwnSession
<1>4. QED
    BY <1>2, <1>3 DEF BrowserInv

\* Only requests come and go.
LEMMA CallsOnlyKeep ==
    ASSUME BrowserInv, UNCHANGED <<tab, stored, strayed>>,
           \A c \in calls' : c \in calls \/
               /\ c.tab \in Tabs /\ c.token \in Tokens
               /\ c.kind = "query" /\ c.tab \notin strayed => c.token = tab[c.tab].token
    PROVE  BrowserInv'
BY DEF BrowserInv, BrowserTyped, OwnSession

LEMMA LoadKeeps ==
    ASSUME BrowserInv, NEW t \in Tabs, InBrowser!Load(t)
    PROVE  BrowserInv'
<1> DEFINE r == [InBrowser!Fresh EXCEPT !.loading = stored # None, !.token = stored]
<1>1. r \in TabRow /\ r.token = stored /\ r.data = None
    BY DEF BrowserInv, BrowserTyped, TabRow, InBrowser!Fresh
<1>2. /\ tab' = [tab EXCEPT ![t] = r] /\ UNCHANGED stored /\ strayed' = strayed \ {t}
      /\ tab'[t] = r
      /\ \A c \in calls' : \/ c \in calls /\ c.tab # t
                           \/ stored # None /\ c.tab = t /\ c.kind = "load" /\ c.token = stored
    BY DEF InBrowser!Load, InBrowser!Of, BrowserInv, BrowserTyped
<1> HIDE DEF r
<1>3. OwnSession(t)'
    BY <1>1, <1>2 DEF OwnSession
<1>4. QED
    BY <1>1, <1>2, <1>3, OneTabKeeps DEF BrowserInv, BrowserTyped

LEMMA SignInKeeps ==
    ASSUME BrowserInv, NEW t \in Tabs, NEW k \in Tokens, InBrowser!SignIn(t, k)
    PROVE  BrowserInv'
<1> DEFINE r == [tab[t] EXCEPT !.token = k]
<1>1. r \in TabRow /\ r.token = k /\ r.data = tab[t].data
    BY DEF BrowserInv, BrowserTyped, TabRow
<1>2. /\ tab' = [tab EXCEPT ![t] = r] /\ tab'[t] = r /\ stored' = k
      /\ calls' = calls \cup {[tab |-> t, kind |-> "login", token |-> k]}
    BY DEF InBrowser!SignIn, InBrowser!Login, BrowserInv, BrowserTyped
<1> HIDE DEF r
<1>3. /\ strayed' = strayed \cup InBrowser!Stray(t)
                       \cup {s \in {t} : tab[s].data # None \/ InBrowser!Queries(s) # {}}
      /\ \A s \in Tabs \ {t} : s \notin strayed' => s \notin strayed /\ tab[s].token = None
    BY DEF InBrowser!SignIn, InBrowser!Stray
<1>4. ASSUME t \notin strayed' PROVE OwnSession(t)'
    <2>1. tab[t].data = None /\ \A c \in calls : c.tab = t => c.kind # "query"
        BY <1>3, <1>4 DEF InBrowser!Queries, InBrowser!Of
    <2>2. QED
        BY <1>1, <1>2, <2>1 DEF OwnSession
<1>5. \A c \in calls' : c \in calls \/ (c.tab = t /\ c.token \in Tokens)
    BY <1>2
<1>6. QED
    BY <1>1, <1>2, <1>3, <1>4, <1>5, OneTabKeeps

\* A session ends in tab t: nothing of it stays.
LEMMA EndedKeeps ==
    ASSUME BrowserInv, NEW t \in Tabs, NEW r \in TabRow, r.token = None, r.data = None,
           tab' = [tab EXCEPT ![t] = r], stored' = None,
           strayed' = (strayed \cup InBrowser!Stray(t)) \ {t},
           \A c \in calls' : c \in calls /\ (c.tab = t => c.kind # "query")
    PROVE  BrowserInv'
<1>1. \A s \in Tabs \ {t} : s \notin strayed' => s \notin strayed /\ tab[s].token = None
    BY DEF InBrowser!Stray
<1>2. tab'[t] = r
    BY DEF BrowserInv, BrowserTyped
<1>3. OwnSession(t)'
    BY <1>2 DEF OwnSession
<1>4. QED
    BY <1>1, <1>3, OneTabKeeps

LEMMA ClearedRow ==
    ASSUME BrowserInv, NEW t \in Tabs
    PROVE  LET r == InBrowser!Cleared(tab[t]) IN
           /\ r \in TabRow /\ r.token = None /\ r.data = None
           /\ [r EXCEPT !.loading = FALSE] \in TabRow
           /\ [r EXCEPT !.loading = FALSE].token = None
           /\ [r EXCEPT !.loading = FALSE].data = None
BY DEF BrowserInv, BrowserTyped, TabRow, InBrowser!Cleared

LEMMA LogoutKeeps ==
    ASSUME BrowserInv, NEW t \in Tabs, InBrowser!Logout(t)
    PROVE  BrowserInv'
<1>1. \A c \in calls' : c \in calls /\ (c.tab = t => c.kind # "query")
    BY DEF InBrowser!Logout, InBrowser!Queries, InBrowser!Of
<1>2. QED
    BY <1>1, ClearedRow, EndedKeeps DEF InBrowser!Logout

LEMMA RefusedKeeps ==
    ASSUME BrowserInv, NEW c \in calls, InBrowser!Refused(c)
    PROVE  BrowserInv'
<1>1. c.tab \in Tabs
    BY DEF BrowserInv, BrowserTyped
<1>2. InBrowser!Fresh \in TabRow /\ InBrowser!Fresh.token = None /\ InBrowser!Fresh.data = None
    BY DEF InBrowser!Fresh, TabRow
<1>3. \A d \in calls' : d \in calls /\ (d.tab = c.tab => d.kind # "query")
    BY DEF InBrowser!Refused, InBrowser!Of
<1>4. QED
    BY <1>1, <1>2, <1>3, EndedKeeps DEF InBrowser!Refused

LEMMA UnansweredKeeps ==
    ASSUME BrowserInv, NEW c \in calls, InBrowser!Unanswered(c)
    PROVE  BrowserInv'
<1>1. c.tab \in Tabs
    BY DEF BrowserInv, BrowserTyped
<1>2. CASE c.kind = "load"
    <2>1. \A d \in calls' : d \in calls /\ (d.tab = c.tab => d.kind # "query")
        BY <1>2 DEF InBrowser!Unanswered, InBrowser!Queries, InBrowser!Of
    <2>2. QED
        BY <1>1, <1>2, <2>1, ClearedRow, EndedKeeps DEF InBrowser!Unanswered
<1>3. CASE c.kind # "load"
    BY <1>3, CallsOnlyKeep DEF InBrowser!Unanswered
<1>4. QED
    BY <1>2, <1>3

LEMMA SwitchKeeps ==
    ASSUME BrowserInv, NEW c \in calls, NEW k \in Tokens, InBrowser!Switch(c, k)
    PROVE  BrowserInv'
<1> DEFINE t == c.tab
           r == InBrowser!Switched(tab[t], k)
<1>1. t \in Tabs
    BY DEF BrowserInv, BrowserTyped
<1>2. r \in TabRow /\ r.token = k /\ r.data = None
    BY <1>1 DEF BrowserInv, BrowserTyped, TabRow, InBrowser!Switched
<1>3. /\ tab' = [tab EXCEPT ![t] = r] /\ tab'[t] = r /\ stored' = k
      /\ \A d \in calls' : \/ d \in calls /\ (d.tab = t => d.kind # "query")
                           \/ d = [tab |-> t, kind |-> "login", token |-> k]
      /\ strayed' = (strayed \cup InBrowser!Stray(t)) \ {t}
    BY <1>1 DEF InBrowser!Switch, InBrowser!Login, InBrowser!Queries, InBrowser!Of, BrowserInv,
                BrowserTyped
<1>4. \A s \in Tabs \ {t} : s \notin strayed' => s \notin strayed /\ tab[s].token = None
    BY <1>3 DEF InBrowser!Stray
<1>5. OwnSession(t)'
    BY <1>2, <1>3 DEF OwnSession
<1>6. \A d \in calls' : d \in calls \/ (d.tab = t /\ d.token \in Tokens)
    BY <1>3
<1>7. QED
    BY <1>1, <1>2, <1>3, <1>4, <1>5, <1>6, OneTabKeeps

LEMMA AcceptedKeeps ==
    ASSUME BrowserInv, NEW c \in calls, InBrowser!Accepted(c)
    PROVE  BrowserInv'
<1> DEFINE t == c.tab
           w == WorkspaceOf[c.token]
           r == IF c.kind = "query" THEN [tab[t] EXCEPT !.data = w]
                ELSE [tab[t] EXCEPT !.user = w, !.loading = tab[t].loading /\ c.kind # "load"]
<1>1. t \in Tabs /\ c.token \in Tokens /\ w \in InBrowser!Workspaces
    BY TokensAreSome DEF BrowserInv, BrowserTyped
<1>2. /\ r \in TabRow /\ r.token = tab[t].token
      /\ r.data = IF c.kind = "query" THEN w ELSE tab[t].data
    BY ZenonT(60), <1>1 DEF BrowserInv, BrowserTyped, TabRow
<1>3. /\ tab' = [tab EXCEPT ![t] = r] /\ tab'[t] = r /\ calls' = calls \ {c}
      /\ UNCHANGED <<stored, strayed>>
    <2>1. tab' = [tab EXCEPT ![t] = r] /\ calls' = calls \ {c} /\ UNCHANGED <<stored, strayed>>
        <3>1. CASE c.kind = "query"
            BY <3>1 DEF InBrowser!Accepted
        <3>2. CASE c.kind # "query"
            BY <3>2 DEF InBrowser!Accepted
        <3>3. QED
            BY <3>1, <3>2
    <2>2. QED
        BY <1>1, <2>1 DEF BrowserInv, BrowserTyped
<1> HIDE DEF r
<1>4. ASSUME t \notin strayed PROVE OwnSession(t)'
    <2>1. OwnSession(t) /\ (c.kind = "query" => c.token = tab[t].token)
        BY <1>1, <1>4 DEF BrowserInv, OwnSession
    <2>2. c.kind = "query" => tab[t].token # None
        BY <1>1, <2>1, TokensAreSome
    <2>3. QED
        BY <1>2, <1>3, <2>1, <2>2 DEF OwnSession
<1>5. QED
    BY <1>1, <1>2, <1>3, <1>4, OneTabKeeps DEF BrowserInv, BrowserTyped

LEMMA AskKeeps ==
    ASSUME BrowserInv, NEW t \in Tabs,
           InBrowser!Query(t) \/ \E w \in InBrowser!Workspaces : InBrowser!SendSwitch(t, w)
    PROVE  BrowserInv'
<1>1. stored # None /\ stored \in Tokens /\ tab[t].token # None
    BY DEF InBrowser!Query, InBrowser!SendSwitch, InBrowser!IsAuthenticated, BrowserInv,
           BrowserTyped
<1>2. t \notin strayed => stored = tab[t].token
    BY <1>1 DEF BrowserInv, OwnSession
<1>3. UNCHANGED <<tab, stored, strayed>>
    BY DEF InBrowser!Query, InBrowser!SendSwitch
<1>4. \A c \in calls' : c \in calls \/ (c.tab = t /\ c.token = stored)
    BY DEF InBrowser!Query, InBrowser!SendSwitch
<1>5. QED
    BY <1>1, <1>2, <1>3, <1>4, CallsOnlyKeep

LEMMA BrowserNext == BrowserInv /\ [InBrowser!Next]_(InBrowser!vars) => BrowserInv'
<1> SUFFICES ASSUME BrowserInv, [InBrowser!Next]_(InBrowser!vars) PROVE BrowserInv'
    OBVIOUS
<1>1. CASE UNCHANGED InBrowser!vars \/ \E k \in Tokens : InBrowser!Expire(k)
    BY <1>1, CallsOnlyKeep DEF InBrowser!vars, InBrowser!Expire
<1>2. CASE \E t \in Tabs : InBrowser!SignOut(t) \/ InBrowser!StreamRefused(t)
    BY <1>2, LogoutKeeps DEF InBrowser!SignOut, InBrowser!StreamRefused
<1>3. QED
    BY <1>1, <1>2, LoadKeeps, SignInKeeps, SwitchKeeps, AskKeeps, AcceptedKeeps, RefusedKeeps,
       UnansweredKeeps DEF InBrowser!Next

\* The data a tab shows is of the workspace of its session: a switch empties the cache and the
\* queries under way, and what arrives was asked for with the token the tab holds - unless
\* another tab replaced the session or the user signed in over it (AuthContext, the API client).
THEOREM DataIsOfSession == InBrowser!Spec => []CacheScoped
<1>1. BrowserInv => CacheScoped
    BY DEF BrowserInv, OwnSession, CacheScoped, InBrowser!CacheScoped
<1>2. QED
    BY <1>1, BrowserInit, BrowserNext, PTL DEF InBrowser!Spec

(***************************************************************************)
(* The type invariants.                                                     *)
(***************************************************************************)

\* The rows that IInv does not tell of.
RowsInv ==
    /\ user \in [exists : BOOLEAN, hasPassword : BOOLEAN] /\ identity \in BOOLEAN
    /\ jwt \subseteq Token /\ told \subseteq Workspaces \X Roles \X Roles
    /\ edits \in 0..MaxEdits /\ uses \in [Links -> Nat]

\* What a request read and will sign or tell of.
ReadInv ==
    \A r \in Slots :
        /\ At(r, "use") => request[r].member \in Row
        /\ At(r, "update") => request[r].tenant \in Workspaces /\ request[r].old \in Row
        /\ At(r, "notify") => /\ request[r].tenant \in Workspaces /\ request[r].old \in Row
                              /\ request[r].role \in Roles

ServerInv == IInv /\ RowsInv /\ ReadInv

LEMMA RolesAre == "ADMIN" \in Roles /\ None \notin Roles
BY SessionsAssumption DEF Roles

LEMMA ReadKept ==
    ASSUME ServerInv, NEW r \in Slots, NEW req, Become(r, req),
           req.op = "use" => req.member \in Row,
           req.op \in {"update", "notify"} => req.tenant \in Workspaces /\ req.old \in Row,
           req.op = "notify" => req.role \in Roles
    PROVE  ReadInv'
<1>1. /\ request'[r] = req
      /\ \A q \in Slots : q # r => request'[q] = request[q]
    BY BecomeOne DEF ServerInv, IInv
<1>2. ASSUME NEW q \in Slots
      PROVE  /\ request'[q].op = "use" => request'[q].member \in Row
             /\ request'[q].op = "update" =>
                    request'[q].tenant \in Workspaces /\ request'[q].old \in Row
             /\ request'[q].op = "notify" =>
                    /\ request'[q].tenant \in Workspaces /\ request'[q].old \in Row
                    /\ request'[q].role \in Roles
    <2>1. CASE q = r
        BY <1>1, <2>1
    <2>2. CASE q # r
        BY <1>1, <2>2 DEF ServerInv, ReadInv, At
    <2>3. QED
        BY <2>1, <2>2
<1>3. QED
    BY <1>2 DEF ReadInv, At

LEMMA ReadPlain ==
    ASSUME ServerInv, NEW r \in Slots, NEW req, Become(r, req),
           req.op \notin {"use", "update", "notify"}
    PROVE  ReadInv'
BY ReadKept

LEMMA SignInRead ==
    ASSUME ServerInv, NEW r \in Slots, SignInStep(r)
    PROVE  ReadInv'
<1>1. CASE Login(r) \/ OAuthLogin(r)
    BY <1>1, ReadPlain DEF Login, OAuthLogin
<1>2. CASE CreateUser(r) \/ FindIdentity(r) \/ CreateIdentity(r)
    BY <1>2, ReadPlain DEF CreateUser, FindIdentity, CreateIdentity, Done, Idle
<1>3. CASE Memberships(r)
    <2>1. CASE Become(r, [op |-> "newSession", choice |-> ActiveSet])
        BY <2>1, ReadPlain
    <2>2. CASE Become(r, [op |-> "newWorkspace"]) \/ Become(r, Idle)
        BY <2>2, ReadPlain DEF Idle
    <2>3. QED
        BY <1>3, <2>1, <2>2 DEF Memberships, Done
<1>4. CASE CreateOAuthWorkspace(r) \/ CreateLoginSession(r) \/ UseSession(r) \/ SwitchWorkspace(r)
    BY <1>4, ReadPlain
    DEF CreateOAuthWorkspace, CreateLoginSession, UseSession, SwitchWorkspace, Done, Idle
<1>5. CASE \/ \E s \in Sessions, w \in Workspaces : FindSession(r, s, w)
           \/ \E t \in jwt, w \in Workspaces : Authorise(r, t, w)
    BY <1>5, ReadPlain DEF FindSession, Authorise
<1>6. CASE ReadSelected(r)
    <2> DEFINE w == request[r].tenant
    <2>1. w \in Workspaces /\ member[w] \in Row
        BY <1>6 DEF ReadSelected, ServerInv, IInv, RequestsInv, MemberInv
    <2>2. CASE Become(r, [op |-> "use", session |-> request[r].session,
                          tenant |-> w, member |-> member[w]])
        BY <2>1, <2>2, ReadKept
    <2>3. CASE Become(r, Idle)
        BY <2>3, ReadPlain DEF Idle
    <2>4. QED
        BY <1>6, <2>2, <2>3 DEF ReadSelected
<1>7. QED
    BY <1>1, <1>2, <1>3, <1>4, <1>5, <1>6 DEF SignInStep

LEMMA NextRead ==
    ASSUME ServerInv, [Next]_vars
    PROVE  ReadInv'
<1>1. ASSUME NEW r \in Slots, ResetStep(r)
      PROVE  ReadInv'
    BY <1>1, ReadPlain
    DEF ResetStep, CountRecent, RevokeLinks, CreateLink, CheckLink, CommitReset, Done, Idle
<1>2. ASSUME NEW r \in Slots, NEW w \in Workspaces, NEW role \in Roles \cup {None},
             NEW active \in BOOLEAN \cup {None}, ReadMember(r, w, role, active)
      PROVE  ReadInv'
    <2>1. member[w] \in Row
        BY DEF ServerInv, IInv, MemberInv
    <2>2. QED
        BY <1>2, <2>1, ReadKept DEF ReadMember
<1>3. ASSUME NEW r \in Slots, UpdateMember(r)
      PROVE  ReadInv'
    <2>1. /\ request[r].tenant \in Workspaces /\ request[r].old \in Row
          /\ request[r].role \in Roles \cup {None}
        BY <1>3 DEF UpdateMember, ServerInv, ReadInv, IInv, RequestsInv
    <2>2. CASE Become(r, Idle)
        BY <2>2, ReadPlain DEF Idle
    <2>3. CASE /\ RoleChanged(request[r])
               /\ Become(r, [op |-> "notify", tenant |-> request[r].tenant,
                             role |-> request[r].role, old |-> request[r].old])
        BY <2>1, <2>3, ReadKept DEF RoleChanged
    <2>4. QED
        BY <1>3, <2>2, <2>3 DEF UpdateMember
<1>4. ASSUME NEW r \in Slots, NotifyRoleChanged(r)
      PROVE  ReadInv'
    BY <1>4, ReadPlain DEF NotifyRoleChanged, Done, Idle
<1>5. CASE UNCHANGED request
    BY <1>5 DEF ServerInv, ReadInv, At
<1>6. CASE \/ UNCHANGED vars
           \/ \E w \in Own : Register(w)
           \/ \E l \in Links : LinkAges(l)
           \/ \E s \in Sessions : SessionAges(s)
           \/ \E w \in Tenants, role \in Roles : AddMember(w, role)
           \/ \E w \in Workspaces, active \in BOOLEAN : SetActive(w, active)
    <2>1. UNCHANGED request
        BY <1>6 DEF vars, Register, LinkAges, SessionAges, AddMember, SetActive
    <2>2. QED
        BY <1>5, <2>1
<1>7. QED
    BY <1>1, <1>2, <1>3, <1>4, <1>6, SignInRead DEF Next, MemberStep

\* Signing for a membership that was read.
LEMMA SignedTyped ==
    ASSUME ServerInv, NEW w \in Workspaces, NEW m \in Row, Sign(w, m)
    PROVE  jwt' \subseteq Token
BY DEF ServerInv, IInv, EpochInv, RowsInv, Sign, Row, Token

LEMMA SignInRows ==
    ASSUME ServerInv, NEW r \in Slots, SignInStep(r)
    PROVE  RowsInv'
<1> USE DEF RowsInv
<1>1. CASE UNCHANGED <<user, identity, jwt, told, edits, uses>>
    BY <1>1 DEF ServerInv
<1>2. CASE CreateUser(r) \/ CreateIdentity(r)
    <2>1. CASE CreateUser(r)
        <3>1. user' = user \/ user' = [exists |-> TRUE, hasPassword |-> FALSE]
            BY <2>1, Zenon DEF CreateUser
        <3>2. user' \in [exists : BOOLEAN, hasPassword : BOOLEAN]
            <4>1. [exists |-> TRUE, hasPassword |-> FALSE]
                      \in [exists : BOOLEAN, hasPassword : BOOLEAN]
                OBVIOUS
            <4>2. QED
                BY <3>1, <4>1, Zenon DEF ServerInv
        <3>3. QED
            BY <2>1, <3>2 DEF CreateUser, ServerInv
    <2>2. CASE CreateIdentity(r)
        BY <2>2 DEF CreateIdentity, ServerInv
    <2>3. QED
        BY <1>2, <2>1, <2>2
<1>3. CASE Memberships(r)
    <2>1. CASE \E w \in ActiveSet : Sign(w, member[w])
        <3>1. PICK w \in ActiveSet : Sign(w, member[w])
            BY <2>1
        <3>2. w \in Workspaces /\ member[w] \in Row
            BY DEF ActiveSet, ServerInv, IInv, MemberInv
        <3>3. jwt' \subseteq Token
            BY <3>1, <3>2, SignedTyped
        <3>4. QED
            BY <1>3, <3>3 DEF Memberships, accounts, ServerInv
    <2>2. CASE UNCHANGED jwt
        BY <1>1, <1>3, <2>2 DEF Memberships, accounts
    <2>3. QED
        BY <1>3, <2>1, <2>2 DEF Memberships
<1>4. CASE CreateOAuthWorkspace(r)
    <2>1. PICK w \in Own :
             /\ member' = [member EXCEPT ![w] =
                   [status |-> "ACTIVE", role |-> "ADMIN", version |-> 0]]
             /\ Sign(w, member'[w])
        BY <1>4, Zenon DEF CreateOAuthWorkspace
    <2>2. w \in Workspaces /\ member'[w] \in Row
        BY <2>1, RolesAre DEF Workspaces, ServerInv, IInv, MemberInv, Row
    <2>3. jwt' \subseteq Token
        BY <2>1, <2>2, SignedTyped
    <2>4. QED
        BY <1>4, <2>3 DEF CreateOAuthWorkspace, accounts, ServerInv
<1>5. CASE UseSession(r)
    <2>1. request[r].tenant \in Workspaces /\ request[r].member \in Row
        BY <1>5 DEF UseSession, ServerInv, ReadInv, IInv, HeldInv, Known
    <2>2. jwt' \subseteq Token
        BY <1>5, <2>1, SignedTyped DEF UseSession
    <2>3. QED
        BY <1>5, <2>2 DEF UseSession, accounts, ServerInv
<1>6. CASE SwitchWorkspace(r)
    <2>1. request[r].tenant \in Workspaces /\ member[request[r].tenant] \in Row
        BY <1>6 DEF SwitchWorkspace, ServerInv, IInv, RequestsInv, MemberInv
    <2>2. jwt' \subseteq Token
        BY <1>6, <2>1, SignedTyped DEF SwitchWorkspace, ServerInv
    <2>3. QED
        BY <1>6, <2>2 DEF SwitchWorkspace, accounts, ServerInv
<1>7. CASE \/ Login(r) \/ OAuthLogin(r) \/ FindIdentity(r) \/ CreateLoginSession(r)
           \/ \E s \in Sessions, w \in Workspaces : FindSession(r, s, w)
           \/ ReadSelected(r)
           \/ \E t \in jwt, w \in Workspaces : Authorise(r, t, w)
    <2>1. UNCHANGED <<user, identity, jwt, told, edits, uses>>
        BY <1>7 DEF Login, OAuthLogin, FindIdentity, CreateLoginSession, FindSession,
                    ReadSelected, Authorise, accounts
    <2>2. QED
        BY <1>1, <2>1
<1>8. QED
    BY <1>2, <1>3, <1>4, <1>5, <1>6, <1>7 DEF SignInStep

LEMMA NextRows ==
    ASSUME ServerInv, [Next]_vars
    PROVE  RowsInv'
<1> USE DEF RowsInv
<1>1. CASE UNCHANGED <<user, identity, jwt, told, edits, uses>>
    BY <1>1 DEF ServerInv
<1>2. ASSUME NEW w \in Own, Register(w)
      PROVE  RowsInv'
    <2>1. w \in Workspaces /\ member'[w] \in Row
        BY <1>2, RolesAre DEF Register, Workspaces, ServerInv, IInv, MemberInv, Row
    <2>2. jwt' \subseteq Token
        BY <1>2, <2>1, SignedTyped DEF Register
    <2>3. QED
        BY <1>2, <2>2 DEF Register, ServerInv
<1>3. ASSUME NEW r \in Slots, CommitReset(r)
      PROVE  RowsInv'
    <2>1. PICK l : uses' = [uses EXCEPT ![l] = uses[l] + 1]
        BY <1>3 DEF CommitReset
    <2>2. uses' \in [Links -> Nat]
        <3>1. l \in Links => uses[l] + 1 \in Nat
            BY DEF ServerInv
        <3>2. QED
            BY <2>1, <3>1, Zenon DEF ServerInv
    <2>3. QED
        BY <1>3, <2>2 DEF CommitReset, ServerInv
<1>4. ASSUME Edit
      PROVE  edits' \in 0..MaxEdits
    BY <1>4, SessionsAssumption DEF Edit, ServerInv
<1>5. ASSUME NEW w \in Tenants, NEW role \in Roles, AddMember(w, role)
      PROVE  RowsInv'
    BY <1>4, <1>5 DEF AddMember, ServerInv
<1>6. CASE \/ \E r \in Slots, w \in Workspaces, role \in Roles \cup {None},
                  active \in BOOLEAN \cup {None} : ReadMember(r, w, role, active)
           \/ \E w \in Workspaces, active \in BOOLEAN : SetActive(w, active)
    BY <1>4, <1>6 DEF ReadMember, SetActive, accounts, ServerInv
<1>7. ASSUME NEW r \in Slots, NotifyRoleChanged(r)
      PROVE  RowsInv'
    <2>1. /\ request[r].tenant \in Workspaces /\ request[r].old.role \in Roles
          /\ request[r].role \in Roles
        BY <1>7 DEF NotifyRoleChanged, ServerInv, ReadInv, Row
    <2>2. QED
        BY <1>7, <2>1 DEF NotifyRoleChanged, accounts, ServerInv
<1>8. CASE \/ UNCHANGED vars
           \/ \E r \in Slots : \/ CountRecent(r) \/ RevokeLinks(r) \/ CreateLink(r)
                               \/ \E l \in Links : CheckLink(r, l)
           \/ \E l \in Links : LinkAges(l)
           \/ \E s \in Sessions : SessionAges(s)
           \/ \E r \in Slots : UpdateMember(r)
    <2>1. UNCHANGED <<user, identity, jwt, told, edits, uses>>
        BY <1>8 DEF vars, CountRecent, RevokeLinks, CreateLink, CheckLink, LinkAges, SessionAges,
                    UpdateMember, accounts
    <2>2. QED
        BY <1>1, <2>1
<1>9. QED
    BY <1>2, <1>3, <1>5, <1>6, <1>7, <1>8, SignInRows DEF Next, ResetStep, MemberStep

LEMMA ServerInit == Init => ServerInv
<1> SUFFICES ASSUME Init PROVE ServerInv
    OBVIOUS
<1>1. RowsInv
    <2>1. user \in [exists : BOOLEAN, hasPassword : BOOLEAN] /\ identity \in BOOLEAN
        BY DEF Init
    <2>2. edits \in 0..MaxEdits
        BY SessionsAssumption DEF Init
    <2>3. jwt = {} /\ told = {} /\ uses \in [Links -> Nat]
        BY DEF Init
    <2>4. QED
        BY <2>1, <2>2, <2>3 DEF RowsInv
<1>2. ReadInv
    BY DEF Init, ReadInv, At, Idle
<1>3. QED
    BY <1>1, <1>2, IInvInit DEF ServerInv

LEMMA ServerNext == ServerInv /\ [Next]_vars => ServerInv'
BY IInvNext, NextRead, NextRows DEF ServerInv

LEMMA ServerTyped == ServerInv => TypeOK
BY DEF ServerInv, IInv, EpochInv, MemberInv, LinkInv, SessionInv, RequestsInv, RowsInv, TypeOK,
       Row, LinkRow, SessionRow

\* The browser: what the tabs, the storage and the requests hold was issued.
IssuedRow == [loading : BOOLEAN, token : issued \cup {None},
              user : InBrowser!Workspaces \cup {None}, data : InBrowser!Workspaces \cup {None}]

LEMMA BrowserTypeInit == InBrowser!Init => InBrowser!TypeOK
BY DEF InBrowser!Init, InBrowser!TypeOK, InBrowser!Fresh

\* A row of a tab is one still when more is issued, and WorkspaceOf gives its fields.
LEMMA RowIssued ==
    ASSUME InBrowser!TypeOK, issued \subseteq issued', NEW t \in Tabs
    PROVE  /\ tab[t] \in IssuedRow /\ tab[t] \in IssuedRow'
           /\ tab \in [Tabs -> IssuedRow']
           /\ \A k \in issued' \cup {None} :
                 /\ [tab[t] EXCEPT !.token = k] \in IssuedRow'
                 /\ [tab[t] EXCEPT !.token = k, !.data = None] \in IssuedRow'
           /\ InBrowser!Cleared(tab[t]) \in IssuedRow'
           /\ [InBrowser!Cleared(tab[t]) EXCEPT !.loading = FALSE] \in IssuedRow'
           /\ InBrowser!Fresh \in IssuedRow'
<1>1. tab \in [Tabs -> IssuedRow]
    BY DEF InBrowser!TypeOK, IssuedRow
<1>2. \A r \in IssuedRow : r \in IssuedRow'
    BY DEF IssuedRow
<1>3. tab[t] \in IssuedRow' /\ tab \in [Tabs -> IssuedRow']
    BY <1>1, <1>2
<1>4. QED
    BY <1>1, <1>3 DEF IssuedRow, InBrowser!Cleared, InBrowser!Fresh

\* A step of tab t, whatever else it does.
LEMMA TabTyped ==
    ASSUME InBrowser!TypeOK, NEW t \in Tabs, NEW r \in IssuedRow',
           tab' = [tab EXCEPT ![t] = r],
           alive' \subseteq issued', issued \subseteq issued', issued' \subseteq Tokens,
           stored' \in issued' \cup {None},
           \A c \in calls' : c \in calls \/ (c \in InBrowser!Calls /\ c.token \in issued'),
           \A s \in strayed' : s \in strayed \/ s \in Tabs
    PROVE  InBrowser!TypeOK'
<1>1. tab \in [Tabs -> IssuedRow']
    BY RowIssued
<1>2. tab' \in [Tabs -> IssuedRow']
    BY <1>1
<1>3. calls' \subseteq InBrowser!Calls /\ \A c \in calls' : c.token \in issued'
    BY DEF InBrowser!TypeOK
<1>4. strayed' \subseteq Tabs
    BY DEF InBrowser!TypeOK
<1>5. QED
    BY <1>2, <1>3, <1>4 DEF InBrowser!TypeOK, IssuedRow

LEMMA StrayAreTabs == \A t \in Tabs : InBrowser!Stray(t) \subseteq Tabs
BY DEF InBrowser!Stray

LEMMA CallFields ==
    ASSUME InBrowser!TypeOK, NEW c \in calls
    PROVE  c.tab \in Tabs /\ c.token \in issued /\ c.token \in Tokens
BY DEF InBrowser!TypeOK, InBrowser!Calls

LEMMA LogoutTyped ==
    ASSUME InBrowser!TypeOK, NEW t \in Tabs, InBrowser!Logout(t)
    PROVE  InBrowser!TypeOK'
<1>1. UNCHANGED <<alive, issued>>
    BY DEF InBrowser!Logout
<1>2. InBrowser!Cleared(tab[t]) \in IssuedRow'
    BY <1>1, RowIssued
<1>3. QED
    BY <1>1, <1>2, TabTyped, StrayAreTabs DEF InBrowser!Logout, InBrowser!TypeOK

LEMMA SignInTyped ==
    ASSUME InBrowser!TypeOK, NEW t \in Tabs, NEW k \in Tokens, InBrowser!SignIn(t, k)
    PROVE  InBrowser!TypeOK'
<1>1. /\ issued' = issued \cup {k} /\ alive' = alive \cup {k} /\ stored' = k
      /\ tab' = [tab EXCEPT ![t] = [tab[t] EXCEPT !.token = k]]
      /\ calls' = calls \cup {[tab |-> t, kind |-> "login", token |-> k]}
      /\ \A s \in strayed' : s \in strayed \/ s \in Tabs
    BY StrayAreTabs DEF InBrowser!SignIn, InBrowser!Issue, InBrowser!Login
<1>2. [tab |-> t, kind |-> "login", token |-> k] \in InBrowser!Calls
    BY DEF InBrowser!Calls
<1>3. [tab[t] EXCEPT !.token = k] \in IssuedRow'
    BY <1>1, RowIssued
<1>4. alive' \subseteq issued' /\ issued' \subseteq Tokens
    BY <1>1 DEF InBrowser!TypeOK
<1>5. \A c \in calls' : c \in calls \/ (c \in InBrowser!Calls /\ c.token \in issued')
    BY <1>1, <1>2
<1>6. QED
    BY <1>1, <1>3, <1>4, <1>5, TabTyped

LEMMA SwitchTyped ==
    ASSUME InBrowser!TypeOK, NEW c \in calls, NEW k \in Tokens, InBrowser!Switch(c, k)
    PROVE  InBrowser!TypeOK'
<1> PICK t : t = c.tab
    OBVIOUS
<1>1. t \in Tabs
    BY CallFields
<1>2. /\ issued' = issued \cup {k} /\ alive' = alive \cup {k} /\ stored' = k
      /\ tab' = [tab EXCEPT ![t] = [tab[t] EXCEPT !.token = k, !.data = None]]
      /\ \A d \in calls' : d \in calls \/ d = [tab |-> t, kind |-> "login", token |-> k]
      /\ \A s \in strayed' : s \in strayed \/ s \in Tabs
    BY <1>1, StrayAreTabs DEF InBrowser!Switch, InBrowser!Switched, InBrowser!Issue, InBrowser!Login
<1>3. [tab |-> t, kind |-> "login", token |-> k] \in InBrowser!Calls
    BY <1>1 DEF InBrowser!Calls
<1>4. [tab[t] EXCEPT !.token = k, !.data = None] \in IssuedRow'
    BY <1>1, <1>2, RowIssued
<1>5. alive' \subseteq issued' /\ issued' \subseteq Tokens
    BY <1>2 DEF InBrowser!TypeOK
<1>6. \A d \in calls' : d \in calls \/ (d \in InBrowser!Calls /\ d.token \in issued')
    BY <1>2, <1>3
<1>7. QED
    BY <1>1, <1>2, <1>4, <1>5, <1>6, TabTyped

LEMMA AcceptedTyped ==
    ASSUME InBrowser!TypeOK, NEW c \in calls, InBrowser!Accepted(c)
    PROVE  InBrowser!TypeOK'
<1> DEFINE t == c.tab
           w == WorkspaceOf[c.token]
           r == IF c.kind = "query" THEN [tab[t] EXCEPT !.data = w]
                ELSE [tab[t] EXCEPT !.user = w, !.loading = tab[t].loading /\ c.kind # "load"]
<1>1. t \in Tabs /\ w \in InBrowser!Workspaces
    BY CallFields, TokensAreSome
<1>2. tab[t] \in IssuedRow /\ UNCHANGED <<alive, issued, stored, strayed>> /\ calls' = calls \ {c}
    BY <1>1, RowIssued DEF InBrowser!Accepted
<1>3. r \in IssuedRow'
    BY ZenonT(60), <1>1, <1>2 DEF IssuedRow
<1>4. tab' = [tab EXCEPT ![t] = r]
    <2>1. CASE c.kind = "query"
        BY <2>1 DEF InBrowser!Accepted
    <2>2. CASE c.kind # "query"
        BY <2>2 DEF InBrowser!Accepted
    <2>3. QED
        BY <2>1, <2>2
<1> HIDE DEF r, t
<1>5. QED
    BY <1>1, <1>2, <1>3, <1>4, TabTyped DEF InBrowser!TypeOK

LEMMA EndedTyped ==
    ASSUME InBrowser!TypeOK, NEW c \in calls,
           InBrowser!Refused(c) \/ (c.kind = "load" /\ InBrowser!Unanswered(c))
    PROVE  InBrowser!TypeOK'
<1> PICK t : t = c.tab
    OBVIOUS
<1>1. t \in Tabs
    BY CallFields
<1>2. UNCHANGED <<alive, issued>> /\ stored' = None /\ calls' \subseteq calls
    BY DEF InBrowser!Refused, InBrowser!Unanswered
<1>3. \A s \in strayed' : s \in strayed \/ s \in Tabs
    BY <1>1, StrayAreTabs DEF InBrowser!Refused, InBrowser!Unanswered
<1>4. \E r \in IssuedRow' : tab' = [tab EXCEPT ![t] = r]
    <2>1. /\ InBrowser!Fresh \in IssuedRow'
          /\ [InBrowser!Cleared(tab[t]) EXCEPT !.loading = FALSE] \in IssuedRow'
        BY <1>1, <1>2, RowIssued
    <2>2. \/ tab' = [tab EXCEPT ![t] = InBrowser!Fresh]
          \/ tab' = [tab EXCEPT ![t] = [InBrowser!Cleared(tab[t]) EXCEPT !.loading = FALSE]]
        BY DEF InBrowser!Refused, InBrowser!Unanswered
    <2>3. QED
        BY <2>1, <2>2
<1>5. QED
    BY <1>1, <1>2, <1>3, <1>4, TabTyped DEF InBrowser!TypeOK

LEMMA AskTyped ==
    ASSUME InBrowser!TypeOK, NEW t \in Tabs,
           InBrowser!Query(t) \/ \E w \in InBrowser!Workspaces : InBrowser!SendSwitch(t, w)
    PROVE  InBrowser!TypeOK'
<1>1. stored \in issued /\ stored \in Tokens
    BY DEF InBrowser!Query, InBrowser!SendSwitch, InBrowser!TypeOK
<1>2. UNCHANGED <<alive, issued, tab, stored, strayed>>
    BY DEF InBrowser!Query, InBrowser!SendSwitch
<1>3. \A c \in calls' : c \in calls \/ (c \in InBrowser!Calls /\ c.token \in issued')
    <2>1. CASE InBrowser!Query(t)
        <3>1. calls' = calls \cup {[tab |-> t, kind |-> "query", token |-> stored]}
            BY <2>1 DEF InBrowser!Query
        <3>2. [tab |-> t, kind |-> "query", token |-> stored] \in InBrowser!Calls
            BY <1>1 DEF InBrowser!Calls
        <3>3. QED
            BY <1>1, <1>2, <3>1, <3>2
    <2>2. ASSUME NEW w \in InBrowser!Workspaces, InBrowser!SendSwitch(t, w)
          PROVE  \A c \in calls' : c \in calls \/ (c \in InBrowser!Calls /\ c.token \in issued')
        <3>1. calls' = calls \cup {[tab |-> t, kind |-> "switch", token |-> stored, to |-> w]}
            BY <2>2 DEF InBrowser!SendSwitch
        <3>2. [tab |-> t, kind |-> "switch", token |-> stored, to |-> w] \in InBrowser!Calls
            BY <1>1 DEF InBrowser!Calls
        <3>3. QED
            BY <1>1, <1>2, <3>1, <3>2
    <2>3. QED
        BY <2>1, <2>2
<1>4. QED
    BY <1>2, <1>3 DEF InBrowser!TypeOK

LEMMA LoadTyped ==
    ASSUME InBrowser!TypeOK, NEW t \in Tabs, InBrowser!Load(t)
    PROVE  InBrowser!TypeOK'
<1> DEFINE r == [InBrowser!Fresh EXCEPT !.loading = stored # None, !.token = stored]
<1>1. /\ tab' = [tab EXCEPT ![t] = r] /\ strayed' = strayed \ {t}
      /\ UNCHANGED <<alive, issued, stored>>
    BY DEF InBrowser!Load
<1>2. r \in IssuedRow'
    BY <1>1 DEF IssuedRow, InBrowser!Fresh, InBrowser!TypeOK
<1> HIDE DEF r
<1>3. \A c \in calls' : c \in calls \/ (c \in InBrowser!Calls /\ c.token \in issued')
    <2>1. CASE stored = None
        BY <2>1 DEF InBrowser!Load
    <2>2. CASE stored # None
        <3>1. stored \in issued /\ stored \in Tokens
            BY <2>2 DEF InBrowser!TypeOK
        <3>2. [tab |-> t, kind |-> "load", token |-> stored] \in InBrowser!Calls
            BY <3>1 DEF InBrowser!Calls
        <3>3. calls' = (calls \ InBrowser!Of(t))
                           \cup {[tab |-> t, kind |-> "load", token |-> stored]}
            BY <2>2 DEF InBrowser!Load
        <3>4. QED
            BY <1>1, <3>1, <3>2, <3>3
    <2>3. QED
        BY <2>1, <2>2
<1>4. QED
    BY <1>1, <1>2, <1>3, TabTyped DEF InBrowser!TypeOK

LEMMA BrowserTypeNext ==
    InBrowser!TypeOK /\ [InBrowser!Next]_(InBrowser!vars) => InBrowser!TypeOK'
<1> SUFFICES ASSUME InBrowser!TypeOK, [InBrowser!Next]_(InBrowser!vars)
             PROVE  InBrowser!TypeOK'
    OBVIOUS
<1>1. CASE UNCHANGED InBrowser!vars \/ \E k \in Tokens : InBrowser!Expire(k)
    BY <1>1 DEF InBrowser!vars, InBrowser!Expire, InBrowser!TypeOK
<1>2. CASE \E t \in Tabs : InBrowser!SignOut(t) \/ InBrowser!StreamRefused(t)
    BY <1>2, LogoutTyped DEF InBrowser!SignOut, InBrowser!StreamRefused
<1>3. ASSUME NEW c \in calls, InBrowser!Unanswered(c)
      PROVE  InBrowser!TypeOK'
    <2>1. CASE c.kind # "load"
        BY <1>3, <2>1 DEF InBrowser!Unanswered, InBrowser!TypeOK
    <2>2. QED
        BY <1>3, <2>1, EndedTyped
<1>4. QED
    BY <1>1, <1>2, <1>3, LoadTyped, SignInTyped, SwitchTyped, AskTyped, AcceptedTyped, EndedTyped
    DEF InBrowser!Next

\* Every table, request and token of the server, and every tab, keeps to its type however requests
\* and answers interleave: a request holds what the operation that finishes it will write, and a
\* browser no token that was not issued (AuthService, UserService, AuthContext, the API client).
THEOREM SessionsTyped == PartSpec => []AllTypeOK
<1> DEFINE Inv == ServerInv /\ InBrowser!TypeOK
<1>1. PartInit => Inv
    BY ServerInit, BrowserTypeInit DEF PartInit
<1>2. Inv /\ [PartNext]_<<part, vars, browser>> => Inv'
    <2> SUFFICES ASSUME Inv, [PartNext]_<<part, vars, browser>> PROVE Inv'
        OBVIOUS
    <2>1. [Next]_vars /\ [InBrowser!Next]_(InBrowser!vars)
        BY DEF PartNext, browser, InBrowser!vars
    <2>2. QED
        BY <2>1, ServerNext, BrowserTypeNext
<1>3. Inv => AllTypeOK
    BY ServerTyped DEF AllTypeOK
<1>4. QED
    BY <1>1, <1>2, <1>3, PTL DEF PartSpec
=============================================================================
