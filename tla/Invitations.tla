---------------------------- MODULE Invitations ----------------------------
(***************************************************************************)
(* InvitationsService: the invitations of one address to one workspace,     *)
(* created, resent and cancelled by its administrators and accepted by the  *)
(* invited person, while others add him to the workspace directly or he     *)
(* signs in by a provider.                                                  *)
(*                                                                         *)
(* A request is a slot, an action is what lies between two awaits another   *)
(* request can tell apart.  The mails carry a raw token; the row keeps one  *)
(* digest, that of the latest.  A mail that fails changes nothing.          *)
(***************************************************************************)
EXTENDS Naturals, FiniteSets

CONSTANTS
    Slots,       \* requests in progress at once
    MaxInvites,  \* bound: rows of Invitation
    MaxResends,  \* bound: resends of each
    MaxFaults    \* bound: requests and inserts of a notice that fail

Invites == 1..MaxInvites

ASSUME InvitationsAssumption ==
    {MaxInvites, MaxResends, MaxFaults} \subseteq Nat

VARIABLES
    account,     \* table User: "NONE", "OAUTH" (no passwordHash) or "PASSWORD"
    member,      \* table WorkspaceMember: "NONE", or how the row was made
    invitation,  \* table Invitation: status, not expired, the token it keeps;
                 \* issued: the tokens made for it so far
    request,     \* what each slot is working on
    notices,     \* invitations with an INVITATION_ACCEPTED notice
    faults,
    acceptances  \* for properties: invitation and token of each acceptance

vars == <<account, member, invitation, request, notices, faults, acceptances>>

NoInvite == [status |-> "NONE", fresh |-> TRUE, token |-> 0, issued |-> 0]
Idle == [op |-> "idle"]

TypeOK ==
    /\ account \in {"NONE", "OAUTH", "PASSWORD"}
    /\ member \in {"NONE", "added", "invited"}
    /\ invitation \in [Invites ->
          [status : {"NONE", "PENDING", "ACCEPTED", "REVOKED", "EXPIRED"},
           fresh : BOOLEAN, token : 0..MaxResends, issued : 0..MaxResends]]
    /\ request \in [Slots -> {Idle} \cup [op : {"insert"}] \cup
          [op : {"expire", "account", "notify", "cancel", "resend"}, invite : Invites,
           token : 0..MaxResends]]
    /\ notices \subseteq Invites
    /\ faults \in 0..MaxFaults
    /\ acceptances \subseteq Invites \X (0..MaxResends)

Init ==
    /\ account \in {"NONE", "OAUTH", "PASSWORD"}
    /\ member = "NONE"
    /\ invitation = [i \in Invites |-> NoInvite]
    /\ request = [r \in Slots |-> Idle]
    /\ notices = {} /\ faults = 0 /\ acceptances = {}

At(r, op) == request[r].op = op
Become(r, req) == request' = [request EXCEPT ![r] = req]
Done(r) == Become(r, Idle)
Exists(i) == invitation[i].status # "NONE"
Open(i) == invitation[i].status = "PENDING" /\ invitation[i].fresh

\* create: no membership, no open invitation ...
CheckInvitable(r) ==
    /\ At(r, "idle") /\ member = "NONE" /\ ~\E i \in Invites : Open(i)
    /\ Become(r, [op |-> "insert"])
    /\ UNCHANGED <<account, member, invitation, notices, faults, acceptances>>

\* ... then the insert, and the mail.
InsertInvitation(r) ==
    /\ At(r, "insert")
    /\ \E i \in Invites :
          /\ ~Exists(i) /\ \A j \in 1..(i - 1) : Exists(j)
          /\ invitation' = [invitation EXCEPT ![i].status = "PENDING"]
    /\ Done(r)
    /\ UNCHANGED <<account, member, notices, faults, acceptances>>

\* Seven days pass.
Expires(i) ==
    /\ Exists(i) /\ invitation[i].fresh
    /\ invitation' = [invitation EXCEPT ![i].fresh = FALSE]
    /\ UNCHANGED <<account, member, request, notices, faults, acceptances>>

\* A mailed token leads to the row whose digest it has.
Found(i, k) == Exists(i) /\ k = invitation[i].token

Settled(i) == invitation[i].status \in {"ACCEPTED", "REVOKED"}

\* validate finds the row by the digest of the token and refuses what is settled;
\* what is out of time it marks first.  Then accept goes on.
Validate(r, i, k) ==
    /\ At(r, "idle") /\ Found(i, k) /\ ~Settled(i)
    /\ Become(r, [op |-> IF invitation[i].fresh THEN "account" ELSE "expire",
                  invite |-> i, token |-> k])
    /\ UNCHANGED <<account, member, invitation, notices, faults, acceptances>>

\* The update by id, whatever the row has become.
MarkExpired(r) ==
    /\ At(r, "expire")
    /\ invitation' = [invitation EXCEPT ![request[r].invite].status = "EXPIRED"]
    /\ Done(r)
    /\ UNCHANGED <<account, member, notices, faults, acceptances>>

\* Mutant: the membership is upserted.
Accept_Upsert(r) ==
    LET i == request[r].invite IN
    /\ At(r, "account")
    /\ \/ /\ account # "OAUTH"
          /\ account' = "PASSWORD" /\ member' = "invited"
          /\ invitation' = [invitation EXCEPT ![i].status = "ACCEPTED"]
          /\ acceptances' = acceptances \cup {<<i, request[r].token>>}
          /\ Become(r, [op |-> "notify", invite |-> i, token |-> request[r].token])
       \/ /\ account = "OAUTH"
          /\ Done(r) /\ UNCHANGED <<account, member, invitation, acceptances>>
    /\ UNCHANGED <<notices, faults>>

\* The transaction of accept: a new account, or the password of the one there is;
\* the membership, unique for user and workspace; the row, by id.  An account
\* without a password, and a membership that exists, roll it back.
Accept(r) ==
    LET i == request[r].invite IN
    /\ At(r, "account")
    /\ \/ /\ account # "OAUTH" /\ member = "NONE"
          /\ account' = "PASSWORD" /\ member' = "invited"
          /\ invitation' = [invitation EXCEPT ![i].status = "ACCEPTED"]
          /\ acceptances' = acceptances \cup {<<i, request[r].token>>}
          /\ Become(r, [op |-> "notify", invite |-> i, token |-> request[r].token])
       \/ /\ account = "OAUTH" \/ member # "NONE"
          /\ Done(r) /\ UNCHANGED <<account, member, invitation, acceptances>>
    /\ UNCHANGED <<notices, faults>>

\* Mutant: nobody is told.
NotifyInviter_Lost(r) ==
    /\ At(r, "notify") /\ Done(r)
    /\ UNCHANGED <<account, member, invitation, notices, faults, acceptances>>

\* notifySafely: one notice per invitation; an error is kept to itself.
NotifyInviter(r) ==
    /\ At(r, "notify")
    /\ \/ notices' = notices \cup {request[r].invite} /\ UNCHANGED faults
       \/ faults < MaxFaults /\ faults' = faults + 1 /\ UNCHANGED notices
    /\ Done(r)
    /\ UNCHANGED <<account, member, invitation, acceptances>>

\* cancel reads the row, of which it needs the existence only, and writes by id.
StartCancel(r, i) ==
    /\ At(r, "idle") /\ Exists(i)
    /\ Become(r, [op |-> "cancel", invite |-> i, token |-> 0])
    /\ UNCHANGED <<account, member, invitation, notices, faults, acceptances>>

Cancel(r) ==
    /\ At(r, "cancel")
    /\ invitation' = [invitation EXCEPT ![request[r].invite].status = "REVOKED"]
    /\ Done(r)
    /\ UNCHANGED <<account, member, notices, faults, acceptances>>

\* resend refuses what it reads as accepted, and makes a new token ...
StartResend(r, i) ==
    LET n == invitation[i].issued + 1 IN
    /\ At(r, "idle") /\ Exists(i) /\ invitation[i].status # "ACCEPTED" /\ n <= MaxResends
    /\ invitation' = [invitation EXCEPT ![i].issued = n]
    /\ Become(r, [op |-> "resend", invite |-> i, token |-> n])
    /\ UNCHANGED <<account, member, notices, faults, acceptances>>

\* ... which replaces the old one, with a new time limit and status PENDING.
Resend(r) ==
    /\ At(r, "resend")
    /\ invitation' = [invitation EXCEPT ![request[r].invite] =
          [@ EXCEPT !.status = "PENDING", !.fresh = TRUE, !.token = request[r].token]]
    /\ Done(r)
    /\ UNCHANGED <<account, member, notices, faults, acceptances>>

\* The request ends where it stands: a query fails, a unique index that another
\* request has used in the meantime rolls the transaction back, the server stops.
Fail(r) ==
    /\ request[r] # Idle /\ faults < MaxFaults
    /\ faults' = faults + 1
    /\ Done(r)
    /\ UNCHANGED <<account, member, invitation, notices, acceptances>>

\* UserService.create, and a first sign-in by a provider or by registration.
AddDirectly ==
    /\ member = "NONE"
    /\ member' = "added"
    /\ account' = IF account = "NONE" THEN "OAUTH" ELSE account
    /\ UNCHANGED <<invitation, request, notices, faults, acceptances>>

SignUp(kind) ==
    /\ account = "NONE" /\ account' = kind
    /\ UNCHANGED <<member, invitation, request, notices, faults, acceptances>>

ServerStep(r) ==
    \/ InsertInvitation(r) \/ MarkExpired(r) \/ Accept(r) \/ NotifyInviter(r)
    \/ Cancel(r) \/ Resend(r)

Request(r) ==
    \/ CheckInvitable(r)
    \/ \E i \in Invites, k \in 0..MaxResends : Validate(r, i, k)
    \/ \E i \in Invites : StartCancel(r, i) \/ StartResend(r, i)

Next ==
    \/ \E r \in Slots : Request(r) \/ ServerStep(r) \/ Fail(r)
    \/ \E i \in Invites : Expires(i)
    \/ AddDirectly
    \/ \E kind \in {"OAUTH", "PASSWORD"} : SignUp(kind)

Spec == Init /\ [][Next]_vars

(***************************************************************************)
(* Properties.                                                              *)
(***************************************************************************)

\* However many invitations, tokens and submissions race, with each other and with
\* a direct addition, the person joins once: an acceptance is a membership.
JoinsOnce ==
    /\ Cardinality(acceptances) <= 1
    /\ member = "invited" <=> acceptances # {}

\* The inviter hears of acceptances only, and of every one of them: by now, or from the
\* request that is about to tell him, unless that fails.
InviterTold ==
    /\ notices \subseteq {a[1] : a \in acceptances}
    /\ \A a \in acceptances :
          \/ a[1] \in notices \/ faults > 0
          \/ \E r \in Slots : At(r, "notify") /\ request[r].invite = a[1]
=============================================================================
