---------------------------- MODULE OutsideProofs ----------------------------
(***************************************************************************)
(* What is proved of the parts that MCOutside puts side by side: who joins  *)
(* and who is told, what a removed installation leaves linked, whose        *)
(* summary stays, where the names of branches lead, and the type invariants *)
(* of all.  The sets and bounds of the parts are constants of MCOutside, so *)
(* that the theorems hold for all of them.                                  *)
(***************************************************************************)
EXTENDS MCOutside, Sequences, FiniteSetTheorems, WellFoundedInduction, TLAPS

(***************************************************************************)
(* Invitations: any number of requests, invitations, resends and faults.    *)
(***************************************************************************)

\* Any step but the commit of an acceptance leaves the acceptances alone, and a membership
\* that it makes is not by invitation.
Otherwise ==
    /\ acceptances' = acceptances
    /\ member' = member \/ (member = "NONE" /\ member' = "added")

LEMMA StepCases ==
    ASSUME Next
    PROVE  Otherwise \/ \E r \in Slots : At(r, "account") /\ Accept(r)
<1>1. CASE \E r \in Slots : Request(r)
    BY <1>1 DEF Request, CheckInvitable, Validate, StartCancel, StartResend, Otherwise
<1>2. CASE \E r \in Slots : ServerStep(r)
    BY <1>2 DEF ServerStep, InsertInvitation, MarkExpired, Accept, NotifyInviter, Cancel, Resend,
                Otherwise
<1>3. CASE \E r \in Slots : Fail(r)
    BY <1>3 DEF Fail, Otherwise
<1>4. CASE \E i \in Invites : Expires(i)
    BY <1>4 DEF Expires, Otherwise
<1>5. CASE AddDirectly
    BY <1>5 DEF AddDirectly, Otherwise
<1>6. CASE \E kind \in {"OAUTH", "PASSWORD"} : SignUp(kind)
    BY <1>6 DEF SignUp, Otherwise
<1>7. QED
    BY <1>1, <1>2, <1>3, <1>4, <1>5, <1>6 DEF Next

LEMMA JoinsOnceInit == Init => JoinsOnce
<1> SUFFICES ASSUME Init PROVE JoinsOnce
    OBVIOUS
<1>1. Cardinality(acceptances) = 0
    BY FS_EmptySet DEF Init
<1>2. QED
    BY <1>1 DEF Init, JoinsOnce

LEMMA JoinsOnceStep == JoinsOnce /\ [Next]_vars => JoinsOnce'
<1> SUFFICES ASSUME JoinsOnce, [Next]_vars PROVE JoinsOnce'
    OBVIOUS
<1>1. CASE Otherwise
    <2>1. member' = "invited" <=> member = "invited"
        BY <1>1 DEF Otherwise
    <2>2. QED
        BY <1>1, <2>1 DEF Otherwise, JoinsOnce
<1>2. CASE \E r \in Slots : At(r, "account") /\ Accept(r)
    <2>1. PICK r \in Slots : Accept(r)
        BY <1>2
    <2>2. CASE account # "OAUTH" /\ member = "NONE"
        <3> DEFINE a == <<request[r].invite, request[r].token>>
        <3>1. acceptances = {}
            BY <2>2 DEF JoinsOnce
        <3>2. member' = "invited" /\ acceptances' = {a}
            BY <2>1, <2>2, <3>1 DEF Accept
        <3>3. Cardinality({a}) = 1
            BY FS_Singleton
        <3>4. QED
            BY <3>2, <3>3 DEF JoinsOnce
    <2>3. CASE account = "OAUTH" \/ member # "NONE"
        BY <2>1, <2>3 DEF Accept, JoinsOnce
    <2>4. QED
        BY <2>2, <2>3
<1>3. CASE UNCHANGED vars
    BY <1>3 DEF vars, JoinsOnce
<1>4. QED
    BY <1>1, <1>2, <1>3, StepCases

\* The person joins once, however many invitations, tokens and submissions race: what is
\* accepted is a membership, made by the one transaction that found none (accept).
THEOREM PersonJoinsOnce == Spec => []JoinsOnce
<1>1. Init => JoinsOnce
    BY JoinsOnceInit
<1>2. JoinsOnce /\ [Next]_vars => JoinsOnce'
    BY JoinsOnceStep
<1>3. QED
    BY <1>1, <1>2, PTL DEF Spec

(***************************************************************************)
(* Who is told.                                                             *)
(***************************************************************************)

Notifying(r, i) == At(r, "notify") /\ request[r].invite = i
Accepted(i) == \E a \in acceptances : a[1] = i

\* A request that is about to tell of i has accepted i, and nothing but a fault takes it away.
ToldInv ==
    /\ DOMAIN request = Slots /\ faults \in Nat
    /\ notices \subseteq {a[1] : a \in acceptances}
    /\ \A r \in Slots : At(r, "notify") => Accepted(request[r].invite)
    /\ \A a \in acceptances :
          \/ a[1] \in notices \/ faults > 0
          \/ \E r \in Slots : Notifying(r, a[1])

LEMMA ToldInvInit == Init => ToldInv
BY DEF Init, ToldInv, At, Idle

\* A step after which the same requests are about to tell, or a fault has been counted.
LEMMA SameTold ==
    ASSUME ToldInv, UNCHANGED <<notices, acceptances>>, DOMAIN request' = Slots, faults' \in Nat,
           \/ UNCHANGED faults /\ \A r \in Slots : At(r, "notify") => request'[r] = request[r]
           \/ faults' > 0,
           \A r \in Slots : request'[r].op = "notify" => request'[r] = request[r]
    PROVE  ToldInv'
<1>1. \A r \in Slots : request'[r].op = "notify" => Accepted(request'[r].invite)
    BY DEF ToldInv, At
<1>2. ASSUME NEW a \in acceptances
      PROVE  \/ a[1] \in notices \/ faults' > 0
             \/ \E r \in Slots : request'[r].op = "notify" /\ request'[r].invite = a[1]
    BY DEF ToldInv, Notifying, At
<1>3. QED
    BY <1>1, <1>2 DEF ToldInv, Notifying, At, Accepted

\* A request that neither was about to tell nor is: all others stay as they are.
LEMMA BecomesOther ==
    ASSUME ToldInv, NEW r \in Slots, NEW task, Become(r, task), task.op # "notify",
           request[r].op # "notify", UNCHANGED <<notices, acceptances, faults>>
    PROVE  ToldInv'
<1>1. /\ DOMAIN request' = Slots
      /\ request'[r] = task /\ \A q \in Slots : q # r => request'[q] = request[q]
    BY DEF ToldInv, Become
<1>2. QED
    BY <1>1, SameTold DEF ToldInv, At

LEMMA ToldInvAccept ==
    ASSUME ToldInv, NEW r \in Slots, Accept(r)
    PROVE  ToldInv'
<1> DEFINE i == request[r].invite
<1> DEFINE task == [op |-> "notify", invite |-> i, token |-> request[r].token]
<1>1. CASE Done(r) /\ UNCHANGED acceptances
    BY <1>1, BecomesOther DEF Accept, Done, Idle, At
<1>2. CASE Become(r, task) /\ acceptances' = acceptances \cup {<<i, request[r].token>>}
    <2>1. /\ DOMAIN request' = Slots
          /\ request'[r] = task /\ \A q \in Slots : q # r => request'[q] = request[q]
        BY <1>2 DEF ToldInv, Become
    <2>2. UNCHANGED <<notices, faults>> /\ request[r].op = "account"
        BY DEF Accept, At
    <2>3. ASSUME NEW q \in Slots, request'[q].op = "notify"
          PROVE  \E a \in acceptances' : a[1] = request'[q].invite
        <3>1. CASE q = r
            <4>1. request'[q].invite = i
                BY <2>1, <3>1
            <4>2. <<i, request[r].token>> \in acceptances' /\ <<i, request[r].token>>[1] = i
                BY <1>2
            <4>3. QED
                BY <4>1, <4>2
        <3>2. CASE q # r
            BY <1>2, <2>1, <2>3, <3>2 DEF ToldInv, At, Accepted
        <3>3. QED
            BY <3>1, <3>2
    <2>4. ASSUME NEW a \in acceptances'
          PROVE  \/ a[1] \in notices \/ faults > 0
                 \/ \E q \in Slots : request'[q].op = "notify" /\ request'[q].invite = a[1]
        <3>1. CASE a \in acceptances
            BY <2>1, <2>2, <3>1 DEF ToldInv, Notifying, At
        <3>2. CASE a = <<i, request[r].token>>
            BY <2>1, <3>2
        <3>3. QED
            BY <1>2, <3>1, <3>2
    <2>5. notices \subseteq {a[1] : a \in acceptances'}
        BY <1>2 DEF ToldInv
    <2>6. QED
        BY <2>1, <2>2, <2>3, <2>4, <2>5 DEF ToldInv, Notifying, At, Accepted
<1>3. QED
    BY <1>1, <1>2 DEF Accept

LEMMA ToldInvNotify ==
    ASSUME ToldInv, NEW r \in Slots, NotifyInviter(r)
    PROVE  ToldInv'
<1> DEFINE i == request[r].invite
<1>1. /\ DOMAIN request' = Slots
      /\ request'[r] = Idle /\ \A q \in Slots : q # r => request'[q] = request[q]
    BY DEF NotifyInviter, Done, ToldInv, Become
<1>2. UNCHANGED acceptances /\ request[r].op = "notify"
    BY DEF NotifyInviter, At
<1>3. CASE faults' = faults + 1 /\ UNCHANGED notices
    BY <1>1, <1>2, <1>3, SameTold DEF ToldInv, Idle
<1>4. CASE notices' = notices \cup {i} /\ UNCHANGED faults
    <2>1. notices' \subseteq {a[1] : a \in acceptances}
        BY <1>2, <1>4 DEF ToldInv, At, Accepted
    <2>2. \A q \in Slots : request'[q].op = "notify" => Accepted(request'[q].invite)
        BY <1>1 DEF ToldInv, At, Idle
    <2>3. ASSUME NEW a \in acceptances
          PROVE  \/ a[1] \in notices' \/ faults > 0
                 \/ \E q \in Slots : request'[q].op = "notify" /\ request'[q].invite = a[1]
        BY <1>1, <1>4 DEF ToldInv, Notifying, At
    <2>4. QED
        BY <1>1, <1>2, <1>4, <2>1, <2>2, <2>3 DEF ToldInv, Notifying, At, Accepted
<1>5. QED
    BY <1>3, <1>4 DEF NotifyInviter

LEMMA ToldInvStep == ToldInv /\ [Next]_vars => ToldInv'
<1> SUFFICES ASSUME ToldInv, [Next]_vars PROVE ToldInv'
    OBVIOUS
<1>1. ASSUME NEW r \in Slots, Request(r)
      PROVE  ToldInv'
    BY <1>1, BecomesOther DEF Request, CheckInvitable, Validate, StartCancel, StartResend, At
<1>2. ASSUME NEW r \in Slots, ServerStep(r)
      PROVE  ToldInv'
    <2>1. CASE Accept(r) \/ NotifyInviter(r)
        BY <2>1, ToldInvAccept, ToldInvNotify
    <2>2. CASE InsertInvitation(r) \/ MarkExpired(r) \/ Cancel(r) \/ Resend(r)
        BY <2>2, BecomesOther DEF InsertInvitation, MarkExpired, Cancel, Resend, Done, Idle, At
    <2>3. QED
        BY <1>2, <2>1, <2>2 DEF ServerStep
<1>3. ASSUME NEW r \in Slots, Fail(r)
      PROVE  ToldInv'
    <2>1. /\ DOMAIN request' = Slots
          /\ request'[r] = Idle /\ \A q \in Slots : q # r => request'[q] = request[q]
        BY <1>3 DEF Fail, Done, ToldInv, Become
    <2>2. UNCHANGED <<notices, acceptances>> /\ faults' = faults + 1
        BY <1>3 DEF Fail
    <2>3. QED
        BY <2>1, <2>2, SameTold DEF ToldInv, Idle
<1>4. CASE \/ UNCHANGED vars \/ AddDirectly
           \/ \E i \in Invites : Expires(i)
           \/ \E kind \in {"OAUTH", "PASSWORD"} : SignUp(kind)
    <2>1. UNCHANGED <<request, notices, acceptances, faults>>
        BY <1>4 DEF vars, AddDirectly, Expires, SignUp
    <2>2. QED
        BY <2>1, SameTold DEF ToldInv
<1>5. QED
    BY <1>1, <1>2, <1>3, <1>4 DEF Next

\* The inviter hears of what was accepted and of nothing else (accept, then notifySafely):
\* by now, or from the request that has accepted it, unless a fault came in between.
THEOREM InviterIsTold == Spec => []InviterTold
<1>1. ToldInv => InviterTold
    BY DEF ToldInv, InviterTold, Notifying
<1>2. QED
    BY <1>1, ToldInvInit, ToldInvStep, PTL DEF Spec

(***************************************************************************)
(* Installation: any number of installations, repositories, requests and    *)
(* events.                                                                  *)
(***************************************************************************)

AskingSteps == {"idle", "create", "mark", "save", "uninstall", "unlink", "remove", "link", "done",
          "refused", "crashed"}
AskingFields == [at : AskingSteps, call : App!AllCalls \cup {None}, tenant : Tenants \cup {None},
           nonce : Nonces \cup {None}, inst : Installations \cup {None},
           repo : Repos \cup {None}, uninstalled : BOOLEAN]
\* What is disconnected is an installation.
Asking ==
    {q \in AskingFields : q.at \in {"uninstall", "unlink", "remove"} => q.inst \in Installations}
EventFields == [kind : {"created", "deleted"}, inst : Installations,
          at : {"sent", "sync", "mark", "unlink", "again"}, left : SUBSET Repos]
AppEvent == {e \in EventFields : e.at \in {"mark", "unlink"} => e.kind = "deleted"}
NonceRow == [tenant : Tenants \cup {None}, state : {"none", "fresh", "used", "expired"}]
InstRow == [tenant : Tenants \cup {None}, status : {"ACTIVE", "REMOVED"}]
RepoRow == [inst : Installations \cup {None}, tenant : Tenants \cup {None}, linked : BOOLEAN]

(***************************************************************************)
(* The inductive invariant.                                                 *)
(***************************************************************************)

ReqInv == req \in [Requests -> Asking]
EventsInv == events \subseteq AppEvent
RedirectsInv == redirects \subseteq Nonces \X Installations
NonceInv == nonce \in [Nonces -> NonceRow]
InstInv == inst \in [Installations -> InstRow]
RepoInv == repo \in [Repos -> RepoRow]

InstallTyped == ReqInv /\ EventsInv /\ RedirectsInv /\ NonceInv /\ InstInv /\ RepoInv

\* All that is linked of i was linked by requests that ran during or after a removal.
OnlyLate(i) == \A x \in Repos : repo[x].inst = i /\ repo[x].linked => x \in late

\* A deletion that is being handled, or whose handler failed, will unlink yet.
Unlinking(i) ==
    \E e \in events : e.kind = "deleted" /\ e.inst = i /\ e.at \in {"mark", "unlink", "again"}

\* No attempt finds its installation gone: what an earlier one left is taken up again.
Handled == \A e \in events : e.at # "sent" => inst[e.inst].tenant # None

\* An event marks before it unlinks: until it has unlinked, anything may be linked ...
Marked == \A i \in Installations : inst[i].status = "REMOVED" /\ ~Unlinking(i) => OnlyLate(i)

\* ... a disconnect unlinks before it marks.
Disconnected == \A r \in Requests : App!At(r, "disconnect", "remove") => OnlyLate(req[r].inst)

InstallInv == InstallTyped /\ Handled /\ Marked /\ Disconnected

LEMMA InstallInvInit == App!Init => InstallInv
<1> SUFFICES ASSUME App!Init PROVE InstallInv
    OBVIOUS
<1>1. App!Idle \in Asking
    BY DEF App!Idle, Asking, AskingFields, AskingSteps
<1>2. ReqInv
    BY <1>1 DEF App!Init, ReqInv
<1>3. EventsInv /\ RedirectsInv /\ NonceInv /\ InstInv /\ RepoInv
    BY DEF App!Init, EventsInv, RedirectsInv, NonceInv, NonceRow, InstInv, InstRow, RepoInv, RepoRow
<1>4. Marked
    BY DEF App!Init, Marked, OnlyLate
<1>5. Disconnected
    BY DEF App!Init, Disconnected, OnlyLate
<1>6. Handled
    BY DEF App!Init, Handled
<1>7. QED
    BY <1>2, <1>3, <1>4, <1>5, <1>6 DEF InstallInv, InstallTyped

(***************************************************************************)
(* Requests.                                                                *)
(***************************************************************************)

\* A step of r changes the row of r alone.
OnlyOf(r) == \A q \in Requests : q # r => req'[q] = req[q]

LEMMA BecomesOneAsking ==
    ASSUME ReqInv, NEW r \in Requests, NEW q \in Asking, req' = [req EXCEPT ![r] = q]
    PROVE  ReqInv' /\ OnlyOf(r) /\ req'[r] = q
BY DEF ReqInv, OnlyOf

LEMMA AskingGoesOn ==
    ASSUME ReqInv, NEW r \in Requests, NEW step \in AskingSteps, App!Go(r, step),
           step \in {"uninstall", "unlink", "remove"} => req[r].inst \in Installations
    PROVE  /\ ReqInv' /\ OnlyOf(r) /\ req'[r].at = step
           /\ req'[r].call = req[r].call /\ req'[r].inst = req[r].inst
<1> DEFINE q == [req[r] EXCEPT !.at = step]
<1>1. req' = [req EXCEPT ![r] = q]
    BY DEF App!Go
<1>2. q \in Asking /\ q.at = step /\ q.call = req[r].call /\ q.inst = req[r].inst
    BY DEF ReqInv, Asking, AskingFields
<1>3. QED
    BY <1>1, <1>2, BecomesOneAsking

LEMMA HandledKept ==
    ASSUME InstallTyped, Handled,
           \A i \in Installations : inst[i].tenant # None => inst'[i].tenant # None,
           \A e \in events' :
               e \in events \/ e.at = "sent" \/ (e.inst \in Installations /\ inst[e.inst].tenant # None)
    PROVE  Handled'
<1>1. \A e \in events : e.inst \in Installations
    BY DEF InstallTyped, EventsInv, AppEvent, EventFields
<1>2. QED
    BY <1>1 DEF Handled

\* Nothing of what is linked is at stake.
LEMMA LinksKept ==
    ASSUME Marked, Disconnected, UNCHANGED <<repo, late>>,
           \A i \in Installations : inst'[i].status = "REMOVED" => inst[i].status = "REMOVED",
           \A i \in Installations : inst[i].status = "REMOVED" /\ Unlinking(i) => Unlinking(i)',
           \A r \in Requests : App!At(r, "disconnect", "remove")' =>
               App!At(r, "disconnect", "remove") /\ req'[r].inst = req[r].inst
    PROVE  Marked' /\ Disconnected'
<1>1. \A i : OnlyLate(i)' <=> OnlyLate(i)
    BY DEF OnlyLate
<1>2. Marked'
    BY <1>1 DEF Marked
<1>3. Disconnected'
    BY DEF Disconnected, OnlyLate
<1>4. QED
    BY <1>2, <1>3

\* A call begins: at none of the steps that the invariant speaks of.
LEMMA StartKeeps ==
    ASSUME InstallInv, NEW r \in Requests, NEW call \in App!AllCalls, NEW fields \in Asking,
           fields.at # "remove", App!Start(r, call, fields),
           UNCHANGED <<redirects, events, nonce, inst, repo, late>>
    PROVE  InstallInv'
<1> DEFINE q == [fields EXCEPT !.call = call]
<1>1. q \in Asking /\ q.at = fields.at
    BY DEF Asking, AskingFields
<1>2. req' = [req EXCEPT ![r] = q]
    BY DEF App!Start
<1>3. ReqInv' /\ OnlyOf(r) /\ req'[r] = q
    BY <1>1, <1>2, BecomesOneAsking DEF InstallInv, InstallTyped
<1>4. \A s \in Requests : App!At(s, "disconnect", "remove")' =>
          App!At(s, "disconnect", "remove") /\ req'[s].inst = req[s].inst
    BY <1>1, <1>3 DEF App!At, OnlyOf
<1>5. Marked' /\ Disconnected'
    BY <1>4, LinksKept DEF InstallInv, Unlinking
<1>6. InstallTyped'
    BY <1>3 DEF InstallInv, InstallTyped, EventsInv, RedirectsInv, NonceInv, InstInv, RepoInv
<1>7. Handled'
    BY HandledKept DEF InstallInv
<1>8. QED
    BY <1>5, <1>6, <1>7 DEF InstallInv

LEMMA CallKeeps ==
    ASSUME InstallInv, NEW r \in Requests,
           \/ \E t \in Tenants : App!GetInstallUrl(r, t)
           \/ \E n \in Nonces, i \in Installations : App!ReadState(r, n, i)
           \/ \E i \in Installations : App!Disconnect(r, i)
           \/ \E t \in Tenants, x \in Repos : App!Connect(r, t, x)
    PROVE  InstallInv'
<1>1. ASSUME NEW t \in Tenants, App!GetInstallUrl(r, t)
      PROVE  InstallInv'
    <2> DEFINE fields == [App!Idle EXCEPT !.tenant = t, !.at = "create"]
    <2>1. fields \in Asking /\ fields.at = "create" /\ "url" \in App!AllCalls
        BY DEF App!Idle, Asking, AskingFields, AskingSteps, App!AllCalls
    <2>2. QED
        BY <1>1, <2>1, StartKeeps DEF App!GetInstallUrl, App!external, App!ghosts
<1>2. ASSUME NEW n \in Nonces, NEW i \in Installations, App!ReadState(r, n, i)
      PROVE  InstallInv'
    <2> DEFINE at == IF nonce[n].state = "fresh" THEN "mark" ELSE "refused"
    <2> DEFINE fields == [App!Idle EXCEPT !.nonce = n, !.inst = i, !.tenant = nonce[n].tenant,
    !.at = at]
    <2>1. nonce[n].tenant \in Tenants \cup {None}
        BY DEF InstallInv, InstallTyped, NonceInv, NonceRow
    <2>2. fields \in Asking /\ fields.at # "remove" /\ "callback" \in App!AllCalls
        BY <2>1 DEF App!Idle, Asking, AskingFields, AskingSteps, App!AllCalls
    <2>3. QED
        BY <1>2, <2>2, StartKeeps DEF App!ReadState, App!external, App!ghosts
<1>3. ASSUME NEW i \in Installations, App!Disconnect(r, i)
      PROVE  InstallInv'
    <2> DEFINE fields == [App!Idle EXCEPT !.inst = i, !.at = "uninstall"]
    <2>1. fields \in Asking /\ fields.at = "uninstall" /\ "disconnect" \in App!AllCalls
        BY DEF App!Idle, Asking, AskingFields, AskingSteps, App!AllCalls
    <2>2. QED
        BY <1>3, <2>1, StartKeeps DEF App!Disconnect, App!external, App!ghosts
<1>4. ASSUME NEW t \in Tenants, NEW x \in Repos, App!Connect(r, t, x)
      PROVE  InstallInv'
    <2> DEFINE fields == [App!Idle EXCEPT !.repo = x, !.tenant = t, !.at = "link"]
    <2>1. fields \in Asking /\ fields.at = "link" /\ "connect" \in App!AllCalls
        BY DEF App!Idle, Asking, AskingFields, AskingSteps, App!AllCalls
    <2>2. QED
        BY <1>4, <2>1, StartKeeps DEF App!Connect, App!external, App!ghosts
<1>5. QED
    BY <1>1, <1>2, <1>3, <1>4

(***************************************************************************)
(* The steps of a request.                                                  *)
(***************************************************************************)

LEMMA NonceStepKeeps ==
    ASSUME InstallInv, NEW r \in Requests, App!CreateState(r) \/ App!MarkState(r)
    PROVE  InstallInv'
<1>1. \E step \in {"done", "save"} : App!Go(r, step)
    BY DEF App!CreateState, App!MarkState
<1>2. {"done", "save"} \subseteq AskingSteps \ {"uninstall", "unlink", "remove"}
    BY DEF AskingSteps
<1>3. ReqInv' /\ OnlyOf(r) /\ req'[r].at # "remove"
    BY <1>1, <1>2, AskingGoesOn DEF InstallInv, InstallTyped
<1>4. NonceInv'
    <2>1. CASE App!CreateState(r)
        <3>1. req[r].tenant \in Tenants \cup {None}
            BY DEF InstallInv, InstallTyped, ReqInv, Asking, AskingFields
        <3>2. QED
            BY <2>1, <3>1 DEF App!CreateState, InstallInv, InstallTyped, NonceInv, NonceRow
    <2>2. CASE App!MarkState(r)
        BY <2>2 DEF App!MarkState, InstallInv, InstallTyped, NonceInv, NonceRow
    <2>3. QED
        BY <2>1, <2>2
<1>5. UNCHANGED <<redirects, events, inst, repo, late>>
    BY DEF App!CreateState, App!MarkState, App!external, App!ghosts
<1>6. Marked' /\ Disconnected'
    BY <1>3, <1>5, LinksKept DEF InstallInv, Unlinking, App!At, OnlyOf
<1>7. InstallTyped'
    BY <1>3, <1>4, <1>5 DEF InstallInv, InstallTyped, EventsInv, RedirectsInv, InstInv, RepoInv
<1>8. Handled'
    BY <1>5, HandledKept DEF InstallInv
<1>9. QED
    BY <1>6, <1>7, <1>8 DEF InstallInv

LEMMA SaveInstallationKeeps ==
    ASSUME InstallInv, NEW r \in Requests, App!SaveInstallation(r)
    PROVE  InstallInv'
<1> DEFINE i == req[r].inst
<1> DEFINE saved == [tenant |-> IF App!Known(i) THEN inst[i].tenant ELSE req[r].tenant,
                     status |-> "ACTIVE"]
<1>1. ReqInv' /\ OnlyOf(r) /\ req'[r].at = "done"
    BY AskingGoesOn DEF App!SaveInstallation, AskingSteps, InstallInv, InstallTyped
<1>2. inst' = [inst EXCEPT ![i] = saved]
    BY DEF App!SaveInstallation
<1>3. i \in Installations => saved \in InstRow
    BY DEF InstallInv, InstallTyped, ReqInv, Asking, AskingFields, InstInv, InstRow
<1>4. InstInv'
    BY <1>2, <1>3 DEF InstallInv, InstallTyped, InstInv
<1>5. \A j \in Installations : inst'[j].status = "REMOVED" => inst[j].status = "REMOVED"
    BY <1>2 DEF InstallInv, InstallTyped, InstInv
<1>6. UNCHANGED <<redirects, events, nonce, repo, late>>
    BY DEF App!SaveInstallation, App!external
<1>7. Marked' /\ Disconnected'
    BY <1>1, <1>5, <1>6, LinksKept DEF InstallInv, Unlinking, App!At, OnlyOf
<1>8. InstallTyped'
    BY <1>1, <1>4, <1>6 DEF InstallInv, InstallTyped, EventsInv, RedirectsInv, NonceInv, RepoInv
<1>9. \A j \in Installations : inst[j].tenant # None => inst'[j].tenant # None
    BY <1>2 DEF App!Known, InstallInv, InstallTyped, InstInv
<1>10. Handled'
    BY <1>6, <1>9, HandledKept DEF InstallInv
<1>11. QED
    BY <1>7, <1>8, <1>10 DEF InstallInv

LEMMA UninstallKeeps ==
    ASSUME InstallInv, NEW r \in Requests, App!Uninstall(r)
    PROVE  InstallInv'
<1> DEFINE i == req[r].inst
<1>1. req[r] \in Asking /\ i \in Installations
    BY DEF App!Uninstall, App!At, InstallInv, InstallTyped, ReqInv, Asking
<1>2. PICK answered \in BOOLEAN :
         req' = [req EXCEPT ![r] = [req[r] EXCEPT !.at = "unlink", !.uninstalled = answered]]
    BY DEF App!Uninstall, InstallInv, InstallTyped, ReqInv
<1> DEFINE q == [req[r] EXCEPT !.at = "unlink", !.uninstalled = answered]
<1>3. q \in Asking /\ q.at = "unlink"
    BY <1>1 DEF Asking, AskingFields, AskingSteps
<1>4. ReqInv' /\ OnlyOf(r) /\ req'[r].at = "unlink"
    BY <1>2, <1>3, BecomesOneAsking DEF InstallInv, InstallTyped
<1>5. UNCHANGED <<redirects, nonce, inst, repo, late>>
    BY DEF App!Uninstall, App!ghosts
<1>6. /\ events \subseteq events' /\ EventsInv'
      /\ \A e \in events' : e \in events \/ e.at = "sent"
    <2>1. [kind |-> "deleted", inst |-> i, at |-> "sent", left |-> {}] \in AppEvent
        BY <1>1 DEF AppEvent, EventFields
    <2>2. \/ events' = events
          \/ events' = events \cup {[kind |-> "deleted", inst |-> i, at |-> "sent", left |-> {}]}
        BY DEF App!Uninstall, App!Uninstalls
    <2>3. QED
        BY <2>1, <2>2 DEF InstallInv, InstallTyped, EventsInv
<1>7. Marked' /\ Disconnected'
    BY <1>4, <1>5, <1>6, LinksKept DEF InstallInv, Unlinking, App!At, OnlyOf
<1>8. InstallTyped'
    BY <1>4, <1>5, <1>6 DEF InstallInv, InstallTyped, RedirectsInv, NonceInv, InstInv, RepoInv
<1>9. Handled'
    BY <1>5, <1>6, HandledKept DEF InstallInv
<1>10. QED
    BY <1>7, <1>8, <1>9 DEF InstallInv

\* OnlyLate(i) of what a step leaves.
LateThen(i) == \A x \in Repos : repo'[x].inst = i /\ repo'[x].linked => x \in late'

\* What a removal unlinks is linked no more.
LEMMA UnlinkedNone ==
    ASSUME InstallInv, NEW i, repo' = App!Unlinked(i), UNCHANGED late
    PROVE  RepoInv' /\ LateThen(i) /\ \A j : OnlyLate(j) => LateThen(j)
<1>1. ASSUME NEW x \in Repos
      PROVE  /\ repo'[x] \in RepoRow /\ repo'[x].inst = repo[x].inst
             /\ repo'[x].linked => repo[x].linked /\ repo[x].inst # i
    <2>1. repo[x] \in RepoRow
        BY DEF InstallInv, InstallTyped, RepoInv
    <2>2. repo'[x] = IF repo[x].inst = i THEN [repo[x] EXCEPT !.linked = FALSE] ELSE repo[x]
        BY DEF App!Unlinked
    <2>3. CASE repo[x].inst = i
        BY <2>1, <2>2, <2>3 DEF RepoRow
    <2>4. CASE repo[x].inst # i
        BY <2>1, <2>2, <2>4 DEF RepoRow
    <2>5. QED
        BY <2>3, <2>4
<1>2. repo' = [x \in Repos |-> repo'[x]]
    BY DEF App!Unlinked
<1>3. RepoInv'
    BY <1>1, <1>2, Zenon DEF RepoInv
<1>4. QED
    BY <1>1, <1>3 DEF OnlyLate, LateThen

LEMMA UnlinkReposKeeps ==
    ASSUME InstallInv, NEW r \in Requests, App!UnlinkRepos(r)
    PROVE  InstallInv'
<1> DEFINE i == req[r].inst
<1>1. i \in Installations
    BY DEF App!UnlinkRepos, App!At, InstallInv, InstallTyped, ReqInv, Asking
<1>2. ReqInv' /\ OnlyOf(r) /\ req'[r].inst = i
    BY <1>1, AskingGoesOn DEF App!UnlinkRepos, AskingSteps, InstallInv, InstallTyped
<1>3. UNCHANGED <<redirects, events, nonce, inst, late>> /\ repo' = App!Unlinked(i)
    BY DEF App!UnlinkRepos, App!external, App!ghosts
<1>4. RepoInv' /\ LateThen(i) /\ \A j : OnlyLate(j) => LateThen(j)
    BY <1>3, UnlinkedNone
<1>5. Marked'
    BY <1>3, <1>4 DEF InstallInv, Marked, Unlinking, OnlyLate, LateThen
<1>6. Disconnected'
    <2>1. ASSUME NEW s \in Requests, req'[s].call = "disconnect", req'[s].at = "remove"
          PROVE  LateThen(req'[s].inst)
        <3>1. CASE s = r
            BY <1>2, <1>4, <3>1
        <3>2. CASE s # r
            BY <1>2, <1>4, <2>1, <3>2 DEF OnlyOf, InstallInv, Disconnected, App!At
        <3>3. QED
            BY <3>1, <3>2
    <2>2. QED
        BY <2>1 DEF Disconnected, App!At, OnlyLate, LateThen
<1>7. InstallTyped'
    BY <1>2, <1>3, <1>4 DEF InstallInv, InstallTyped, EventsInv, RedirectsInv, NonceInv, InstInv
<1>8. Handled'
    BY <1>3, HandledKept DEF InstallInv
<1>9. QED
    BY <1>5, <1>6, <1>7, <1>8 DEF InstallInv

LEMMA MarkRemovedKeeps ==
    ASSUME InstallInv, NEW r \in Requests, App!MarkRemoved(r)
    PROVE  InstallInv'
<1> DEFINE i == req[r].inst
<1>1. OnlyLate(i)
    BY DEF App!MarkRemoved, InstallInv, Disconnected
<1>2. ReqInv' /\ OnlyOf(r) /\ req'[r].at = "done"
    BY AskingGoesOn DEF App!MarkRemoved, AskingSteps, InstallInv, InstallTyped
<1>3. UNCHANGED <<redirects, events, nonce, repo, late>>
    BY DEF App!MarkRemoved, App!external, App!ghosts
<1>4. /\ InstInv'
      /\ \A j \in Installations : inst'[j].tenant = inst[j].tenant /\ (j # i => inst'[j] = inst[j])
    BY DEF App!MarkRemoved, InstallInv, InstallTyped, InstInv, InstRow
<1>5. Marked'
    BY <1>1, <1>3, <1>4 DEF InstallInv, Marked, Unlinking, OnlyLate
<1>6. Disconnected'
    BY <1>2, <1>3 DEF InstallInv, Disconnected, App!At, OnlyOf, OnlyLate
<1>7. InstallTyped'
    BY <1>2, <1>3, <1>4 DEF InstallInv, InstallTyped, EventsInv, RedirectsInv, NonceInv, RepoInv
<1>8. Handled'
    BY <1>3, <1>4, HandledKept DEF InstallInv
<1>9. QED
    BY <1>5, <1>6, <1>7, <1>8 DEF InstallInv

\* A link made while the installation is not active, or is being removed, is late.
LEMMA LinkKeeps ==
    ASSUME InstallInv, NEW r \in Requests, App!Link(r)
    PROVE  InstallInv'
<1> DEFINE x == req[r].repo
<1> DEFINE i == repo[x].inst
<1>1. ReqInv' /\ OnlyOf(r) /\ req'[r].at = "done"
    BY AskingGoesOn DEF App!Link, AskingSteps, InstallInv, InstallTyped
<1>2. UNCHANGED <<redirects, events, nonce, inst>>
    BY DEF App!Link, App!external, App!ghosts
<1>3. repo' = [repo EXCEPT ![x].linked = TRUE]
    BY DEF App!Link
<1>4. late' = IF inst[i].status # "ACTIVE" \/ App!Removing(i) THEN late \cup {x} ELSE late \ {x}
    BY DEF App!Link
<1>5. RepoInv'
    BY <1>3 DEF InstallInv, InstallTyped, RepoInv, RepoRow
<1>6. \A y \in Repos : /\ repo'[y].inst = repo[y].inst
                       /\ y # x => repo'[y] = repo[y]
    BY <1>3 DEF InstallInv, InstallTyped, RepoInv, RepoRow
<1>7. ASSUME NEW j, OnlyLate(j),
             x \in Repos /\ j = i => inst[i].status # "ACTIVE" \/ App!Removing(i)
      PROVE  LateThen(j)
    <2>1. ASSUME NEW y \in Repos, repo'[y].inst = j, repo'[y].linked
          PROVE  y \in late'
        <3>1. CASE y = x
            BY <1>4, <1>6, <1>7, <2>1, <3>1
        <3>2. CASE y # x
            BY <1>4, <1>6, <1>7, <2>1, <3>2 DEF OnlyLate
        <3>3. QED
            BY <3>1, <3>2
    <2>2. QED
        BY <2>1 DEF LateThen
<1>8. Marked'
    <2>1. ASSUME NEW j \in Installations, inst[j].status = "REMOVED", ~Unlinking(j)
          PROVE  LateThen(j)
        BY <1>7, <2>1 DEF InstallInv, Marked
    <2>2. QED
        BY <1>2, <2>1 DEF Marked, Unlinking, OnlyLate, LateThen
<1>9. Disconnected'
    <2>1. ASSUME NEW s \in Requests, req'[s].call = "disconnect", req'[s].at = "remove"
          PROVE  LateThen(req'[s].inst)
        <3>1. s # r /\ req'[s] = req[s]
            BY <1>1, <2>1 DEF OnlyOf
        <3>2. OnlyLate(req[s].inst) /\ App!Removing(req[s].inst)
            BY <2>1, <3>1 DEF InstallInv, Disconnected, App!At, App!Removing
        <3>3. QED
            BY <1>7, <3>1, <3>2
    <2>2. QED
        BY <2>1 DEF Disconnected, App!At, OnlyLate, LateThen
<1>10. InstallTyped'
    BY <1>1, <1>2, <1>5 DEF InstallInv, InstallTyped, EventsInv, RedirectsInv, NonceInv, InstInv
<1>11. Handled'
    BY <1>2, HandledKept DEF InstallInv
<1>12. QED
    BY <1>8, <1>9, <1>10, <1>11 DEF InstallInv

LEMMA CrashKeeps ==
    ASSUME InstallInv, NEW r \in Requests, App!Crash(r)
    PROVE  InstallInv'
<1>1. ReqInv' /\ OnlyOf(r) /\ req'[r].at = "crashed"
    BY AskingGoesOn DEF App!Crash, AskingSteps, InstallInv, InstallTyped
<1>2. UNCHANGED <<redirects, events, nonce, inst, repo, late>>
    BY DEF App!Crash, App!external
<1>3. Marked' /\ Disconnected'
    BY <1>1, <1>2, LinksKept DEF InstallInv, Unlinking, App!At, OnlyOf
<1>4. InstallTyped'
    BY <1>1, <1>2 DEF InstallInv, InstallTyped, EventsInv, RedirectsInv, NonceInv, InstInv, RepoInv
<1>5. Handled'
    BY <1>2, HandledKept DEF InstallInv
<1>6. QED
    BY <1>3, <1>4, <1>5 DEF InstallInv

(***************************************************************************)
(* GitHub, and its events.                                                  *)
(***************************************************************************)

\* More events, none of which is being handled.
LEMMA OutsideKeeps ==
    ASSUME InstallInv,
           \/ \E n \in Nonces, i \in Installations : App!Install(n, i) \/ App!Reconfigure(n, i)
           \/ \E i \in Installations : App!UninstallOnGitHub(i)
           \/ \E n \in Nonces : App!Expire(n)
    PROVE  InstallInv'
<1>1. /\ UNCHANGED <<req, inst, repo, late>> /\ events \subseteq events'
      /\ \A e \in events' : e \in events \/ e.at = "sent"
    BY DEF App!Install, App!Reconfigure, App!UninstallOnGitHub, App!Uninstalls, App!Expire,
           App!ghosts, App!external
<1>2. EventsInv'
    <2>1. ASSUME NEW n \in Nonces, NEW i \in Installations, App!Install(n, i)
          PROVE  EventsInv'
        BY <2>1 DEF App!Install, InstallInv, InstallTyped, EventsInv, AppEvent, EventFields
    <2>2. ASSUME NEW i \in Installations, App!UninstallOnGitHub(i)
          PROVE  EventsInv'
        BY <2>2
        DEF App!UninstallOnGitHub, App!Uninstalls, InstallInv, InstallTyped, EventsInv, AppEvent,
            EventFields
    <2>3. CASE UNCHANGED events
        BY <2>3 DEF InstallInv, InstallTyped, EventsInv
    <2>4. QED
        BY <2>1, <2>2, <2>3 DEF App!Reconfigure, App!Expire, App!external
<1>3. RedirectsInv' /\ NonceInv'
    BY DEF App!Install, App!Reconfigure, App!UninstallOnGitHub, App!Expire, App!external,
           InstallInv, InstallTyped, RedirectsInv,
           NonceInv, NonceRow
<1>4. Marked' /\ Disconnected'
    BY <1>1, LinksKept DEF InstallInv, Unlinking, App!At
<1>5. InstallTyped'
    BY <1>1, <1>2, <1>3 DEF InstallInv, InstallTyped, ReqInv, InstInv, RepoInv
<1>6. Handled'
    BY <1>1, HandledKept DEF InstallInv
<1>7. QED
    BY <1>4, <1>5, <1>6 DEF InstallInv

LEMMA FindInstallationKeeps ==
    ASSUME InstallInv, NEW e \in events, App!FindInstallation(e)
    PROVE  InstallInv'
<1>1. UNCHANGED <<redirects, nonce, req, inst, repo, late>>
    BY DEF App!FindInstallation, App!external, App!ghosts
<1>2. e \in AppEvent /\ e.at \in {"sent", "again"}
    BY DEF App!FindInstallation, InstallInv, InstallTyped, EventsInv
<1> DEFINE f == [e EXCEPT !.at = IF e.kind = "created" THEN "sync" ELSE "mark"]
<1>3. /\ f \in AppEvent /\ f.inst = e.inst /\ f.kind = e.kind
      /\ e.kind = "deleted" => f.at = "mark"
    BY <1>2 DEF AppEvent, EventFields
<1>4. \/ events' = (events \ {e}) \cup {f} /\ inst[e.inst].tenant # None
      \/ events' = events \ {e} /\ e.at = "sent"
    BY <1>2 DEF App!FindInstallation, App!Becomes, App!Known, AppEvent, EventFields, InstallInv,
                     Handled
<1> HIDE DEF f
<1>5. /\ EventsInv' /\ \A i \in Installations : Unlinking(i) => Unlinking(i)'
      /\ \A g \in events' : g \in events \/ (g.inst \in Installations /\ inst[g.inst].tenant # None)
    BY <1>2, <1>3, <1>4 DEF InstallInv, InstallTyped, EventsInv, Unlinking, AppEvent, EventFields
<1>6. Marked' /\ Disconnected'
    BY <1>1, <1>5, LinksKept DEF InstallInv, App!At
<1>7. InstallTyped'
    BY <1>1, <1>5 DEF InstallInv, InstallTyped, ReqInv, RedirectsInv, NonceInv, InstInv, RepoInv
<1>8. Handled'
    BY <1>1, <1>5, HandledKept DEF InstallInv
<1>9. QED
    BY <1>6, <1>7, <1>8 DEF InstallInv

LEMMA SyncRepoKeeps ==
    ASSUME InstallInv, NEW e \in events, App!SyncRepo(e)
    PROVE  InstallInv'
<1>1. UNCHANGED <<redirects, nonce, req, inst, late>>
    BY DEF App!SyncRepo, App!external, App!ghosts
<1>2. e \in AppEvent /\ e.at = "sync"
    BY DEF App!SyncRepo, InstallInv, InstallTyped, EventsInv
<1>3. /\ EventsInv' /\ \A i \in Installations : Unlinking(i) => Unlinking(i)'
      /\ \A g \in events' : g \in events \/ (g.inst \in Installations /\ inst[g.inst].tenant # None)
    <2>1. ASSUME NEW x \in e.left
          PROVE  /\ [e EXCEPT !.left = @ \ {x}] \in AppEvent
                 /\ [e EXCEPT !.left = @ \ {x}].inst = e.inst
        BY <1>2 DEF AppEvent, EventFields
    <2>2. \/ events' = events \ {e}
          \/ \E f \in AppEvent : f.inst = e.inst /\ events' = (events \ {e}) \cup {f}
        BY <2>1 DEF App!SyncRepo, App!Becomes
    <2>3. QED
        BY <1>2, <2>2 DEF InstallInv, InstallTyped, Handled, EventsInv, Unlinking, AppEvent,
                          EventFields
<1>4. /\ RepoInv'
      /\ \A y \in Repos : repo'[y] = repo[y] \/ ~repo'[y].linked
    <2>1. CASE repo' = repo
        BY <2>1 DEF InstallInv, InstallTyped, RepoInv
    <2>2. ASSUME NEW x \in e.left,
                 repo' = [repo EXCEPT ![x] = [inst |-> e.inst, tenant |-> inst[e.inst].tenant,
                                              linked |-> FALSE]]
          PROVE  /\ RepoInv'
                 /\ \A y \in Repos : repo'[y] = repo[y] \/ ~repo'[y].linked
        <3>1. e.inst \in Installations /\ inst[e.inst].tenant \in Tenants \cup {None}
            BY <1>2 DEF AppEvent, EventFields, InstallInv, InstallTyped, InstInv, InstRow
        <3>2. QED
            BY <2>2, <3>1 DEF InstallInv, InstallTyped, RepoInv, RepoRow
    <2>3. QED
        BY <2>1, <2>2 DEF App!SyncRepo
<1>5. \A i : OnlyLate(i) => LateThen(i)
    BY <1>1, <1>4 DEF OnlyLate, LateThen
<1>6. Marked'
    BY <1>1, <1>3, <1>5 DEF InstallInv, Marked, OnlyLate, LateThen
<1>7. Disconnected'
    BY <1>1, <1>5 DEF InstallInv, Disconnected, App!At, OnlyLate, LateThen
<1>8. InstallTyped'
    BY <1>1, <1>3, <1>4 DEF InstallInv, InstallTyped, ReqInv, RedirectsInv, NonceInv, InstInv
<1>9. Handled'
    BY <1>1, <1>3, HandledKept DEF InstallInv
<1>10. QED
    BY <1>6, <1>7, <1>8, <1>9 DEF InstallInv

LEMMA EventMarksRemovedKeeps ==
    ASSUME InstallInv, NEW e \in events, App!EventMarksRemoved(e)
    PROVE  InstallInv'
<1>1. UNCHANGED <<redirects, nonce, req, repo, late>>
    BY DEF App!EventMarksRemoved, App!external, App!ghosts
<1>2. e \in AppEvent /\ e.at = "mark"
    BY DEF App!EventMarksRemoved, InstallInv, InstallTyped, EventsInv
<1> DEFINE f == [e EXCEPT !.at = "unlink"]
<1>3. f \in AppEvent /\ f.inst = e.inst /\ f.at = "unlink" /\ f.kind = "deleted"
    BY <1>2 DEF AppEvent, EventFields
<1>4. events' = (events \ {e}) \cup {f}
    BY DEF App!EventMarksRemoved, App!Becomes
<1> HIDE DEF f
<1>5. /\ EventsInv'
      /\ \A i \in Installations : Unlinking(i) \/ i = e.inst => Unlinking(i)'
      /\ \A g \in events' : g \in events \/ (g.inst \in Installations /\ inst[g.inst].tenant # None)
    BY <1>2, <1>3, <1>4 DEF InstallInv, InstallTyped, Handled, EventsInv, Unlinking, AppEvent,
                            EventFields
<1>6. /\ InstInv'
      /\ \A i \in Installations :
            inst'[i].tenant = inst[i].tenant /\ (i # e.inst => inst'[i] = inst[i])
    BY DEF App!EventMarksRemoved, InstallInv, InstallTyped, InstInv, InstRow
<1>7. Marked'
    BY <1>1, <1>5, <1>6 DEF InstallInv, Marked, OnlyLate
<1>8. Disconnected'
    BY <1>1 DEF InstallInv, Disconnected, App!At, OnlyLate
<1>9. InstallTyped'
    BY <1>1, <1>5, <1>6 DEF InstallInv, InstallTyped, ReqInv, RedirectsInv, NonceInv, RepoInv
<1>10. Handled'
    BY <1>5, <1>6, HandledKept DEF InstallInv
<1>11. QED
    BY <1>7, <1>8, <1>9, <1>10 DEF InstallInv

LEMMA EventUnlinksKeeps ==
    ASSUME InstallInv, NEW e \in events, App!EventUnlinks(e)
    PROVE  InstallInv'
<1>1. UNCHANGED <<redirects, nonce, req, inst, late>> /\ repo' = App!Unlinked(e.inst)
    BY DEF App!EventUnlinks, App!external, App!ghosts
<1>2. events' = events \ {e}
    BY DEF App!EventUnlinks
<1>3. RepoInv' /\ LateThen(e.inst) /\ \A j : OnlyLate(j) => LateThen(j)
    BY <1>1, UnlinkedNone
<1>4. \A i \in Installations : Unlinking(i) /\ i # e.inst => Unlinking(i)'
    BY <1>2 DEF Unlinking
<1>5. Marked'
    BY <1>1, <1>3, <1>4 DEF InstallInv, Marked, OnlyLate, LateThen
<1>6. Disconnected'
    BY <1>1, <1>3 DEF InstallInv, Disconnected, App!At, OnlyLate, LateThen
<1>7. InstallTyped'
    BY <1>1, <1>2, <1>3
    DEF InstallInv, InstallTyped, ReqInv, EventsInv, RedirectsInv, NonceInv, InstInv
<1>8. Handled'
    BY <1>1, <1>2, HandledKept DEF InstallInv
<1>9. QED
    BY <1>5, <1>6, <1>7, <1>8 DEF InstallInv

\* Whatever the failed handler had to unlink it has to unlink yet.
LEMMA EventFailsKeeps ==
    ASSUME InstallInv, NEW e \in events, App!EventFails(e)
    PROVE  InstallInv'
<1>1. UNCHANGED <<redirects, nonce, req, inst, repo, late>>
    BY DEF App!EventFails, App!external
<1>2. e \in AppEvent /\ e.at # "sent" /\ e.at # "again"
    BY DEF App!EventFails, InstallInv, InstallTyped, EventsInv
<1> DEFINE left == IF e.kind = "created" THEN Repos ELSE {}
<1> DEFINE f == [e EXCEPT !.at = "again", !.left = left]
<1>3. f \in AppEvent /\ f.inst = e.inst /\ f.kind = e.kind /\ f.at = "again"
    BY <1>2 DEF AppEvent, EventFields
<1>4. events' = (events \ {e}) \cup {f} \/ events' = events \cup {f}
    BY DEF App!EventFails, App!Becomes
<1> HIDE DEF f
<1>5. /\ EventsInv' /\ \A i \in Installations : Unlinking(i) => Unlinking(i)'
      /\ \A g \in events' : g \in events \/ (g.inst \in Installations /\ inst[g.inst].tenant # None)
    BY <1>2, <1>3, <1>4
    DEF InstallInv, InstallTyped, Handled, EventsInv, Unlinking, AppEvent, EventFields
<1>6. Marked' /\ Disconnected'
    BY <1>1, <1>5, LinksKept DEF InstallInv, App!At
<1>7. InstallTyped'
    BY <1>1, <1>5 DEF InstallInv, InstallTyped, ReqInv, RedirectsInv, NonceInv, InstInv, RepoInv
<1>8. Handled'
    BY <1>1, <1>5, HandledKept DEF InstallInv
<1>9. QED
    BY <1>6, <1>7, <1>8 DEF InstallInv

(***************************************************************************)
(* The theorem.                                                             *)
(***************************************************************************)

LEMMA InstallInvNext == InstallInv /\ [App!Next]_(App!vars) => InstallInv'
<1> SUFFICES ASSUME InstallInv, [App!Next]_(App!vars)
             PROVE  InstallInv'
    OBVIOUS
<1>1. ASSUME NEW r \in Requests, App!Step(r) \/ App!Crash(r)
      PROVE  InstallInv'
    BY <1>1, NonceStepKeeps, SaveInstallationKeeps, UninstallKeeps, UnlinkReposKeeps,
       MarkRemovedKeeps, LinkKeeps, CrashKeeps DEF App!Step
<1>2. ASSUME NEW e \in events, App!Handle(e) \/ App!EventFails(e)
      PROVE  InstallInv'
    BY <1>2, FindInstallationKeeps, SyncRepoKeeps, EventMarksRemovedKeeps, EventUnlinksKeeps,
       EventFailsKeeps
    DEF App!Handle
<1>3. CASE UNCHANGED App!vars
    <2>1. UNCHANGED <<redirects, nonce, req, inst, repo, late, events>>
        BY <1>3 DEF App!vars
    <2>2. InstallTyped'
        BY <2>1
        DEF InstallInv, InstallTyped, ReqInv, EventsInv, RedirectsInv, NonceInv, InstInv, RepoInv
    <2>3. Handled' /\ Marked' /\ Disconnected'
        BY <2>1 DEF InstallInv, Handled, Marked, Disconnected, Unlinking, OnlyLate, App!At
    <2>4. QED
        BY <2>2, <2>3 DEF InstallInv
<1>4. QED
    BY <1>1, <1>2, <1>3, CallKeeps, OutsideKeeps DEF App!Next

\* A disconnect unlinks before it marks, an event the other way round.  Whichever of them
\* remove an installation, however they overlap, die half-way, are tried again or are undone
\* by a callback: once none is under way, and no deletion whose handler failed waits to be
\* delivered again, all that is still linked was linked by a request that ran during or
\* after a removal.  So a deletion that is delivered again finishes what the failure left.
THEOREM RemovalUnlinks == App!Spec => []RemovedUnlinked
<1>1. InstallInv => RemovedUnlinked
    BY DEF RemovedUnlinked, InstallInv, Marked, Unlinking, OnlyLate, App!RemovedUnlinked,
           App!Removing, App!Outstanding, App!Gone, App!OfInstallation
<1>2. QED
    BY <1>1, InstallInvInit, InstallInvNext, PTL DEF App!Spec

(***************************************************************************)
(* AiSummary: any number of pull requests, diffs, generations and restarts. *)
(***************************************************************************)

Webhook == [pr : PRs, kind : InSummary!Kinds, diff : Nat]
Generation == [pr : PRs, kind : InSummary!Kinds, hook : Nat,
               at : {"token", "fetch", "review", "save"}, diff : Nat]

SummariesTyped ==
    /\ diff \in [PRs -> Nat] /\ summary \in [PRs -> Nat]
    /\ merged \subseteq PRs /\ hooks \subseteq Webhook /\ jobs \subseteq Generation

\* Nobody has a diff that is not there yet.
DiffsKnown ==
    /\ \A p \in PRs : summary[p] <= diff[p]
    /\ \A j \in jobs : j.diff <= diff[j.pr]

\* The generation for a merge starts after it, and so fetches the diff that stays.
FinalFetched ==
    /\ \A h \in hooks : h.kind = "merged" => h.pr \in merged
    /\ \A j \in jobs : j.kind = "merged" =>
          j.pr \in merged /\ (j.at \in {"review", "save"} => j.diff = diff[j.pr])

\* Once a merge has been summarized there is no further diff, and the summary is of the last,
\* unless an older one was saved over it.
FinishedStays == finished \subseteq merged /\ \A p \in finished \ overtaken : summary[p] = diff[p]

SummaryInv == SummariesTyped /\ DiffsKnown /\ FinalFetched /\ FinishedStays

LEMMA SummaryInit == InSummary!Init => SummaryInv
BY DEF InSummary!Init, SummaryInv, SummariesTyped, DiffsKnown, FinalFetched, FinishedStays

LEMMA PushKeeps ==
    ASSUME SummaryInv, NEW p \in PRs, InSummary!Push(p)
    PROVE  SummaryInv'
<1>1. /\ diff \in [PRs -> Nat] /\ p \notin merged
      /\ diff' = [diff EXCEPT ![p] = diff[p] + 1]
      /\ UNCHANGED <<merged, rows, summary, jobs, finished, overtaken>>
    BY DEF InSummary!Push, SummaryInv, SummariesTyped
<1>2. /\ diff' \in [PRs -> Nat] /\ \A q \in PRs : q # p => diff'[q] = diff[q]
      /\ \A q \in PRs : diff'[q] >= diff[q]
    BY <1>1
<1>3. \E h \in Webhook : h.kind # "merged" /\ hooks' = hooks \cup {h}
    <2> DEFINE h == [pr |-> p, kind |-> IF diff[p] = 0 THEN "opened" ELSE "synchronize",
                     diff |-> diff[p] + 1]
    <2>1. h \in Webhook /\ h.kind # "merged"
        BY <1>1 DEF Webhook, InSummary!Kinds
    <2>2. QED
        BY <2>1 DEF InSummary!Push, InSummary!Sent
<1>4. SummariesTyped'
    BY <1>1, <1>2, <1>3 DEF SummaryInv, SummariesTyped
<1>5. DiffsKnown'
    <2>1. \A j \in jobs : j.pr \in PRs /\ j.diff \in Nat
        BY DEF SummaryInv, SummariesTyped, Generation
    <2>2. QED
        BY <1>1, <1>2, <2>1 DEF SummaryInv, SummariesTyped, DiffsKnown
<1>6. FinalFetched'
    <2>1. \A j \in jobs : j.pr \in PRs
        BY DEF SummaryInv, SummariesTyped, Generation
    <2>2. QED
        BY <1>1, <1>2, <1>3, <2>1 DEF SummaryInv, FinalFetched
<1>7. FinishedStays'
    BY <1>1, <1>2 DEF SummaryInv, SummariesTyped, FinishedStays
<1>8. QED
    BY <1>4, <1>5, <1>6, <1>7 DEF SummaryInv

LEMMA MergeKeeps ==
    ASSUME SummaryInv, NEW p \in PRs, InSummary!Merge(p)
    PROVE  SummaryInv'
<1>1. /\ merged' = merged \cup {p}
      /\ UNCHANGED <<diff, rows, summary, jobs, finished, overtaken>>
    BY DEF InSummary!Merge
<1>2. \E h \in Webhook : h.pr = p /\ hooks' = hooks \cup {h}
    <2> DEFINE h == [pr |-> p, kind |-> "merged", diff |-> diff[p]]
    <2>1. h \in Webhook
        BY DEF Webhook, InSummary!Kinds, SummaryInv, SummariesTyped
    <2>2. QED
        BY <2>1 DEF InSummary!Merge, InSummary!Sent
<1>3. SummariesTyped'
    BY <1>1, <1>2 DEF SummaryInv, SummariesTyped
<1>4. DiffsKnown' /\ FinishedStays'
    BY <1>1 DEF SummaryInv, DiffsKnown, FinishedStays
<1>5. FinalFetched'
    BY <1>1, <1>2 DEF SummaryInv, FinalFetched
<1>6. QED
    BY <1>3, <1>4, <1>5 DEF SummaryInv

LEMMA HandleHookKeeps ==
    ASSUME SummaryInv, NEW h \in hooks, InSummary!HandleHook(h)
    PROVE  SummaryInv'
<1> DEFINE j == InSummary!Job(h)
<1>1. /\ UNCHANGED <<diff, merged, summary, finished, overtaken>> /\ hooks' = hooks \ {h}
      /\ jobs' = jobs \/ jobs' = jobs \cup {j}
    BY DEF InSummary!HandleHook, InSummary!onGitHub
<1>2. h \in Webhook
    BY DEF SummaryInv, SummariesTyped
<1>3. j \in Generation /\ j.pr = h.pr /\ j.kind = h.kind /\ j.at = "token" /\ j.diff = 0
    BY <1>2 DEF Webhook, Generation, InSummary!Job
<1>4. SummariesTyped'
    BY <1>1, <1>3 DEF SummaryInv, SummariesTyped
<1>5. DiffsKnown'
    <2>1. j.diff <= diff[j.pr]
        BY <1>2, <1>3 DEF Webhook, SummaryInv, SummariesTyped
    <2>2. QED
        BY <1>1, <2>1 DEF SummaryInv, DiffsKnown
<1>6. FinalFetched'
    BY <1>1, <1>3 DEF SummaryInv, FinalFetched
<1>7. FinishedStays'
    BY <1>1 DEF SummaryInv, FinishedStays
<1>8. QED
    BY <1>4, <1>5, <1>6, <1>7 DEF SummaryInv

\* A generation goes on: nothing that is stored changes, and for a merge only the final diff
\* is fetched.
LEMMA BecomesKeeps ==
    ASSUME SummaryInv, NEW j \in jobs, NEW k \in Generation, InSummary!Becomes(j, k),
           k.pr = j.pr, k.kind = j.kind, k.diff \in {j.diff, diff[j.pr]},
           k.kind = "merged" /\ k.at \in {"review", "save"} => k.diff = diff[k.pr],
           UNCHANGED <<diff, merged, hooks, summary, finished, overtaken>>
    PROVE  SummaryInv'
<1>1. jobs' = (jobs \ {j}) \cup {k}
    BY DEF InSummary!Becomes
<1>2. j.pr \in PRs /\ diff[j.pr] \in Nat
    BY DEF SummaryInv, SummariesTyped, Generation
<1>3. SummariesTyped'
    BY <1>1 DEF SummaryInv, SummariesTyped
<1>4. DiffsKnown'
    BY <1>1, <1>2 DEF SummaryInv, DiffsKnown
<1>5. FinalFetched'
    BY <1>1 DEF SummaryInv, FinalFetched
<1>6. FinishedStays'
    BY DEF SummaryInv, FinishedStays
<1>7. QED
    BY <1>3, <1>4, <1>5, <1>6 DEF SummaryInv

LEMMA GenerationKeeps ==
    ASSUME SummaryInv, NEW j \in jobs,
           InSummary!GetToken(j) \/ InSummary!FetchDiff(j) \/ InSummary!Review(j)
    PROVE  SummaryInv'
<1>1. /\ j \in Generation /\ diff[j.pr] \in Nat
      /\ UNCHANGED <<diff, merged, hooks, summary, finished, overtaken>>
    BY DEF SummaryInv, SummariesTyped, Generation, InSummary!GetToken, InSummary!FetchDiff,
           InSummary!Review, InSummary!onGitHub
<1>2. CASE InSummary!GetToken(j)
    <2> DEFINE k == [j EXCEPT !.at = "fetch"]
    <2>1. k \in Generation /\ k.pr = j.pr /\ k.kind = j.kind /\ k.diff = j.diff /\ k.at = "fetch"
        BY <1>1 DEF Generation
    <2>2. InSummary!Becomes(j, k)
        BY <1>2 DEF InSummary!GetToken
    <2>3. QED
        BY <1>1, <2>1, <2>2, BecomesKeeps
<1>3. CASE InSummary!FetchDiff(j)
    <2> DEFINE k == [j EXCEPT !.at = "review", !.diff = diff[j.pr]]
    <2>1. k \in Generation /\ k.pr = j.pr /\ k.kind = j.kind /\ k.diff = diff[j.pr]
        BY <1>1 DEF Generation
    <2>2. InSummary!Becomes(j, k)
        BY <1>3 DEF InSummary!FetchDiff
    <2>3. QED
        BY <1>1, <2>1, <2>2, BecomesKeeps
<1>4. CASE InSummary!Review(j)
    <2> DEFINE k == [j EXCEPT !.at = "save"]
    <2>1. k \in Generation /\ k.pr = j.pr /\ k.kind = j.kind /\ k.diff = j.diff
        BY <1>1 DEF Generation
    <2>2. InSummary!Becomes(j, k) /\ j.at = "review"
        BY <1>4 DEF InSummary!Review
    <2>3. k.kind = "merged" => k.diff = diff[k.pr]
        BY <2>1, <2>2 DEF SummaryInv, FinalFetched
    <2>4. QED
        BY <1>1, <2>1, <2>2, <2>3, BecomesKeeps
<1>5. QED
    BY <1>2, <1>3, <1>4

LEMMA SaveSummaryKeeps ==
    ASSUME SummaryInv, NEW j \in jobs, InSummary!SaveSummary(j)
    PROVE  SummaryInv'
<1> DEFINE p == j.pr
<1>1. /\ p \in PRs /\ j.diff \in Nat /\ j.diff <= diff[p] /\ diff[p] \in Nat /\ summary[p] \in Nat
      /\ summary[p] <= diff[p]
      /\ j.kind = "merged" => p \in merged /\ j.diff = diff[p]
    BY DEF SummaryInv, SummariesTyped, DiffsKnown, FinalFetched, Generation, InSummary!SaveSummary
<1>2. /\ jobs' \subseteq jobs /\ UNCHANGED <<diff, merged, hooks>>
      /\ summary' = [summary EXCEPT ![p] = j.diff]
      /\ finished' = IF j.kind = "merged" THEN finished \cup {p} ELSE finished
      /\ overtaken' = IF j.diff < summary[p] THEN overtaken \cup {p}
                      ELSE IF j.diff = diff[p] THEN overtaken \ {p} ELSE overtaken
    BY DEF InSummary!SaveSummary, InSummary!onGitHub
<1>3. /\ summary' \in [PRs -> Nat] /\ summary'[p] = j.diff
      /\ \A q \in PRs : q # p => summary'[q] = summary[q]
    BY <1>1, <1>2 DEF SummaryInv, SummariesTyped
<1>4. SummariesTyped'
    BY <1>2, <1>3 DEF SummaryInv, SummariesTyped
<1>5. DiffsKnown'
    BY <1>1, <1>2, <1>3 DEF SummaryInv, DiffsKnown
<1>6. FinalFetched'
    BY <1>2 DEF SummaryInv, FinalFetched
<1>7. FinishedStays'
    <2>1. finished' \subseteq merged /\ merged \subseteq PRs
        BY <1>1, <1>2 DEF SummaryInv, SummariesTyped, FinishedStays
    <2>2. ASSUME p \in finished' \ overtaken' PROVE j.diff = diff[p]
        <3>1. CASE j.kind = "merged"
            BY <1>1, <3>1
        <3>2. CASE j.kind # "merged" /\ j.diff # diff[p]
            <4>1. p \in finished /\ ~(j.diff < summary[p]) /\ p \notin overtaken
                BY <1>2, <2>2, <3>2
            <4>2. summary[p] = diff[p]
                BY <4>1 DEF SummaryInv, FinishedStays
            <4>3. QED
                BY <1>1, <4>1, <4>2
        <3>3. QED
            BY <3>1, <3>2
    <2>3. \A q \in finished' \ overtaken' : q # p => q \in finished \ overtaken
        BY <1>2
    <2>4. QED
        BY <1>2, <1>3, <2>1, <2>2, <2>3 DEF SummaryInv, FinishedStays
<1>8. QED
    BY <1>4, <1>5, <1>6, <1>7 DEF SummaryInv

LEMMA SummaryNext == SummaryInv /\ [InSummary!Next]_(InSummary!vars) => SummaryInv'
<1> SUFFICES ASSUME SummaryInv, [InSummary!Next]_(InSummary!vars) PROVE SummaryInv'
    OBVIOUS
<1>1. ASSUME jobs' \subseteq jobs, UNCHANGED <<diff, merged, hooks, summary, finished, overtaken>>
      PROVE  SummaryInv'
    BY <1>1 DEF SummaryInv, SummariesTyped, DiffsKnown, FinalFetched, FinishedStays
<1>2. CASE \E j \in jobs : InSummary!Fail(j)
    BY <1>1, <1>2 DEF InSummary!Fail, InSummary!onGitHub
<1>3. CASE InSummary!Restart \/ UNCHANGED InSummary!vars
    BY <1>1, <1>3 DEF InSummary!Restart, InSummary!vars, InSummary!onGitHub
<1>4. QED
    BY <1>2, <1>3, PushKeeps, MergeKeeps, HandleHookKeeps, GenerationKeeps, SaveSummaryKeeps
    DEF InSummary!Next, InSummary!Progress

\* The generation for the merge writes the summary of the diff that stays, however many others
\* run, fail, are lost or end late; only one that had fetched an older diff and ends after
\* it can write over it (generateAndSaveAiSummary).
THEOREM SummaryIsFinal == InSummary!Spec => []FinalUnlessOvertaken
<1>1. SummaryInv => FinalUnlessOvertaken
    BY DEF SummaryInv, FinishedStays, FinalUnlessOvertaken, InSummary!FinalUnlessOvertaken
<1>2. QED
    BY <1>1, SummaryInit, SummaryNext, PTL DEF InSummary!Spec

(***************************************************************************)
(* Branches: any features, bugs, keys and titles, character by character.   *)
(***************************************************************************)

\* A nonempty set of naturals has a least element.
LEMMA LeastOf ==
    ASSUME NEW S \in SUBSET Nat, S # {}
    PROVE  \E x \in S : \A y \in S : x <= y
<1>1. PICK x \in S : \A y \in S : ~(<<y, x>> \in OpToRel(<, Nat))
    BY NatLessThanWellFounded, WFMin
<1>2. \A y \in S : <<y, x>> \in Nat \X Nat /\ (<<y, x>> \in OpToRel(<, Nat) <=> y < x)
    BY DEF OpToRel
<1>3. \A y \in S : x <= y
    <2>1. ASSUME NEW y \in S PROVE ~(y < x)
        BY <1>1, <1>2
    <2>2. QED
        BY <2>1
<1>4. QED
    BY <1>3

\* The greatest of a set of naturals below a bound.
LEMMA MaxOf ==
    ASSUME NEW len \in Nat, NEW S \in SUBSET (0..len), S # {}
    PROVE  InBranches!Max(S) \in S
<1> DEFINE Above == {b \in Nat : \A m \in S : m <= b}
<1>1. Above \in SUBSET Nat /\ len \in Above
    OBVIOUS
<1>2. PICK b \in Above : \A a \in Above : b <= a
    <2> HIDE DEF Above
    <2>1. QED
        BY <1>1, LeastOf
<1>3. b \in S
    <2>1. SUFFICES ASSUME b \notin S PROVE FALSE
        OBVIOUS
    <2>2. PICK m \in S : TRUE
        OBVIOUS
    <2>3. b # 0
        BY <1>2, <2>1, <2>2
    <2>4. \A n \in S : n <= b - 1
        BY <1>2, <2>1
    <2>5. b - 1 \in Above
        BY <1>2, <2>3, <2>4
    <2>6. QED
        BY <1>2, <2>5
<1>4. \A m \in S : b >= m
    BY <1>2
<1>5. QED
    BY <1>3, <1>4 DEF InBranches!Max

\* The least of a set of naturals.
LEMMA MinOf ==
    ASSUME NEW S \in SUBSET Nat, NEW n \in S, \A m \in S : n <= m
    PROVE  InBranches!Min(S) = n
<1>1. \A x \in S : (\A y \in S : x =< y) => x = n
    OBVIOUS
<1>2. QED
    BY <1>1 DEF InBranches!Min

LEMMA MinIn ==
    ASSUME NEW S \in SUBSET Nat, S # {}
    PROVE  InBranches!Min(S) \in S
<1>1. PICK n \in S : \A m \in S : n <= m
    BY LeastOf
<1>2. QED
    BY <1>1 DEF InBranches!Min

Plain == InBranches!Letter \cup InBranches!Digit
BranchChar == InBranches!TitleChar \cup {"/"}
IdKinds == {InBranches!Feature, InBranches!Feat, InBranches!Bug}

\* What the characters are and are not.
LEMMA Chars ==
    /\ \A c \in Plain : c \notin InBranches!Separator /\ c \notin {"-", "_", "/"}
    /\ \A c \in InBranches!Digit : c \notin InBranches!Letter
    /\ InBranches!TitleChar \cap InBranches!Separator = {"-"}
    /\ "-" \in InBranches!Separator /\ "/" \in InBranches!Separator
    /\ InBranches!IdChar \subseteq InBranches!TitleChar
    /\ InBranches!TitleChar = Plain \cup {"-"}
BY DEF Plain, InBranches!Letter, InBranches!Digit, InBranches!TitleChar, InBranches!IdChar,
       InBranches!Separator

\* Of the kinds of branches: their letters, and how each ends.
LEMMA KindsAre ==
    /\ \A k \in InBranches!Kinds : /\ k \in Seq(InBranches!Letter) /\ Len(k) \in 3..7
                                   /\ k[Len(k)] \in InBranches!Letter
    /\ IdKinds \subseteq InBranches!Kinds
    /\ Len(InBranches!Feature) = 7 /\ InBranches!Feature[7] = "e" /\ Len(InBranches!Feat) = 4
    /\ Len(InBranches!Bug) = 3 /\ InBranches!Bug[3] = "g"
BY DEF IdKinds, InBranches!Kinds, InBranches!Feature, InBranches!Feat, InBranches!Bug,
       InBranches!Fix, InBranches!Letter

(***************************************************************************)
(* The name of a branch that is shown, character by character.              *)
(***************************************************************************)

LEMMA SlugIs ==
    ASSUME NEW t \in Titles
    PROVE  /\ InBranches!Slug(t) \in Seq(InBranches!TitleChar)
           /\ Len(InBranches!Slug(t)) <= 40
<1> DEFINE at == {0} \cup {i \in 1..InBranches!MaxSlug : t[i] = "-"}
           hyphen == InBranches!Max(at)
           end == IF hyphen > 13 THEN hyphen - 1 ELSE InBranches!MaxSlug
<1>1. t \in Seq(InBranches!TitleChar) /\ Len(t) \in Nat
    BY OutsideAssumption DEF InBranches!BranchAssumption
<1>2. InBranches!MaxSlug = 40
    BY DEF InBranches!MaxSlug
<1>3. at \in SUBSET (0..40) /\ at # {}
    BY <1>2
<1>4. hyphen \in 0..40
    <2> HIDE DEF at
    <2>1. QED
        BY <1>3, MaxOf
<1>5. end \in 0..40
    <2> HIDE DEF hyphen
    <2>1. QED
        BY <1>2, <1>4
<1>6. InBranches!Slug(t) = IF Len(t) <= 40 THEN t ELSE SubSeq(t, 1, end)
    BY <1>2 DEF InBranches!Slug
<1>7. CASE Len(t) <= 40
    BY <1>1, <1>6, <1>7
<1>8. CASE ~(Len(t) <= 40)
    <2> HIDE DEF end
    <2>1. \A i \in 1..end : t[i] \in InBranches!TitleChar
        BY <1>1, <1>5, <1>8
    <2>2. SubSeq(t, 1, end) \in Seq(InBranches!TitleChar) /\ Len(SubSeq(t, 1, end)) = end
        BY <1>1, <1>5, <1>8
    <2>3. QED
        BY <1>5, <1>6, <1>8, <2>2
<1>9. QED
    BY <1>7, <1>8

\* Words of two or three sequences.
LEMMA Joined ==
    ASSUME NEW u \in Seq(BranchChar), NEW v \in Seq(BranchChar)
    PROVE  /\ u \o v \in Seq(BranchChar) /\ Len(u \o v) = Len(u) + Len(v)
           /\ \A i \in 1..Len(u) : (u \o v)[i] = u[i]
           /\ \A i \in 1..Len(v) : (u \o v)[Len(u) + i] = v[i]
OBVIOUS

LEMMA SubIs ==
    ASSUME NEW s \in Seq(BranchChar), NEW n \in Nat, n = Len(s), NEW i \in Nat, NEW e \in Nat,
           1 <= i, i <= e, e <= n
    PROVE  /\ SubSeq(s, i, e) \in Seq(BranchChar) /\ Len(SubSeq(s, i, e)) = e - i + 1
           /\ \A m \in 1..(e - i + 1) : SubSeq(s, i, e)[m] = s[i + m - 1]
OBVIOUS

LEMMA SameSeq ==
    ASSUME NEW s \in Seq(BranchChar), NEW w \in Seq(BranchChar), NEW n \in Nat,
           Len(s) = n, Len(w) = n, \A m \in 1..n : s[m] = w[m]
    PROVE  s = w
OBVIOUS

LEMMA SeqOf ==
    ASSUME NEW s \in Seq(BranchChar), NEW n \in Nat, Len(s) = n, NEW C, \A m \in 1..n : s[m] \in C
    PROVE  s \in Seq(C)
OBVIOUS

\* "feature/", a key, and a slug if there is one.
Keyed(b, base, number, slug) ==
    /\ base \in Seq(Plain) /\ Len(base) \in Nat /\ 2 <= Len(base) /\ Len(base) <= 10
    /\ base[1] \in InBranches!Letter
    /\ number \in Seq(InBranches!Digit) /\ Len(number) \in Nat /\ Len(number) > 0
    /\ slug \in Seq(InBranches!TitleChar) /\ Len(slug) \in Nat /\ Len(slug) <= 40
    /\ b \in Seq(BranchChar) /\ Len(b) \in Nat
    /\ Len(slug) = 0 => Len(b) = 9 + Len(base) + Len(number)
    /\ Len(slug) > 0 => /\ Len(b) = 10 + Len(base) + Len(number) + Len(slug)
                        /\ b[10 + Len(base) + Len(number)] = "-"
                        /\ \A m \in 1..Len(slug) : b[10 + Len(base) + Len(number) + m] = slug[m]
    /\ \A m \in 1..7 : b[m] = InBranches!Feature[m]
    /\ b[8] = "/" /\ b[9 + Len(base)] = "-"
    /\ \A m \in 1..Len(base) : b[8 + m] = base[m]
    /\ \A m \in 1..Len(number) : b[9 + Len(base) + m] = number[m]

Shown(f, t) == InBranches!FeatureBranchName(f, t)

\* A key: base, hyphen, number.
LEMMA KeyTextIs ==
    ASSUME NEW k, k.base \in Seq(Plain), k.number \in Seq(InBranches!Digit),
           NEW B \in Nat, B = Len(k.base), NEW N \in Nat, N = Len(k.number)
    PROVE  LET key == InBranches!KeyText(k) IN
           /\ key \in Seq(BranchChar) /\ Len(key) = B + 1 + N
           /\ \A m \in 1..B : key[m] = k.base[m]
           /\ key[B + 1] = "-"
           /\ \A m \in 1..N : key[B + 1 + m] = k.number[m]
<1> DEFINE base == k.base
           number == k.number
           u == base \o <<"-">>
<1>1. InBranches!KeyText(k) = u \o number
    BY DEF InBranches!KeyText
<1>2. base \in Seq(BranchChar) /\ number \in Seq(BranchChar) /\ <<"-">> \in Seq(BranchChar)
    <2>1. /\ Plain \subseteq BranchChar /\ InBranches!Digit \subseteq BranchChar
          /\ "-" \in BranchChar
        BY Chars DEF BranchChar, Plain
    <2>2. QED
        BY <2>1
<1> HIDE DEF base, number
<1>3. /\ u \in Seq(BranchChar) /\ Len(u) = Len(base) + 1
      /\ \A m \in 1..Len(base) : u[m] = base[m]
      /\ u[Len(base) + 1] = "-"
    BY <1>2
<1> HIDE DEF u
<1>4. /\ u \o number \in Seq(BranchChar) /\ Len(u \o number) = Len(u) + Len(number)
      /\ \A m \in 1..Len(u) : (u \o number)[m] = u[m]
      /\ \A m \in 1..Len(number) : (u \o number)[Len(u) + m] = number[m]
    BY <1>2, <1>3, Joined
<1>5. B + 1 \in 1..(B + 1) /\ \A m \in 1..B : m \in 1..(B + 1)
    OBVIOUS
<1>6. B = Len(base) /\ N = Len(number)
    BY DEF base, number
<1> DEFINE key == u \o number
<1>7. /\ key \in Seq(BranchChar) /\ Len(key) = B + 1 + N
      /\ \A m \in 1..B : key[m] = base[m]
      /\ key[B + 1] = "-"
      /\ \A m \in 1..N : key[B + 1 + m] = number[m]
    <2> HIDE DEF key
    <2>1. key = u \o number
        BY DEF key
    <2>2. QED
        BY <1>3, <1>4, <1>5, <1>6, <2>1
<1>8. QED
    BY <1>1, <1>7 DEF base, number, key

LEMMA ShownKeyed ==
    ASSUME NEW f \in Features, NEW t \in Titles, KeyOf[f] # None
    PROVE  Keyed(Shown(f, t), KeyOf[f].base, KeyOf[f].number, InBranches!Slug(t))
<1> DEFINE base == KeyOf[f].base
           number == KeyOf[f].number
           slug == InBranches!Slug(t)
           start == InBranches!Feature \o <<"/">>
           key == InBranches!KeyText(KeyOf[f])
           rest == IF slug = <<>> THEN <<>> ELSE <<"-">> \o slug
           b == start \o (key \o rest)
<1>1. /\ base \in Seq(Plain) /\ Len(base) \in Nat /\ 2 <= Len(base) /\ Len(base) <= 10
      /\ base[1] \in InBranches!Letter
      /\ number \in Seq(InBranches!Digit) /\ number # <<>>
    <2>1. /\ base \in Seq(Plain) /\ Len(base) \in 2..10 /\ base[1] \in InBranches!Letter
          /\ number \in Seq(InBranches!Digit) /\ number # <<>>
        BY OutsideAssumption DEF InBranches!BranchAssumption, InBranches!IsKey, Plain
    <2>2. \A n \in 2..10 : n \in Nat /\ 2 <= n /\ n <= 10
        OBVIOUS
    <2>3. QED
        BY <2>1, <2>2, Zenon
<1>2. slug \in Seq(InBranches!TitleChar) /\ Len(slug) \in Nat /\ Len(slug) <= 40
    <2>1. \A s \in Seq(InBranches!TitleChar) : Len(s) \in Nat
        OBVIOUS
    <2>2. slug \in Seq(InBranches!TitleChar) /\ Len(slug) <= 40
        BY SlugIs
    <2> HIDE DEF slug
    <2>3. Len(slug) \in Nat
        BY <2>1, <2>2
    <2>4. QED
        BY <2>2, <2>3
<1>3. Shown(f, t) = b
    BY DEF Shown, InBranches!FeatureBranchName
<1>4. key = (base \o <<"-">>) \o number
    BY DEF InBranches!KeyText
<1> HIDE DEF base, number, slug
<1>5. /\ base \in Seq(BranchChar) /\ number \in Seq(BranchChar) /\ slug \in Seq(BranchChar)
      /\ Len(number) \in Nat /\ Len(number) > 0
    <2>1. \A s \in Seq(Plain) : s \in Seq(BranchChar)
        <3>1. Plain \subseteq BranchChar
            BY Chars DEF BranchChar
        <3>2. QED
            BY <3>1
    <2>2. \A s \in Seq(InBranches!Digit) : s \in Seq(BranchChar)
        <3>1. InBranches!Digit \subseteq BranchChar
            BY Chars DEF BranchChar, Plain
        <3>2. QED
            BY <3>1
    <2>3. \A s \in Seq(InBranches!TitleChar) : s \in Seq(BranchChar)
        <3>1. InBranches!TitleChar \subseteq BranchChar
            BY DEF BranchChar
        <3>2. QED
            BY <3>1
    <2>4. Len(number) \in Nat /\ Len(number) > 0
        BY <1>1
    <2>5. QED
        BY <1>1, <1>2, <2>1, <2>2, <2>3, <2>4
<1>6. <<"-">> \in Seq(BranchChar) /\ <<"/">> \in Seq(BranchChar) /\ <<>> \in Seq(BranchChar)
    <2>1. "-" \in BranchChar /\ "/" \in BranchChar
        BY Chars DEF BranchChar
    <2>2. QED
        BY <2>1
<1>7. /\ start \in Seq(BranchChar) /\ Len(start) = 8 /\ start[8] = "/"
      /\ \A m \in 1..7 : start[m] = InBranches!Feature[m]
    <2>1. InBranches!Feature \in Seq(BranchChar) /\ Len(InBranches!Feature) = 7
        <3>1. InBranches!Feature \in Seq(InBranches!Letter) /\ Len(InBranches!Feature) = 7
            BY KindsAre DEF InBranches!Kinds
        <3>2. InBranches!Letter \subseteq BranchChar
            BY Chars DEF BranchChar, Plain
        <3>3. QED
            BY <3>1, <3>2
    <2>2. DEFINE u == <<"/">>
    <2>3. u \in Seq(BranchChar) /\ Len(u) = 1 /\ u[1] = "/"
        BY <1>6
    <2> HIDE DEF u, start, key, rest, b
    <2>4. /\ InBranches!Feature \o u \in Seq(BranchChar)
          /\ Len(InBranches!Feature \o u) = Len(InBranches!Feature) + Len(u)
          /\ \A i \in 1..Len(InBranches!Feature) :
                (InBranches!Feature \o u)[i] = InBranches!Feature[i]
          /\ \A i \in 1..Len(u) : (InBranches!Feature \o u)[Len(InBranches!Feature) + i] = u[i]
        BY <2>1, <2>3, Joined
    <2>5. start = InBranches!Feature \o u
        BY DEF u, start
    <2>6. QED
        BY <2>1, <2>3, <2>4, <2>5
<1>9. /\ key \in Seq(BranchChar) /\ Len(key) = Len(base) + 1 + Len(number)
      /\ \A m \in 1..Len(base) : key[m] = base[m]
      /\ key[Len(base) + 1] = "-"
      /\ \A m \in 1..Len(number) : key[Len(base) + 1 + m] = number[m]
    <2>1. Len(base) \in Nat /\ Len(number) \in Nat
        BY <1>1, <1>5
    <2>2. QED
        BY <1>1, <2>1, KeyTextIs DEF base, number
<1>10. /\ rest \in Seq(BranchChar)
       /\ Len(slug) = 0 => Len(rest) = 0
       /\ Len(slug) > 0 => /\ Len(rest) = 1 + Len(slug) /\ rest[1] = "-"
                           /\ \A m \in 1..Len(slug) : rest[1 + m] = slug[m]
    <2>1. CASE slug = <<>>
        BY <2>1, <1>6
    <2>2. CASE slug # <<>>
        BY <2>2, <1>2, <1>5, <1>6
    <2>3. QED
        BY <2>1, <2>2
<1> HIDE DEF start, key, rest
<1>11. /\ key \o rest \in Seq(BranchChar) /\ Len(key \o rest) = Len(key) + Len(rest)
       /\ \A i \in 1..Len(key) : (key \o rest)[i] = key[i]
       /\ \A i \in 1..Len(rest) : (key \o rest)[Len(key) + i] = rest[i]
    BY <1>9, <1>10, Joined
<1>12. /\ b \in Seq(BranchChar) /\ Len(b) = 8 + Len(key \o rest)
       /\ \A i \in 1..8 : b[i] = start[i]
       /\ \A i \in 1..Len(key \o rest) : b[8 + i] = (key \o rest)[i]
    <2>1. DEFINE v == key \o rest
    <2>2. v \in Seq(BranchChar)
        BY <1>11
    <2> HIDE DEF v
    <2>3. /\ start \o v \in Seq(BranchChar) /\ Len(start \o v) = Len(start) + Len(v)
          /\ \A i \in 1..Len(start) : (start \o v)[i] = start[i]
          /\ \A i \in 1..Len(v) : (start \o v)[Len(start) + i] = v[i]
        BY <1>7, <2>2, Joined
    <2>4. QED
        BY <1>7, <2>3 DEF v
<1> HIDE DEF b
<1> DEFINE v == key \o rest
<1> HIDE DEF v
<1>13. Len(base) \in Nat /\ Len(number) \in Nat /\ Len(slug) \in Nat /\ Len(rest) \in Nat
    BY <1>1, <1>2, <1>5, <1>10
<1>14. /\ Len(b) = 8 + Len(base) + 1 + Len(number) + Len(rest)
       /\ \A i \in 1..(Len(base) + 1 + Len(number)) : b[8 + i] = key[i]
       /\ \A i \in 1..Len(rest) : b[9 + Len(base) + Len(number) + i] = rest[i]
    <2>1. ASSUME NEW i \in 1..(Len(base) + 1 + Len(number)) PROVE b[8 + i] = key[i]
        <3>1. i \in 1..Len(key) /\ i \in 1..Len(v)
            BY <1>9, <1>10, <1>11, <1>13 DEF v
        <3>2. QED
            BY <1>11, <1>12, <3>1 DEF v
    <2>2. ASSUME NEW i \in 1..Len(rest) PROVE b[9 + Len(base) + Len(number) + i] = rest[i]
        <3>1. b[8 + (Len(key) + i)] = (key \o rest)[Len(key) + i]
            <4>1. Len(key) + i \in 1..Len(v)
                BY <1>9, <1>11, <1>13 DEF v
            <4>2. QED
                BY <1>12, <4>1 DEF v
        <3>2. 8 + (Len(key) + i) = 9 + Len(base) + Len(number) + i
            BY <1>9, <1>13
        <3>3. QED
            BY <1>11, <3>1, <3>2
    <2>3. QED
        BY <1>9, <1>11, <1>12, <1>13, <2>1, <2>2
<1>15. /\ \A m \in 1..Len(base) : b[8 + m] = base[m]
       /\ b[9 + Len(base)] = "-"
    BY <1>9, <1>13, <1>14
<1>16. ASSUME NEW m \in 1..Len(number) PROVE b[9 + Len(base) + m] = number[m]
    <2>1. b[8 + (Len(base) + 1 + m)] = key[Len(base) + 1 + m]
        BY <1>13, <1>14
    <2>2. 8 + (Len(base) + 1 + m) = 9 + Len(base) + m
        BY <1>13
    <2>3. QED
        BY <1>9, <2>1, <2>2
<1>17. ASSUME Len(slug) > 0
       PROVE  /\ Len(b) = 10 + Len(base) + Len(number) + Len(slug)
              /\ b[10 + Len(base) + Len(number)] = "-"
              /\ \A m \in 1..Len(slug) : b[10 + Len(base) + Len(number) + m] = slug[m]
    <2>1. Len(b) = 10 + Len(base) + Len(number) + Len(slug)
        <3>1. Len(rest) = 1 + Len(slug) /\ Len(b) = 8 + Len(base) + 1 + Len(number) + Len(rest)
            BY <1>10, <1>14, <1>17
        <3>2. QED
            BY <1>13, <3>1
    <2>2. b[10 + Len(base) + Len(number)] = "-"
        BY <1>10, <1>13, <1>14, <1>17
    <2>3. ASSUME NEW m \in 1..Len(slug)
          PROVE  b[10 + Len(base) + Len(number) + m] = slug[m]
        <3>1. b[9 + Len(base) + Len(number) + (1 + m)] = rest[1 + m]
            BY <1>10, <1>13, <1>14, <1>17
        <3>2. 9 + Len(base) + Len(number) + (1 + m) = 10 + Len(base) + Len(number) + m
            BY <1>13
        <3>3. QED
            BY <1>10, <1>17, <3>1, <3>2
    <2>4. QED
        BY <2>1, <2>2, <2>3
<1>18. Len(b) \in Nat
    BY <1>12
<1>19. Len(slug) = 0 => Len(b) = 9 + Len(base) + Len(number)
    BY <1>10, <1>13, <1>14
<1>20. Keyed(b, base, number, slug)
    <2>1. b[8] = "/" /\ \A m \in 1..7 : b[m] = InBranches!Feature[m]
        BY <1>7, <1>12
    <2>2. b \in Seq(BranchChar)
        BY <1>12
    <2>3. QED
        BY <1>1, <1>2, <1>5, <1>15, <1>16, <1>17, <1>18, <1>19, <2>1, <2>2, Zenon DEF Keyed
<1>21. QED
    BY <1>3, <1>20 DEF base, number, slug

(***************************************************************************)
(* What is read out of it.                                                  *)
(***************************************************************************)

\* Where an id is read in the branch of a feature with a key: right after "feature/", after
\* a base that ends in a kind, or after the "bug-" that opens a slug of forty characters.
LEMMA IdPlaces ==
    ASSUME NEW b, NEW base, NEW number, NEW slug, Keyed(b, base, number, slug),
           NEW kind \in IdKinds, NEW i \in InBranches!After(b, {kind}), InBranches!IdAt(b, i)
    PROVE  \/ i = 9
           \/ i = 10 + Len(base) /\ InBranches!EndsAt(base, Len(base), kind)
           \/ /\ i = 15 + Len(base) + Len(number) /\ Len(slug) = 40
              /\ slug[4] = "-" /\ InBranches!EndsAt(slug, 3, InBranches!Bug)
<1>1. PICK B \in Nat, N \in Nat, S \in Nat, n \in Nat, k \in Nat :
          B = Len(base) /\ N = Len(number) /\ S = Len(slug) /\ n = Len(b) /\ k = Len(kind)
    <2>1. Len(kind) \in Nat
        BY KindsAre
    <2>2. QED
        BY <2>1 DEF Keyed
<1>nat. B \in Nat /\ N \in Nat /\ S \in Nat /\ n \in Nat /\ k \in Nat
    BY <1>1
<1>2. /\ 3 <= k /\ k <= 7 /\ kind[k] \in InBranches!Letter
      /\ \A m \in 1..k : kind[m] \in InBranches!Letter
    <2>1. /\ kind \in Seq(InBranches!Letter) /\ Len(kind) \in 3..7
          /\ kind[Len(kind)] \in InBranches!Letter
        BY KindsAre
    <2>2. \A x \in 3..7 : 3 <= x /\ x <= 7
        OBVIOUS
    <2>3. 3 <= k /\ k <= 7
        BY <1>1, <2>1, <2>2, Zenon
    <2>4. QED
        BY <1>1, <2>1, <2>3
<1>3. /\ 2 <= B /\ B <= 10 /\ N > 0 /\ S <= 40
      /\ S = 0 => n = 9 + B + N
      /\ S > 0 => n = 10 + B + N + S /\ b[10 + B + N] = "-"
                  /\ \A m \in 1..S : b[10 + B + N + m] = slug[m]
      /\ \A m \in 1..7 : b[m] = InBranches!Feature[m]
      /\ b[8] = "/" /\ b[9 + B] = "-"
      /\ \A m \in 1..B : b[8 + m] = base[m]
      /\ \A m \in 1..N : b[9 + B + m] = number[m]
    BY <1>1 DEF Keyed
<1>4. /\ \A m \in 1..7 : b[m] \in Plain
      /\ \A m \in 1..B : base[m] \in Plain
      /\ \A m \in 1..N : number[m] \in InBranches!Digit
      /\ \A m \in 1..S : slug[m] \in InBranches!TitleChar
    <2>1. \A m \in 1..7 : b[m] \in InBranches!Letter
        <3>1. \A m \in 1..7 : InBranches!Feature[m] \in InBranches!Letter
            BY DEF InBranches!Feature, InBranches!Letter
        <3>2. QED
            BY <1>3, <3>1
    <2>2. \A m \in 1..B : base[m] \in Plain
        BY <1>1 DEF Keyed
    <2>3. \A m \in 1..N : number[m] \in InBranches!Digit
        BY <1>1 DEF Keyed
    <2>4. \A m \in 1..S : slug[m] \in InBranches!TitleChar
        BY <1>1 DEF Keyed
    <2>5. QED
        BY <2>1, <2>2, <2>3, <2>4 DEF Plain
<1>5. /\ i \in Nat /\ 3 <= i /\ i <= n /\ b[i - 1] \in InBranches!Separator
      /\ k <= i - 2 /\ \A m \in 1..k : b[i - 2 - k + m] = kind[m]
      /\ i + 35 <= n
    <2>1. i \in 3..n /\ b[i - 1] \in InBranches!Separator /\ InBranches!EndsAt(b, i - 2, kind)
        BY <1>1 DEF InBranches!After
    <2>2. k <= i - 2 /\ \A m \in 1..k : b[i - 2 - k + m] = kind[m]
        BY <1>1, <2>1 DEF InBranches!EndsAt
    <2>3. i + 35 <= n
        BY <1>1 DEF InBranches!IdAt
    <2>4. QED
        BY <2>1, <2>2, <2>3
<1>6. \A c \in Plain : c \notin InBranches!Separator
    BY Chars
<1>7. \A m \in 1..k : kind[m] \notin InBranches!Separator /\ kind[m] \notin InBranches!Digit
    BY <1>2, Chars DEF Plain
<1>8. "-" \in InBranches!Separator /\ "/" \in InBranches!Separator
    BY Chars
<1> DEFINE p == i - 1
<1>9. ASSUME p < 8 PROVE FALSE
    <2>1. p \in 1..7
        BY <1>5, <1>9
    <2>2. QED
        BY <1>4, <1>5, <1>6, <2>1
<1>10. ASSUME 8 < p, p < 9 + B PROVE FALSE
    <2>1. p - 8 \in 1..B /\ b[8 + (p - 8)] = b[p]
        BY <1>5, <1>10
    <2>2. b[p] \in Plain
        BY <1>3, <1>4, <2>1
    <2>3. QED
        BY <1>5, <1>6, <2>2
<1>11. ASSUME p = 9 + B PROVE i = 10 + B /\ InBranches!EndsAt(base, B, kind)
    <2>1. i = 10 + B
        BY <1>5, <1>11
    <2>2. k <= B
        <3>1. SUFFICES ASSUME k > B PROVE FALSE
            BY <1>1
        <3>2. k - B \in 1..k /\ 8 + B - k + (k - B) = 8
            BY <1>1, <3>1
        <3>3. b[8] = kind[k - B]
            BY <1>5, <2>1, <3>2
        <3>4. QED
            BY <1>3, <1>7, <1>8, <3>2, <3>3
    <2>3. ASSUME NEW m \in 1..k PROVE base[B - k + m] = kind[m]
        <3>1. B - k + m \in 1..B /\ 8 + (B - k + m) = i - 2 - k + m
            BY <1>1, <2>1, <2>2
        <3>2. b[8 + (B - k + m)] = base[B - k + m]
            BY <1>3, <3>1
        <3>3. QED
            BY <1>5, <3>1, <3>2
    <2>4. QED
        BY <1>1, <2>1, <2>2, <2>3 DEF InBranches!EndsAt
<1>12. ASSUME 9 + B < p, p < 10 + B + N PROVE FALSE
    <2>1. p - 9 - B \in 1..N /\ 9 + B + (p - 9 - B) = p
        BY <1>5, <1>12
    <2>2. b[p] \in InBranches!Digit
        BY <1>3, <1>4, <2>1
    <2>3. QED
        BY <1>5, <1>6, <2>2 DEF Plain
<1>13. ASSUME p = 10 + B + N PROVE FALSE
    <2>1. i = 11 + B + N /\ k \in 1..k /\ N \in 1..N
        <3>1. 3 <= k /\ N > 0 /\ i = 11 + B + N
            BY <1>nat, <1>2, <1>3, <1>5, <1>13
        <3>2. QED
            BY <1>nat, <3>1
    <2>2. b[i - 2 - k + k] = kind[k] /\ i - 2 - k + k = 9 + B + N
        <3>1. i - 2 - k + k = 9 + B + N
            BY <1>nat, <2>1
        <3>2. QED
            BY <1>5, <2>1, <3>1
    <2>3. b[9 + B + N] \in InBranches!Digit
        BY <1>3, <1>4, <2>1
    <2>4. QED
        BY <1>7, <2>1, <2>2, <2>3
<1>14. ASSUME p > 10 + B + N
       PROVE  /\ i = 15 + B + N /\ S = 40 /\ slug[4] = "-"
              /\ InBranches!EndsAt(slug, 3, InBranches!Bug)
    <2>1. S > 0 /\ n = 10 + B + N + S
        BY <1>3, <1>5, <1>14
    <2>2. PICK j \in Nat : i = 11 + B + N + j /\ 1 <= j
        <3>1. i \in Nat /\ i > 11 + B + N
            BY <1>nat, <1>5, <1>14
        <3>2. i - 11 - B - N \in Nat /\ i = 11 + B + N + (i - 11 - B - N) /\ 1 <= i - 11 - B - N
            BY <1>nat, <3>1
        <3>3. QED
            BY <3>2
    <2>3. j + 36 <= S
        BY <1>nat, <1>5, <2>1, <2>2
    <2>4. k <= j - 1
        <3>1. SUFFICES ASSUME k > j - 1 PROVE FALSE
            BY <1>1, <2>2
        <3>2. k - (j - 1) \in 1..k /\ i - 2 - k + (k - (j - 1)) = 10 + B + N
            BY <1>1, <2>2, <3>1
        <3>3. b[10 + B + N] = kind[k - (j - 1)]
            BY <1>5, <3>2
        <3>4. QED
            BY <1>3, <1>7, <1>8, <2>1, <3>2, <3>3
    <2>5. j = 4 /\ k = 3 /\ S = 40
        <3>1. 3 <= k /\ S <= 40
            BY <1>2, <1>3
        <3>2. QED
            BY <1>nat, <2>2, <2>3, <2>4, <3>1
    <2>6. kind = InBranches!Bug
        <3>1. Len(kind) = 3
            BY <1>1, <2>5
        <3>2. \A x \in IdKinds : x = InBranches!Bug \/ Len(x) = 7 \/ Len(x) = 4
            BY KindsAre DEF IdKinds
        <3>3. QED
            BY <3>1, <3>2
    <2>7. slug[4] = "-"
        <3>1. b[10 + B + N + 4] = slug[4] /\ b[i - 1] = slug[4]
            BY <1>3, <2>1, <2>2, <2>5
        <3>2. slug[4] \in InBranches!TitleChar
            BY <1>4, <2>5
        <3>3. QED
            BY <1>5, <3>1, <3>2, Chars
    <2>8. ASSUME NEW m \in 1..3 PROVE slug[m] = kind[m]
        <3>1. m \in 1..S /\ m \in 1..k /\ i - 2 - k + m = 10 + B + N + m
            BY <2>2, <2>5
        <3>2. b[10 + B + N + m] = slug[m] /\ b[i - 2 - k + m] = kind[m]
            BY <1>3, <1>5, <2>1, <3>1
        <3>3. QED
            BY <3>1, <3>2
    <2>9. InBranches!EndsAt(slug, 3, InBranches!Bug)
        <3>1. Len(InBranches!Bug) = 3
            BY KindsAre
        <3>2. \A m \in 1..3 : slug[3 - 3 + m] = InBranches!Bug[m]
            BY <2>6, <2>8
        <3>3. QED
            BY <3>1, <3>2 DEF InBranches!EndsAt
    <2>10. QED
        BY <2>2, <2>5, <2>7, <2>9
<1>15. CASE p = 8
    BY <1>5, <1>15
<1>16. CASE p = 9 + B
    BY <1>1, <1>11, <1>16
<1>17. CASE p > 10 + B + N
    BY <1>1, <1>14, <1>17
<1>18. p = 8 \/ p = 9 + B \/ p > 10 + B + N
    BY <1>5, <1>9, <1>10, <1>12, <1>13
<1>19. QED
    BY <1>15, <1>16, <1>17, <1>18

\* The slug opens with n characters of ids.
Opens(slug, n) == Len(slug) >= n /\ \A m \in 1..n : slug[m] \in InBranches!IdChar

\* If an id is read from i on, right behind the first d characters of key and hyphen, then the
\* slug makes up what lacks.
LEMMA SlugOpens ==
    ASSUME NEW b, NEW base, NEW number, NEW slug, Keyed(b, base, number, slug),
           NEW i \in Nat, NEW d \in Nat, InBranches!IdAt(b, i),
           i + d = 10 + Len(base) + Len(number), d > 0
    PROVE  Opens(slug, 35 - d)
<1>1. PICK B \in Nat, N \in Nat, S \in Nat, n \in Nat :
          B = Len(base) /\ N = Len(number) /\ S = Len(slug) /\ n = Len(b)
    BY DEF Keyed
<1>2. B \in Nat /\ N \in Nat /\ S \in Nat /\ n \in Nat /\ i + d = 10 + B + N
    BY <1>1
<1>3. /\ S = 0 => n = 9 + B + N
      /\ S > 0 => n = 10 + B + N + S /\ \A m \in 1..S : b[10 + B + N + m] = slug[m]
    BY <1>1 DEF Keyed
<1>4. i + 35 <= n /\ \A j \in i..(i + 35) : b[j] \in InBranches!IdChar
    BY <1>1 DEF InBranches!IdAt
<1>5. S >= 35 - d
    BY <1>2, <1>3, <1>4
<1>6. ASSUME NEW m \in 1..(35 - d) PROVE slug[m] \in InBranches!IdChar
    <2>1. S > 0 /\ m \in 1..S
        BY <1>2, <1>5
    <2>2. 10 + B + N + m \in i..(i + 35)
        BY <1>2
    <2>3. QED
        BY <1>3, <1>4, <2>1, <2>2
<1>7. QED
    BY <1>1, <1>5, <1>6 DEF Opens

LEMMA NoIdRead ==
    ASSUME NEW f \in Features, NEW t \in Titles, KeyOf[f] # None,
           ~InBranches!Misleading(f, t), NEW kind \in IdKinds
    PROVE  InBranches!IdAfter(Shown(f, t), kind) = None
<1> DEFINE b == Shown(f, t)
           base == KeyOf[f].base
           number == KeyOf[f].number
           slug == InBranches!Slug(t)
           hits == {i \in InBranches!After(b, {kind}) : InBranches!IdAt(b, i)}
<1>1. Keyed(b, base, number, slug)
    BY ShownKeyed
<1>2. PICK B \in Nat, N \in Nat, n \in Nat : B = Len(base) /\ N = Len(number) /\ n = Len(b)
    <2> HIDE DEF b, base, number, slug
    <2>1. QED
        BY <1>1 DEF Keyed
<1>3. Len(InBranches!KeyText(KeyOf[f])) = B + 1 + N
    <2>1. base \in Seq(Plain) /\ number \in Seq(InBranches!Digit)
        BY <1>1 DEF Keyed
    <2>2. QED
        BY <1>2, <2>1, KeyTextIs
<1> HIDE DEF b, base, number, slug
<1>4. hits = {}
    <2>1. SUFFICES ASSUME NEW i \in InBranches!After(b, {kind}), InBranches!IdAt(b, i)
                   PROVE  InBranches!Misleading(f, t)
        OBVIOUS
    <2>2. \/ i = 9
          \/ i = 10 + Len(base) /\ InBranches!EndsAt(base, Len(base), kind)
          \/ /\ i = 15 + Len(base) + Len(number) /\ Len(slug) = 40
             /\ slug[4] = "-" /\ InBranches!EndsAt(slug, 3, InBranches!Bug)
        BY <1>1, <2>1, IdPlaces, Zenon
    <2>3. /\ B \in Nat /\ N \in Nat /\ n \in Nat /\ B <= 10 /\ N > 0
        BY <1>1, <1>2 DEF Keyed
    <2>4. i + 35 <= n /\ \A j \in i..(i + 35) : b[j] \in InBranches!IdChar
        BY <1>2, <2>1 DEF InBranches!IdAt
    <2>5. CASE i = 9
        <3>1. Opens(slug, 35 - (B + 1 + N))
            <4>1. i \in Nat /\ B + 1 + N \in Nat /\ B + 1 + N > 0 /\ i + (B + 1 + N) = 10 + B + N
                BY <2>3, <2>5
            <4>2. QED
                BY <1>1, <1>2, <2>1, <4>1, SlugOpens
        <3>2. ASSUME NEW m \in 1..B PROVE base[m] \in InBranches!IdChar
            <4>1. b[8 + m] = base[m]
                BY <1>1, <1>2 DEF Keyed
            <4>2. 8 + m \in i..(i + 35)
                BY <2>3, <2>5
            <4>3. QED
                BY <2>4, <4>1, <4>2
        <3>3. QED
            BY <1>2, <1>3, <3>1, <3>2 DEF InBranches!Misleading, Opens, base, number, slug
    <2>6. CASE i = 10 + Len(base) /\ InBranches!EndsAt(base, Len(base), kind)
        <3>1. Opens(slug, 35 - N)
            <4>1. i \in Nat /\ i + N = 10 + B + N
                BY <1>2, <2>3, <2>6
            <4>2. QED
                BY <1>1, <1>2, <2>1, <2>3, <4>1, SlugOpens
        <3>2. QED
            BY <1>2, <2>6, <3>1 DEF InBranches!Misleading, Opens, base, number, slug, IdKinds
    <2>7. CASE /\ i = 15 + Len(base) + Len(number) /\ Len(slug) = 40
               /\ slug[4] = "-" /\ InBranches!EndsAt(slug, 3, InBranches!Bug)
        <3>1. ASSUME NEW m \in 5..40 PROVE slug[m] \in InBranches!IdChar
            <4>1. b[10 + B + N + m] = slug[m]
                <5>1. \A l \in 1..Len(slug) : b[10 + Len(base) + Len(number) + l] = slug[l]
                    <6>1. 40 > 0
                        OBVIOUS
                    <6>2. Len(slug) > 0
                        BY <2>7, <6>1, Zenon
                    <6>3. QED
                        BY <1>1, <6>2, Zenon DEF Keyed
                <5>2. m \in 1..40
                    OBVIOUS
                <5>3. QED
                    BY <1>2, <2>7, <5>1, <5>2
            <4>2. i = 15 + B + N /\ 10 + B + N + m \in i..(i + 35)
                BY <1>2, <2>3, <2>7
            <4>3. QED
                BY <2>4, <4>1, <4>2
        <3>2. QED
            BY <2>7, <3>1 DEF InBranches!Misleading, slug
    <2>8. QED
        BY <2>2, <2>5, <2>6, <2>7
<1>5. QED
    BY <1>4 DEF InBranches!IdAfter, b

\* The key is read right after "feature/", and whole.
LEMMA KeyRead ==
    ASSUME NEW f \in Features, NEW t \in Titles, KeyOf[f] # None
    PROVE  InBranches!KeyAfter(Shown(f, t)) = InBranches!KeyText(KeyOf[f])
<1> DEFINE b == Shown(f, t)
           base == KeyOf[f].base
           number == KeyOf[f].number
           slug == InBranches!Slug(t)
           hits == {i \in InBranches!After(b, InBranches!Kinds) : InBranches!KeyEnds(b, i) # {}}
<1>1. Keyed(b, base, number, slug)
    BY ShownKeyed
<1> HIDE DEF b, slug
<1>2. PICK B \in Nat, N \in Nat, S \in Nat, n \in Nat :
          B = Len(base) /\ N = Len(number) /\ S = Len(slug) /\ n = Len(b)
    <2> HIDE DEF base, number
    <2>1. QED
        BY <1>1 DEF Keyed
<1>3. B \in Nat /\ N \in Nat /\ S \in Nat /\ n \in Nat
    BY <1>2
<1>nat. /\ 2 <= B /\ B <= 10 /\ N > 0 /\ n >= 9 + B + N
        /\ n > 9 + B + N => n >= 10 + B + N /\ b[10 + B + N] = "-"
    <2> HIDE DEF base, number
    <2>1. 2 <= B /\ B <= 10 /\ N > 0
        BY <1>1, <1>2 DEF Keyed
    <2>2. /\ S = 0 => n = 9 + B + N
          /\ S > 0 => n = 10 + B + N + S /\ b[10 + B + N] = "-"
        BY <1>1, <1>2 DEF Keyed
    <2>3. QED
        BY <1>3, <2>1, <2>2
<1>4. /\ \A m \in 1..7 : b[m] = InBranches!Feature[m]
      /\ b[8] = "/" /\ b[9 + B] = "-"
      /\ \A m \in 1..B : b[8 + m] = base[m]
      /\ \A m \in 1..N : b[9 + B + m] = number[m]
    <2> HIDE DEF base, number
    <2>1. QED
        BY <1>1, <1>2 DEF Keyed
<1>5. /\ \A m \in 1..B : base[m] \in Plain
      /\ base[1] \in InBranches!Letter
      /\ \A m \in 1..N : number[m] \in InBranches!Digit
      /\ base \in Seq(Plain) /\ number \in Seq(InBranches!Digit) /\ b \in Seq(BranchChar)
    <2> HIDE DEF base, number
    <2>1. base \in Seq(Plain) /\ number \in Seq(InBranches!Digit) /\ b \in Seq(BranchChar)
          /\ base[1] \in InBranches!Letter
        BY <1>1 DEF Keyed
    <2>2. QED
        BY <1>2, <2>1
<1>6. /\ \A j \in 10..(8 + B) : b[j] \in Plain
      /\ b[9] \in InBranches!Letter
      /\ \A j \in (10 + B)..(9 + B + N) : b[j] \in InBranches!Digit
    <2> HIDE DEF base, number
    <2>1. ASSUME NEW j \in 10..(8 + B) PROVE b[j] \in Plain
        <3>1. j - 8 \in 1..B /\ 8 + (j - 8) = j
            BY <1>3
        <3>2. b[8 + (j - 8)] = base[j - 8]
            BY <1>4, <3>1
        <3>3. QED
            BY <1>5, <3>1, <3>2
    <2>2. b[9] \in InBranches!Letter
        <3>1. 1 \in 1..B /\ 8 + 1 = 9
            BY <1>3, <1>nat
        <3>2. QED
            BY <1>4, <1>5, <3>1
    <2>3. ASSUME NEW j \in (10 + B)..(9 + B + N) PROVE b[j] \in InBranches!Digit
        <3>1. j - 9 - B \in 1..N /\ 9 + B + (j - 9 - B) = j
            BY <1>3
        <3>2. b[9 + B + (j - 9 - B)] = number[j - 9 - B]
            BY <1>4, <3>1
        <3>3. QED
            BY <1>5, <3>1, <3>2
    <2>4. QED
        BY <2>1, <2>2, <2>3
<1> HIDE DEF base, number
<1>7. 9 \in InBranches!After(b, InBranches!Kinds)
    <2>1. InBranches!EndsAt(b, 7, InBranches!Feature)
        <3>1. Len(InBranches!Feature) = 7
            BY KindsAre
        <3>2. \A m \in 1..7 : b[7 - 7 + m] = InBranches!Feature[m]
            BY <1>4
        <3>3. QED
            BY <3>1, <3>2 DEF InBranches!EndsAt
    <2>2. b[9 - 1] \in InBranches!Separator
        <3>1. b[8] \in InBranches!Separator
            BY <1>4, Chars, Zenon
        <3>2. 9 - 1 = 8
            OBVIOUS
        <3>3. QED
            BY <3>1, <3>2, Zenon
    <2>3. 9 \in 3..Len(b) /\ 9 - 2 = 7
        <3>1. 9 \in 3..n
            BY <1>3, <1>nat
        <3>2. QED
            BY <1>2, <3>1
    <2>4. InBranches!Feature \in InBranches!Kinds
        BY DEF InBranches!Kinds
    <2>5. QED
        BY <2>1, <2>2, <2>3, <2>4 DEF InBranches!After
<1>8. ASSUME NEW i \in InBranches!After(b, InBranches!Kinds) PROVE i \in Nat /\ 9 <= i
    <2>1. i \in 3..n /\ b[i - 1] \in InBranches!Separator
        BY <1>2 DEF InBranches!After
    <2>2. ASSUME i < 9 PROVE FALSE
        <3>1. i - 1 \in 1..7
            BY <2>1, <2>2
        <3>2. b[i - 1] \in Plain
            <4>1. \A m \in 1..7 : InBranches!Feature[m] \in InBranches!Letter
                BY DEF InBranches!Feature, InBranches!Letter
            <4>2. QED
                BY <1>4, <3>1, <4>1 DEF Plain
        <3>3. QED
            BY <2>1, <3>2, Chars
    <2>3. QED
        BY <2>1, <2>2
<1>9. 9 + B + N \in InBranches!KeyEnds(b, 9)
    <2> DEFINE e == 9 + B + N
               h == 9 + B
    <2>1. e \in (9 + 3)..n /\ h \in (9 + 2)..(9 + 10) /\ h < e
        BY <1>3, <1>nat
    <2>2. \A j \in (9 + 1)..(h - 1) : b[j] \in InBranches!Letter \cup InBranches!Digit
        <3>1. \A j \in (9 + 1)..(h - 1) : j \in 10..(8 + B)
            BY <1>3
        <3>2. QED
            BY <1>6, <3>1 DEF Plain
    <2>3. \A j \in (h + 1)..e : b[j] \in InBranches!Digit
        <3>1. \A j \in (h + 1)..e : j \in (10 + B)..(9 + B + N)
            BY <1>3
        <3>2. QED
            BY <1>6, <3>1
    <2>4. e < n => b[e + 1] \in {"-", "_", "/"}
        <3>1. e + 1 = 10 + B + N
            BY <1>3
        <3>2. QED
            BY <1>nat, <3>1
    <2>5. b[h] = "-" /\ b[9] \in InBranches!Letter
        BY <1>4, <1>6
    <2> HIDE DEF e, h
    <2>6. e \in InBranches!KeyEnds(b, 9)
        BY <1>2, <2>1, <2>2, <2>3, <2>4, <2>5, Zenon DEF InBranches!KeyEnds
    <2>7. QED
        BY <2>6 DEF e
<1>10. ASSUME NEW e \in InBranches!KeyEnds(b, 9) PROVE e = 9 + B + N
    <2>1. /\ e \in (9 + 3)..Len(b)
          /\ e < Len(b) => b[e + 1] \in {"-", "_", "/"}
          /\ \E h \in (9 + 2)..(9 + 10) :
                /\ h < e /\ b[h] = "-"
                /\ \A j \in (9 + 1)..(h - 1) : b[j] \in InBranches!Letter \cup InBranches!Digit
                /\ \A j \in (h + 1)..e : b[j] \in InBranches!Digit
        BY Zenon DEF InBranches!KeyEnds
    <2>2. PICK h \in (9 + 2)..(9 + 10) :
              /\ h < e /\ b[h] = "-"
              /\ \A j \in (9 + 1)..(h - 1) : b[j] \in InBranches!Letter \cup InBranches!Digit
              /\ \A j \in (h + 1)..e : b[j] \in InBranches!Digit
        BY <2>1, Zenon
    <2>3. "-" \notin InBranches!Letter \cup InBranches!Digit /\ "-" \notin InBranches!Digit
        BY Chars DEF Plain
    <2>4. h \in Nat /\ 11 <= h /\ e \in Nat /\ h < e
        <3>1. h \in 11..19
            OBVIOUS
        <3>2. e \in (9 + 3)..n
            BY <1>2, <2>1, Zenon
        <3>3. e \in Nat
            BY <1>3, <3>2
        <3>4. QED
            BY <2>2, <3>1, <3>3
    <2>5. e <= n /\ (e < n => b[e + 1] \in {"-", "_", "/"})
        <3>1. e \in (9 + 3)..n
            BY <1>2, <2>1, Zenon
        <3>2. e <= n
            BY <1>3, <3>1
        <3>3. QED
            BY <1>2, <2>1, <3>2, Zenon
    <2>6. h = 9 + B
        <3>1. ASSUME h < 9 + B PROVE FALSE
            <4>1. h \in 10..(8 + B)
                BY <1>3, <2>4, <3>1
            <4>2. QED
                BY <1>6, <2>2, <2>3, <4>1 DEF Plain
        <3>2. ASSUME h > 9 + B PROVE FALSE
            <4>1. 9 + B \in (9 + 1)..(h - 1)
                BY <1>3, <1>nat, <2>4, <3>2
            <4>2. QED
                BY <1>4, <2>2, <2>3, <4>1
        <3>3. QED
            BY <1>3, <2>4, <3>1, <3>2
    <2>7. ASSUME e > 9 + B + N PROVE FALSE
        <3>1. b[10 + B + N] = "-"
            <4>1. n > 9 + B + N
                <5>1. e <= n
                    BY <2>5
                <5>2. QED
                    BY <1>3, <2>4, <2>7, <5>1
            <4>2. QED
                BY <1>nat, <4>1
        <3>2. 10 + B + N \in (h + 1)..e
            BY <1>3, <2>4, <2>6, <2>7
        <3>3. QED
            BY <2>2, <2>3, <3>1, <3>2
    <2>8. ASSUME e < 9 + B + N PROVE FALSE
        <3>1. e + 1 \in (10 + B)..(9 + B + N) /\ e < n
            <4>1. n >= 9 + B + N
                BY <1>nat
            <4>2. QED
                BY <1>3, <2>4, <2>6, <2>8, <4>1
        <3>2. b[e + 1] \in InBranches!Digit
            BY <1>6, <3>1
        <3>3. QED
            BY <2>5, <3>1, <3>2, Chars DEF Plain
    <2>9. QED
        BY <1>3, <2>4, <2>7, <2>8
<1>11. InBranches!Min(hits) = 9
    <2>1. hits \in SUBSET Nat /\ 9 \in hits /\ \A i \in hits : 9 <= i
        BY <1>7, <1>8, <1>9
    <2>2. QED
        BY <2>1, MinOf
<1>12. InBranches!Max(InBranches!KeyEnds(b, 9)) = 9 + B + N
    <2>1. InBranches!KeyEnds(b, 9) = {9 + B + N}
        BY <1>9, <1>10
    <2>2. 9 + B + N >= 9 + B + N
        BY <1>3
    <2>3. QED
        BY <2>1, <2>2 DEF InBranches!Max
<1>13. InBranches!KeyAfter(b) = SubSeq(b, 9, 9 + B + N)
    <2>1. hits # {}
        BY <1>7, <1>9
    <2>2. QED
        BY <1>11, <1>12, <2>1 DEF InBranches!KeyAfter
<1>14. SubSeq(b, 9, 9 + B + N) = InBranches!KeyText(KeyOf[f])
    <2> DEFINE key == InBranches!KeyText(KeyOf[f])
               read == SubSeq(b, 9, 9 + B + N)
    <2>2. /\ key \in Seq(BranchChar) /\ Len(key) = B + 1 + N
          /\ \A m \in 1..B : key[m] = base[m]
          /\ key[B + 1] = "-"
          /\ \A m \in 1..N : key[B + 1 + m] = number[m]
        <3>1. /\ KeyOf[f].base \in Seq(Plain) /\ KeyOf[f].number \in Seq(InBranches!Digit)
              /\ B \in Nat /\ B = Len(KeyOf[f].base) /\ N \in Nat /\ N = Len(KeyOf[f].number)
            BY <1>2, <1>5 DEF base, number
        <3>2. QED
            BY <3>1, KeyTextIs DEF base, number
    <2> HIDE DEF key
    <2>3. /\ read \in Seq(BranchChar) /\ Len(read) = B + 1 + N
          /\ \A m \in 1..(B + 1 + N) : read[m] = b[8 + m]
        <3>1. /\ 9 \in Nat /\ 9 + B + N \in Nat /\ 1 <= 9 /\ 9 <= 9 + B + N /\ 9 + B + N <= n
              /\ 9 + B + N - 9 + 1 = B + 1 + N /\ \A m \in 1..(B + 1 + N) : 9 + m - 1 = 8 + m
            BY <1>3, <1>nat
        <3>2. QED
            BY <1>2, <1>5, <3>1, SubIs
    <2> HIDE DEF read
    <2>4. ASSUME NEW m \in 1..(B + 1 + N) PROVE read[m] = key[m]
        <3>1. CASE m <= B
            <4>1. m \in 1..B
                BY <1>3, <3>1
            <4>2. QED
                BY <1>4, <2>2, <2>3, <4>1
        <3>2. CASE m = B + 1
            <4>1. 8 + m = 9 + B
                BY <1>3, <3>2
            <4>2. QED
                BY <1>4, <2>2, <2>3, <3>2, <4>1
        <3>3. CASE m > B + 1
            <4>1. m - B - 1 \in 1..N /\ 8 + m = 9 + B + (m - B - 1) /\ B + 1 + (m - B - 1) = m
                BY <1>3, <3>3
            <4>2. b[9 + B + (m - B - 1)] = number[m - B - 1]
                BY <1>4, <4>1
            <4>3. key[B + 1 + (m - B - 1)] = number[m - B - 1]
                BY <2>2, <4>1
            <4>4. QED
                BY <2>3, <4>1, <4>2, <4>3
        <3>4. QED
            BY <1>3, <3>1, <3>2, <3>3
    <2>5. read = key
        <3>1. B + 1 + N \in Nat
            BY <1>3
        <3>2. QED
            BY <2>2, <2>3, <2>4, <3>1, SameSeq
    <2>6. QED
        BY <2>5 DEF read, key
<1>15. QED
    BY <1>13, <1>14 DEF b

LEMMA IdsAre ==
    \A i \in InBranches!Ids : /\ i \in Seq(InBranches!IdChar) /\ Len(i) = 36 /\ i # None
                             /\ i \in Seq(BranchChar)
<1>1. InBranches!IdChar \subseteq BranchChar
    BY Chars DEF BranchChar
<1>2. \A i \in InBranches!Ids : i \in Seq(InBranches!IdChar) /\ Len(i) = 36 /\ i # None
    BY OutsideAssumption DEF InBranches!BranchAssumption
<1>3. QED
    BY <1>1, <1>2

\* A kind, a slash, and an id.
WithId(b, kind, id) ==
    /\ b \in Seq(BranchChar) /\ Len(b) = Len(kind) + 37
    /\ \A m \in 1..Len(kind) : b[m] = kind[m]
    /\ b[Len(kind) + 1] = "/"
    /\ \A m \in 1..36 : b[Len(kind) + 1 + m] = id[m]

LEMMA NamedById ==
    ASSUME NEW id \in InBranches!Ids, NEW kind \in IdKinds
    PROVE  WithId(kind \o <<"/">> \o id, kind, id)
<1> DEFINE u == kind \o <<"/">>
<1>1. kind \in Seq(BranchChar) /\ Len(kind) \in Nat
    <2>1. kind \in Seq(InBranches!Letter)
        BY KindsAre
    <2>2. InBranches!Letter \subseteq BranchChar
        BY Chars DEF BranchChar, Plain
    <2>3. QED
        BY <2>1, <2>2
<1>2. id \in Seq(BranchChar) /\ Len(id) = 36
    BY IdsAre
<1>3. "/" \in BranchChar
    BY DEF BranchChar
<1>4. /\ u \in Seq(BranchChar) /\ Len(u) = Len(kind) + 1
      /\ \A m \in 1..Len(kind) : u[m] = kind[m]
      /\ u[Len(kind) + 1] = "/"
    BY <1>1, <1>3
<1> HIDE DEF u
<1>5. /\ u \o id \in Seq(BranchChar) /\ Len(u \o id) = Len(u) + Len(id)
      /\ \A m \in 1..Len(u) : (u \o id)[m] = u[m]
      /\ \A m \in 1..Len(id) : (u \o id)[Len(u) + m] = id[m]
    BY <1>2, <1>4, Joined
<1>6. PICK k \in Nat : k = Len(kind)
    BY <1>1
<1>7. \A m \in 1..k : m \in 1..(k + 1)
    BY <1>6
<1>8. k + 1 \in 1..(k + 1) /\ k + 1 + 36 = k + 37
    BY <1>6
<1>9. WithId(u \o id, kind, id)
    BY <1>2, <1>4, <1>5, <1>6, <1>7, <1>8 DEF WithId
<1>10. QED
    BY <1>9 DEF u

\* An id is read right behind the kind and the slash, if that kind is looked for.
LEMMA IdIsRead ==
    ASSUME NEW b, NEW id \in InBranches!Ids, NEW kind \in IdKinds, WithId(b, kind, id)
    PROVE  InBranches!IdAfter(b, kind) = id
<1>1. PICK k \in Nat : k = Len(kind)
    BY KindsAre
<1>2. k \in Nat /\ 3 <= k
    <2>1. Len(kind) \in 3..7 /\ \A x \in 3..7 : 3 <= x
        BY KindsAre
    <2>2. QED
        BY <1>1, <2>1, Zenon
<1>3. /\ b \in Seq(BranchChar) /\ Len(b) = k + 37
      /\ \A m \in 1..k : b[m] = kind[m]
      /\ b[k + 1] = "/"
      /\ \A m \in 1..36 : b[k + 1 + m] = id[m]
    BY <1>1 DEF WithId
<1> DEFINE hits == {i \in InBranches!After(b, {kind}) : InBranches!IdAt(b, i)}
<1>4. k + 2 \in hits
    <2>1. InBranches!EndsAt(b, k, kind)
        <3>1. k <= k /\ \A m \in 1..k : k - k + m = m
            BY <1>2
        <3>2. QED
            BY <1>1, <1>3, <3>1 DEF InBranches!EndsAt
    <2>2. k + 2 \in 3..(k + 37) /\ k + 2 - 1 = k + 1 /\ k + 2 - 2 = k
        BY <1>2
    <2>3. "/" \in InBranches!Separator
        BY Chars
    <2>4. k + 2 \in InBranches!After(b, {kind})
        <3>1. k + 2 \in 3..Len(b)
            BY <1>3, <2>2, Zenon
        <3>2. b[k + 2 - 1] \in InBranches!Separator
            BY <1>3, <2>2, <2>3, Zenon
        <3>3. InBranches!EndsAt(b, k + 2 - 2, kind)
            BY <2>1, <2>2, Zenon
        <3> DEFINE at == k + 2
        <3> HIDE DEF at
        <3>4. at \in 3..Len(b) /\ b[at - 1] \in InBranches!Separator
              /\ InBranches!EndsAt(b, at - 2, kind)
            BY <3>1, <3>2, <3>3 DEF at
        <3>5. at \in InBranches!After(b, {kind})
            BY <3>4 DEF InBranches!After
        <3>6. QED
            BY <3>5 DEF at
    <2>5. ASSUME NEW j \in (k + 2)..(k + 2 + 35) PROVE b[j] \in InBranches!IdChar
        <3>1. j - k - 1 \in 1..36 /\ k + 1 + (j - k - 1) = j
            BY <1>2
        <3>2. id \in Seq(InBranches!IdChar) /\ Len(id) = 36
            BY IdsAre
        <3>3. id[j - k - 1] \in InBranches!IdChar
            <4>1. \A w \in Seq(InBranches!IdChar) : \A m \in 1..Len(w) : w[m] \in InBranches!IdChar
                OBVIOUS
            <4>2. QED
                BY <3>1, <3>2, <4>1, Zenon
        <3>4. QED
            BY <1>3, <3>1, <3>3
    <2>6. k + 2 + 35 <= k + 37
        BY <1>2
    <2>7. InBranches!IdAt(b, k + 2)
        BY <1>3, <2>5, <2>6, Zenon DEF InBranches!IdAt
    <2>8. QED
        BY <2>4, <2>7
<1>5. ASSUME NEW i \in hits PROVE i \in Nat /\ k + 2 <= i
    <2>1. i \in 3..(k + 37) /\ b[i - 1] \in InBranches!Separator
        BY <1>3, Zenon DEF InBranches!After
    <2>2. ASSUME i < k + 2 PROVE FALSE
        <3>1. i - 1 \in 1..k
            BY <1>2, <2>1, <2>2
        <3>2. b[i - 1] = kind[i - 1]
            BY <1>3, <3>1
        <3>3. kind[i - 1] \in InBranches!Letter
            <4>1. kind \in Seq(InBranches!Letter)
                BY KindsAre
            <4>2. QED
                BY <1>1, <3>1, <4>1
        <3>4. QED
            BY <2>1, <3>2, <3>3, Chars DEF Plain
    <2>3. QED
        BY <1>2, <2>1, <2>2
<1>6. InBranches!Min(hits) = k + 2
    <2>1. hits \in SUBSET Nat
        BY <1>5
    <2> HIDE DEF hits
    <2>2. QED
        BY <1>4, <1>5, <2>1, MinOf
<1>7. InBranches!IdAfter(b, kind) = SubSeq(b, k + 2, k + 2 + 35)
    <2>1. hits # {}
        BY <1>4
    <2>2. QED
        BY <1>6, <2>1, Zenon DEF InBranches!IdAfter
<1>8. SubSeq(b, k + 2, k + 2 + 35) = id
    <2> DEFINE read == SubSeq(b, k + 2, k + 2 + 35)
    <2>1. /\ read \in Seq(BranchChar) /\ Len(read) = 36
          /\ \A m \in 1..36 : read[m] = b[k + 1 + m]
        <3>1. /\ k + 2 \in Nat /\ k + 2 + 35 \in Nat /\ 1 <= k + 2 /\ k + 2 <= k + 2 + 35
              /\ k + 2 + 35 <= k + 37 /\ k + 2 + 35 - (k + 2) + 1 = 36 /\ k + 37 \in Nat
              /\ \A m \in 1..36 : k + 2 + m - 1 = k + 1 + m
            BY <1>2
        <3> DEFINE i == k + 2
                   e == k + 2 + 35
                   n == k + 37
        <3> HIDE DEF i, e, n
        <3>2. /\ i \in Nat /\ e \in Nat /\ n \in Nat /\ n = Len(b) /\ 1 <= i /\ i <= e /\ e <= n
              /\ e - i + 1 = 36 /\ \A m \in 1..36 : i + m - 1 = k + 1 + m
            BY <1>3, <3>1 DEF i, e, n
        <3>3. /\ SubSeq(b, i, e) \in Seq(BranchChar) /\ Len(SubSeq(b, i, e)) = e - i + 1
              /\ \A m \in 1..(e - i + 1) : SubSeq(b, i, e)[m] = b[i + m - 1]
            <4>1. b \in Seq(BranchChar) /\ i \in Nat /\ e \in Nat /\ n \in Nat /\ n = Len(b)
                  /\ 1 <= i /\ i <= e /\ e <= n
                BY <1>3, <3>2
            <4>2. QED
                BY <4>1, SubIs, Zenon
        <3>4. read = SubSeq(b, i, e)
            BY DEF i, e
        <3> HIDE DEF read
        <3>5. QED
            BY <3>2, <3>3, <3>4
    <2>2. id \in Seq(BranchChar) /\ Len(id) = 36
        BY IdsAre
    <2> HIDE DEF read
    <2>3. \A m \in 1..36 : read[m] = id[m]
        BY <1>3, <2>1
    <2>4. 36 \in Nat
        OBVIOUS
    <2>5. read = id
        BY <2>1, <2>2, <2>3, <2>4, SameSeq
    <2>6. QED
        BY <2>5 DEF read
<1>9. QED
    BY <1>7, <1>8

\* No other id is read in the branch of a feature without a key.
LEMMA NoBugRead ==
    ASSUME NEW b, NEW id \in InBranches!Ids, WithId(b, InBranches!Feature, id)
    PROVE  InBranches!IdAfter(b, InBranches!Bug) = None
<1>1. /\ Len(b) = 44 /\ \A m \in 1..7 : b[m] = InBranches!Feature[m]
    <2>1. Len(InBranches!Feature) = 7 /\ 7 + 37 = 44
        BY KindsAre
    <2>2. QED
        BY <2>1 DEF WithId
<1>2. SUFFICES ASSUME NEW i \in InBranches!After(b, {InBranches!Bug}), InBranches!IdAt(b, i)
               PROVE  FALSE
    BY DEF InBranches!IdAfter
<1>3. i \in 3..44 /\ b[i - 1] \in InBranches!Separator /\ InBranches!EndsAt(b, i - 2, InBranches!Bug)
    BY <1>1, <1>2, Zenon DEF InBranches!After
<1>4. i + 35 <= 44
    BY <1>1, <1>2, Zenon DEF InBranches!IdAt
<1>5. \A m \in 1..7 : InBranches!Feature[m] \in InBranches!Letter
    BY DEF InBranches!Feature, InBranches!Letter
<1>6. i = 9
    <2>1. ASSUME i < 9 PROVE FALSE
        <3>1. i - 1 \in 1..7
            BY <1>3, <2>1
        <3>2. QED
            BY <1>1, <1>3, <1>5, <3>1, Chars DEF Plain
    <2>2. QED
        BY <1>3, <1>4, <2>1
<1>7. b[9 - 2 - 3 + 3] = InBranches!Bug[3]
    <2>1. Len(InBranches!Bug) = 3 /\ 3 \in 1..3
        BY KindsAre
    <2>2. QED
        BY <1>3, <1>6, <2>1, Zenon DEF InBranches!EndsAt
<1>8. b[7] = InBranches!Feature[7]
    BY <1>1
<1>9. QED
    BY <1>7, <1>8, KindsAre

LEMMA FeatureIsRead ==
    ASSUME NEW f \in Features, NEW t \in Titles, NEW text, ~InBranches!Misleading(f, t)
    PROVE  InBranches!ExtractFeatureId(Shown(f, t), text) = f
<1> DEFINE b == Shown(f, t)
<1>1. f \in InBranches!Ids /\ f # None
    BY IdsAre DEF InBranches!Ids
<1>2. {InBranches!Feature, InBranches!Feat, InBranches!Bug} \subseteq IdKinds
    BY DEF IdKinds
<1>3. CASE KeyOf[f] = None
    <2>1. b = InBranches!Feature \o <<"/">> \o f
        BY <1>3 DEF Shown, InBranches!FeatureBranchName
    <2>2. WithId(b, InBranches!Feature, f)
        BY <1>1, <1>2, <2>1, NamedById
    <2>3. InBranches!IdAfter(b, InBranches!Bug) = None /\ InBranches!IdAfter(b, InBranches!Feature) = f
        BY <1>1, <1>2, <2>2, NoBugRead, IdIsRead
    <2>4. QED
        BY <1>1, <2>3 DEF InBranches!ExtractFeatureId
<1>4. CASE KeyOf[f] # None
    <2>1. \A kind \in IdKinds : InBranches!IdAfter(b, kind) = None
        BY <1>4, NoIdRead
    <2>2. InBranches!KeyAfter(b) = InBranches!KeyText(KeyOf[f])
        BY <1>4, KeyRead
    <2>3. InBranches!WithKey(InBranches!KeyText(KeyOf[f])) = {f}
        BY <1>4, OutsideAssumption DEF InBranches!WithKey, InBranches!BranchAssumption
    <2>4. InBranches!ExtractFeatureId(b, text) = CHOOSE g \in {f} : TRUE
        <3>1. {f} # {}
            OBVIOUS
        <3>2. QED
            BY <1>2, <2>1, <2>2, <2>3, <3>1 DEF InBranches!ExtractFeatureId
    <2>5. QED
        BY <2>4
<1>5. QED
    BY <1>3, <1>4

LEMMA BugIsRead ==
    ASSUME NEW id \in Bugs, NEW text
    PROVE  InBranches!ExtractFeatureId(InBranches!BugBranchName(id), text) = Parent[id]
<1>1. id \in InBranches!Ids /\ id # None /\ InBranches!Bug \in IdKinds
    BY IdsAre DEF InBranches!Ids, IdKinds
<1>2. InBranches!IdAfter(InBranches!BugBranchName(id), InBranches!Bug) = id
    BY <1>1, NamedById, IdIsRead DEF InBranches!BugBranchName
<1>3. QED
    BY <1>1, <1>2 DEF InBranches!ExtractFeatureId, InBranches!FeatureOfBug

\* A branch made for a feature or a bug is the one shown for it.
BranchInv ==
    /\ work \in Features => title \in Titles /\ branch = Shown(work, title)
    /\ work \in Bugs => branch = InBranches!BugBranchName(work)
    /\ opened => linked = InBranches!ExtractFeatureId(branch, body)
    /\ branch = <<>> => work = None /\ ~opened

LEMMA NotInIds == None \notin Features \cup Bugs
BY IdsAre DEF InBranches!Ids

LEMMA BranchInit == InBranches!Init => BranchInv
BY NotInIds DEF InBranches!Init, BranchInv

\* No name is empty.
LEMMA NamesAre ==
    /\ \A f \in Features, t \in Titles : Shown(f, t) \in Seq(BranchChar) \ {<<>>}
    /\ \A id \in Bugs : InBranches!BugBranchName(id) \in Seq(BranchChar) \ {<<>>}
<1>1. ASSUME NEW b, NEW kind \in IdKinds, NEW id, WithId(b, kind, id) PROVE b # <<>>
    <2>1. Len(kind) \in Nat /\ Len(<<>>) = 0
        BY KindsAre
    <2>2. QED
        BY <1>1, <2>1 DEF WithId
<1>2. ASSUME NEW f \in Features, NEW t \in Titles
      PROVE  Shown(f, t) \in Seq(BranchChar) \ {<<>>}
    <2>1. CASE KeyOf[f] = None
        <3>1. WithId(Shown(f, t), InBranches!Feature, f)
            BY <2>1, NamedById DEF Shown, InBranches!FeatureBranchName, InBranches!Ids, IdKinds
        <3>2. QED
            BY <1>1, <3>1 DEF WithId, IdKinds
    <2>2. CASE KeyOf[f] # None
        <3> DEFINE b == Shown(f, t)
        <3>1. Keyed(b, KeyOf[f].base, KeyOf[f].number, InBranches!Slug(t))
            BY <2>2, ShownKeyed
        <3> HIDE DEF b
        <3>2. PICK n \in Nat, B \in Nat, N \in Nat, S \in Nat :
                  n = Len(b) /\ B = Len(KeyOf[f].base) /\ N = Len(KeyOf[f].number)
                  /\ S = Len(InBranches!Slug(t))
            BY <3>1 DEF Keyed
        <3>3. (S = 0 => n = 9 + B + N) /\ (S > 0 => n = 10 + B + N + S) /\ b \in Seq(BranchChar)
            BY <3>1, <3>2 DEF Keyed
        <3>4. n # 0
            <4>1. n \in Nat /\ B \in Nat /\ N \in Nat /\ S \in Nat
                  /\ (S = 0 => n = 9 + B + N) /\ (S > 0 => n = 10 + B + N + S)
                BY <3>2, <3>3
            <4>2. QED
                BY <4>1
        <3>5. Len(<<>>) = 0
            OBVIOUS
        <3>6. QED
            BY <3>2, <3>3, <3>4, <3>5 DEF b
    <2>3. QED
        BY <2>1, <2>2
<1>3. ASSUME NEW id \in Bugs PROVE InBranches!BugBranchName(id) \in Seq(BranchChar) \ {<<>>}
    <2>1. WithId(InBranches!BugBranchName(id), InBranches!Bug, id)
        BY NamedById DEF InBranches!BugBranchName, InBranches!Ids, IdKinds
    <2>2. QED
        BY <1>1, <2>1 DEF WithId, IdKinds
<1>4. QED
    BY <1>2, <1>3

LEMMA MadeUpIs ==
    ASSUME NEW kind \in InBranches!Kinds, NEW t \in Titles
    PROVE  kind \o <<"/">> \o t \in Seq(BranchChar) \ {<<>>}
<1>1. kind \in Seq(BranchChar) /\ t \in Seq(BranchChar) /\ <<"/">> \in Seq(BranchChar)
    <2>1. kind \in Seq(InBranches!Letter) /\ t \in Seq(InBranches!TitleChar)
        BY KindsAre, OutsideAssumption DEF InBranches!BranchAssumption
    <2>2. InBranches!Letter \subseteq BranchChar /\ InBranches!TitleChar \subseteq BranchChar
          /\ "/" \in BranchChar
        BY Chars DEF BranchChar, Plain
    <2>3. QED
        BY <2>1, <2>2
<1>2. /\ kind \o <<"/">> \in Seq(BranchChar) /\ Len(kind \o <<"/">>) = Len(kind) + 1
    BY <1>1
<1>3. /\ kind \o <<"/">> \o t \in Seq(BranchChar)
      /\ Len(kind \o <<"/">> \o t) = Len(kind) + 1 + Len(t)
    BY <1>1, <1>2, Joined
<1>4. Len(kind) \in Nat /\ Len(t) \in Nat /\ Len(<<>>) = 0
    BY <1>1
<1>5. Len(kind) + 1 + Len(t) # 0
    BY <1>4
<1>6. QED
    BY <1>3, <1>4, <1>5

LEMMA BranchNext == BranchInv /\ [InBranches!Next]_(InBranches!vars) => BranchInv'
<1> SUFFICES ASSUME BranchInv, [InBranches!Next]_(InBranches!vars) PROVE BranchInv'
    OBVIOUS
<1>1. CASE UNCHANGED InBranches!vars
    BY <1>1 DEF BranchInv, InBranches!vars
<1>2. ASSUME NEW w \in InBranches!Ids, InBranches!CheckOut(w) PROVE BranchInv'
    <2>1. /\ branch = <<>> /\ title' \in Titles /\ work' = w /\ opened' = opened
          /\ branch' = IF w \in Features THEN Shown(w, title') ELSE InBranches!BugBranchName(w)
        BY <1>2 DEF InBranches!CheckOut, Shown
    <2>2. ~opened /\ ~(w \in Features /\ w \in Bugs)
        BY <2>1, OutsideAssumption DEF BranchInv, InBranches!BranchAssumption
    <2>3. branch' # <<>>
        BY <2>1, NamesAre DEF InBranches!Ids
    <2>4. QED
        BY <2>1, <2>2, <2>3 DEF BranchInv
<1>3. ASSUME NEW kind \in InBranches!Kinds, InBranches!MakeUp(kind) PROVE BranchInv'
    <2>1. /\ branch = <<>> /\ title' \in Titles /\ branch' = kind \o <<"/">> \o title'
          /\ work' = work /\ opened' = opened
        BY <1>3 DEF InBranches!MakeUp
    <2>2. work = None /\ ~opened
        BY <2>1 DEF BranchInv
    <2>3. branch' # <<>>
        BY <2>1, MadeUpIs
    <2>4. QED
        BY <2>1, <2>2, <2>3, NotInIds DEF BranchInv
<1>4. ASSUME NEW text \in InBranches!Bodies, InBranches!OpenPullRequest(text) PROVE BranchInv'
    BY <1>4 DEF BranchInv, InBranches!OpenPullRequest
<1>5. QED
    BY <1>1, <1>2, <1>3, <1>4 DEF InBranches!Next

\* "Push a branch with this name and ClearLoop links the pull request automatically": the branch
\* shown for a feature or a bug (featureBranchName, bugBranchName) is read back as that feature,
\* or as the bug's (extractFeatureId), whatever the text of the pull request and whatever the
\* key and the title, unless the two mislead: the patterns for ids take any 36 characters of
\* an id, so that hexadecimal key and slug may pass for one.
THEOREM BranchesLinkBack == InBranches!Spec => []LinksBack
<1>1. BranchInv => LinksBack
    BY FeatureIsRead, BugIsRead DEF BranchInv, LinksBack, InBranches!LinksBack,
       InBranches!FeatureLinksBack, InBranches!BugLinksBack
<1>2. InBranches!Spec => []BranchInv
    BY BranchInit, BranchNext, PTL DEF InBranches!Spec
<1>3. QED
    BY <1>1, <1>2, PTL

(***************************************************************************)
(* The type invariants.                                                     *)
(***************************************************************************)

InviteRow == [status : {"NONE", "PENDING", "ACCEPTED", "REVOKED", "EXPIRED"},
              fresh : BOOLEAN, token : 0..MaxResends, issued : 0..MaxResends]
HolderRow == [op : {"expire", "account", "notify", "cancel", "resend"}, invite : Invites,
              token : 0..MaxResends]
RequestRow == {Idle} \cup [op : {"insert"}] \cup HolderRow

LEMMA InviteTypeInit == Init => TypeOK
<1> SUFFICES ASSUME Init PROVE TypeOK
    OBVIOUS
<1>1. 0 \in 0..MaxResends /\ 0 \in 0..MaxFaults
    BY InvitationsAssumption
<1>2. invitation \in [Invites -> InviteRow]
    BY <1>1 DEF Init, NoInvite, InviteRow
<1>3. request \in [Slots -> RequestRow]
    BY DEF Init, RequestRow
<1>4. QED
    BY <1>1, <1>2, <1>3 DEF Init, TypeOK, InviteRow, RequestRow, HolderRow

LEMMA Holder ==
    ASSUME TypeOK, NEW r \in Slots,
           request[r].op \in {"expire", "account", "notify", "cancel", "resend"}
    PROVE  request[r].invite \in Invites /\ request[r].token \in 0..MaxResends
<1>1. request[r] \in RequestRow
    BY DEF TypeOK, RequestRow, HolderRow
<1>2. request[r] # Idle /\ request[r] \notin [op : {"insert"}]
    BY DEF Idle
<1>3. request[r] \in HolderRow
    BY <1>1, <1>2 DEF RequestRow
<1>4. QED
    BY <1>3 DEF HolderRow

LEMMA RequestTyped ==
    ASSUME TypeOK, NEW r \in Slots, NEW q \in RequestRow, Become(r, q)
    PROVE  request' \in [Slots -> RequestRow]
BY DEF TypeOK, Become, RequestRow, HolderRow

LEMMA DoneTyped ==
    ASSUME TypeOK, NEW r \in Slots, Done(r)
    PROVE  request' \in [Slots -> RequestRow]
BY RequestTyped DEF Done, RequestRow

LEMMA OneInviteTyped ==
    ASSUME TypeOK, NEW i \in Invites, NEW m \in InviteRow,
           invitation' = [invitation EXCEPT ![i] = m]
    PROVE  invitation' \in [Invites -> InviteRow]
BY DEF TypeOK, InviteRow

LEMMA InviteRows ==
    ASSUME TypeOK, NEW i \in Invites
    PROVE  /\ invitation[i] \in InviteRow
           /\ \A s \in {"PENDING", "ACCEPTED", "REVOKED", "EXPIRED"} :
                 [invitation[i] EXCEPT !.status = s] \in InviteRow
           /\ [invitation[i] EXCEPT !.fresh = FALSE] \in InviteRow
           /\ \A k \in 0..MaxResends :
                 /\ [invitation[i] EXCEPT !.issued = k] \in InviteRow
                 /\ [invitation[i] EXCEPT !.status = "PENDING", !.fresh = TRUE, !.token = k]
                        \in InviteRow
BY DEF TypeOK, InviteRow

\* Updates of the row that a request holds.
LEMMA RowWritten ==
    ASSUME TypeOK, NEW r \in Slots, MarkExpired(r) \/ Cancel(r) \/ Resend(r)
    PROVE  invitation' \in [Invites -> InviteRow] /\ request' \in [Slots -> RequestRow]
<1> PICK i : i = request[r].invite
    OBVIOUS
<1> PICK k : k = request[r].token
    OBVIOUS
<1>1. i \in Invites /\ k \in 0..MaxResends
    BY Holder DEF MarkExpired, Cancel, Resend, At
<1>2. \/ invitation' = [invitation EXCEPT ![i] = [invitation[i] EXCEPT !.status = "EXPIRED"]]
      \/ invitation' = [invitation EXCEPT ![i] = [invitation[i] EXCEPT !.status = "REVOKED"]]
      \/ invitation' = [invitation EXCEPT ![i] =
            [invitation[i] EXCEPT !.status = "PENDING", !.fresh = TRUE, !.token = k]]
    <2>1. CASE MarkExpired(r)
        BY <2>1 DEF MarkExpired
    <2>2. CASE Cancel(r)
        BY <2>2 DEF Cancel
    <2>3. CASE Resend(r)
        BY <1>1, <2>3 DEF Resend, TypeOK
    <2>4. QED
        BY <2>1, <2>2, <2>3
<1>3. invitation' \in [Invites -> InviteRow]
    BY <1>1, <1>2, InviteRows, OneInviteTyped
<1>4. QED
    BY <1>3, DoneTyped DEF MarkExpired, Cancel, Resend

LEMMA AcceptTyped ==
    ASSUME TypeOK, NEW r \in Slots, Accept(r)
    PROVE  TypeOK'
<1> PICK i : i = request[r].invite
    OBVIOUS
<1> PICK k : k = request[r].token
    OBVIOUS
<1>1. i \in Invites /\ k \in 0..MaxResends
    BY Holder DEF Accept, At
<1>2. CASE account = "OAUTH" \/ member # "NONE"
    BY <1>2, DoneTyped DEF Accept, TypeOK, InviteRow, RequestRow, HolderRow
<1>3. CASE account # "OAUTH" /\ member = "NONE"
    <2>1. /\ account' = "PASSWORD" /\ member' = "invited"
          /\ invitation' = [invitation EXCEPT ![i] = [invitation[i] EXCEPT !.status = "ACCEPTED"]]
          /\ acceptances' = acceptances \cup {<<i, k>>}
          /\ Become(r, [op |-> "notify", invite |-> i, token |-> k])
          /\ UNCHANGED <<notices, faults>>
        BY <1>3 DEF Accept
    <2>2. [op |-> "notify", invite |-> i, token |-> k] \in RequestRow
        BY <1>1 DEF RequestRow, HolderRow
    <2>3. invitation' \in [Invites -> InviteRow] /\ request' \in [Slots -> RequestRow]
        BY <1>1, <2>1, <2>2, InviteRows, OneInviteTyped, RequestTyped
    <2>4. acceptances' \subseteq Invites \X (0..MaxResends)
        BY <1>1, <2>1 DEF TypeOK
    <2>5. QED
        BY <2>1, <2>3, <2>4 DEF TypeOK, InviteRow, RequestRow, HolderRow
<1>4. QED
    BY <1>2, <1>3

LEMMA AskInviteTyped ==
    ASSUME TypeOK, NEW r \in Slots, Request(r)
    PROVE  TypeOK'
<1>1. CASE CheckInvitable(r)
    <2>1. [op |-> "insert"] \in RequestRow
        BY DEF RequestRow
    <2>2. QED
        BY <1>1, <2>1, RequestTyped
        DEF CheckInvitable, TypeOK, RequestRow, HolderRow
<1>2. ASSUME NEW i \in Invites, NEW k \in 0..MaxResends, Validate(r, i, k) PROVE TypeOK'
    <2> DEFINE q == [op |-> IF invitation[i].fresh THEN "account" ELSE "expire",
                     invite |-> i, token |-> k]
    <2>1. q \in RequestRow
        BY DEF RequestRow, HolderRow
    <2>2. Become(r, q) /\ UNCHANGED <<account, member, invitation, notices, faults, acceptances>>
        BY <1>2 DEF Validate
    <2> HIDE DEF q
    <2>3. QED
        BY <2>1, <2>2, RequestTyped DEF TypeOK, RequestRow, HolderRow
<1>3. ASSUME NEW i \in Invites, StartCancel(r, i) PROVE TypeOK'
    <2>1. [op |-> "cancel", invite |-> i, token |-> 0] \in RequestRow
        BY InvitationsAssumption DEF RequestRow, HolderRow
    <2>2. QED
        BY <1>3, <2>1, RequestTyped DEF StartCancel, TypeOK, RequestRow, HolderRow
<1>4. ASSUME NEW i \in Invites, StartResend(r, i) PROVE TypeOK'
    <2> PICK n : n = invitation[i].issued + 1
        OBVIOUS
    <2>1. /\ n <= MaxResends
          /\ invitation' = [invitation EXCEPT ![i] = [invitation[i] EXCEPT !.issued = n]]
          /\ Become(r, [op |-> "resend", invite |-> i, token |-> n])
          /\ UNCHANGED <<account, member, notices, faults, acceptances>>
        BY <1>4 DEF StartResend
    <2>2. n \in 0..MaxResends
        <3>1. invitation[i].issued \in 0..MaxResends
            BY DEF TypeOK
        <3>2. QED
            BY <2>1, <3>1, InvitationsAssumption
    <2>3. [op |-> "resend", invite |-> i, token |-> n] \in RequestRow
        BY <2>2 DEF RequestRow, HolderRow
    <2>4. invitation' \in [Invites -> InviteRow] /\ request' \in [Slots -> RequestRow]
        BY <2>1, <2>2, <2>3, InviteRows, OneInviteTyped, RequestTyped
    <2>5. QED
        BY <2>1, <2>4 DEF TypeOK, InviteRow, RequestRow, HolderRow
<1>5. QED
    BY <1>1, <1>2, <1>3, <1>4 DEF Request

LEMMA InviteTypeNext == TypeOK /\ [Next]_vars => TypeOK'
<1> SUFFICES ASSUME TypeOK, [Next]_vars PROVE TypeOK'
    OBVIOUS
<1> USE DEF InviteRow, RequestRow, HolderRow
<1>1. ASSUME NEW r \in Slots, InsertInvitation(r) PROVE TypeOK'
    <2>1. PICK i \in Invites :
              invitation' = [invitation EXCEPT ![i] = [invitation[i] EXCEPT !.status = "PENDING"]]
        BY <1>1 DEF InsertInvitation
    <2>2. [invitation[i] EXCEPT !.status = "PENDING"] \in InviteRow
        BY InviteRows
    <2>3. invitation' \in [Invites -> InviteRow]
        BY <2>1, <2>2, OneInviteTyped
    <2>4. QED
        BY <1>1, <2>3, DoneTyped DEF InsertInvitation, TypeOK
<1>2. ASSUME NEW r \in Slots, MarkExpired(r) \/ Cancel(r) \/ Resend(r) PROVE TypeOK'
    BY <1>2, RowWritten DEF MarkExpired, Cancel, Resend, TypeOK
<1>3. ASSUME NEW r \in Slots, NotifyInviter(r) PROVE TypeOK'
    <2>1. request[r].invite \in Invites
        BY <1>3, Holder DEF NotifyInviter, At
    <2>2. notices' \subseteq Invites /\ faults' \in 0..MaxFaults
        BY <1>3, <2>1, InvitationsAssumption DEF NotifyInviter, TypeOK
    <2>3. QED
        BY <1>3, <2>2, DoneTyped DEF NotifyInviter, TypeOK
<1>4. ASSUME NEW r \in Slots, Fail(r) PROVE TypeOK'
    <2>1. faults' \in 0..MaxFaults
        BY <1>4, InvitationsAssumption DEF Fail, TypeOK
    <2>2. QED
        BY <1>4, <2>1, DoneTyped DEF Fail, TypeOK
<1>5. ASSUME NEW i \in Invites, Expires(i) PROVE TypeOK'
    <2>1. invitation' = [invitation EXCEPT ![i] = [invitation[i] EXCEPT !.fresh = FALSE]]
        BY <1>5 DEF Expires
    <2>2. [invitation[i] EXCEPT !.fresh = FALSE] \in InviteRow
        BY InviteRows
    <2>3. invitation' \in [Invites -> InviteRow]
        BY <2>1, <2>2, OneInviteTyped
    <2>4. QED
        BY <1>5, <2>3 DEF Expires, TypeOK
<1>6. CASE UNCHANGED vars \/ AddDirectly \/ \E kind \in {"OAUTH", "PASSWORD"} : SignUp(kind)
    BY <1>6 DEF vars, AddDirectly, SignUp, TypeOK
<1>7. QED
    BY <1>1, <1>2, <1>3, <1>4, <1>5, <1>6, AcceptTyped, AskInviteTyped DEF Next, ServerStep

\* The installation: a repository is of the workspace of its installation.
InstallTypeInv ==
    /\ InstallInv
    /\ github \in [Installations -> {"absent", "installed", "uninstalled"}]
    /\ \A x \in Repos : repo[x].inst # None =>
          App!Known(repo[x].inst) /\ repo[x].tenant = inst[repo[x].inst].tenant
    /\ crashes \in 0..MaxCrashes

LEMMA InstallTypeInit == App!Init => InstallTypeInv
BY InstallInvInit, OutsideAssumption
DEF App!Init, InstallTypeInv, App!InstallationAssumption

\* A step that takes no installation from its workspace, and changes no repository but its links.
LEMMA InstallTypeKept ==
    ASSUME InstallTypeInv, InstallInv',
           github' = github \/ \E i \in Installations : \E s \in {"installed", "uninstalled"} :
                                   github' = [github EXCEPT ![i] = s],
           \A i \in Installations : App!Known(i) => inst'[i].tenant = inst[i].tenant,
           \A x \in Repos : repo'[x].inst = repo[x].inst /\ repo'[x].tenant = repo[x].tenant,
           crashes' = crashes \/ (crashes' = crashes + 1 /\ crashes < MaxCrashes)
    PROVE  InstallTypeInv'
<1>1. /\ github' \in [Installations -> {"absent", "installed", "uninstalled"}]
      /\ crashes' \in 0..MaxCrashes
    BY OutsideAssumption DEF InstallTypeInv, App!InstallationAssumption
<1>2. \A i \in Installations : App!Known(i) => inst'[i].tenant # None
    BY DEF App!Known
<1>3. \A x \in Repos : repo[x].inst \in Installations \cup {None}
    BY DEF InstallTypeInv, InstallInv, InstallTyped, RepoInv, RepoRow
<1>4. \A x \in Repos : repo'[x].inst # None =>
          /\ inst'[repo'[x].inst].tenant # None
          /\ repo'[x].tenant = inst'[repo'[x].inst].tenant
    BY <1>2, <1>3 DEF InstallTypeInv
<1>5. QED
    BY <1>1, <1>4 DEF InstallTypeInv, App!Known

LEMMA RequestStepTyped ==
    ASSUME InstallTypeInv, InstallInv', NEW r \in Requests, App!Step(r) \/ App!Crash(r)
    PROVE  InstallTypeInv'
<1>1. \A i \in Installations : App!Known(i) => inst'[i].tenant = inst[i].tenant
    <2>1. inst \in [Installations -> InstRow]
        BY DEF InstallTypeInv, InstallInv, InstallTyped, InstInv
    <2>2. CASE App!SaveInstallation(r)
        <3> PICK j : j = req[r].inst
            OBVIOUS
        <3>1. inst' = [inst EXCEPT ![j] = [tenant |-> IF App!Known(j) THEN inst[j].tenant
                                                      ELSE req[r].tenant, status |-> "ACTIVE"]]
            BY <2>2 DEF App!SaveInstallation
        <3>2. QED
            BY <2>1, <3>1
    <2>3. CASE App!MarkRemoved(r)
        <3> PICK j : j = req[r].inst
            OBVIOUS
        <3>1. inst' = [inst EXCEPT ![j] = [inst[j] EXCEPT !.status = "REMOVED"]]
            BY <2>3 DEF App!MarkRemoved
        <3>2. QED
            BY <2>1, <3>1 DEF InstRow
    <2>4. CASE ~App!SaveInstallation(r) /\ ~App!MarkRemoved(r)
        <3>1. inst' = inst
            BY <2>4 DEF App!Step, App!CreateState, App!MarkState, App!Uninstall, App!UnlinkRepos,
                        App!Link, App!Crash
        <3>2. QED
            BY <3>1
    <2>5. QED
        BY <2>2, <2>3, <2>4
<1>2. \A x \in Repos : repo'[x].inst = repo[x].inst /\ repo'[x].tenant = repo[x].tenant
    <2>1. repo \in [Repos -> RepoRow]
        BY DEF InstallTypeInv, InstallInv, InstallTyped, RepoInv
    <2>2. CASE App!UnlinkRepos(r)
        <3> PICK j : j = req[r].inst
            OBVIOUS
        <3>1. repo' = App!Unlinked(j)
            BY <2>2 DEF App!UnlinkRepos
        <3>2. ASSUME NEW x \in Repos
              PROVE  repo'[x].inst = repo[x].inst /\ repo'[x].tenant = repo[x].tenant
            <4>1. repo'[x] = repo[x] \/ repo'[x] = [repo[x] EXCEPT !.linked = FALSE]
                BY <3>1 DEF App!Unlinked
            <4>2. QED
                BY <2>1, <4>1 DEF RepoRow
        <3>3. QED
            BY <3>2
    <2>3. CASE App!Link(r)
        <3> PICK y : y = req[r].repo
            OBVIOUS
        <3>1. repo' = [repo EXCEPT ![y] = [repo[y] EXCEPT !.linked = TRUE]]
            BY <2>3 DEF App!Link
        <3>2. QED
            BY <2>1, <3>1 DEF RepoRow
    <2>4. CASE ~App!UnlinkRepos(r) /\ ~App!Link(r)
        <3>1. repo' = repo
            BY <2>4 DEF App!Step, App!CreateState, App!MarkState, App!SaveInstallation,
                        App!Uninstall, App!MarkRemoved, App!Crash
        <3>2. QED
            BY <3>1
    <2>5. QED
        BY <2>2, <2>3, <2>4
<1>3. github' = github \/ github' = [github EXCEPT ![req[r].inst] = "uninstalled"]
    BY DEF App!Step, App!CreateState, App!MarkState, App!SaveInstallation, App!Uninstall,
           App!Uninstalls, App!UnlinkRepos, App!MarkRemoved, App!Link, App!Crash, App!external
<1>4. github' = github \/ \E i \in Installations : \E s \in {"installed", "uninstalled"} :
                              github' = [github EXCEPT ![i] = s]
    <2>1. CASE req[r].inst \in Installations
        BY <1>3, <2>1
    <2>2. CASE req[r].inst \notin Installations
        BY <1>3, <2>2 DEF InstallTypeInv
    <2>3. QED
        BY <2>1, <2>2
<1>5. crashes' = crashes \/ (crashes' = crashes + 1 /\ crashes < MaxCrashes)
    BY DEF App!Step, App!CreateState, App!MarkState, App!SaveInstallation, App!Uninstall,
           App!UnlinkRepos, App!MarkRemoved, App!Link, App!Crash, App!ghosts
<1>6. QED
    BY <1>1, <1>2, <1>4, <1>5, InstallTypeKept

LEMMA EventStepTyped ==
    ASSUME InstallTypeInv, InstallInv', NEW e \in events,
           App!Handle(e) \/ App!EventFails(e)
    PROVE  InstallTypeInv'
<1>1. /\ e \in AppEvent /\ inst \in [Installations -> InstRow] /\ repo \in [Repos -> RepoRow]
      /\ e.at # "sent" => App!Known(e.inst)
    BY DEF InstallTypeInv, InstallInv, InstallTyped, Handled, EventsInv, InstInv, RepoInv,
           App!Known
<1>2. /\ UNCHANGED github
      /\ crashes' = crashes \/ (crashes' = crashes + 1 /\ crashes < MaxCrashes)
    BY DEF App!Handle, App!FindInstallation, App!SyncRepo, App!EventMarksRemoved, App!EventUnlinks,
           App!EventFails, App!external, App!ghosts
<1>3. \A i \in Installations : inst'[i].tenant = inst[i].tenant
    <2>1. CASE App!EventMarksRemoved(e)
        BY <1>1, <2>1 DEF App!EventMarksRemoved, InstRow, AppEvent,
                        EventFields
    <2>2. CASE ~App!EventMarksRemoved(e)
        BY <2>2 DEF App!Handle, App!FindInstallation, App!SyncRepo, App!EventUnlinks,
                    App!EventFails
    <2>3. QED
        BY <2>1, <2>2
<1>4. CASE \A x \in Repos : repo'[x].inst = repo[x].inst /\ repo'[x].tenant = repo[x].tenant
    BY <1>2, <1>3, <1>4, InstallTypeKept
<1>5. CASE App!SyncRepo(e)
    <2>1. CASE repo' = repo
        BY <1>4, <2>1
    <2>2. CASE repo' # repo
        <3>1. PICK x \in e.left :
                  repo' = [repo EXCEPT ![x] = [inst |-> e.inst, tenant |-> inst[e.inst].tenant,
                                               linked |-> FALSE]]
            BY <1>5, <2>2 DEF App!SyncRepo
        <3>2. /\ App!Known(e.inst) /\ e.inst \in Installations /\ UNCHANGED <<inst, crashes>>
            BY <1>1, <1>5 DEF App!SyncRepo, AppEvent, EventFields, App!ghosts
        <3>3. \A y \in Repos : repo'[y].inst # None =>
                  App!Known(repo'[y].inst) /\ repo'[y].tenant = inst[repo'[y].inst].tenant
            BY <1>1, <3>1, <3>2 DEF InstallTypeInv
        <3>4. QED
            BY <1>2, <3>2, <3>3 DEF InstallTypeInv, App!Known
    <2>3. QED
        BY <2>1, <2>2
<1>6. CASE App!EventUnlinks(e)
    <2>1. ASSUME NEW x \in Repos
          PROVE  repo'[x].inst = repo[x].inst /\ repo'[x].tenant = repo[x].tenant
        <3>1. repo'[x] = repo[x] \/ repo'[x] = [repo[x] EXCEPT !.linked = FALSE]
            BY <1>6 DEF App!EventUnlinks, App!Unlinked
        <3>2. QED
            BY <1>1, <3>1 DEF RepoRow
    <2>2. QED
        BY <1>4, <2>1
<1>7. CASE App!FindInstallation(e) \/ App!EventMarksRemoved(e) \/ App!EventFails(e)
    <2>1. repo' = repo
        BY <1>7 DEF App!FindInstallation, App!EventMarksRemoved, App!EventFails
    <2>2. QED
        BY <1>4, <2>1
<1>8. QED
    BY <1>5, <1>6, <1>7 DEF App!Handle

LEMMA InstallTypeNext == InstallTypeInv /\ [App!Next]_(App!vars) => InstallTypeInv'
<1> SUFFICES ASSUME InstallTypeInv, [App!Next]_(App!vars) PROVE InstallTypeInv'
    OBVIOUS
<1>1. InstallInv'
    BY InstallInvNext DEF InstallTypeInv
<1>2. CASE \/ \E n \in Nonces, i \in Installations : App!Install(n, i) \/ App!Reconfigure(n, i)
           \/ \E i \in Installations : App!UninstallOnGitHub(i)
    <2>1. UNCHANGED <<inst, repo, crashes>>
        BY <1>2 DEF App!Install, App!Reconfigure, App!UninstallOnGitHub, App!Uninstalls, App!ghosts
    <2>2. github' = github \/ \E i \in Installations : \E s \in {"installed", "uninstalled"} :
                                  github' = [github EXCEPT ![i] = s]
        BY <1>2 DEF App!Install, App!Reconfigure, App!UninstallOnGitHub, App!Uninstalls
    <2>3. QED
        BY <1>1, <2>1, <2>2, InstallTypeKept
<1>3. CASE \/ UNCHANGED App!vars
           \/ \E n \in Nonces : App!Expire(n)
           \/ \E r \in Requests :
                 \/ \E t \in Tenants : App!GetInstallUrl(r, t)
                 \/ \E n \in Nonces, i \in Installations : App!ReadState(r, n, i)
                 \/ \E i \in Installations : App!Disconnect(r, i)
                 \/ \E t \in Tenants, x \in Repos : App!Connect(r, t, x)
    <2>1. UNCHANGED <<github, inst, repo, crashes>>
        BY <1>3 DEF App!vars, App!Expire, App!GetInstallUrl, App!ReadState, App!Disconnect,
                    App!Connect, App!external, App!ghosts
    <2>2. QED
        BY <1>1, <2>1, InstallTypeKept DEF InstallTypeInv
<1>4. QED
    BY <1>1, <1>2, <1>3, RequestStepTyped, EventStepTyped DEF App!Next

LEMMA InstallTypeIs == InstallTypeInv => App!TypeOK
BY DEF InstallTypeInv, InstallInv, InstallTyped, Handled, App!Known, ReqInv, EventsInv,
       RedirectsInv, NonceInv, InstInv, RepoInv, AppEvent, EventFields, Asking, AskingFields, AskingSteps, NonceRow, InstRow, RepoRow, App!TypeOK

(***************************************************************************)
(* Of the branches.                                                         *)
(***************************************************************************)

Linkable == {i \in Seq(InBranches!IdChar) : Len(i) = 36} \cup {None}

LEMMA IdAfterTyped ==
    ASSUME NEW b \in Seq(BranchChar), NEW kind
    PROVE  InBranches!IdAfter(b, kind) \in Linkable
<1> DEFINE hits == {i \in InBranches!After(b, {kind}) : InBranches!IdAt(b, i)}
<1>1. CASE hits = {}
    BY <1>1, Zenon DEF InBranches!IdAfter, Linkable
<1>2. CASE hits # {}
    <2>1. PICK n \in Nat : n = Len(b)
        OBVIOUS
    <2>2. hits \in SUBSET Nat
        <3>1. InBranches!After(b, {kind}) \subseteq 3..n
            BY <2>1, Zenon DEF InBranches!After
        <3>2. 3..n \subseteq Nat
            OBVIOUS
        <3>3. QED
            BY <3>1, <3>2
    <2>3. PICK i \in hits : i = InBranches!Min(hits)
        <3> HIDE DEF hits
        <3>1. QED
            BY <1>2, <2>2, MinIn
    <2>4. /\ i \in 3..n /\ i + 35 <= n /\ \A j \in i..(i + 35) : b[j] \in InBranches!IdChar
        BY <2>1, <2>3, Zenon DEF InBranches!After, InBranches!IdAt
    <2> DEFINE e == i + 35
               read == SubSeq(b, i, e)
    <2>5. /\ i \in Nat /\ e \in Nat /\ 1 <= i /\ i <= e /\ e <= n /\ e - i + 1 = 36
          /\ \A m \in 1..36 : i + m - 1 \in i..e
        BY <2>4
    <2>6. \A j \in i..e : b[j] \in InBranches!IdChar
        BY <2>4
    <2> HIDE DEF e
    <2>7. /\ read \in Seq(BranchChar) /\ Len(read) = 36
          /\ \A m \in 1..36 : read[m] = b[i + m - 1]
        <3>1. /\ SubSeq(b, i, e) \in Seq(BranchChar) /\ Len(SubSeq(b, i, e)) = e - i + 1
              /\ \A m \in 1..(e - i + 1) : SubSeq(b, i, e)[m] = b[i + m - 1]
            <4>1. /\ i \in Nat /\ e \in Nat /\ n \in Nat /\ n = Len(b)
                  /\ 1 <= i /\ i <= e /\ e <= n
                BY <2>1, <2>5
            <4>2. QED
                BY <4>1, SubIs, Zenon
        <3>2. QED
            BY <2>5, <3>1, Zenon
    <2> HIDE DEF read
    <2>8. \A m \in 1..36 : read[m] \in InBranches!IdChar
        BY <2>5, <2>6, <2>7
    <2>9. read \in Linkable
        <3>1. 36 \in Nat
            OBVIOUS
        <3>2. QED
            BY <2>7, <2>8, <3>1, SeqOf, Zenon DEF Linkable
    <2>10. InBranches!IdAfter(b, kind) = read
        BY <1>2, <2>3, Zenon DEF InBranches!IdAfter, read, e
    <2>11. QED
        BY <2>9, <2>10
<1>3. QED
    BY <1>1, <1>2

LEMMA ExtractTyped ==
    ASSUME NEW b \in Seq(BranchChar), NEW text \in InBranches!Bodies
    PROVE  InBranches!ExtractFeatureId(b, text) \in Linkable
<1>1. InBranches!Ids \subseteq Linkable /\ None \in Linkable
    BY IdsAre, Zenon DEF Linkable
<1>2. \A i : InBranches!FeatureOfBug(i) \in Linkable
    <2>1. \A i \in Bugs : Parent[i] \in InBranches!Ids \cup {None}
        BY OutsideAssumption DEF InBranches!BranchAssumption, InBranches!Ids
    <2>2. QED
        BY <1>1, <2>1 DEF InBranches!FeatureOfBug
<1>3. InBranches!InBody(text) \in Linkable
    <2>1. CASE text = InBranches!NoBody
        BY <1>1, <2>1 DEF InBranches!NoBody, InBranches!InBody
    <2>2. CASE text \in [says : {"bug", "feature", "closes"}, id : InBranches!Ids]
        <3>1. text.says \in {"bug", "feature", "closes"} /\ text.id \in InBranches!Ids
            BY <2>2
        <3>2. QED
            BY <1>1, <1>2, <3>1 DEF InBranches!InBody
    <2>3. QED
        BY <2>1, <2>2 DEF InBranches!Bodies
<1>4. /\ InBranches!IdAfter(b, InBranches!Bug) \in Linkable
      /\ InBranches!IdAfter(b, InBranches!Feature) \in Linkable
      /\ InBranches!IdAfter(b, InBranches!Feat) \in Linkable
    BY IdAfterTyped
<1>5. \A k : InBranches!WithKey(k) # {} =>
          (CHOOSE f \in InBranches!WithKey(k) : TRUE) \in InBranches!Ids
    <2>1. \A k : InBranches!WithKey(k) \subseteq InBranches!Ids
        BY DEF InBranches!WithKey, InBranches!Ids
    <2>2. QED
        BY <2>1
<1>6. QED
    BY <1>1, <1>2, <1>3, <1>4, <1>5 DEF InBranches!ExtractFeatureId

BranchTyped ==
    /\ work \in InBranches!Ids \cup {None} /\ title \in Titles
    /\ body \in InBranches!Bodies /\ branch \in Seq(BranchChar)
    /\ opened \in BOOLEAN /\ linked \in Linkable

LEMMA BranchTypeInit == InBranches!Init => BranchTyped
<1>1. <<>> \in Titles /\ <<>> \in Seq(BranchChar) /\ None \in Linkable
    BY OutsideAssumption DEF InBranches!BranchAssumption, Linkable
<1>2. QED
    BY <1>1 DEF InBranches!Init, BranchTyped, InBranches!Bodies

LEMMA BranchTypeNext == BranchTyped /\ [InBranches!Next]_(InBranches!vars) => BranchTyped'
<1> SUFFICES ASSUME BranchTyped, [InBranches!Next]_(InBranches!vars) PROVE BranchTyped'
    OBVIOUS
<1>1. CASE UNCHANGED InBranches!vars
    BY <1>1 DEF BranchTyped, InBranches!vars
<1>2. ASSUME NEW w \in InBranches!Ids, InBranches!CheckOut(w) PROVE BranchTyped'
    <2>1. title' \in Titles /\ work' = w /\ UNCHANGED <<body, opened, linked>>
        BY <1>2 DEF InBranches!CheckOut
    <2>2. branch' = IF w \in Features THEN Shown(w, title') ELSE InBranches!BugBranchName(w)
        BY <1>2 DEF InBranches!CheckOut, Shown
    <2>3. branch' \in Seq(BranchChar)
        BY <2>1, <2>2, NamesAre DEF InBranches!Ids
    <2>4. QED
        BY <2>1, <2>3 DEF BranchTyped
<1>3. ASSUME NEW kind \in InBranches!Kinds, InBranches!MakeUp(kind) PROVE BranchTyped'
    <2>1. /\ title' \in Titles /\ branch' = kind \o <<"/">> \o title'
          /\ UNCHANGED <<work, body, opened, linked>>
        BY <1>3 DEF InBranches!MakeUp
    <2>2. branch' \in Seq(BranchChar)
        BY <2>1, MadeUpIs
    <2>3. QED
        BY <2>1, <2>2 DEF BranchTyped
<1>4. ASSUME NEW text \in InBranches!Bodies, InBranches!OpenPullRequest(text) PROVE BranchTyped'
    <2>1. linked' \in Linkable
        BY <1>4, ExtractTyped DEF InBranches!OpenPullRequest, BranchTyped
    <2>2. QED
        BY <1>4, <2>1 DEF InBranches!OpenPullRequest, BranchTyped
<1>5. QED
    BY <1>1, <1>2, <1>3, <1>4 DEF InBranches!Next

LEMMA BranchTypeIs == BranchTyped => InBranches!TypeOK
BY DEF BranchTyped, InBranches!TypeOK, Linkable, BranchChar

(***************************************************************************)
(* Of the summaries.                                                        *)
(***************************************************************************)

\* Rows and generations are of pull requests that there are, and a hook tells of a diff that
\* there was.
SummaryTypeInv ==
    /\ SummaryInv /\ restarts \in 0..MaxRestarts /\ rows \subseteq PRs
    /\ \A p \in PRs : diff[p] <= MaxDiffs /\ (summary[p] > 0 => p \in rows)
    /\ \A p \in merged \cup rows : diff[p] > 0
    /\ \A h \in hooks : h.diff > 0 /\ h.diff <= diff[h.pr]
    /\ \A j \in jobs : j.pr \in rows

LEMMA SummaryTypeInit == InSummary!Init => SummaryTypeInv
<1> SUFFICES ASSUME InSummary!Init PROVE SummaryTypeInv
    OBVIOUS
<1>1. 0 \in 0..MaxRestarts /\ 0 <= MaxDiffs
    BY OutsideAssumption DEF InSummary!AiSummaryAssumption
<1>2. QED
    BY <1>1, SummaryInit DEF InSummary!Init, SummaryTypeInv

\* GitHub goes on.
LEMMA PushTyped ==
    ASSUME SummaryTypeInv, SummaryInv', NEW p \in PRs, InSummary!Push(p) \/ InSummary!Merge(p)
    PROVE  SummaryTypeInv'
<1>1. /\ diff \in [PRs -> Nat] /\ MaxDiffs \in Nat
      /\ UNCHANGED <<rows, summary, jobs, restarts>>
    BY OutsideAssumption DEF SummaryTypeInv, SummaryInv, SummariesTyped,
       InSummary!AiSummaryAssumption, InSummary!Push, InSummary!Merge
<1>2. \A q \in PRs : diff'[q] \in Nat /\ diff'[q] >= diff[q] /\ diff'[q] <= MaxDiffs
    BY <1>1 DEF InSummary!Push, InSummary!Merge, SummaryTypeInv
<1>3. /\ rows \subseteq PRs /\ merged \subseteq PRs
      /\ \A h \in hooks : h.pr \in PRs /\ h.diff \in Nat
    BY DEF SummaryTypeInv, SummaryInv, SummariesTyped, Webhook
<1>4. \A q \in merged' : q \in PRs /\ diff'[q] > 0
    <2>1. \A q \in merged' : q \in PRs /\ diff[q] > 0
        BY <1>3 DEF InSummary!Push, InSummary!Merge, SummaryTypeInv
    <2>2. QED
        BY <1>1, <1>2, <2>1
<1>5. \A q \in rows' : diff'[q] > 0
    <2>1. \A q \in rows' : q \in PRs /\ diff[q] > 0
        BY <1>1, <1>3 DEF SummaryTypeInv
    <2>2. QED
        BY <1>1, <1>2, <2>1
<1>6. \A h \in hooks' : h.diff > 0 /\ h.diff <= diff'[h.pr]
    <2>1. \A h \in hooks : h.diff > 0 /\ h.diff <= diff'[h.pr]
        <3>1. \A h \in hooks : h.pr \in PRs /\ h.diff \in Nat /\ h.diff > 0 /\ h.diff <= diff[h.pr]
            BY <1>3 DEF SummaryTypeInv
        <3>2. QED
            BY <1>1, <1>2, <3>1
    <2>2. CASE InSummary!Push(p)
        <3>1. diff'[p] = diff[p] + 1
            BY <1>1, <2>2 DEF InSummary!Push
        <3>2. PICK kind : hooks' = hooks \cup {[pr |-> p, kind |-> kind, diff |-> diff[p] + 1]}
            BY <2>2 DEF InSummary!Push, InSummary!Sent
        <3>3. QED
            BY <1>1, <2>1, <3>1, <3>2
    <2>3. CASE InSummary!Merge(p)
        <3>1. diff' = diff /\ diff[p] > 0
            BY <2>3 DEF InSummary!Merge
        <3>2. hooks' = hooks \cup {[pr |-> p, kind |-> "merged", diff |-> diff[p]]}
            BY <2>3 DEF InSummary!Merge, InSummary!Sent
        <3>3. QED
            BY <1>1, <2>1, <3>1, <3>2
    <2>4. QED
        BY <2>2, <2>3
<1>7. QED
    BY <1>1, <1>2, <1>4, <1>5, <1>6 DEF SummaryTypeInv

\* The server goes on: it tells of nothing new to GitHub.
LEMMA ServerTyped ==
    ASSUME SummaryTypeInv, SummaryInv', UNCHANGED <<diff, merged>>, hooks' \subseteq hooks,
           restarts' \in 0..MaxRestarts, rows \subseteq rows', rows' \subseteq PRs,
           \A p \in rows' \ rows : \E h \in hooks : h.pr = p,
           \A p \in PRs : summary'[p] = summary[p] \/ p \in rows,
           \A j \in jobs' : j.pr \in rows'
    PROVE  SummaryTypeInv'
<1>1. \A p \in rows' : diff[p] > 0
    <2>1. \A h \in hooks : h.pr \in PRs /\ h.diff \in Nat /\ diff[h.pr] \in Nat
        BY DEF SummaryTypeInv, SummaryInv, SummariesTyped, Webhook
    <2>2. \A h \in hooks : diff[h.pr] > 0
        BY <2>1 DEF SummaryTypeInv
    <2>3. QED
        BY <2>2 DEF SummaryTypeInv
<1>2. QED
    BY <1>1 DEF SummaryTypeInv

LEMMA SummaryTypeNext == SummaryTypeInv /\ [InSummary!Next]_(InSummary!vars) => SummaryTypeInv'
<1> SUFFICES ASSUME SummaryTypeInv, [InSummary!Next]_(InSummary!vars) PROVE SummaryTypeInv'
    OBVIOUS
<1>1. SummaryInv'
    BY SummaryNext DEF SummaryTypeInv
<1>2. ASSUME NEW h \in hooks, InSummary!HandleHook(h) PROVE SummaryTypeInv'
    <2>1. h.pr \in PRs
        BY DEF SummaryTypeInv, SummaryInv, SummariesTyped, Webhook
    <2>2. /\ UNCHANGED <<diff, merged, summary, restarts>> /\ hooks' \subseteq hooks
          /\ rows' = rows \/ rows' = rows \cup {h.pr}
        BY <1>2 DEF InSummary!HandleHook, InSummary!onGitHub
    <2>3. \A j \in jobs' : j \in jobs \/ (j.pr = h.pr /\ h.pr \in rows')
        BY <1>2 DEF InSummary!HandleHook, InSummary!Job
    <2>4. \A j \in jobs' : j.pr \in rows'
        BY <2>2, <2>3 DEF SummaryTypeInv
    <2>5. QED
        BY <1>1, <2>1, <2>2, <2>4, ServerTyped DEF SummaryTypeInv
<1>3. ASSUME NEW j \in jobs, InSummary!Progress(j) \/ InSummary!Fail(j) PROVE SummaryTypeInv'
    <2>1. j \in Generation /\ j.pr \in rows
        BY DEF SummaryTypeInv, SummaryInv, SummariesTyped
    <2>2. UNCHANGED <<diff, merged, hooks, rows, restarts>>
        BY <1>3 DEF InSummary!Progress, InSummary!Fail, InSummary!GetToken, InSummary!FetchDiff,
                    InSummary!Review, InSummary!SaveSummary, InSummary!onGitHub
    <2>3. \A k \in jobs' : k \in jobs \/ k.pr = j.pr
        <3>1. CASE InSummary!GetToken(j)
            BY <2>1, <3>1 DEF InSummary!GetToken, InSummary!Becomes, Generation
        <3>2. CASE InSummary!FetchDiff(j)
            BY <2>1, <3>2 DEF InSummary!FetchDiff, InSummary!Becomes, Generation
        <3>3. CASE InSummary!Review(j)
            BY <2>1, <3>3 DEF InSummary!Review, InSummary!Becomes, Generation
        <3>4. CASE InSummary!SaveSummary(j) \/ InSummary!Fail(j)
            BY <3>4 DEF InSummary!SaveSummary, InSummary!Fail
        <3>5. QED
            BY <1>3, <3>1, <3>2, <3>3, <3>4 DEF InSummary!Progress
    <2>4. \A p \in PRs : summary'[p] = summary[p] \/ p \in rows
        <3>1. summary \in [PRs -> Nat]
            BY DEF SummaryTypeInv, SummaryInv, SummariesTyped
        <3>2. summary' = summary \/ summary' = [summary EXCEPT ![j.pr] = j.diff]
            BY <1>3 DEF InSummary!Progress, InSummary!Fail, InSummary!GetToken,
               InSummary!FetchDiff, InSummary!Review, InSummary!SaveSummary
        <3>3. QED
            BY <2>1, <3>1, <3>2
    <2>5. \A k \in jobs' : k.pr \in rows
        BY <2>1, <2>3 DEF SummaryTypeInv
    <2>6. QED
        BY <1>1, <2>2, <2>4, <2>5, ServerTyped DEF SummaryTypeInv
<1>4. CASE InSummary!Restart \/ UNCHANGED InSummary!vars
    <2>1. restarts' \in 0..MaxRestarts
        BY <1>4, OutsideAssumption DEF InSummary!Restart, InSummary!vars, SummaryTypeInv,
           InSummary!AiSummaryAssumption
    <2>2. /\ UNCHANGED <<diff, merged, hooks, rows, summary>> /\ jobs' \subseteq jobs
        BY <1>4 DEF InSummary!Restart, InSummary!vars, InSummary!onGitHub
    <2>3. QED
        BY <1>1, <2>1, <2>2, ServerTyped DEF SummaryTypeInv
<1>5. QED
    BY <1>1, <1>2, <1>3, <1>4, PushTyped DEF InSummary!Next

LEMMA SummaryTypeIs == SummaryTypeInv => InSummary!TypeOK
<1> SUFFICES ASSUME SummaryTypeInv PROVE InSummary!TypeOK
    OBVIOUS
<1>1. /\ diff \in [PRs -> Nat] /\ MaxDiffs \in Nat
      /\ hooks \subseteq Webhook /\ jobs \subseteq Generation
      /\ \A p \in PRs : summary[p] <= diff[p]
      /\ \A j \in jobs : j.diff <= diff[j.pr]
    BY OutsideAssumption
    DEF SummaryTypeInv, SummaryInv, SummariesTyped, DiffsKnown, InSummary!AiSummaryAssumption
<1>2. diff \in [PRs -> 0..MaxDiffs]
    <2>1. \A p \in PRs : diff[p] \in 0..MaxDiffs
        BY <1>1 DEF SummaryTypeInv
    <2>2. QED
        BY <1>1, <2>1
<1>3. \A h \in hooks : h.pr \in PRs /\ h.kind \in InSummary!Kinds /\ h.diff \in 1..diff[h.pr]
    <2>1. \A h \in hooks : h.pr \in PRs /\ h.kind \in InSummary!Kinds /\ h.diff \in Nat
        BY <1>1 DEF Webhook
    <2>2. QED
        BY <1>1, <2>1 DEF SummaryTypeInv
<1>4. \A j \in jobs : /\ j.pr \in rows /\ j.kind \in InSummary!Kinds
                      /\ j.at \in {"token", "fetch", "review", "save"}
    BY <1>1 DEF Generation, SummaryTypeInv
<1>5. QED
    BY <1>1, <1>2, <1>3, <1>4 DEF SummaryTypeInv, InSummary!TypeOK

\* Every table, request and event keeps to its type: a repository is of the workspace of its
\* installation, which never passes to another, an event is handled for a saved installation only,
\* and no summary is of a diff that there was not (InvitationsService, GitHubService).
THEOREM OutsideTyped == PartSpec => []AllTypeOK
<1> DEFINE Inv == TypeOK /\ InstallTypeInv /\ BranchTyped /\ SummaryTypeInv
<1>1. PartInit => Inv
    BY InviteTypeInit, InstallTypeInit, BranchTypeInit, SummaryTypeInit DEF PartInit
<1>2. Inv /\ [PartNext]_<<part, vars, installation, branches, summaries>> => Inv'
    <2> SUFFICES ASSUME Inv, [PartNext]_<<part, vars, installation, branches, summaries>>
                 PROVE  Inv'
        OBVIOUS
    <2>1. /\ [Next]_vars /\ [App!Next]_(App!vars)
          /\ [InBranches!Next]_(InBranches!vars) /\ [InSummary!Next]_(InSummary!vars)
        BY DEF PartNext, installation, branches, summaries, App!vars, InBranches!vars,
               InSummary!vars
    <2>2. QED
        BY <2>1, InviteTypeNext, InstallTypeNext, BranchTypeNext, SummaryTypeNext
<1>3. Inv => AllTypeOK
    BY InstallTypeIs, BranchTypeIs, SummaryTypeIs DEF AllTypeOK
<1>4. QED
    BY <1>1, <1>2, <1>3, PTL DEF PartSpec
=============================================================================
