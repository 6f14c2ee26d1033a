------------------------------ MODULE PRWebhook ------------------------------
(***************************************************************************)
(* Pull-request webhooks: GitHub delivers the events of a pull request to   *)
(* POST /github/webhook, GithubService.handleWebhook records each delivery  *)
(* in WebhookEvent, mirrors the pull request in PullRequest, moves the      *)
(* linked feature, writes the activity log and notifies the assignee.       *)
(*                                                                         *)
(* Every attempt at a delivery is a request of its own.  Between two awaits *)
(* of one request any other request may run, so each database read, write   *)
(* or $transaction of the handler is one action here.  A transaction of the *)
(* handler is one step: its reads inside do not decide anything that        *)
(* another request could change before it commits, except the deletion of   *)
(* the feature in between, which rolls it back (action Throw).              *)
(*                                                                         *)
(* One tenant, one repository.  The AI summary and the wording are left     *)
(* out; `attempts' and `error' of WebhookEvent are written and never read.  *)
(***************************************************************************)
EXTENDS Naturals, FiniteSets, Sequences

CONSTANTS
    PRs,          \* pull requests on GitHub, by node_id
    Features,     \* feature ids
    Members,      \* workspace members
    Handlers,     \* request slots: attempts that may be in progress at once
    None,         \* SQL null
    BranchRef,    \* what the branch name of each pull request refers to
    InitAssignee, \* assignedToId of each feature at the start
    Kinds,        \* the webhook actions GitHub sends in this instance
    Chosen,       \* the statuses members give features in this instance
    Ordered,      \* TRUE: GitHub sends an event once the previous one is settled
    MaxEvents,    \* bound: events GitHub emits per pull request
    MaxTimeouts,  \* bound: attempts GitHub gives up waiting for
    MaxFaults,    \* bound: crashes and database errors
    MaxEdits      \* bound: operations of members during the run

FeatureStatus == {"BACKLOG", "PLANNED", "IN_PROGRESS", "IN_REVIEW", "DONE", "CANCELLED"}
Actions == {"opened", "closed", "merged", "reopened", "synchronize", "edited"}
RefKinds == {"none", "lookup", "verbatim"}

ASSUME WebhookAssumption ==
    /\ None \notin Features \cup Members \cup {"AUTO_BRANCH", "MANUAL"}
    /\ BranchRef \in [PRs -> [kind : RefKinds, feature : Features]]
    /\ InitAssignee \in [Features -> Members \cup {None}]
    /\ Kinds \subseteq Actions
    /\ Chosen \subseteq FeatureStatus
    /\ Ordered \in BOOLEAN
    /\ {MaxEvents, MaxTimeouts, MaxFaults, MaxEdits} \subseteq Nat

VARIABLES
    github,        \* what GitHub holds: status of each pull request, events sent
    payload,       \* the action each delivery carries, "none" before it exists
    outbox,        \* deliveries GitHub still has to send, or to send again
    attempt,       \* the request each handler slot is working on
    webhookEvent,  \* table WebhookEvent: status by deliveryId
    pullRequest,   \* table PullRequest
    feature,       \* table Feature: status and assignee
    activity,      \* table ActivityLog: number of rows by <<pr, feature, kind>>
    notification,  \* table Notification, by what its deduplicationKey names
    repoLinked,    \* GitHubRepository.projectId is not null
    timeouts, faults, edits

externals == <<github, payload>>
tables == <<webhookEvent, pullRequest, feature, activity, notification>>
counters == <<timeouts, faults, edits>>
vars == <<externals, outbox, attempt, tables, repoLinked, counters>>

Deliveries == PRs \X (1..MaxEvents)

PRStatus == {"ABSENT", "OPEN", "CLOSED", "MERGED"}
EventStatus == {"NONE", "PROCESSING", "IGNORED", "PROCESSED", "FAILED"}
LogKind == {"OPENED", "MERGED", "REOPENED", "LINKED", "UNLINKED"}
NoticeType == {"PR_OPENED", "PR_MERGED", "PR_LINKED"}

\* Where a handler stands; InTry is the try block of handleWebhook.
InTry == {"extract", "find", "write", "notify", "mark"}
Step == {"check", "upsert", "lookup", "ignore", "fail", "reply"} \cup InTry

Notice == [type : NoticeType, pr : PRs, to : Members]
Row == [status : PRStatus, feature : Features \cup {None},
        linkSource : {"AUTO_BRANCH", "MANUAL", None}, content : 0..MaxEvents]
Attempt == [step : Step, pr : PRs, seq : 1..MaxEvents, awaited : BOOLEAN,
            feature : Features \cup {None}]

\* A row that is not in the table, and a slot with no request.
NoRow == [status |-> "ABSENT", feature |-> None, linkSource |-> None, content |-> 0]
Idle == [step |-> "idle"]

DeliveryOf(h) == <<attempt[h].pr, attempt[h].seq>>
ActionOf(h) == payload[DeliveryOf(h)]

Exists(p) == pullRequest[p].status # "ABSENT"
Live(f) == f \in Features /\ feature[f].status # "DELETED"

TypeOK ==
    /\ github \in [PRs -> [status : PRStatus, sent : 0..MaxEvents]]
    /\ payload \in [Deliveries -> Actions \cup {"none"}]
    /\ outbox \subseteq Deliveries
    /\ attempt \in [Handlers -> Attempt \cup {Idle}]
    /\ webhookEvent \in [Deliveries -> EventStatus]
    /\ pullRequest \in [PRs -> Row]
    /\ feature \in [Features -> [status : FeatureStatus \cup {"DELETED"},
                                 assignee : Members \cup {None}]]
    /\ activity \in [PRs \X Features \X LogKind -> Nat]
    /\ notification \subseteq Notice
    /\ repoLinked \in BOOLEAN
    /\ timeouts \in 0..MaxTimeouts /\ faults \in 0..MaxFaults /\ edits \in 0..MaxEdits

Init ==
    /\ github = [p \in PRs |-> [status |-> "ABSENT", sent |-> 0]]
    /\ payload = [d \in Deliveries |-> "none"]
    /\ outbox = {}
    /\ attempt = [h \in Handlers |-> Idle]
    /\ webhookEvent = [d \in Deliveries |-> "NONE"]
    /\ pullRequest = [p \in PRs |-> NoRow]
    /\ feature = [f \in Features |-> [status |-> "PLANNED",
                                      assignee |-> InitAssignee[f]]]
    /\ activity = [x \in PRs \X Features \X LogKind |-> 0]
    /\ notification = {}
    /\ repoLinked \in BOOLEAN
    /\ timeouts = 0 /\ faults = 0 /\ edits = 0

(***************************************************************************)
(* GitHub.                                                                  *)
(***************************************************************************)

\* What each webhook action needs of the pull request and what it makes of it.
Before(a) == CASE a = "opened" -> {"ABSENT"}
               [] a \in {"closed", "merged", "synchronize"} -> {"OPEN"}
               [] a = "reopened" -> {"CLOSED"}
               [] a = "edited" -> {"OPEN", "CLOSED", "MERGED"}
After(a, s) == CASE a \in {"opened", "reopened"} -> "OPEN"
                 [] a = "closed" -> "CLOSED"
                 [] a = "merged" -> "MERGED"
                 [] OTHER -> s

\* Something happens to pull request p: GitHub queues one delivery for it.
GitHubEvent(p, a) ==
    LET n == github[p].sent + 1 IN
    /\ a \in Kinds /\ github[p].status \in Before(a) /\ n <= MaxEvents
    /\ github' = [github EXCEPT ![p] = [status |-> After(a, @.status), sent |-> n]]
    /\ payload' = [payload EXCEPT ![<<p, n>>] = a]
    /\ outbox' = outbox \cup {<<p, n>>}
    /\ UNCHANGED <<attempt, tables, repoLinked, counters>>

InProgress(d) == \E h \in Handlers : attempt[h] # Idle /\ DeliveryOf(h) = d

\* A delivery (the first one or a redelivery) reaches a free request slot, in
\* any order; with Ordered, once the earlier ones of the pull request are done.
Receive(h, d) ==
    /\ attempt[h] = Idle /\ d \in outbox
    /\ Ordered => \A i \in 1..(d[2] - 1) :
                     <<d[1], i>> \notin outbox /\ ~InProgress(<<d[1], i>>)
    /\ attempt' = [attempt EXCEPT ![h] = [step |-> "check", pr |-> d[1], seq |-> d[2],
                                          awaited |-> TRUE, feature |-> None]]
    /\ outbox' = outbox \ {d}
    /\ UNCHANGED <<externals, tables, repoLinked, counters>>

\* GitHub stops waiting and will send the delivery again; the attempt runs on.
TimeOut(h) ==
    /\ attempt[h] # Idle /\ attempt[h].awaited /\ timeouts < MaxTimeouts
    /\ attempt' = [attempt EXCEPT ![h].awaited = FALSE]
    /\ outbox' = outbox \cup {DeliveryOf(h)}
    /\ timeouts' = timeouts + 1
    /\ UNCHANGED <<externals, tables, repoLinked, faults, edits>>

(***************************************************************************)
(* handleWebhook, one action per await.                                     *)
(***************************************************************************)

At(h, s) == attempt[h] # Idle /\ attempt[h].step = s
Goto(h, s) == attempt' = [attempt EXCEPT ![h].step = s]

Succeed(h) == attempt' = [attempt EXCEPT ![h] = Idle] /\ UNCHANGED outbox
Refuse(h) ==
    /\ attempt' = [attempt EXCEPT ![h] = Idle]
    /\ outbox' = IF attempt[h].awaited THEN outbox \cup {DeliveryOf(h)} ELSE outbox

SetEvent(h, s) == webhookEvent' = [webhookEvent EXCEPT ![DeliveryOf(h)] = s]

\* Mutant: any earlier attempt counts as done.
CheckDuplicate_AnyEvent(h) ==
    /\ At(h, "check")
    /\ \/ webhookEvent[DeliveryOf(h)] # "NONE" /\ Succeed(h)
       \/ webhookEvent[DeliveryOf(h)] = "NONE" /\ Goto(h, "upsert") /\ UNCHANGED outbox
    /\ UNCHANGED <<externals, tables, repoLinked, counters>>

\* Mutant: no idempotency guard.
CheckDuplicate_Never(h) ==
    /\ At(h, "check") /\ Goto(h, "upsert")
    /\ UNCHANGED <<externals, outbox, tables, repoLinked, counters>>

\* The idempotency guard: only a PROCESSED delivery is answered without work.
CheckDuplicate(h) ==
    /\ At(h, "check")
    /\ \/ webhookEvent[DeliveryOf(h)] = "PROCESSED" /\ Succeed(h)
       \/ /\ webhookEvent[DeliveryOf(h)] # "PROCESSED"
          /\ Goto(h, "upsert") /\ UNCHANGED outbox
    /\ UNCHANGED <<externals, tables, repoLinked, counters>>

UpsertEvent(h) ==
    /\ At(h, "upsert")
    /\ SetEvent(h, "PROCESSING") /\ Goto(h, "lookup")
    /\ UNCHANGED <<externals, outbox, pullRequest, feature, activity, notification,
                   repoLinked, counters>>

LookupRepository(h) ==
    /\ At(h, "lookup")
    /\ Goto(h, IF repoLinked THEN "extract" ELSE "ignore")
    /\ UNCHANGED <<externals, outbox, tables, repoLinked, counters>>

MarkIgnored(h) ==
    /\ At(h, "ignore")
    /\ SetEvent(h, "IGNORED") /\ Goto(h, "reply")
    /\ UNCHANGED <<externals, outbox, pullRequest, feature, activity, notification,
                   repoLinked, counters>>

\* An id written out in the branch is returned as it stands; a key or a bug id
\* is looked up and resolves only while the row is there.
ResolvedFeature(p) ==
    LET ref == BranchRef[p]
    IN  IF \/ ref.kind = "verbatim"
           \/ ref.kind = "lookup" /\ Live(ref.feature)
        THEN ref.feature ELSE None

\* extractFeatureId, then the switch: an action without a case goes to `mark'.
ExtractFeature(h) ==
    /\ At(h, "extract")
    /\ attempt' = [attempt EXCEPT ![h] =
          [@ EXCEPT !.step = IF ActionOf(h) = "edited" THEN "mark" ELSE "find",
                    !.feature = ResolvedFeature(attempt[h].pr)]]
    /\ UNCHANGED <<externals, outbox, tables, repoLinked, counters>>

\* Mutant: an event about an unknown pull request is taken as done.
FindPullRequest_MissingIsDone(h) ==
    LET p == attempt[h].pr
        stop == (ActionOf(h) = "opened") = Exists(p)
    IN
    /\ At(h, "find")
    /\ attempt' = [attempt EXCEPT ![h].step = IF stop THEN "mark" ELSE "write",
                                  ![h].feature = IF Exists(p) THEN pullRequest[p].feature ELSE @]
    /\ UNCHANGED <<externals, outbox, tables, repoLinked, counters>>

\* The read that opens each of the four handlers.  `opened' stops at a row that
\* exists; the others need it, and keep the featureId they read here.
FindPullRequest(h) ==
    LET p == attempt[h].pr IN
    /\ At(h, "find")
    /\ \/ ActionOf(h) = "opened" /\ ~Exists(p) /\ Goto(h, "write")
       \/ ActionOf(h) = "opened" /\ Exists(p) /\ Goto(h, "mark")
       \/ ActionOf(h) # "opened" /\ ~Exists(p) /\ Goto(h, "fail")
       \/ /\ ActionOf(h) # "opened" /\ Exists(p)
          /\ attempt' = [attempt EXCEPT ![h] =
                [@ EXCEPT !.step = "write", !.feature = pullRequest[p].feature]]
    /\ UNCHANGED <<externals, outbox, tables, repoLinked, counters>>

\* Mutant: nothing is logged when the feature already has the status.
MoveFeature_OnlyOnChange(p, f, s, kind) ==
    \/ /\ Live(f) /\ feature[f].status # s
       /\ feature' = [feature EXCEPT ![f].status = s]
       /\ activity' = [activity EXCEPT ![<<p, f, kind>>] = @ + 1]
    \/ (Live(f) => feature[f].status = s) /\ UNCHANGED <<feature, activity>>

\* The part the three transactions share: the feature, if it is still there,
\* takes status s and the change is logged.
MoveFeature(p, f, s, kind) ==
    \/ /\ Live(f)
       /\ feature' = [feature EXCEPT ![f].status = s]
       /\ activity' = [activity EXCEPT ![<<p, f, kind>>] = @ + 1]
    \/ ~Live(f) /\ UNCHANGED <<feature, activity>>

\* Only a resolved feature has an assignee to look for.
GotoNotify(h) == Goto(h, IF attempt[h].feature = None THEN "mark" ELSE "notify")

\* Mutant: node_id is not unique.
Insertable_NotUnique(p, f) == f = None \/ Live(f)

\* The insert succeeds: githubNodeId is unique and featureId a foreign key.
Insertable(p, f) == ~Exists(p) /\ (f = None \/ Live(f))

\* The transaction of handlePROpened.  The unique githubNodeId, or a featureId
\* that is not in the table, makes the insert fail and rolls everything back.
CreatePullRequest(h) ==
    LET p == attempt[h].pr
        f == attempt[h].feature
    IN
    /\ At(h, "write") /\ ActionOf(h) = "opened"
    /\ \/ /\ Insertable(p, f)
          /\ pullRequest' = [pullRequest EXCEPT ![p] =
                [status |-> "OPEN", feature |-> f,
                 linkSource |-> IF f = None THEN None ELSE "AUTO_BRANCH",
                 content |-> attempt[h].seq]]
          /\ MoveFeature(p, f, "IN_PROGRESS", "OPENED")
          /\ GotoNotify(h)
       \/ /\ ~Insertable(p, f) /\ Goto(h, "fail")
          /\ UNCHANGED <<pullRequest, feature, activity>>
    /\ UNCHANGED <<externals, outbox, webhookEvent, notification, repoLinked, counters>>

\* Mutant: a pull request closed without a merge moves the feature as well.
RecordClosed_IgnoresMerged(h) ==
    LET p == attempt[h].pr IN
    /\ At(h, "write") /\ ActionOf(h) \in {"closed", "merged"}
    /\ pullRequest' = [pullRequest EXCEPT
            ![p].status = IF ActionOf(h) = "merged" THEN "MERGED" ELSE "CLOSED"]
    /\ MoveFeature(p, attempt[h].feature, "IN_REVIEW", "MERGED")
    /\ GotoNotify(h)
    /\ UNCHANGED <<externals, outbox, webhookEvent, notification, repoLinked, counters>>

\* The transaction of handlePRClosed, on the feature read before it.
RecordClosed(h) ==
    LET p == attempt[h].pr IN
    /\ At(h, "write")
    /\ \/ /\ ActionOf(h) = "closed"
          /\ pullRequest' = [pullRequest EXCEPT ![p].status = "CLOSED"]
          /\ Goto(h, "mark") /\ UNCHANGED <<feature, activity>>
       \/ /\ ActionOf(h) = "merged"
          /\ pullRequest' = [pullRequest EXCEPT ![p].status = "MERGED"]
          /\ MoveFeature(p, attempt[h].feature, "IN_REVIEW", "MERGED")
          /\ GotoNotify(h)
    /\ UNCHANGED <<externals, outbox, webhookEvent, notification, repoLinked, counters>>

\* The transaction of handlePRReopened.
RecordReopened(h) ==
    LET p == attempt[h].pr IN
    /\ At(h, "write") /\ ActionOf(h) = "reopened"
    /\ pullRequest' = [pullRequest EXCEPT ![p].status = "OPEN"]
    /\ MoveFeature(p, attempt[h].feature, "IN_PROGRESS", "REOPENED")
    /\ Goto(h, "mark")
    /\ UNCHANGED <<externals, outbox, webhookEvent, notification, repoLinked, counters>>

\* handlePRSynchronize overwrites title and description with the payload's.
RecordSynchronize(h) ==
    /\ At(h, "write") /\ ActionOf(h) = "synchronize"
    /\ pullRequest' = [pullRequest EXCEPT ![attempt[h].pr].content = attempt[h].seq]
    /\ Goto(h, "mark")
    /\ UNCHANGED <<externals, outbox, webhookEvent, feature, activity, notification,
                   repoLinked, counters>>

NoticeOf(a) == IF a = "opened" THEN "PR_OPENED" ELSE "PR_MERGED"

\* Mutant: no test that the feature has an assignee.
NotifyAssignee_NoNullTest(h) ==
    LET f == attempt[h].feature IN
    /\ At(h, "notify")
    /\ notification' = notification \cup
           [type : {NoticeOf(ActionOf(h))}, pr : {attempt[h].pr},
            to : IF Live(f) THEN {feature[f].assignee} ELSE {}]
    /\ Goto(h, "mark")
    /\ UNCHANGED <<externals, outbox, webhookEvent, pullRequest, feature, activity,
                   repoLinked, counters>>

\* The assignee is read again after the commit; the deduplicationKey names the
\* type and the pull request, so a second insert for a member changes nothing.
NotifyAssignee(h) ==
    LET f == attempt[h].feature
        to == IF Live(f) THEN feature[f].assignee ELSE None
    IN
    /\ At(h, "notify")
    /\ notification' = notification \cup
           [type : {NoticeOf(ActionOf(h))}, pr : {attempt[h].pr}, to : {to} \ {None}]
    /\ Goto(h, "mark")
    /\ UNCHANGED <<externals, outbox, webhookEvent, pullRequest, feature, activity,
                   repoLinked, counters>>

MarkProcessed(h) ==
    /\ At(h, "mark")
    /\ SetEvent(h, "PROCESSED") /\ Goto(h, "reply")
    /\ UNCHANGED <<externals, outbox, pullRequest, feature, activity, notification,
                   repoLinked, counters>>

Reply(h) ==
    /\ At(h, "reply") /\ Succeed(h)
    /\ UNCHANGED <<externals, tables, repoLinked, counters>>

\* The catch block: record the failure and rethrow, so GitHub gets an error.
MarkFailed(h) ==
    /\ At(h, "fail")
    /\ SetEvent(h, "FAILED") /\ Refuse(h)
    /\ UNCHANGED <<externals, pullRequest, feature, activity, notification,
                   repoLinked, counters>>

\* A query or a commit inside the try block fails: nothing of it is written.  Only
\* notifySafely keeps the error of its insert to itself.
Throw(h) ==
    /\ attempt[h] # Idle /\ attempt[h].step \in InTry /\ faults < MaxFaults
    /\ \/ Goto(h, "fail")
       \/ attempt[h].step = "notify" /\ Goto(h, "mark")
    /\ faults' = faults + 1
    /\ UNCHANGED <<externals, outbox, tables, repoLinked, timeouts, edits>>

\* The request dies: the process restarts, or a query outside the try fails.
Crash(h) ==
    /\ attempt[h] # Idle /\ faults < MaxFaults
    /\ Refuse(h)
    /\ faults' = faults + 1
    /\ UNCHANGED <<externals, tables, repoLinked, timeouts, edits>>

(***************************************************************************)
(* Members, at the same time as the webhooks.                               *)
(***************************************************************************)

Edit == edits < MaxEdits /\ edits' = edits + 1

\* linkPRToFeature by member m; the assignee hears of it unless it is m.
LinkPR(m, p, f) ==
    /\ Edit /\ Exists(p) /\ Live(f)
    /\ pullRequest' = [pullRequest EXCEPT ![p].feature = f, ![p].linkSource = "MANUAL"]
    /\ activity' = [activity EXCEPT ![<<p, f, "LINKED">>] = @ + 1]
    /\ notification' = notification \cup
           [type : {"PR_LINKED"}, pr : {p}, to : {feature[f].assignee} \ {None, m}]
    /\ UNCHANGED <<externals, outbox, attempt, webhookEvent, feature, repoLinked,
                   timeouts, faults>>

UnlinkPR(p) ==
    LET old == pullRequest[p].feature IN
    /\ Edit /\ Exists(p)
    /\ pullRequest' = [pullRequest EXCEPT ![p].feature = None, ![p].linkSource = None]
    /\ activity' = [x \in DOMAIN activity |->
          IF x = <<p, old, "UNLINKED">> THEN activity[x] + 1 ELSE activity[x]]
    /\ UNCHANGED <<externals, outbox, attempt, webhookEvent, feature, notification,
                   repoLinked, timeouts, faults>>

\* FeaturesService.update, as far as the webhooks see it.
UpdateFeature(f, s, m) ==
    /\ Edit /\ Live(f)
    /\ feature' = [feature EXCEPT ![f] = [status |-> s, assignee |-> m]]
    /\ UNCHANGED <<externals, outbox, attempt, webhookEvent, pullRequest, activity,
                   notification, repoLinked, timeouts, faults>>

\* FeaturesService.remove: PullRequest.featureId is set to null, the log rows of
\* the feature go with it.
DeleteFeature(f) ==
    /\ Edit /\ Live(f)
    /\ feature' = [feature EXCEPT ![f] = [status |-> "DELETED", assignee |-> None]]
    /\ pullRequest' = [p \in PRs |-> IF pullRequest[p].feature = f
                          THEN [pullRequest[p] EXCEPT !.feature = None]
                          ELSE pullRequest[p]]
    /\ activity' = [x \in DOMAIN activity |-> IF x[2] = f THEN 0 ELSE activity[x]]
    /\ UNCHANGED <<externals, outbox, attempt, webhookEvent, notification, repoLinked,
                   timeouts, faults>>

\* connectRepositoryToProject, and the disconnect that unlinks the repository.
SetRepositoryLink(linked) ==
    /\ Edit /\ repoLinked # linked
    /\ repoLinked' = linked
    /\ UNCHANGED <<externals, outbox, attempt, tables, timeouts, faults>>

HandlerStep(h) ==
    \/ CheckDuplicate(h) \/ UpsertEvent(h) \/ LookupRepository(h) \/ MarkIgnored(h)
    \/ ExtractFeature(h) \/ FindPullRequest(h) \/ CreatePullRequest(h)
    \/ RecordClosed(h) \/ RecordReopened(h) \/ RecordSynchronize(h)
    \/ NotifyAssignee(h) \/ MarkProcessed(h) \/ MarkFailed(h) \/ Reply(h)

MemberStep ==
    \/ \E m \in Members, p \in PRs, f \in Features : LinkPR(m, p, f)
    \/ \E p \in PRs : UnlinkPR(p)
    \/ \E f \in Features, s \in Chosen, m \in Members \cup {None} : UpdateFeature(f, s, m)
    \/ \E f \in Features : DeleteFeature(f)
    \/ \E linked \in BOOLEAN : SetRepositoryLink(linked)

Next ==
    \/ \E p \in PRs, a \in Actions : GitHubEvent(p, a)
    \/ \E h \in Handlers, d \in Deliveries : Receive(h, d)
    \/ \E h \in Handlers : TimeOut(h) \/ HandlerStep(h) \/ Throw(h) \/ Crash(h)
    \/ MemberStep

Spec == Init /\ [][Next]_vars

\* A request that is running goes on, and GitHub sends a delivery again until one
\* attempt succeeds.  SF: a slot is free again and again, not for ever.
FairSpec ==
    /\ Spec
    /\ \A h \in Handlers : WF_vars(HandlerStep(h))
    /\ \A d \in Deliveries : SF_vars(\E h \in Handlers : Receive(h, d))

(***************************************************************************)
(* Properties.                                                              *)
(***************************************************************************)

\* A pull request that the branch linked to a feature has exactly one OPENED row
\* in that feature's log, whatever was duplicated, retried or cut short: the
\* insert, the status and the log are one transaction, and node_id is unique.
AutoLinkLogged ==
    \A p \in PRs :
        LET row == pullRequest[p] IN
        row.linkSource = "AUTO_BRANCH" /\ row.feature # None
            => activity[<<p, row.feature, "OPENED">>] = 1

\* However many attempts at `opened' run, and whoever is assigned meanwhile, one
\* person at most is told that the pull request was opened.
OneOpenedNotice ==
    \A n1, n2 \in notification :
        n1.type = "PR_OPENED" /\ n2.type = "PR_OPENED" /\ n1.pr = n2.pr => n1 = n2

\* A delivery GitHub will not see retried has not been lost: once it is PROCESSED
\* the pull request it speaks of is in the table.
ProcessedMeansRecorded ==
    \A d \in Deliveries :
        webhookEvent[d] = "PROCESSED" /\ payload[d] # "edited" => Exists(d[1])

\* A merge that is PROCESSED is in the log of the feature the branch linked, in
\* spite of crashes between the transaction and the mark and of other attempts.
MergeLogged ==
    \A d \in Deliveries :
        LET row == pullRequest[d[1]] IN
        /\ webhookEvent[d] = "PROCESSED" /\ payload[d] = "merged"
        /\ row.linkSource = "AUTO_BRANCH" /\ row.feature # None
        => activity[<<d[1], row.feature, "MERGED">>] >= 1

\* What a member linked by hand stays linked until a member acts: no retried or
\* duplicated webhook takes the link back.
ManualLinkKept ==
    [][\A p \in PRs :
          pullRequest[p].linkSource = "MANUAL" /\ pullRequest'[p] # pullRequest[p]
          => \/ pullRequest'[p].linkSource = "MANUAL"
                /\ pullRequest'[p].feature = pullRequest[p].feature
             \/ edits' # edits]_vars

Quiet(p) ==
    \A i \in 1..MaxEvents : <<p, i>> \notin outbox /\ ~InProgress(<<p, i>>)

\* Every delivery of p reached the handlers: none came while the repository had
\* no project.
Tracked(p) ==
    Exists(p) /\ \A i \in 1..MaxEvents : webhookEvent[<<p, i>>] # "IGNORED"

\* With deliveries in order and no overlap, once nothing of p is outstanding the
\* row agrees with GitHub, in spite of crashes, failures and redeliveries.
RowAgreesWithGitHub ==
    \A p \in PRs : Quiet(p) /\ Tracked(p) =>
        /\ pullRequest[p].status = github[p].status
        /\ \A i \in 1..MaxEvents :
              payload[<<p, i>>] \in {"opened", "synchronize"} => pullRequest[p].content >= i

\* Under the same conditions, and while no member moves it, the feature stands
\* where the last event of its only pull request puts it.
FeatureFollowsPR ==
    \A p \in PRs :
        LET f == pullRequest[p].feature IN
        Quiet(p) /\ Tracked(p) /\ f # None /\ edits = 0
            => CASE github[p].status = "MERGED" -> feature[f].status = "IN_REVIEW"
                 [] OTHER -> feature[f].status = "IN_PROGRESS"

\* When GitHub waits for each answer, a delivery that reached PROCESSED stays so:
\* the idempotency guard catches a redelivery after a lost answer.
ProcessedFinal ==
    [][\A d \in Deliveries :
          webhookEvent[d] = "PROCESSED" => webhookEvent'[d] = "PROCESSED"]_vars

\* "A previously-processed delivery is skipped entirely rather than silently
\* reprocessed (which could double-log activity ...)": a merge is logged once.
MergeLoggedOnce ==
    \A p \in PRs, f \in Features : activity[<<p, f, "MERGED">>] <= 1

\* No retry can ever record p: its `opened' was answered while the repository had
\* no project, or its branch names a feature that does not exist.
Unrecordable(p) ==
    /\ ~Exists(p)
    /\ \/ \E i \in 1..MaxEvents :
             payload[<<p, i>>] = "opened" /\ webhookEvent[<<p, i>>] = "IGNORED"
       \/ BranchRef[p].kind = "verbatim" /\ ~Live(BranchRef[p].feature)

\* Out of order, crashed or failed, and each answer waited for, a delivery is
\* settled in the end, as long as GitHub retries and unless its pull request
\* cannot be recorded.  (When attempts at one delivery overlap, a late one
\* may write FAILED over PROCESSED or IGNORED and nothing will retry it.)
Settles ==
    \A d \in Deliveries : payload[d] # "none" ~>
        webhookEvent[d] \in {"PROCESSED", "IGNORED"} \/ Unrecordable(d[1])
==============================================================================
