--------------------------- MODULE PRWebhookProofs ---------------------------
(***************************************************************************)
(* What PRWebhook guarantees for every set of pull requests, features,      *)
(* members and request slots, and for every bound.                          *)
(***************************************************************************)
EXTENDS PRWebhook, TLAPS

\* A step of the system, one case per action.
LEMMA NextCases ==
    ASSUME Next
    PROVE  \/ \E p \in PRs, a \in Actions : GitHubEvent(p, a)
           \/ \E h \in Handlers, d \in Deliveries : Receive(h, d)
           \/ \E h \in Handlers :
                \/ TimeOut(h) \/ Throw(h) \/ Crash(h)
                \/ CheckDuplicate(h) \/ UpsertEvent(h) \/ LookupRepository(h)
                \/ MarkIgnored(h) \/ ExtractFeature(h) \/ FindPullRequest(h)
                \/ CreatePullRequest(h) \/ RecordClosed(h) \/ RecordReopened(h)
                \/ RecordSynchronize(h) \/ NotifyAssignee(h) \/ MarkProcessed(h)
                \/ MarkFailed(h) \/ Reply(h)
           \/ \E m \in Members, p \in PRs, f \in Features : LinkPR(m, p, f)
           \/ \E p \in PRs : UnlinkPR(p)
           \/ \E f \in Features, s \in Chosen, m \in Members \cup {None} :
                UpdateFeature(f, s, m)
           \/ \E f \in Features : DeleteFeature(f)
           \/ \E linked \in BOOLEAN : SetRepositoryLink(linked)
BY DEF Next, MemberStep, HandlerStep

\* An attempt that is not at rest has a pull request and a delivery.
LEMMA AttemptType ==
    ASSUME TypeOK, NEW h \in Handlers, attempt[h] # Idle
    PROVE  /\ attempt[h] \in Attempt
           /\ attempt[h].pr \in PRs /\ attempt[h].seq \in 1..MaxEvents
           /\ DeliveryOf(h) \in Deliveries
           /\ ActionOf(h) \in Actions \cup {"none"}
BY DEF TypeOK, Attempt, DeliveryOf, ActionOf, Deliveries

LEMMA InitTypeOK == Init => TypeOK
<1> SUFFICES ASSUME Init PROVE TypeOK
    OBVIOUS
<1> USE WebhookAssumption
<1>1. pullRequest \in [PRs -> Row]
    BY DEF Init, NoRow, Row, PRStatus
<1>2. feature \in [Features -> [status : FeatureStatus \cup {"DELETED"},
                                assignee : Members \cup {None}]]
    BY DEF Init, FeatureStatus
<1>3. QED
    BY <1>1, <1>2 DEF Init, TypeOK, PRStatus, EventStatus, Deliveries

\* The parts of TypeOK, named for the steps below.
GitHubType == /\ github \in [PRs -> [status : PRStatus, sent : 0..MaxEvents]]
              /\ payload \in [Deliveries -> Actions \cup {"none"}]
              /\ outbox \subseteq Deliveries
AttemptsType == attempt \in [Handlers -> Attempt \cup {Idle}]

LEMMA GotoType ==
    ASSUME TypeOK, NEW h \in Handlers, attempt[h] # Idle, NEW s \in Step, Goto(h, s)
    PROVE  attempt' \in [Handlers -> Attempt \cup {Idle}]
BY ZenonT(60) DEF TypeOK, Goto, Attempt

LEMMA UpdatedAttemptType ==
    ASSUME TypeOK, NEW h \in Handlers, attempt[h] # Idle, NEW s \in Step,
           NEW f \in Features \cup {None},
           attempt' = [attempt EXCEPT ![h] = [@ EXCEPT !.step = s, !.feature = f]]
    PROVE  attempt' \in [Handlers -> Attempt \cup {Idle}]
<1>1. [attempt[h] EXCEPT !.step = s, !.feature = f] \in Attempt
    BY AttemptType DEF Attempt
<1>2. QED
    BY <1>1 DEF TypeOK

LEMMA RestType ==
    ASSUME TypeOK, NEW h \in Handlers, attempt[h] # Idle, Succeed(h) \/ Refuse(h)
    PROVE  /\ attempt' \in [Handlers -> Attempt \cup {Idle}]
           /\ outbox' \subseteq Deliveries
BY AttemptType DEF TypeOK, Succeed, Refuse

LEMMA MoveFeatureType ==
    ASSUME TypeOK, NEW p \in PRs, NEW f, NEW s \in FeatureStatus, NEW k \in LogKind,
           MoveFeature(p, f, s, k)
    PROVE  /\ feature' \in [Features -> [status : FeatureStatus \cup {"DELETED"},
                                          assignee : Members \cup {None}]]
           /\ activity' \in [PRs \X Features \X LogKind -> Nat]
<1>1. CASE ~Live(f)
    BY <1>1 DEF MoveFeature, TypeOK
<1>2. CASE Live(f)
    <2>1. f \in Features /\ <<p, f, k>> \in PRs \X Features \X LogKind
        BY <1>2 DEF Live
    <2>2. activity[<<p, f, k>>] \in Nat
        BY <2>1 DEF TypeOK
    <2>3. activity' = [activity EXCEPT ![<<p, f, k>>] = activity[<<p, f, k>>] + 1]
        BY <1>2 DEF MoveFeature
    <2>4. activity' \in [PRs \X Features \X LogKind -> Nat]
        BY <2>1, <2>2, <2>3 DEF TypeOK
    <2>5. feature' = [feature EXCEPT ![f].status = s]
        BY <1>2 DEF MoveFeature
    <2>6. QED
        BY <2>1, <2>4, <2>5 DEF TypeOK
<1>3. QED
    BY <1>1, <1>2

LEMMA GitHubEventTypeOK ==
    ASSUME TypeOK, NEW p \in PRs, NEW a \in Actions, GitHubEvent(p, a)
    PROVE  TypeOK'
<1>1. github[p].sent + 1 \in 1..MaxEvents /\ <<p, github[p].sent + 1>> \in Deliveries
    BY WebhookAssumption DEF GitHubEvent, TypeOK, Deliveries
<1>2. After(a, github[p].status) \in PRStatus
    BY DEF TypeOK, After, PRStatus
<1>3. GitHubType'
    <2>1. github' \in [PRs -> [status : PRStatus, sent : 0..MaxEvents]]
        <3>1. github' = [github EXCEPT ![p] = [status |-> After(a, github[p].status),
                                              sent |-> github[p].sent + 1]]
            BY DEF GitHubEvent
        <3>2. github[p].sent + 1 \in 0..MaxEvents
            BY <1>1, WebhookAssumption
        <3>3. QED
            BY <1>2, <3>1, <3>2 DEF TypeOK
    <2>2. payload' \in [Deliveries -> Actions \cup {"none"}]
        BY <1>1 DEF GitHubEvent, TypeOK
    <2>3. outbox' \subseteq Deliveries
        BY <1>1 DEF GitHubEvent, TypeOK
    <2>4. QED
        BY <2>1, <2>2, <2>3 DEF GitHubType
<1>4. QED
    BY <1>3 DEF GitHubEvent, TypeOK, GitHubType, tables, counters

LEMMA ReceiveTypeOK ==
    ASSUME TypeOK, NEW h \in Handlers, NEW d \in Deliveries, Receive(h, d)
    PROVE  TypeOK'
<1>1. d[1] \in PRs /\ d[2] \in 1..MaxEvents
    BY DEF Deliveries
<1>2. AttemptsType'
    BY <1>1 DEF Receive, TypeOK, AttemptsType, Attempt, Step
<1>3. QED
    BY <1>2 DEF Receive, TypeOK, AttemptsType, externals, tables, counters

LEMMA TimeOutTypeOK ==
    ASSUME TypeOK, NEW h \in Handlers, TimeOut(h)
    PROVE  TypeOK'
<1>1. AttemptsType'
    <2>1. attempt[h] \in Attempt
        BY AttemptType DEF TimeOut
    <2>2. [attempt[h] EXCEPT !.awaited = FALSE] \in Attempt
        BY <2>1 DEF Attempt
    <2>3. QED
        BY <2>2 DEF TimeOut, TypeOK, AttemptsType
<1>2. outbox' \subseteq Deliveries /\ timeouts' \in 0..MaxTimeouts
    BY AttemptType, WebhookAssumption DEF TimeOut, TypeOK
<1>3. QED
    BY <1>1, <1>2 DEF TimeOut, TypeOK, AttemptsType, externals, tables

LEMMA FaultTypeOK ==
    ASSUME TypeOK, NEW h \in Handlers, Throw(h) \/ Crash(h)
    PROVE  TypeOK'
<1>1. faults' \in 0..MaxFaults /\ attempt[h] # Idle
    BY WebhookAssumption DEF Throw, Crash, TypeOK
<1>2. AttemptsType' /\ outbox' \subseteq Deliveries
    <2>1. CASE Throw(h)
        <3>1. PICK s \in {"fail", "mark"} : Goto(h, s)
            BY <2>1 DEF Throw
        <3>2. s \in Step
            BY <3>1 DEF Step, InTry
        <3>3. QED
            BY <1>1, <2>1, <3>1, <3>2, GotoType DEF Throw, AttemptsType, TypeOK
    <2>2. CASE Crash(h)
        BY <1>1, <2>2, RestType DEF Crash, AttemptsType
    <2>3. QED
        BY <2>1, <2>2
<1>3. QED
    BY <1>1, <1>2 DEF Throw, Crash, TypeOK, AttemptsType, externals, tables

LEMMA ReadStepTypeOK ==
    ASSUME TypeOK, NEW h \in Handlers,
           \/ CheckDuplicate(h) \/ LookupRepository(h) \/ ExtractFeature(h)
           \/ FindPullRequest(h) \/ Reply(h)
    PROVE  TypeOK'
<1>1. attempt[h] # Idle
    BY DEF CheckDuplicate, LookupRepository, ExtractFeature, FindPullRequest, Reply, At
<1>2. AttemptsType' /\ outbox' \subseteq Deliveries
    <2>1. CASE CheckDuplicate(h)
        BY <1>1, <2>1, GotoType, RestType DEF CheckDuplicate, AttemptsType, Step, TypeOK
    <2>2. CASE LookupRepository(h)
        BY <1>1, <2>2, GotoType DEF LookupRepository, AttemptsType, Step, InTry, TypeOK
    <2>3. CASE ExtractFeature(h)
        <3>1. ResolvedFeature(attempt[h].pr) \in Features \cup {None}
            BY <1>1, AttemptType, WebhookAssumption DEF ResolvedFeature
        <3>2. QED
            <4>1. PICK s \in {"mark", "find"} : attempt' = [attempt EXCEPT ![h] =
                        [@ EXCEPT !.step = s, !.feature = ResolvedFeature(attempt[h].pr)]]
                BY <2>3 DEF ExtractFeature
            <4>2. s \in Step
                BY DEF Step, InTry
            <4>3. attempt' \in [Handlers -> Attempt \cup {Idle}]
                BY <1>1, <3>1, <4>1, <4>2, UpdatedAttemptType
            <4>4. QED
                BY <2>3, <4>3 DEF AttemptsType, ExtractFeature, TypeOK
    <2>4. CASE FindPullRequest(h)
        <3>1. pullRequest[attempt[h].pr].feature \in Features \cup {None}
            BY <1>1, AttemptType DEF TypeOK, Row
        <3>2. CASE ActionOf(h) # "opened" /\ Exists(attempt[h].pr)
            <4>1. attempt' = [attempt EXCEPT ![h] =
                    [@ EXCEPT !.step = "write", !.feature = pullRequest[attempt[h].pr].feature]]
                BY <2>4, <3>2 DEF FindPullRequest
            <4>2. "write" \in Step
                BY DEF Step, InTry
            <4>3. attempt' \in [Handlers -> Attempt \cup {Idle}]
                BY <1>1, <3>1, <4>1, <4>2, UpdatedAttemptType
            <4>4. QED
                BY <2>4, <4>3 DEF AttemptsType, FindPullRequest, TypeOK
        <3>3. CASE ~(ActionOf(h) # "opened" /\ Exists(attempt[h].pr))
            BY <1>1, <2>4, <3>3, GotoType DEF FindPullRequest, AttemptsType, Step, InTry, TypeOK
        <3>4. QED
            BY <3>2, <3>3
    <2>5. CASE Reply(h)
        BY <1>1, <2>5, RestType DEF Reply, AttemptsType
    <2>6. QED
        BY <2>1, <2>2, <2>3, <2>4, <2>5
<1>3. QED
    BY <1>2 DEF CheckDuplicate, LookupRepository, ExtractFeature, FindPullRequest, Reply,
                TypeOK, AttemptsType, externals, tables, counters

LEMMA MarkStepTypeOK ==
    ASSUME TypeOK, NEW h \in Handlers,
           UpsertEvent(h) \/ MarkIgnored(h) \/ MarkProcessed(h) \/ MarkFailed(h)
    PROVE  TypeOK'
<1>1. attempt[h] # Idle
    BY DEF UpsertEvent, MarkIgnored, MarkProcessed, MarkFailed, At
<1>2. AttemptsType' /\ outbox' \subseteq Deliveries
    <2>1. CASE MarkFailed(h)
        BY <1>1, <2>1, RestType DEF MarkFailed, AttemptsType
    <2>2. CASE UpsertEvent(h) \/ MarkIgnored(h) \/ MarkProcessed(h)
        BY <1>1, <2>2, GotoType
        DEF UpsertEvent, MarkIgnored, MarkProcessed, AttemptsType, Step, TypeOK
    <2>3. QED
        BY <2>1, <2>2
<1>3. webhookEvent' \in [Deliveries -> EventStatus]
    BY <1>1, AttemptType
    DEF UpsertEvent, MarkIgnored, MarkProcessed, MarkFailed, SetEvent, TypeOK, EventStatus
<1>4. QED
    BY <1>2, <1>3 DEF UpsertEvent, MarkIgnored, MarkProcessed, MarkFailed, TypeOK,
                      AttemptsType, externals, counters

\* One row with other fields is a row.
LEMMA RowUpdates ==
    ASSUME NEW r \in Row
    PROVE  /\ \A f \in Features \cup {None}, l \in {"MANUAL", None} :
                 [r EXCEPT !.feature = f, !.linkSource = l] \in Row
           /\ \A n \in 0..MaxEvents : [r EXCEPT !.content = n] \in Row
BY DEF Row

LEMMA StatusType ==
    ASSUME TypeOK, NEW p \in PRs, NEW s \in PRStatus,
           pullRequest' = [pullRequest EXCEPT ![p].status = s]
    PROVE  pullRequest' \in [PRs -> Row]
BY ZenonT(60) DEF TypeOK, Row

LEMMA WriteStepTypeOK ==
    ASSUME TypeOK, NEW h \in Handlers,
           \/ CreatePullRequest(h) \/ RecordClosed(h)
           \/ RecordReopened(h) \/ RecordSynchronize(h)
    PROVE  TypeOK'
<1> DEFINE p == attempt[h].pr
           f == attempt[h].feature
           FeatureType == feature' \in [Features -> [status : FeatureStatus \cup {"DELETED"},
                                                     assignee : Members \cup {None}]]
           ActivityType == activity' \in [PRs \X Features \X LogKind -> Nat]
           PullRequestType == pullRequest' \in [PRs -> Row]
<1>1. attempt[h] # Idle
    BY DEF CreatePullRequest, RecordClosed, RecordReopened, RecordSynchronize, At
<1>2. p \in PRs /\ f \in Features \cup {None} /\ attempt[h].seq \in 0..MaxEvents
    BY <1>1, AttemptType DEF Attempt
<1>3. ASSUME GotoNotify(h) PROVE AttemptsType'
    BY <1>1, <1>3, GotoType DEF GotoNotify, AttemptsType, Step, InTry
<1>4. CASE CreatePullRequest(h)
    <2>1. CASE Insertable(p, f)
        <3>1. FeatureType /\ ActivityType
            BY <1>2, <1>4, <2>1, MoveFeatureType DEF CreatePullRequest, FeatureStatus, LogKind
        <3>2. PullRequestType
            BY <1>2, <1>4, <2>1 DEF CreatePullRequest, TypeOK, Row, PRStatus
        <3>3. QED
            BY <1>3, <1>4, <2>1, <3>1, <3>2
            DEF CreatePullRequest, TypeOK, AttemptsType, externals, counters
    <2>2. CASE ~Insertable(p, f)
        <3>1. AttemptsType'
            BY <1>1, <1>4, <2>2, GotoType DEF CreatePullRequest, AttemptsType, Step
        <3>2. QED
            BY <1>4, <2>2, <3>1 DEF CreatePullRequest, TypeOK, AttemptsType, externals, counters
    <2>3. QED
        BY <2>1, <2>2
<1>5. CASE RecordClosed(h)
    <2>1. FeatureType /\ ActivityType
        BY <1>2, <1>5, MoveFeatureType DEF RecordClosed, FeatureStatus, LogKind, TypeOK
    <2>2. PullRequestType
        <3>1. PICK s \in PRStatus : pullRequest' = [pullRequest EXCEPT ![p].status = s]
            BY <1>5 DEF RecordClosed, PRStatus
        <3>2. QED
            BY <1>2, <3>1, StatusType
    <2>3. AttemptsType'
        BY <1>1, <1>3, <1>5, GotoType DEF RecordClosed, AttemptsType, Step, InTry
    <2>4. QED
        BY <1>5, <2>1, <2>2, <2>3 DEF RecordClosed, TypeOK, AttemptsType, externals, counters
<1>6. CASE RecordReopened(h)
    <2>1. FeatureType /\ ActivityType
        BY <1>2, <1>6, MoveFeatureType DEF RecordReopened, FeatureStatus, LogKind
    <2>2. PullRequestType
        BY <1>2, <1>6, StatusType DEF RecordReopened, PRStatus
    <2>3. AttemptsType'
        BY <1>1, <1>6, GotoType DEF RecordReopened, AttemptsType, Step, InTry
    <2>4. QED
        BY <1>6, <2>1, <2>2, <2>3 DEF RecordReopened, TypeOK, AttemptsType, externals, counters
<1>7. CASE RecordSynchronize(h)
    <2>1. PullRequestType
        <3>1. [pullRequest[p] EXCEPT !.content = attempt[h].seq] \in Row
            BY <1>2, RowUpdates DEF TypeOK
        <3>2. QED
            BY <1>7, <3>1 DEF RecordSynchronize, TypeOK
    <2>2. AttemptsType'
        BY <1>1, <1>7, GotoType DEF RecordSynchronize, AttemptsType, Step, InTry
    <2>3. QED
        BY <1>7, <2>1, <2>2 DEF RecordSynchronize, TypeOK, AttemptsType, externals, counters
<1>8. QED
    BY <1>4, <1>5, <1>6, <1>7

LEMMA NotifyTypeOK ==
    ASSUME TypeOK, NEW h \in Handlers, NotifyAssignee(h)
    PROVE  TypeOK'
<1> DEFINE f == attempt[h].feature
           to == IF Live(f) THEN feature[f].assignee ELSE None
<1>1. attempt[h] # Idle /\ to \in Members \cup {None}
    BY DEF NotifyAssignee, At, TypeOK, Live
<1>2. [type : {NoticeOf(ActionOf(h))}, pr : {attempt[h].pr}, to : {to} \ {None}]
        \subseteq Notice
    BY <1>1, AttemptType DEF Notice, NoticeType, NoticeOf
<1>3. notification' \subseteq Notice
    BY <1>2 DEF NotifyAssignee, TypeOK
<1>4. AttemptsType'
    BY <1>1, GotoType DEF NotifyAssignee, AttemptsType, Step, InTry
<1>5. QED
    BY <1>3, <1>4 DEF NotifyAssignee, TypeOK, AttemptsType, externals, counters

LEMMA EditType == ASSUME TypeOK, Edit PROVE edits' \in 0..MaxEdits
BY WebhookAssumption DEF Edit, TypeOK

LEMMA LinkPRTypeOK ==
    ASSUME TypeOK, NEW m \in Members, NEW p \in PRs, NEW f \in Features, LinkPR(m, p, f)
    PROVE  TypeOK'
<1>1. edits' \in 0..MaxEdits
    BY EditType DEF LinkPR
<1>2. pullRequest' \in [PRs -> Row]
    <2>1. [pullRequest[p] EXCEPT !.feature = f, !.linkSource = "MANUAL"] \in Row
        BY RowUpdates DEF TypeOK
    <2>2. QED
        BY <2>1 DEF LinkPR, TypeOK
<1>3. activity' \in [PRs \X Features \X LogKind -> Nat]
    <2>1. <<p, f, "LINKED">> \in PRs \X Features \X LogKind
        BY DEF LogKind
    <2>2. activity[<<p, f, "LINKED">>] \in Nat
        BY <2>1 DEF TypeOK
    <2>3. QED
        BY <2>1, <2>2 DEF LinkPR, TypeOK
<1>4. notification' \subseteq Notice
    <2>1. [type : {"PR_LINKED"}, pr : {p}, to : {feature[f].assignee} \ {None, m}]
            \subseteq Notice
        BY DEF TypeOK, Notice, NoticeType
    <2>2. QED
        BY <2>1 DEF LinkPR, TypeOK
<1>5. QED
    BY <1>1, <1>2, <1>3, <1>4 DEF LinkPR, TypeOK, externals

LEMMA UnlinkPRTypeOK ==
    ASSUME TypeOK, NEW p \in PRs, UnlinkPR(p)
    PROVE  TypeOK'
<1>1. edits' \in 0..MaxEdits
    BY EditType DEF UnlinkPR
<1>2. pullRequest' \in [PRs -> Row]
    <2>1. [pullRequest[p] EXCEPT !.feature = None, !.linkSource = None] \in Row
        BY RowUpdates DEF TypeOK
    <2>2. QED
        BY <2>1 DEF UnlinkPR, TypeOK
<1>3. activity' \in [PRs \X Features \X LogKind -> Nat]
    BY DEF UnlinkPR, TypeOK
<1>4. QED
    BY <1>1, <1>2, <1>3 DEF UnlinkPR, TypeOK, externals

LEMMA UpdateFeatureTypeOK ==
    ASSUME TypeOK, NEW f \in Features, NEW s \in Chosen, NEW m \in Members \cup {None},
           UpdateFeature(f, s, m)
    PROVE  TypeOK'
BY EditType, WebhookAssumption DEF UpdateFeature, TypeOK, externals

LEMMA DeleteFeatureTypeOK ==
    ASSUME TypeOK, NEW f \in Features, DeleteFeature(f)
    PROVE  TypeOK'
<1>1. edits' \in 0..MaxEdits
    BY EditType DEF DeleteFeature
<1>2. pullRequest' \in [PRs -> Row]
    BY ZenonT(60) DEF DeleteFeature, TypeOK, Row
<1>3. activity' \in [PRs \X Features \X LogKind -> Nat]
    BY DEF DeleteFeature, TypeOK
<1>4. QED
    BY <1>1, <1>2, <1>3 DEF DeleteFeature, TypeOK, externals

LEMMA SetRepositoryLinkTypeOK ==
    ASSUME TypeOK, NEW linked \in BOOLEAN, SetRepositoryLink(linked)
    PROVE  TypeOK'
BY EditType DEF SetRepositoryLink, TypeOK, externals, tables

LEMMA NextTypeOK == ASSUME TypeOK, [Next]_vars PROVE TypeOK'
<1>1. CASE Next
    BY <1>1, NextCases, GitHubEventTypeOK, ReceiveTypeOK, TimeOutTypeOK, FaultTypeOK,
       ReadStepTypeOK, MarkStepTypeOK, WriteStepTypeOK, NotifyTypeOK, LinkPRTypeOK,
       UnlinkPRTypeOK, UpdateFeatureTypeOK, DeleteFeatureTypeOK, SetRepositoryLinkTypeOK
<1>2. CASE UNCHANGED vars
    BY <1>2 DEF vars, TypeOK, externals, tables, counters
<1>3. QED
    BY <1>1, <1>2

\* The tables, the outbox and the slots keep their shape: in particular every row
\* of the log counts a pull request and a feature that exist, and every notice
\* goes to a member, never to the null assignee.
THEOREM TypeCorrect == Spec => []TypeOK
<1>1. Init => TypeOK
    BY InitTypeOK
<1>2. TypeOK /\ [Next]_vars => TypeOK'
    BY NextTypeOK
<1>3. QED
    BY <1>1, <1>2, PTL DEF Spec

(***************************************************************************)
(* What a step of a request leaves alone.                                   *)
(***************************************************************************)

RequestStep(h) == HandlerStep(h) \/ TimeOut(h) \/ Throw(h) \/ Crash(h)

LEMMA RequestFrame ==
    ASSUME TypeOK, NEW h \in Handlers, RequestStep(h)
    PROVE  /\ attempt[h] # Idle
           /\ github' = github /\ payload' = payload
           /\ \A k \in Handlers : k # h => attempt'[k] = attempt[k]
           /\ attempt'[h] # Idle => /\ attempt'[h].pr = attempt[h].pr
                                    /\ attempt'[h].seq = attempt[h].seq
           /\ outbox' \subseteq outbox \cup {DeliveryOf(h)}
           /\ \A d \in Deliveries : d # DeliveryOf(h) => webhookEvent'[d] = webhookEvent[d]
<1> USE DEF At, externals, tables, counters
<1>1. attempt[h] # Idle
    BY DEF RequestStep, HandlerStep, TimeOut, Throw, Crash, CheckDuplicate, UpsertEvent,
       LookupRepository, MarkIgnored, ExtractFeature, FindPullRequest, CreatePullRequest,
       RecordClosed, RecordReopened, RecordSynchronize, NotifyAssignee, MarkProcessed,
       MarkFailed, Reply
<1>2. attempt[h] \in Attempt /\ attempt \in [Handlers -> Attempt \cup {Idle}]
      /\ webhookEvent \in [Deliveries -> EventStatus]
    BY <1>1, AttemptType DEF TypeOK
<1> DEFINE Slot == /\ \A k \in Handlers : k # h => attempt'[k] = attempt[k]
                   /\ attempt'[h] # Idle => /\ attempt'[h].pr = attempt[h].pr
                                            /\ attempt'[h].seq = attempt[h].seq
           Others == /\ github' = github /\ payload' = payload
                     /\ outbox' \subseteq outbox \cup {DeliveryOf(h)}
                     /\ \A d \in Deliveries :
                           d # DeliveryOf(h) => webhookEvent'[d] = webhookEvent[d]
<1>3. ASSUME NEW s, Goto(h, s) PROVE Slot
    BY <1>2, <1>3 DEF Goto, Attempt
<1>4. ASSUME Succeed(h) PROVE Slot
    BY <1>2, <1>4 DEF Succeed
<1>5. ASSUME Refuse(h) PROVE Slot
    BY <1>2, <1>5 DEF Refuse
<1>6. CASE TimeOut(h)
    <2>1. Slot
        BY <1>2, <1>6 DEF TimeOut, Attempt
    <2>2. Others
        BY <1>6 DEF TimeOut
    <2>3. QED
        BY <1>1, <2>1, <2>2
<1>7. CASE Throw(h)
    <2>1. Slot
        BY <1>3, <1>7 DEF Throw
    <2>2. Others
        BY <1>2, <1>7 DEF Throw
    <2>3. QED
        BY <1>1, <2>1, <2>2
<1>8. CASE Crash(h)
    <2>1. Slot
        BY <1>5, <1>8 DEF Crash
    <2>2. Others
        BY <1>2, <1>8 DEF Crash, Refuse
    <2>3. QED
        BY <1>1, <2>1, <2>2
<1>9. CASE CheckDuplicate(h)
    <2>1. Slot
        BY <1>3, <1>4, <1>9 DEF CheckDuplicate
    <2>2. Others
        BY <1>2, <1>9 DEF CheckDuplicate, Succeed
    <2>3. QED
        BY <1>1, <2>1, <2>2
<1>10. CASE UpsertEvent(h)
    <2>1. Slot
        BY <1>3, <1>10 DEF UpsertEvent
    <2>2. Others
        BY <1>2, <1>10 DEF UpsertEvent, SetEvent
    <2>3. QED
        BY <1>1, <2>1, <2>2
<1>11. CASE LookupRepository(h)
    <2>1. Slot
        BY <1>3, <1>11 DEF LookupRepository
    <2>2. Others
        BY <1>2, <1>11 DEF LookupRepository
    <2>3. QED
        BY <1>1, <2>1, <2>2
<1>12. CASE MarkIgnored(h)
    <2>1. Slot
        BY <1>3, <1>12 DEF MarkIgnored
    <2>2. Others
        BY <1>2, <1>12 DEF MarkIgnored, SetEvent
    <2>3. QED
        BY <1>1, <2>1, <2>2
<1>13. CASE ExtractFeature(h)
    <2>1. Slot
        BY <1>2, <1>13 DEF ExtractFeature, Attempt
    <2>2. Others
        BY <1>2, <1>13 DEF ExtractFeature
    <2>3. QED
        BY <1>1, <2>1, <2>2
<1>14. CASE FindPullRequest(h)
    <2>1. Slot
        <3>1. CASE ActionOf(h) # "opened" /\ Exists(attempt[h].pr)
            BY ZenonT(60), <1>2, <1>14, <3>1 DEF FindPullRequest, Attempt
        <3>2. CASE ~(ActionOf(h) # "opened" /\ Exists(attempt[h].pr))
            BY <1>3, <1>14, <3>2 DEF FindPullRequest
        <3>3. QED
            BY <3>1, <3>2
    <2>2. Others
        BY <1>14 DEF FindPullRequest
    <2>3. QED
        BY <1>1, <2>1, <2>2
<1>15. CASE CreatePullRequest(h)
    <2>1. Slot
        BY <1>3, <1>15 DEF CreatePullRequest, GotoNotify
    <2>2. Others
        BY <1>2, <1>15 DEF CreatePullRequest
    <2>3. QED
        BY <1>1, <2>1, <2>2
<1>16. CASE RecordClosed(h)
    <2>1. Slot
        BY <1>3, <1>16 DEF RecordClosed, GotoNotify
    <2>2. Others
        BY <1>2, <1>16 DEF RecordClosed
    <2>3. QED
        BY <1>1, <2>1, <2>2
<1>17. CASE RecordReopened(h)
    <2>1. Slot
        BY <1>3, <1>17 DEF RecordReopened
    <2>2. Others
        BY <1>2, <1>17 DEF RecordReopened
    <2>3. QED
        BY <1>1, <2>1, <2>2
<1>18. CASE RecordSynchronize(h)
    <2>1. Slot
        BY <1>3, <1>18 DEF RecordSynchronize
    <2>2. Others
        BY <1>2, <1>18 DEF RecordSynchronize
    <2>3. QED
        BY <1>1, <2>1, <2>2
<1>19. CASE NotifyAssignee(h)
    <2>1. Slot
        BY <1>3, <1>19 DEF NotifyAssignee
    <2>2. Others
        BY <1>2, <1>19 DEF NotifyAssignee
    <2>3. QED
        BY <1>1, <2>1, <2>2
<1>20. CASE MarkProcessed(h)
    <2>1. Slot
        BY <1>3, <1>20 DEF MarkProcessed
    <2>2. Others
        BY <1>2, <1>20 DEF MarkProcessed, SetEvent
    <2>3. QED
        BY <1>1, <2>1, <2>2
<1>21. CASE MarkFailed(h)
    <2>1. Slot
        BY <1>5, <1>21 DEF MarkFailed
    <2>2. Others
        BY <1>2, <1>21 DEF MarkFailed, SetEvent, Refuse
    <2>3. QED
        BY <1>1, <2>1, <2>2
<1>22. CASE Reply(h)
    <2>1. Slot
        BY <1>4, <1>22 DEF Reply
    <2>2. Others
        BY <1>2, <1>22 DEF Reply, Succeed
    <2>3. QED
        BY <1>1, <2>1, <2>2
<1>23. QED
    BY <1>6, <1>7, <1>8, <1>9, <1>10, <1>11, <1>12, <1>13, <1>14, <1>15, <1>16, <1>17,
       <1>18, <1>19, <1>20, <1>21, <1>22 DEF RequestStep, HandlerStep

(***************************************************************************)
(* Nothing is known of a delivery before GitHub has emitted it.             *)
(***************************************************************************)

Emitted(d) == d[2] <= github[d[1]].sent

NotAhead ==
    /\ \A d \in outbox : Emitted(d)
    /\ \A h \in Handlers : attempt[h] # Idle => Emitted(DeliveryOf(h))
    /\ \A d \in Deliveries : webhookEvent[d] # "NONE" => Emitted(d)

LEMMA EmittedStable ==
    ASSUME TypeOK, [Next]_vars
    PROVE  \A d \in Deliveries : Emitted(d) => Emitted(d)' /\ payload'[d] = payload[d]
<1>1. CASE github' = github /\ payload' = payload
    BY <1>1 DEF Emitted
<1>2. ASSUME NEW p \in PRs, NEW a \in Actions, GitHubEvent(p, a), NEW d \in Deliveries,
             Emitted(d)
      PROVE  Emitted(d)' /\ payload'[d] = payload[d]
    <2>1. d[1] \in PRs /\ d[2] \in Nat /\ github[p].sent \in Nat
        BY WebhookAssumption DEF Deliveries, TypeOK
    <2>2. CASE d[1] = p
        <3>1. d # <<p, github[p].sent + 1>>
            BY <1>2, <2>1, <2>2 DEF Emitted
        <3>2. github'[p].sent = github[p].sent + 1
            BY <1>2 DEF GitHubEvent, TypeOK
        <3>3. QED
            BY <1>2, <2>1, <2>2, <3>1, <3>2 DEF GitHubEvent, TypeOK, Emitted
    <2>3. CASE d[1] # p
        <3>1. d # <<p, github[p].sent + 1>>
            BY <2>3
        <3>2. QED
            BY <1>2, <2>1, <2>3, <3>1 DEF GitHubEvent, TypeOK, Emitted
    <2>4. QED
        BY <2>2, <2>3
<1>3. CASE \E h \in Handlers : RequestStep(h)
    BY <1>1, <1>3, RequestFrame
<1>4. CASE \E h \in Handlers, d \in Deliveries : Receive(h, d)
    BY <1>1, <1>4 DEF Receive, externals
<1>5. CASE MemberStep
    BY <1>1, <1>5 DEF MemberStep, LinkPR, UnlinkPR, UpdateFeature, DeleteFeature,
                      SetRepositoryLink, externals
<1>6. CASE UNCHANGED vars
    BY <1>1, <1>6 DEF vars, externals
<1>7. QED
    BY <1>2, <1>3, <1>4, <1>5, <1>6 DEF Next, RequestStep

LEMMA NotAheadStep ==
    ASSUME TypeOK, NotAhead, [Next]_vars
    PROVE  NotAhead'
<1>0. \A d \in Deliveries : Emitted(d) => Emitted(d)'
    BY EmittedStable
<1>1. CASE \E p \in PRs, a \in Actions : GitHubEvent(p, a)
    <2>1. PICK p \in PRs, a \in Actions : GitHubEvent(p, a)
        BY <1>1
    <2> PICK n \in Nat : n = github[p].sent + 1
        BY WebhookAssumption DEF TypeOK
    <2>2. github'[p].sent = n
        BY <2>1 DEF GitHubEvent, TypeOK
    <2>3. outbox' = outbox \cup {<<p, n>>}
          /\ attempt' = attempt /\ webhookEvent' = webhookEvent
        BY <2>1 DEF GitHubEvent, tables
    <2>4. \A h \in Handlers : attempt[h] # Idle => DeliveryOf(h) \in Deliveries
        BY AttemptType
    <2>5. \A d \in outbox' : Emitted(d)'
        BY <1>0, <2>2, <2>3 DEF NotAhead, Emitted, TypeOK
    <2>6. \A h \in Handlers : attempt'[h] # Idle => Emitted(DeliveryOf(h))'
        BY <1>0, <2>3, <2>4 DEF NotAhead, DeliveryOf
    <2>7. QED
        BY <1>0, <2>3, <2>5, <2>6 DEF NotAhead
<1>2. CASE \E h \in Handlers, d \in Deliveries : Receive(h, d)
    <2>1. PICK h \in Handlers, d \in Deliveries : Receive(h, d)
        BY <1>2
    <2>2. /\ outbox' = outbox \ {d} /\ d \in outbox /\ github' = github
          /\ webhookEvent' = webhookEvent
          /\ \A k \in Handlers : k # h => attempt'[k] = attempt[k]
          /\ attempt'[h].pr = d[1] /\ attempt'[h].seq = d[2]
        BY <2>1 DEF Receive, externals, tables, TypeOK
    <2>3. QED
        BY <2>2 DEF NotAhead, Emitted, DeliveryOf, Deliveries
<1>3. CASE \E h \in Handlers : RequestStep(h)
    <2>1. PICK h \in Handlers : RequestStep(h)
        BY <1>3
    <2>2. DeliveryOf(h) \in Deliveries /\ Emitted(DeliveryOf(h)) /\ github' = github
        BY <2>1, RequestFrame, AttemptType DEF NotAhead
    <2>3. \A d \in outbox' : Emitted(d)'
        BY <2>1, <2>2, RequestFrame DEF NotAhead, Emitted
    <2>4. \A k \in Handlers : attempt'[k] # Idle => attempt[k] # Idle /\ DeliveryOf(k)' = DeliveryOf(k)
        BY <2>1, RequestFrame DEF DeliveryOf
    <2>5. \A d \in Deliveries : webhookEvent'[d] # "NONE" => Emitted(d)'
        BY <2>1, <2>2, RequestFrame DEF NotAhead, Emitted
    <2>6. QED
        BY <2>2, <2>3, <2>4, <2>5 DEF NotAhead, Emitted
<1>4. CASE MemberStep
    BY <1>4 DEF MemberStep, LinkPR, UnlinkPR, UpdateFeature, DeleteFeature,
                SetRepositoryLink, externals, tables, NotAhead, Emitted, DeliveryOf
<1>5. CASE UNCHANGED vars
    BY <1>5 DEF vars, externals, tables, NotAhead, Emitted, DeliveryOf
<1>6. QED
    BY <1>1, <1>2, <1>3, <1>4, <1>5 DEF Next, RequestStep

\* A request works on one delivery, whose payload does not change under it.
LEMMA ActionStable ==
    ASSUME TypeOK, NotAhead, [Next]_vars, NEW h \in Handlers,
           attempt[h] # Idle, attempt'[h] # Idle
    PROVE  /\ attempt'[h].pr = attempt[h].pr
           /\ DeliveryOf(h)' = DeliveryOf(h) /\ ActionOf(h)' = ActionOf(h)
<1>1. attempt'[h].pr = attempt[h].pr /\ attempt'[h].seq = attempt[h].seq
    <2>1. CASE \E p \in PRs, a \in Actions : GitHubEvent(p, a)
        BY <2>1 DEF GitHubEvent
    <2>2. CASE \E k \in Handlers, d \in Deliveries : Receive(k, d)
        BY <2>2 DEF Receive, TypeOK
    <2>3. CASE \E k \in Handlers : RequestStep(k)
        BY <2>3, RequestFrame
    <2>4. CASE MemberStep \/ UNCHANGED vars
        BY <2>4 DEF MemberStep, LinkPR, UnlinkPR, UpdateFeature, DeleteFeature,
                    SetRepositoryLink, vars
    <2>5. QED
        BY <2>1, <2>2, <2>3, <2>4 DEF Next, RequestStep
<1>2. DeliveryOf(h)' = DeliveryOf(h)
    BY <1>1 DEF DeliveryOf
<1>3. payload'[DeliveryOf(h)] = payload[DeliveryOf(h)]
    BY EmittedStable, AttemptType DEF NotAhead
<1>4. QED
    BY <1>1, <1>2, <1>3 DEF ActionOf

(***************************************************************************)
(* The link of a pull request and the OPENED rows of the log.               *)
(***************************************************************************)

\* The steps that write PullRequest or ActivityLog.
LEMMA RowWriters ==
    ASSUME [Next]_vars
    PROVE  \/ UNCHANGED <<pullRequest, activity>>
           \/ \E h \in Handlers : CreatePullRequest(h) \/ RecordClosed(h)
                                  \/ RecordReopened(h) \/ RecordSynchronize(h)
           \/ \E m \in Members, p \in PRs, f \in Features : LinkPR(m, p, f)
           \/ \E p \in PRs : UnlinkPR(p)
           \/ \E f \in Features : DeleteFeature(f)
BY ZenonT(60) DEF Next, HandlerStep, MemberStep, GitHubEvent, Receive, TimeOut, Throw, Crash,
       CheckDuplicate, UpsertEvent, LookupRepository, MarkIgnored, ExtractFeature,
       FindPullRequest, NotifyAssignee, MarkProcessed, MarkFailed, Reply, UpdateFeature,
       SetRepositoryLink, tables, vars

\* A row that is not there is not linked and has no OPENED log.
Blank == \A p \in PRs : ~Exists(p) =>
            /\ pullRequest[p].linkSource = None
            /\ \A f \in Features : activity[<<p, f, "OPENED">>] = 0

LinkInv == Blank /\ AutoLinkLogged

LEMMA MoveFeatureLog ==
    ASSUME TypeOK, NEW p \in PRs, NEW f, NEW s, NEW k \in LogKind, MoveFeature(p, f, s, k)
    PROVE  \A x \in PRs \X Features \X LogKind :
               activity'[x] = IF Live(f) /\ x = <<p, f, k>> THEN activity[x] + 1 ELSE activity[x]
BY DEF MoveFeature, TypeOK

LEMMA CreateLinkInv ==
    ASSUME TypeOK, LinkInv, NEW h \in Handlers, CreatePullRequest(h)
    PROVE  LinkInv'
<1> DEFINE p == attempt[h].pr
           f == attempt[h].feature
<1>1. p \in PRs /\ f \in Features \cup {None}
    BY AttemptType DEF CreatePullRequest, At, Attempt
<1>2. CASE ~Insertable(p, f)
    BY <1>2 DEF CreatePullRequest, LinkInv, Blank, AutoLinkLogged, Exists
<1>3. CASE Insertable(p, f)
    <2> DEFINE new == [status |-> "OPEN", feature |-> f,
                       linkSource |-> IF f = None THEN None ELSE "AUTO_BRANCH",
                       content |-> attempt[h].seq]
    <2>1. pullRequest' = [pullRequest EXCEPT ![p] = new]
        BY <1>3 DEF CreatePullRequest
    <2>2. \A q \in PRs : pullRequest'[q] = IF q = p THEN new ELSE pullRequest[q]
        BY <2>1 DEF TypeOK
    <2>3. \A q \in PRs, g \in Features : activity'[<<q, g, "OPENED">>] =
            IF Live(f) /\ q = p /\ g = f THEN activity[<<q, g, "OPENED">>] + 1
            ELSE activity[<<q, g, "OPENED">>]
        BY <1>1, <1>3, MoveFeatureLog DEF CreatePullRequest, LogKind
    <2>4. \A g \in Features : activity[<<p, g, "OPENED">>] = 0
        BY <1>1, <1>3 DEF Insertable, LinkInv, Blank
    <2>5. pullRequest'[p].status # "ABSENT" /\ \A q \in PRs : q # p => Exists(q)' <=> Exists(q)
        BY <1>1, <2>2 DEF Exists
    <2>6. Blank'
        BY <1>1, <2>2, <2>3, <2>5 DEF LinkInv, Blank, Exists
    <2>7. ASSUME NEW q \in PRs, pullRequest'[q].linkSource = "AUTO_BRANCH",
                 pullRequest'[q].feature # None
          PROVE  activity'[<<q, pullRequest'[q].feature, "OPENED">>] = 1
        <3>1. CASE q = p
            <4>1. f # None /\ Live(f) /\ f \in Features
                BY <1>1, <1>3, <2>2, <2>7, <3>1, WebhookAssumption DEF Insertable
            <4>2. pullRequest'[q].feature = f
                BY <2>2, <3>1
            <4>3. activity'[<<p, f, "OPENED">>] = 0 + 1
                BY <1>1, <2>3, <2>4, <4>1
            <4>4. QED
                BY <3>1, <4>2, <4>3
        <3>2. CASE q # p
            <4>1. pullRequest'[q] = pullRequest[q] /\ pullRequest[q].feature \in Features
                BY <2>2, <2>7, <3>2 DEF TypeOK, Row
            <4>2. QED
                BY <2>3, <2>7, <3>2, <4>1 DEF LinkInv, AutoLinkLogged
        <3>3. QED
            BY <3>1, <3>2
    <2>8. QED
        BY <2>6, <2>7 DEF LinkInv, AutoLinkLogged
<1>4. QED
    BY <1>2, <1>3

\* Closing, reopening and updating a row leave its link and its OPENED log alone.
LEMMA RecordKeepsLink ==
    ASSUME TypeOK, NEW h \in Handlers,
           RecordClosed(h) \/ RecordReopened(h) \/ RecordSynchronize(h)
    PROVE  \A q \in PRs :
             /\ pullRequest'[q].linkSource = pullRequest[q].linkSource
             /\ pullRequest'[q].feature = pullRequest[q].feature
             /\ Exists(q) => Exists(q)'
             /\ \A g \in Features : activity'[<<q, g, "OPENED">>] = activity[<<q, g, "OPENED">>]
<1> DEFINE p == attempt[h].pr
           Rows == \A q \in PRs : /\ pullRequest'[q].linkSource = pullRequest[q].linkSource
                                  /\ pullRequest'[q].feature = pullRequest[q].feature
                                  /\ Exists(q) => Exists(q)'
           Log == \A q \in PRs, g \in Features :
                      activity'[<<q, g, "OPENED">>] = activity[<<q, g, "OPENED">>]
<1>1. p \in PRs
    BY AttemptType DEF RecordClosed, RecordReopened, RecordSynchronize, At
<1>2. ASSUME NEW s \in {"OPEN", "CLOSED", "MERGED"},
             pullRequest' = [pullRequest EXCEPT ![p].status = s]
      PROVE  Rows
    BY <1>2 DEF TypeOK, Row, Exists
<1>3. ASSUME NEW k \in {"MERGED", "REOPENED"}, NEW s, MoveFeature(p, attempt[h].feature, s, k)
      PROVE  Log
    BY <1>1, <1>3, MoveFeatureLog DEF LogKind
<1>4. CASE RecordClosed(h)
    BY <1>2, <1>3, <1>4 DEF RecordClosed
<1>5. CASE RecordReopened(h)
    BY <1>2, <1>3, <1>5 DEF RecordReopened
<1>6. CASE RecordSynchronize(h)
    BY <1>6 DEF RecordSynchronize, TypeOK, Row, Exists
<1>7. QED
    BY <1>4, <1>5, <1>6

LEMMA MemberLinkInv ==
    ASSUME TypeOK, LinkInv,
           \/ \E m \in Members, p \in PRs, f \in Features : LinkPR(m, p, f)
           \/ \E p \in PRs : UnlinkPR(p)
           \/ \E f \in Features : DeleteFeature(f)
    PROVE  LinkInv'
<1>1. ASSUME NEW m \in Members, NEW p \in PRs, NEW f \in Features, LinkPR(m, p, f)
      PROVE  LinkInv'
    <2>1. \A q \in PRs : pullRequest'[q] =
            IF q = p THEN [pullRequest[p] EXCEPT !.feature = f, !.linkSource = "MANUAL"]
            ELSE pullRequest[q]
        BY <1>1 DEF LinkPR, TypeOK
    <2>2. \A q \in PRs, g \in Features :
            activity'[<<q, g, "OPENED">>] = activity[<<q, g, "OPENED">>]
        BY <1>1 DEF LinkPR, TypeOK, LogKind
    <2>3. \A q \in PRs : Exists(q)' <=> Exists(q)
        <3>1. \A q \in PRs : pullRequest[q] \in Row
            BY DEF TypeOK
        <3>2. \A q \in PRs : pullRequest'[q].status = pullRequest[q].status
            <4>1. [pullRequest[p] EXCEPT !.feature = f, !.linkSource = "MANUAL"].status
                    = pullRequest[p].status
                BY <3>1 DEF Row
            <4>2. QED
                BY <2>1, <4>1
        <3>3. QED
            BY <3>2 DEF Exists
    <2>4. Blank'
        BY <1>1, <2>1, <2>2, <2>3 DEF LinkPR, LinkInv, Blank
    <2>5. \A q \in PRs : pullRequest'[q].linkSource = "AUTO_BRANCH" =>
            pullRequest'[q] = pullRequest[q]
        BY <2>1 DEF TypeOK, Row
    <2>6. QED
        BY <2>2, <2>4, <2>5 DEF LinkInv, AutoLinkLogged, TypeOK, Row
<1>2. ASSUME NEW p \in PRs, UnlinkPR(p) PROVE LinkInv'
    <2>1. \A q \in PRs : pullRequest'[q] =
            IF q = p THEN [pullRequest[p] EXCEPT !.feature = None, !.linkSource = None]
            ELSE pullRequest[q]
        BY <1>2 DEF UnlinkPR, TypeOK
    <2>2. \A q \in PRs, g \in Features :
            activity'[<<q, g, "OPENED">>] = activity[<<q, g, "OPENED">>]
        BY <1>2 DEF UnlinkPR, TypeOK, LogKind
    <2>3. \A q \in PRs : Exists(q)' <=> Exists(q)
        <3>1. \A q \in PRs : pullRequest[q] \in Row
            BY DEF TypeOK
        <3>2. \A q \in PRs : pullRequest'[q].status = pullRequest[q].status
            <4>1. [pullRequest[p] EXCEPT !.feature = None, !.linkSource = None].status
                    = pullRequest[p].status
                BY <3>1 DEF Row
            <4>2. QED
                BY <2>1, <4>1
        <3>3. QED
            BY <3>2 DEF Exists
    <2>4. Blank'
        BY <1>2, <2>1, <2>2, <2>3 DEF UnlinkPR, LinkInv, Blank
    <2>5. \A q \in PRs : pullRequest'[q].feature # None => pullRequest'[q] = pullRequest[q]
        BY <2>1 DEF TypeOK, Row
    <2>6. QED
        BY SMTT(30), <2>2, <2>4, <2>5 DEF LinkInv, AutoLinkLogged, TypeOK, Row
<1>3. ASSUME NEW f \in Features, DeleteFeature(f) PROVE LinkInv'
    <2>1. \A q \in PRs : pullRequest'[q] =
            IF pullRequest[q].feature = f THEN [pullRequest[q] EXCEPT !.feature = None]
            ELSE pullRequest[q]
        BY <1>3 DEF DeleteFeature
    <2>2. \A q \in PRs, g \in Features : activity'[<<q, g, "OPENED">>] =
            IF g = f THEN 0 ELSE activity[<<q, g, "OPENED">>]
        BY <1>3 DEF DeleteFeature, TypeOK, LogKind
    <2>3. \A q \in PRs : /\ Exists(q)' <=> Exists(q)
                         /\ pullRequest'[q].linkSource = pullRequest[q].linkSource
        BY ZenonT(60), <2>1 DEF Exists, TypeOK, Row
    <2>4. Blank'
        BY <2>2, <2>3 DEF LinkInv, Blank
    <2>5. \A q \in PRs : pullRequest'[q].feature # None =>
            /\ pullRequest'[q] = pullRequest[q] /\ pullRequest[q].feature # f
            /\ pullRequest[q].feature \in Features
        BY <2>1 DEF TypeOK, Row
    <2>6. AutoLinkLogged'
        <3> SUFFICES ASSUME NEW q \in PRs, pullRequest'[q].linkSource = "AUTO_BRANCH",
                            pullRequest'[q].feature # None
                     PROVE  activity'[<<q, pullRequest'[q].feature, "OPENED">>] = 1
            BY DEF AutoLinkLogged
        <3>1. activity[<<q, pullRequest[q].feature, "OPENED">>] = 1
            BY <2>5 DEF LinkInv, AutoLinkLogged
        <3>2. QED
            BY <2>2, <2>5, <3>1
    <2>7. QED
        BY <2>4, <2>6 DEF LinkInv
<1>4. QED
    BY <1>1, <1>2, <1>3

LEMMA LinkInvStep ==
    ASSUME TypeOK, LinkInv, [Next]_vars
    PROVE  LinkInv'
<1>1. CASE UNCHANGED <<pullRequest, activity>>
    BY <1>1 DEF LinkInv, Blank, AutoLinkLogged, Exists
<1>2. ASSUME NEW h \in Handlers, RecordClosed(h) \/ RecordReopened(h) \/ RecordSynchronize(h)
      PROVE  LinkInv'
    <2>1. \A q \in PRs : pullRequest[q] \in Row
        BY DEF TypeOK
    <2>2. Blank'
        BY <1>2, RecordKeepsLink DEF LinkInv, Blank
    <2>3. AutoLinkLogged'
        BY <1>2, <2>1, RecordKeepsLink DEF LinkInv, AutoLinkLogged, Row
    <2>4. QED
        BY <2>2, <2>3 DEF LinkInv
<1>3. QED
    BY <1>1, <1>2, RowWriters, CreateLinkInv, MemberLinkInv

LEMMA LinkInvInit == Init => LinkInv
BY WebhookAssumption DEF Init, LinkInv, Blank, AutoLinkLogged, NoRow, LogKind

\* Whatever is duplicated, retried, reordered or cut short, a pull request that its
\* branch linked to a feature has exactly one OPENED row in that feature's log.
THEOREM AutoLinkIsLogged == Spec => []AutoLinkLogged
<1>1. TypeOK /\ LinkInv /\ [Next]_vars => LinkInv'
    BY LinkInvStep
<1>2. LinkInv => AutoLinkLogged
    BY DEF LinkInv
<1>3. QED
    BY <1>1, <1>2, LinkInvInit, TypeCorrect, PTL DEF Spec

\* No webhook, however often it is sent, takes back a link a member made: the only
\* step that sets a link is the insert, and it finds no row.
THEOREM ManualLinkIsKept == Spec => ManualLinkKept
<1> DEFINE Kept == \A p \in PRs :
          pullRequest[p].linkSource = "MANUAL" /\ pullRequest'[p] # pullRequest[p]
          => \/ pullRequest'[p].linkSource = "MANUAL"
                /\ pullRequest'[p].feature = pullRequest[p].feature
             \/ edits' # edits
<1>1. ASSUME TypeOK, LinkInv, [Next]_vars PROVE Kept
    <2>1. CASE UNCHANGED <<pullRequest, activity>>
        BY <2>1
    <2>2. ASSUME NEW h \in Handlers, CreatePullRequest(h) PROVE Kept
        <3>1. attempt[h].pr \in PRs
            BY <1>1, <2>2, AttemptType DEF CreatePullRequest, At
        <3>2. CASE ~Insertable(attempt[h].pr, attempt[h].feature)
            BY <2>2, <3>2 DEF CreatePullRequest
        <3>3. CASE Insertable(attempt[h].pr, attempt[h].feature)
            <4>1. pullRequest[attempt[h].pr].linkSource # "MANUAL"
                BY <1>1, <3>1, <3>3, WebhookAssumption DEF Insertable, LinkInv, Blank
            <4>2. \A q \in PRs : q # attempt[h].pr => pullRequest'[q] = pullRequest[q]
                BY <1>1, <2>2, <3>3 DEF CreatePullRequest, TypeOK
            <4>3. QED
                BY <4>1, <4>2
        <3>4. QED
            BY <3>2, <3>3
    <2>3. ASSUME NEW h \in Handlers,
                 RecordClosed(h) \/ RecordReopened(h) \/ RecordSynchronize(h)
          PROVE  Kept
        BY <1>1, <2>3, RecordKeepsLink
    <2>4. ASSUME Edit PROVE Kept
        <3>1. edits \in Nat /\ edits' = edits + 1
            BY <1>1, <2>4, WebhookAssumption DEF Edit, TypeOK
        <3>2. QED
            BY <3>1
    <2>5. QED
        BY <1>1, <2>1, <2>2, <2>3, <2>4, RowWriters DEF LinkPR, UnlinkPR, DeleteFeature
<1>2. TypeOK /\ LinkInv /\ [Next]_vars => LinkInv'
    BY LinkInvStep
<1>3. TypeOK /\ LinkInv /\ [Next]_vars => [Kept]_vars
    BY <1>1
<1>4. QED
    BY <1>2, <1>3, LinkInvInit, TypeCorrect, PTL DEF Spec, ManualLinkKept

(***************************************************************************)
(* A processed delivery has its pull request in the table.                  *)
(***************************************************************************)

\* A step either moves no slot, or starts a request, or is a step of one request.
LEMMA WhoMoves ==
    ASSUME [Next]_vars
    PROVE  \/ UNCHANGED <<attempt, webhookEvent>>
           \/ \E h \in Handlers, d \in Deliveries : Receive(h, d)
           \/ \E h \in Handlers : RequestStep(h)
BY DEF Next, RequestStep, GitHubEvent, MemberStep, LinkPR, UnlinkPR, UpdateFeature,
       DeleteFeature, SetRepositoryLink, tables, vars

LEMMA ExistsStable ==
    ASSUME TypeOK, [Next]_vars
    PROVE  \A p \in PRs : Exists(p) => Exists(p)'
<1>0. \A p \in PRs : pullRequest[p] \in Row
    BY DEF TypeOK
<1>1. CASE UNCHANGED <<pullRequest, activity>>
    BY <1>1 DEF Exists
<1>2. ASSUME NEW h \in Handlers, CreatePullRequest(h), NEW p \in PRs, Exists(p)
      PROVE  Exists(p)'
    BY <1>2 DEF CreatePullRequest, Exists, TypeOK
<1>3. ASSUME NEW h \in Handlers, RecordClosed(h) \/ RecordReopened(h) \/ RecordSynchronize(h)
      PROVE  \A p \in PRs : Exists(p) => Exists(p)'
    BY <1>3, RecordKeepsLink
<1>4. ASSUME NEW m \in Members, NEW p \in PRs, NEW f \in Features, LinkPR(m, p, f)
      PROVE  \A q \in PRs : Exists(q) => Exists(q)'
    BY <1>0, <1>4 DEF LinkPR, Exists, TypeOK, Row
<1>5. ASSUME NEW p \in PRs, UnlinkPR(p)
      PROVE  \A q \in PRs : Exists(q) => Exists(q)'
    BY <1>0, <1>5 DEF UnlinkPR, Exists, TypeOK, Row
<1>6. ASSUME NEW f \in Features, DeleteFeature(f)
      PROVE  \A q \in PRs : Exists(q) => Exists(q)'
    BY <1>0, <1>6 DEF DeleteFeature, Exists, Row
<1>7. QED
    BY <1>1, <1>2, <1>3, <1>4, <1>5, <1>6, RowWriters

\* The request has written its pull request, or has found it before writing.
Committed(h) ==
    /\ attempt[h] # Idle /\ ActionOf(h) # "edited"
    /\ \/ attempt[h].step \in {"notify", "mark"}
       \/ attempt[h].step = "write" /\ ActionOf(h) # "opened"

RecordedInv ==
    /\ \A h \in Handlers : Committed(h) => Exists(attempt[h].pr)
    /\ ProcessedMeansRecorded

\* How a request comes to be committed.
LEMMA CommitStep ==
    ASSUME TypeOK, NotAhead, RecordedInv, [Next]_vars, NEW h \in Handlers, RequestStep(h),
           Committed(h)'
    PROVE  Exists(attempt[h].pr) \/ pullRequest'[attempt[h].pr].status # "ABSENT"
<1> DEFINE p == attempt[h].pr
<1>1. attempt[h] # Idle /\ attempt'[h] # Idle /\ attempt[h] \in Attempt /\ p \in PRs
    BY RequestFrame, AttemptType DEF Committed
<1>2. ActionOf(h)' = ActionOf(h)
    BY <1>1, ActionStable
<1>3. Committed(h) => Exists(p)
    BY DEF RecordedInv
<1>4. ASSUME NEW s, Goto(h, s) PROVE attempt'[h].step = s
    BY <1>1, <1>4 DEF Goto, TypeOK, Attempt
<1>5. ~(Succeed(h) \/ Refuse(h))
    BY <1>1 DEF Succeed, Refuse, TypeOK
<1>6. CASE TimeOut(h)
    <2>1. attempt'[h].step = attempt[h].step
        BY <1>1, <1>6 DEF TimeOut, TypeOK, Attempt
    <2>2. QED
        BY <1>1, <1>2, <1>3, <2>1 DEF Committed
<1>7. CASE \/ Throw(h) \/ Crash(h) \/ CheckDuplicate(h) \/ UpsertEvent(h)
           \/ LookupRepository(h) \/ MarkIgnored(h) \/ MarkProcessed(h)
           \/ MarkFailed(h) \/ Reply(h)
    <2>1. \/ \E s \in {"fail", "upsert", "lookup", "extract", "ignore", "reply"} : Goto(h, s)
          \/ attempt[h].step = "notify"
        BY <1>5, <1>7 DEF Throw, Crash, CheckDuplicate, UpsertEvent, LookupRepository,
                          MarkIgnored, MarkProcessed, MarkFailed, Reply
    <2>2. CASE attempt[h].step = "notify"
        BY <1>1, <1>2, <1>3, <2>2 DEF Committed
    <2>3. QED
        BY <1>4, <2>1, <2>2 DEF Committed
<1>8. CASE ExtractFeature(h)
    <2>1. attempt'[h].step = IF ActionOf(h) = "edited" THEN "mark" ELSE "find"
        BY <1>1, <1>8 DEF ExtractFeature, TypeOK, Attempt
    <2>2. QED
        BY <1>2, <2>1 DEF Committed
<1>9. CASE FindPullRequest(h)
    <2>1. CASE ActionOf(h) = "opened" /\ ~Exists(p)
        BY <1>2, <1>4, <1>9, <2>1 DEF FindPullRequest, Committed
    <2>2. CASE ActionOf(h) # "opened" /\ ~Exists(p)
        BY <1>4, <1>9, <2>2 DEF FindPullRequest, Committed
    <2>3. QED
        BY <2>1, <2>2
<1>10. CASE CreatePullRequest(h)
    <2>1. CASE Insertable(p, attempt[h].feature)
        BY <1>1, <1>10, <2>1 DEF CreatePullRequest, TypeOK
    <2>2. CASE ~Insertable(p, attempt[h].feature)
        BY <1>4, <1>10, <2>2 DEF CreatePullRequest, Committed
    <2>3. QED
        BY <2>1, <2>2
<1>11. CASE RecordClosed(h) \/ RecordReopened(h) \/ RecordSynchronize(h)
    <2>1. Committed(h)
        BY <1>1, <1>11 DEF RecordClosed, RecordReopened, RecordSynchronize, At, Committed
    <2>2. QED
        BY <1>3, <2>1
<1>12. CASE NotifyAssignee(h)
    <2>1. Committed(h)
        BY <1>1, <1>2, <1>12 DEF NotifyAssignee, At, Committed
    <2>2. QED
        BY <1>3, <2>1
<1>13. QED
    BY <1>6, <1>7, <1>8, <1>9, <1>10, <1>11, <1>12 DEF RequestStep, HandlerStep

LEMMA RecordedInvStep ==
    ASSUME TypeOK, NotAhead, RecordedInv, [Next]_vars
    PROVE  RecordedInv'
<1>1. ASSUME NEW h \in Handlers, Committed(h)' PROVE Exists(attempt[h].pr)'
    <2> USE ExistsStable
    <2>1. CASE attempt'[h] = attempt[h]
        <3>1. ActionOf(h)' = ActionOf(h) /\ attempt[h].pr \in PRs
            BY <1>1, <2>1, ActionStable, AttemptType DEF Committed
        <3>2. Committed(h)
            BY <1>1, <2>1, <3>1 DEF Committed
        <3>3. QED
            BY <2>1, <3>1, <3>2 DEF RecordedInv, Exists
    <2>2. CASE \E d \in Deliveries : Receive(h, d)
        <3>1. attempt'[h].step = "check"
            BY <2>2 DEF Receive, TypeOK
        <3>2. QED
            BY <1>1, <3>1 DEF Committed
    <2>3. CASE RequestStep(h)
        <3>1. /\ attempt[h] # Idle /\ attempt[h].pr \in PRs
              /\ attempt'[h].pr = attempt[h].pr
            BY <1>1, <2>3, RequestFrame, AttemptType DEF Committed
        <3>2. QED
            BY <1>1, <2>3, <3>1, CommitStep DEF Exists
    <2>4. QED
        BY <2>1, <2>2, <2>3, WhoMoves, RequestFrame DEF Receive, TypeOK
<1>2. ASSUME NEW d \in Deliveries, webhookEvent'[d] = "PROCESSED", payload'[d] # "edited"
      PROVE  Exists(d[1])'
    <2>1. d[1] \in PRs
        BY DEF Deliveries
    <2>2. CASE webhookEvent[d] = "PROCESSED"
        <3>1. payload'[d] = payload[d]
            BY <2>2, EmittedStable DEF NotAhead
        <3>2. QED
            BY <1>2, <2>1, <2>2, <3>1, ExistsStable DEF RecordedInv, ProcessedMeansRecorded
    <2>3. CASE webhookEvent[d] # "PROCESSED"
        <3>1. PICK h \in Handlers : RequestStep(h) /\ d = DeliveryOf(h)
            BY <1>2, <2>3, WhoMoves, RequestFrame DEF Receive, tables
        <3>2. attempt[h] # Idle /\ d[1] = attempt[h].pr /\ payload'[d] = payload[d]
            BY <3>1, RequestFrame DEF DeliveryOf
        <3>3. MarkProcessed(h)
            BY <1>2, <2>3, <3>1 DEF RequestStep, HandlerStep, TimeOut, Throw, Crash,
               CheckDuplicate, UpsertEvent, LookupRepository, MarkIgnored, ExtractFeature,
               FindPullRequest, CreatePullRequest, RecordClosed, RecordReopened,
               RecordSynchronize, NotifyAssignee, MarkFailed, Reply, SetEvent, tables, TypeOK
        <3>4. Committed(h)
            BY <1>2, <3>1, <3>2, <3>3 DEF MarkProcessed, At, Committed, ActionOf
        <3>5. QED
            BY <2>1, <3>2, <3>4, ExistsStable DEF RecordedInv
    <2>4. QED
        BY <2>2, <2>3
<1>3. QED
    BY <1>1, <1>2 DEF RecordedInv, ProcessedMeansRecorded

LEMMA ControlInit == Init => NotAhead /\ RecordedInv
BY DEF Init, NotAhead, RecordedInv, ProcessedMeansRecorded, Committed

\* GitHub's retries stop at a PROCESSED delivery, and no such delivery leaves its pull
\* request out of the table, in whatever order the deliveries come.
THEOREM ProcessedIsRecorded == Spec => []ProcessedMeansRecorded
<1> DEFINE Inv == TypeOK /\ NotAhead /\ RecordedInv
<1>1. Init => Inv
    BY InitTypeOK, ControlInit
<1>2. Inv /\ [Next]_vars => Inv'
    BY NextTypeOK, NotAheadStep, RecordedInvStep
<1>3. Inv => ProcessedMeansRecorded
    BY DEF RecordedInv
<1> HIDE DEF Inv
<1>4. QED
    BY <1>1, <1>2, <1>3, PTL DEF Spec

(***************************************************************************)
(* One person at most is told that a pull request was opened.               *)
(***************************************************************************)

IsOpened(n, p) == n.type = "PR_OPENED" /\ n.pr = p

\* The request has inserted its pull request and has not sent the notice yet.
Opening(h) ==
    attempt[h] # Idle /\ attempt[h].step = "notify" /\ ActionOf(h) = "opened"

NoticeInv ==
    /\ OneOpenedNotice
    /\ \A n \in notification : n.type = "PR_OPENED" => Exists(n.pr)
    /\ \A h \in Handlers : Opening(h) =>
          \A n \in notification : ~IsOpened(n, attempt[h].pr)
    /\ \A h, k \in Handlers :
          Opening(h) /\ Opening(k) /\ attempt[h].pr = attempt[k].pr => h = k

\* Only the insert that succeeds starts an opening.
LEMMA OpeningStarts ==
    ASSUME TypeOK, NotAhead, [Next]_vars, NEW h \in Handlers, Opening(h)'
    PROVE  \/ Opening(h) /\ attempt'[h].pr = attempt[h].pr
           \/ /\ CreatePullRequest(h) /\ ~Exists(attempt[h].pr)
              /\ attempt'[h].pr = attempt[h].pr /\ attempt[h].step = "write"
<1>1. CASE attempt'[h] = attempt[h]
    BY <1>1, ActionStable DEF Opening
<1>2. CASE \E d \in Deliveries : Receive(h, d)
    <2>1. attempt'[h].step = "check"
        BY <1>2 DEF Receive, TypeOK
    <2>2. QED
        BY <2>1 DEF Opening
<1>3. CASE RequestStep(h)
    <2>1. attempt[h] # Idle /\ attempt'[h] # Idle /\ attempt[h] \in Attempt
          /\ attempt'[h].pr = attempt[h].pr
        BY <1>3, RequestFrame, AttemptType DEF Opening
    <2>2. ActionOf(h)' = ActionOf(h)
        BY <2>1, ActionStable
    <2>3. ASSUME NEW s, Goto(h, s) PROVE attempt'[h].step = s
        BY <2>1, <2>3 DEF Goto, TypeOK, Attempt
    <2>4. ~(Succeed(h) \/ Refuse(h))
        BY <2>1 DEF Succeed, Refuse, TypeOK
    <2>5. CASE TimeOut(h)
        <3>1. attempt'[h].step = attempt[h].step
            BY <2>1, <2>5 DEF TimeOut, TypeOK, Attempt
        <3>2. QED
            BY <2>1, <2>2, <3>1 DEF Opening
    <2>6. CASE \/ Throw(h) \/ Crash(h) \/ CheckDuplicate(h) \/ UpsertEvent(h)
               \/ LookupRepository(h) \/ MarkIgnored(h) \/ MarkProcessed(h)
               \/ MarkFailed(h) \/ Reply(h) \/ RecordReopened(h) \/ RecordSynchronize(h)
               \/ NotifyAssignee(h)
        <3>1. \E s \in Step \ {"notify"} : Goto(h, s)
            BY <2>4, <2>6 DEF Throw, Crash, CheckDuplicate, UpsertEvent, LookupRepository,
                 MarkIgnored, MarkProcessed, MarkFailed, Reply, RecordReopened,
                 RecordSynchronize, NotifyAssignee, Step, InTry
        <3>2. QED
            BY <2>3, <3>1 DEF Opening
    <2>7. CASE ExtractFeature(h)
        <3>1. attempt'[h].step \in {"mark", "find"}
            BY <2>1, <2>7 DEF ExtractFeature, TypeOK, Attempt
        <3>2. QED
            BY <3>1 DEF Opening
    <2>8. CASE FindPullRequest(h)
        <3>1. attempt'[h].step \in {"write", "mark", "fail"}
            <4>1. CASE ActionOf(h) # "opened" /\ Exists(attempt[h].pr)
                BY ZenonT(60), <2>1, <2>8, <4>1 DEF FindPullRequest, TypeOK, Attempt
            <4>2. CASE ~(ActionOf(h) # "opened" /\ Exists(attempt[h].pr))
                BY <2>3, <2>8, <4>2 DEF FindPullRequest
            <4>3. QED
                BY <4>1, <4>2
        <3>2. QED
            BY <3>1 DEF Opening
    <2>9. CASE RecordClosed(h)
        <3>1. ActionOf(h) # "opened"
            BY <2>9 DEF RecordClosed
        <3>2. QED
            BY <2>2, <3>1 DEF Opening
    <2>10. CASE CreatePullRequest(h)
        <3>1. CASE Insertable(attempt[h].pr, attempt[h].feature)
            BY <2>1, <2>10, <3>1 DEF CreatePullRequest, Insertable, At
        <3>2. CASE ~Insertable(attempt[h].pr, attempt[h].feature)
            BY <2>3, <2>10, <3>2 DEF CreatePullRequest, Opening
        <3>3. QED
            BY <3>1, <3>2
    <2>11. QED
        BY <1>3, <2>5, <2>6, <2>7, <2>8, <2>9, <2>10 DEF RequestStep, HandlerStep
<1>4. QED
    BY <1>1, <1>2, <1>3, WhoMoves, RequestFrame DEF Receive, TypeOK

\* Only a request that is opening adds a PR_OPENED notice, one at most, and is done.
LEMMA OpenedNotices ==
    ASSUME TypeOK, NotAhead, [Next]_vars
    PROVE  \/ \A n \in notification' : n.type = "PR_OPENED" => n \in notification
           \/ \E h \in Handlers :
                /\ Opening(h) /\ ~Opening(h)' /\ attempt[h].pr \in PRs
                /\ \E m \in Members \cup {None} : \A n \in notification' :
                      n.type = "PR_OPENED" =>
                          \/ n \in notification
                          \/ n = [type |-> "PR_OPENED", pr |-> attempt[h].pr, to |-> m]
<1>1. CASE notification' = notification
    BY <1>1
<1>2. ASSUME NEW m \in Members, NEW p \in PRs, NEW f \in Features, LinkPR(m, p, f)
      PROVE  \A n \in notification' : n.type = "PR_OPENED" => n \in notification
    BY <1>2 DEF LinkPR
<1>3. ASSUME NEW h \in Handlers, NotifyAssignee(h)
      PROVE  \/ \A n \in notification' : n.type = "PR_OPENED" => n \in notification
             \/ /\ Opening(h) /\ ~Opening(h)' /\ attempt[h].pr \in PRs
                /\ \E m \in Members \cup {None} : \A n \in notification' :
                      n.type = "PR_OPENED" =>
                          \/ n \in notification
                          \/ n = [type |-> "PR_OPENED", pr |-> attempt[h].pr, to |-> m]
    <2>1. attempt[h] # Idle /\ attempt[h].pr \in PRs /\ attempt[h] \in Attempt
        BY <1>3, AttemptType DEF NotifyAssignee, At
    <2> DEFINE f == attempt[h].feature
               to == IF Live(f) THEN feature[f].assignee ELSE None
    <2>2. to \in Members \cup {None}
        BY DEF TypeOK, Live
    <2>3. \A n \in notification' : n \in notification \/
            n \in [type : {NoticeOf(ActionOf(h))}, pr : {attempt[h].pr}, to : {to} \ {None}]
        BY <1>3 DEF NotifyAssignee
    <2>4. CASE ActionOf(h) = "opened"
        <3>1. Opening(h)
            BY <1>3, <2>4 DEF NotifyAssignee, At, Opening
        <3>2. ~Opening(h)'
            BY <1>3, <2>1 DEF NotifyAssignee, Goto, Opening, TypeOK, Attempt
        <3>3. \A n \in notification' : n.type = "PR_OPENED" =>
                \/ n \in notification
                \/ n = [type |-> "PR_OPENED", pr |-> attempt[h].pr, to |-> to]
            BY <2>3, <2>4 DEF NoticeOf
        <3>4. QED
            BY <2>1, <2>2, <3>1, <3>2, <3>3
    <2>5. CASE ActionOf(h) # "opened"
        BY <2>3, <2>5 DEF NoticeOf
    <2>6. QED
        BY <2>4, <2>5
<1>4. notification' = notification
      \/ (\E h \in Handlers : NotifyAssignee(h))
      \/ (\E m \in Members, p \in PRs, f \in Features : LinkPR(m, p, f))
    BY DEF Next, HandlerStep, MemberStep, GitHubEvent, Receive, TimeOut, Throw, Crash,
       CheckDuplicate, UpsertEvent, LookupRepository, MarkIgnored, ExtractFeature,
       FindPullRequest, CreatePullRequest, RecordClosed, RecordReopened, RecordSynchronize,
       MarkProcessed, MarkFailed, Reply, UnlinkPR, UpdateFeature, DeleteFeature,
       SetRepositoryLink, tables, vars
<1>5. QED
    BY <1>1, <1>2, <1>3, <1>4

LEMMA NoticeInvStep ==
    ASSUME TypeOK, NotAhead, RecordedInv, NoticeInv, [Next]_vars
    PROVE  NoticeInv'
<1>1. \A h \in Handlers : Opening(h) => Exists(attempt[h].pr) /\ attempt[h].pr \in PRs
    BY AttemptType DEF RecordedInv, Committed, Opening
<1>2. \A n \in notification : n.type = "PR_OPENED" => Exists(n.pr) /\ n.pr \in PRs
    BY DEF NoticeInv, TypeOK, Notice
<1>3. ASSUME NEW h \in Handlers, NEW k \in Handlers, Opening(h)', Opening(k)',
             attempt'[h].pr = attempt'[k].pr
      PROVE  h = k
    <2>1. CASE Opening(h) /\ Opening(k)
        BY <1>3, <2>1, OpeningStarts DEF NoticeInv
    <2>2. CASE CreatePullRequest(h) /\ attempt[h].step = "write" /\ h # k
        <3>1. Opening(k)
            BY <1>3, <2>2, OpeningStarts, RequestFrame, ActionStable
            DEF RequestStep, HandlerStep, Opening, At, CreatePullRequest
        <3>2. ~Exists(attempt[h].pr)
            BY <1>3, <2>2, OpeningStarts DEF Opening
        <3>3. QED
            BY <1>1, <1>3, <3>1, <3>2, OpeningStarts DEF CreatePullRequest
    <2>3. CASE CreatePullRequest(k) /\ attempt[k].step = "write" /\ h # k
        <3>1. Opening(h)
            BY <1>3, <2>3, OpeningStarts, RequestFrame, ActionStable
            DEF RequestStep, HandlerStep, Opening, At, CreatePullRequest
        <3>2. ~Exists(attempt[k].pr)
            BY <1>3, <2>3, OpeningStarts DEF Opening
        <3>3. QED
            BY <1>1, <1>3, <3>1, <3>2, OpeningStarts DEF CreatePullRequest
    <2>4. QED
        BY <1>3, <2>1, <2>2, <2>3, OpeningStarts
<1>4. ASSUME NEW n \in notification', n.type = "PR_OPENED" PROVE Exists(n.pr)'
    <2>1. CASE n \in notification
        BY <1>2, <1>4, <2>1, ExistsStable DEF Exists
    <2>2. CASE n \notin notification
        <3>1. PICK h \in Handlers : Opening(h) /\ n.pr = attempt[h].pr
            BY <1>4, <2>2, OpenedNotices
        <3>2. Exists(n.pr) /\ n.pr \in PRs
            BY <1>1, <3>1
        <3>3. QED
            BY <3>2, ExistsStable DEF Exists
    <2>3. QED
        BY <2>1, <2>2
<1>5. ASSUME NEW h \in Handlers, Opening(h)', NEW n \in notification',
             IsOpened(n, attempt'[h].pr)
      PROVE  FALSE
    <2>1. CASE n \in notification
        <3>1. CASE Opening(h)
            BY <1>5, <2>1, <3>1, OpeningStarts DEF NoticeInv, IsOpened, CreatePullRequest
        <3>2. CASE ~Opening(h)
            BY <1>2, <1>5, <2>1, <3>2, OpeningStarts DEF IsOpened
        <3>3. QED
            BY <3>1, <3>2
    <2>2. CASE n \notin notification
        <3>1. PICK k \in Handlers :
                Opening(k) /\ ~Opening(k)' /\ n.pr = attempt[k].pr
            BY <1>5, <2>2, OpenedNotices DEF IsOpened
        <3>2. h # k
            BY <1>5, <3>1
        <3>3. CASE Opening(h)
            BY <1>5, <3>1, <3>2, <3>3, OpeningStarts DEF NoticeInv, IsOpened, CreatePullRequest
        <3>4. CASE ~Opening(h)
            BY <1>1, <1>5, <3>1, <3>4, OpeningStarts DEF IsOpened
        <3>5. QED
            BY <3>3, <3>4
    <2>3. QED
        BY <2>1, <2>2
<1>6. ASSUME NEW n1 \in notification', NEW n2 \in notification', n1.type = "PR_OPENED",
             n2.type = "PR_OPENED", n1.pr = n2.pr
      PROVE  n1 = n2
    <2>1. CASE n1 \in notification /\ n2 \in notification
        BY <1>6, <2>1 DEF NoticeInv, OneOpenedNotice
    <2>2. CASE n1 \notin notification \/ n2 \notin notification
        <3>1. PICK h \in Handlers, m \in Members \cup {None} :
                /\ Opening(h)
                /\ \A n \in notification' : n.type = "PR_OPENED" =>
                      \/ n \in notification
                      \/ n = [type |-> "PR_OPENED", pr |-> attempt[h].pr, to |-> m]
            BY <1>6, <2>2, OpenedNotices
        <3>2. n1.pr = attempt[h].pr
            BY <1>6, <2>2, <3>1
        <3>3. n1 \notin notification /\ n2 \notin notification
            BY <1>6, <3>1, <3>2 DEF NoticeInv, IsOpened
        <3>4. QED
            BY <1>6, <3>1, <3>3
    <2>3. QED
        BY <2>1, <2>2
<1>7. OneOpenedNotice'
    BY <1>6 DEF OneOpenedNotice
<1>8. QED
    BY <1>3, <1>4, <1>5, <1>7 DEF NoticeInv

LEMMA NoticeInvInit == Init => NoticeInv
BY DEF Init, NoticeInv, OneOpenedNotice, Opening

\* However many attempts at `opened' run, and whoever is assigned meanwhile, the pull
\* request is announced once: only the insert that wins goes on to notify.
THEOREM OpenedIsToldOnce == Spec => []OneOpenedNotice
<1> DEFINE Inv == TypeOK /\ NotAhead /\ RecordedInv /\ NoticeInv
<1>1. Init => Inv
    BY InitTypeOK, ControlInit, NoticeInvInit
<1>2. Inv /\ [Next]_vars => Inv'
    BY NextTypeOK, NotAheadStep, RecordedInvStep, NoticeInvStep
<1>3. Inv => OneOpenedNotice
    BY DEF NoticeInv
<1> HIDE DEF Inv
<1>4. QED
    BY <1>1, <1>2, <1>3, PTL DEF Spec

(***************************************************************************)
(* A processed merge is in the log of the feature the branch linked.        *)
(***************************************************************************)

AutoLinked(p) == pullRequest[p].linkSource = "AUTO_BRANCH" /\ pullRequest[p].feature # None
MergesLogged(p) == activity[<<p, pullRequest[p].feature, "MERGED">>]
Merging(h, steps) ==
    attempt[h] # Idle /\ ActionOf(h) = "merged" /\ attempt[h].step \in steps

LiveLinks == \A p \in PRs : pullRequest[p].feature # None => Live(pullRequest[p].feature)

MergeInv ==
    /\ LiveLinks
    /\ \A h \in Handlers :
          Merging(h, {"write"}) /\ AutoLinked(attempt[h].pr)
              => attempt[h].feature = pullRequest[attempt[h].pr].feature
    /\ \A h \in Handlers :
          Merging(h, {"notify", "mark"}) /\ AutoLinked(attempt[h].pr)
              => MergesLogged(attempt[h].pr) >= 1
    /\ MergeLogged

LEMMA LiveStable ==
    ASSUME TypeOK, [Next]_vars, NEW f \in Features, Live(f)
    PROVE  Live(f)' \/ DeleteFeature(f)
<1>1. ASSUME NEW p \in PRs, NEW g, NEW s \in FeatureStatus, NEW k, MoveFeature(p, g, s, k)
      PROVE  Live(f)'
    <2>1. s # "DELETED"
        BY DEF FeatureStatus
    <2>2. QED
        BY <1>1, <2>1 DEF MoveFeature, Live, TypeOK
<1>2. ASSUME feature' = feature PROVE Live(f)'
    BY <1>2 DEF Live
<1>3. ASSUME NEW h \in Handlers, CreatePullRequest(h) PROVE Live(f)'
    <2>1. attempt[h].pr \in PRs /\ "IN_PROGRESS" \in FeatureStatus
        BY <1>3, AttemptType DEF CreatePullRequest, At, FeatureStatus
    <2>2. \/ feature' = feature
          \/ MoveFeature(attempt[h].pr, attempt[h].feature, "IN_PROGRESS", "OPENED")
        BY <1>3 DEF CreatePullRequest
    <2>3. QED
        BY <1>1, <1>2, <2>1, <2>2
<1>4. ASSUME NEW h \in Handlers, RecordClosed(h) PROVE Live(f)'
    <2>1. attempt[h].pr \in PRs /\ "IN_REVIEW" \in FeatureStatus
        BY <1>4, AttemptType DEF RecordClosed, At, FeatureStatus
    <2>2. \/ feature' = feature
          \/ MoveFeature(attempt[h].pr, attempt[h].feature, "IN_REVIEW", "MERGED")
        BY <1>4 DEF RecordClosed
    <2>3. QED
        BY <1>1, <1>2, <2>1, <2>2
<1>5. ASSUME NEW h \in Handlers, RecordReopened(h) PROVE Live(f)'
    BY <1>1, <1>5, AttemptType DEF RecordReopened, At, FeatureStatus
<1>6. ASSUME NEW g \in Features, NEW s \in Chosen, NEW m \in Members \cup {None},
             UpdateFeature(g, s, m)
      PROVE  Live(f)'
    BY <1>6, WebhookAssumption DEF UpdateFeature, Live, TypeOK, FeatureStatus
<1>7. ASSUME NEW g \in Features, DeleteFeature(g), g # f PROVE Live(f)'
    BY <1>7 DEF DeleteFeature, Live, TypeOK
<1>8. \/ feature' = feature
      \/ \E h \in Handlers : CreatePullRequest(h) \/ RecordClosed(h) \/ RecordReopened(h)
      \/ \E g \in Features, s \in Chosen, m \in Members \cup {None} : UpdateFeature(g, s, m)
      \/ \E g \in Features : DeleteFeature(g)
    BY DEF Next, HandlerStep, MemberStep, GitHubEvent, Receive, TimeOut, Throw, Crash,
       CheckDuplicate, UpsertEvent, LookupRepository, MarkIgnored, ExtractFeature,
       FindPullRequest, RecordSynchronize, NotifyAssignee, MarkProcessed, MarkFailed, Reply,
       LinkPR, UnlinkPR, SetRepositoryLink, tables, vars
<1>9. QED
    BY <1>2, <1>3, <1>4, <1>5, <1>6, <1>7, <1>8

\* The feature of a row after a step: kept from before, or live when it was put there.
LEMMA LinkOrigin ==
    ASSUME TypeOK, [Next]_vars, NEW p \in PRs, NEW g, g = pullRequest'[p].feature, g # None
    PROVE  /\ g \in Features
           /\ (g = pullRequest[p].feature /\ ~DeleteFeature(g)) \/ Live(g)'
<1>0. pullRequest'[p] \in Row /\ pullRequest[p] \in Row
    BY NextTypeOK DEF TypeOK
<1>1. g \in Features
    BY <1>0 DEF Row
<1>2. CASE UNCHANGED <<pullRequest, activity>>
    <2>1. ASSUME DeleteFeature(g) PROVE FALSE
        <3>1. g = None
            BY <1>0, <1>1, <1>2, <2>1 DEF DeleteFeature, Row
        <3>2. QED
            BY <3>1
    <2>2. QED
        BY <1>1, <1>2, <2>1
<1>3. ASSUME NEW h \in Handlers, CreatePullRequest(h) PROVE Live(g)' \/ pullRequest'[p] = pullRequest[p]
    <2>1. attempt[h].pr \in PRs
        BY <1>3, AttemptType DEF CreatePullRequest, At
    <2>2. CASE Insertable(attempt[h].pr, attempt[h].feature) /\ p = attempt[h].pr
        <3>1. g = attempt[h].feature
            BY <1>3, <2>1, <2>2 DEF CreatePullRequest, TypeOK
        <3>2. Live(g)
            BY <2>2, <3>1 DEF Insertable
        <3>3. ~DeleteFeature(g)
            BY <1>3 DEF CreatePullRequest, DeleteFeature, Edit, TypeOK, counters
        <3>4. QED
            BY <1>1, <3>2, <3>3, LiveStable
    <2>3. CASE ~Insertable(attempt[h].pr, attempt[h].feature) \/ p # attempt[h].pr
        BY <1>3, <2>1, <2>3 DEF CreatePullRequest, TypeOK
    <2>4. QED
        BY <2>2, <2>3
<1>4. ASSUME NEW h \in Handlers, RequestStep(h) PROVE ~DeleteFeature(g)
    <2>1. edits' = edits /\ edits \in Nat
        BY <1>4, WebhookAssumption
        DEF RequestStep, HandlerStep, TimeOut, Throw, Crash, CheckDuplicate, UpsertEvent,
            LookupRepository, MarkIgnored, ExtractFeature, FindPullRequest, CreatePullRequest,
            RecordClosed, RecordReopened, RecordSynchronize, NotifyAssignee, MarkProcessed,
            MarkFailed, Reply, counters, TypeOK
    <2>2. QED
        BY <2>1 DEF DeleteFeature, Edit
<1>5. ASSUME NEW h \in Handlers, RecordClosed(h) \/ RecordReopened(h) \/ RecordSynchronize(h)
      PROVE  g = pullRequest[p].feature
    BY <1>5, RecordKeepsLink
<1>6. ASSUME NEW m \in Members, NEW q \in PRs, NEW f \in Features, LinkPR(m, q, f)
      PROVE  /\ ~DeleteFeature(g)
             /\ \/ g = pullRequest[p].feature
                \/ Live(g)'
    <2>1. g = pullRequest[p].feature \/ g = f
        BY <1>0, <1>6 DEF LinkPR, TypeOK, Row
    <2>2. Live(f)'
        BY <1>6 DEF LinkPR, Live
    <2>3. ASSUME NEW e \in Features, DeleteFeature(e) PROVE FALSE
        <3>1. feature[e].status # "DELETED" /\ feature'[e].status = "DELETED"
            BY <2>3 DEF DeleteFeature, Live, TypeOK
        <3>2. QED
            BY <1>6, <3>1 DEF LinkPR
    <2>4. QED
        BY <1>1, <2>1, <2>2, <2>3
<1>7. ASSUME NEW q \in PRs, UnlinkPR(q)
      PROVE  /\ ~DeleteFeature(g)
             /\ g = pullRequest[p].feature
    <2>1. g = pullRequest[p].feature
        BY <1>0, <1>7 DEF UnlinkPR, TypeOK, Row
    <2>2. ASSUME NEW e \in Features, DeleteFeature(e) PROVE FALSE
        <3>1. feature[e].status # "DELETED" /\ feature'[e].status = "DELETED"
            BY <2>2 DEF DeleteFeature, Live, TypeOK
        <3>2. QED
            BY <1>7, <3>1 DEF UnlinkPR
    <2>3. QED
        BY <1>1, <2>1, <2>2
<1>8. ASSUME NEW f \in Features, DeleteFeature(f)
      PROVE  /\ ~DeleteFeature(g)
             /\ g = pullRequest[p].feature
    <2>1. ASSUME NEW e \in Features, DeleteFeature(e) PROVE g # e
        BY <1>0, <2>1 DEF DeleteFeature, Row
    <2>2. g = pullRequest[p].feature
        BY <1>0, <1>8 DEF DeleteFeature, Row
    <2>3. QED
        BY <1>1, <2>1, <2>2
<1>9. QED
    BY <1>1, <1>2, <1>3, <1>4, <1>5, <1>6, <1>7, <1>8, RowWriters DEF RequestStep, HandlerStep

LEMMA LiveLinksStep ==
    ASSUME TypeOK, LiveLinks, [Next]_vars
    PROVE  LiveLinks'
BY LinkOrigin, LiveStable DEF LiveLinks

\* A branch link that is there after a step was there before it, and no merge has
\* been struck from its log.
LEMMA AutoLinkStable ==
    ASSUME TypeOK, [Next]_vars, NEW p \in PRs, Exists(p), AutoLinked(p)'
    PROVE  /\ AutoLinked(p) /\ pullRequest'[p].feature = pullRequest[p].feature
           /\ pullRequest[p].feature \in Features
           /\ MergesLogged(p)' >= MergesLogged(p)
<1>0. pullRequest[p] \in Row
    BY DEF TypeOK
<1> DEFINE Same == /\ AutoLinked(p) /\ pullRequest'[p].feature = pullRequest[p].feature
           Grows == \A x \in PRs \X Features \X LogKind : activity'[x] >= activity[x]
<1>1. ASSUME Same PROVE pullRequest[p].feature \in Features
    BY <1>0, <1>1 DEF Row, AutoLinked
<1>2. ASSUME Same, Grows PROVE MergesLogged(p)' >= MergesLogged(p)
    BY <1>1, <1>2 DEF MergesLogged, LogKind
<1>3. \A x \in PRs \X Features \X LogKind : activity[x] \in Nat
    BY DEF TypeOK
<1>4. ASSUME NEW q \in PRs, NEW f, NEW s, NEW k \in LogKind, MoveFeature(q, f, s, k)
      PROVE  Grows
    BY <1>3, <1>4, MoveFeatureLog
<1>5. CASE UNCHANGED <<pullRequest, activity>>
    BY <1>1, <1>2, <1>3, <1>5 DEF AutoLinked
<1>6. ASSUME NEW h \in Handlers, CreatePullRequest(h) PROVE Same /\ Grows
    <2>1. attempt[h].pr \in PRs
        BY <1>6, AttemptType DEF CreatePullRequest, At
    <2>2. pullRequest'[p] = pullRequest[p]
        BY <1>6, <2>1 DEF CreatePullRequest, Insertable, TypeOK
    <2>3. Grows
        BY <1>3, <1>4, <1>6, <2>1 DEF CreatePullRequest, LogKind
    <2>4. QED
        BY <2>2, <2>3 DEF AutoLinked
<1>7. ASSUME NEW h \in Handlers, RecordClosed(h) \/ RecordReopened(h) \/ RecordSynchronize(h)
      PROVE  Same /\ Grows
    <2>1. Same
        BY <1>7, RecordKeepsLink DEF AutoLinked
    <2>2. attempt[h].pr \in PRs
        BY <1>7, AttemptType DEF RecordClosed, RecordReopened, RecordSynchronize, At
    <2>3. Grows
        BY <1>3, <1>4, <1>7, <2>2 DEF RecordClosed, RecordReopened, RecordSynchronize, LogKind
    <2>4. QED
        BY <2>1, <2>3
<1>8. ASSUME NEW m \in Members, NEW q \in PRs, NEW f \in Features, LinkPR(m, q, f)
      PROVE  Same /\ Grows
    <2>1. pullRequest'[p] = pullRequest[p]
        BY <1>0, <1>8 DEF LinkPR, AutoLinked, TypeOK, Row
    <2>2. Grows
        <3>1. <<q, f, "LINKED">> \in PRs \X Features \X LogKind
            BY <1>8 DEF LogKind
        <3>2. activity' = [activity EXCEPT ![<<q, f, "LINKED">>] = @ + 1]
            BY <1>8 DEF LinkPR
        <3>3. activity \in [PRs \X Features \X LogKind -> Nat]
            BY DEF TypeOK
        <3>4. ASSUME NEW x \in PRs \X Features \X LogKind
              PROVE activity'[x] >= activity[x]
            <4>1. CASE x = <<q, f, "LINKED">>
                BY <1>3, <3>1, <3>2, <3>3, <4>1
            <4>2. CASE x # <<q, f, "LINKED">>
                BY <1>3, <3>2, <3>3, <4>2
            <4>3. QED
                BY <4>1, <4>2
        <3>5. QED
            BY <3>4
    <2>3. QED
        BY <2>1, <2>2 DEF AutoLinked
<1>9. ASSUME NEW q \in PRs, UnlinkPR(q) PROVE Same /\ Grows
    <2>1. pullRequest'[p] = pullRequest[p]
        BY <1>0, <1>9 DEF UnlinkPR, AutoLinked, TypeOK, Row
    <2>2. Grows
        BY <1>3, <1>9 DEF UnlinkPR, TypeOK
    <2>3. QED
        BY <2>1, <2>2 DEF AutoLinked
<1>10. ASSUME NEW f \in Features, DeleteFeature(f)
       PROVE  Same /\ MergesLogged(p)' >= MergesLogged(p)
    <2>1. pullRequest'[p] = pullRequest[p] /\ pullRequest[p].feature # f
        BY <1>0, <1>10 DEF DeleteFeature, AutoLinked, Row
    <2>2. Same /\ pullRequest[p].feature \in Features
        BY <1>1, <2>1 DEF AutoLinked
    <2>3. activity'[<<p, pullRequest[p].feature, "MERGED">>]
            = activity[<<p, pullRequest[p].feature, "MERGED">>]
        BY <1>10, <2>1, <2>2 DEF DeleteFeature, TypeOK, LogKind
    <2>4. activity[<<p, pullRequest[p].feature, "MERGED">>] \in Nat
        BY <1>3, <2>2 DEF LogKind
    <2>5. QED
        BY <2>1, <2>2, <2>3, <2>4 DEF MergesLogged
<1>11. QED
    BY <1>1, <1>2, <1>5, <1>6, <1>7, <1>8, <1>9, <1>10, RowWriters

LEMMA MergesLoggedType ==
    ASSUME TypeOK, [Next]_vars, NEW p \in PRs, AutoLinked(p), AutoLinked(p)',
           pullRequest'[p].feature = pullRequest[p].feature
    PROVE  MergesLogged(p) \in Nat /\ MergesLogged(p)' \in Nat
<1>1. pullRequest[p].feature \in Features
    BY DEF TypeOK, Row, AutoLinked
<1>2. activity' \in [PRs \X Features \X LogKind -> Nat]
    BY NextTypeOK DEF TypeOK
<1>3. QED
    BY <1>1, <1>2 DEF MergesLogged, TypeOK, LogKind

\* What a request at work on a merge has seen to when it moves on.
LEMMA MergeStep ==
    ASSUME TypeOK, NotAhead, RecordedInv, MergeInv, [Next]_vars, NEW h \in Handlers,
           RequestStep(h), NEW p \in PRs, p = attempt[h].pr, AutoLinked(p)',
           attempt'[h] # Idle, ActionOf(h) = "merged"
    PROVE  /\ attempt'[h].step = "write" => attempt'[h].feature = pullRequest'[p].feature
           /\ attempt'[h].step \in {"notify", "mark"} => MergesLogged(p)' >= 1
<1>1. attempt[h] # Idle /\ attempt[h] \in Attempt
    BY RequestFrame, AttemptType
<1>2. attempt[h].step \in {"write", "notify", "mark"} => Exists(p)
    BY <1>1 DEF RecordedInv, Committed
<1>3. Exists(p) => /\ AutoLinked(p) /\ pullRequest'[p].feature = pullRequest[p].feature
                   /\ MergesLogged(p)' >= MergesLogged(p)
                   /\ MergesLogged(p) \in Nat /\ MergesLogged(p)' \in Nat
    BY AutoLinkStable, MergesLoggedType
<1>4. ASSUME NEW s, Goto(h, s) PROVE attempt'[h].step = s
    BY <1>1, <1>4 DEF Goto, TypeOK, Attempt
<1>5. ~(Succeed(h) \/ Refuse(h))
    BY DEF Succeed, Refuse, TypeOK
<1>6. attempt[h].step = "write" /\ Exists(p) => attempt[h].feature = pullRequest[p].feature
    BY <1>1, <1>3 DEF MergeInv, Merging
<1>7. attempt[h].step \in {"notify", "mark"} => MergesLogged(p)' >= 1
    BY <1>1, <1>2, <1>3 DEF MergeInv, Merging
<1>8. CASE TimeOut(h)
    <2>1. attempt'[h].step = attempt[h].step /\ attempt'[h].feature = attempt[h].feature
        BY <1>1, <1>8 DEF TimeOut, TypeOK, Attempt
    <2>2. QED
        BY <1>2, <1>3, <1>6, <1>7, <2>1
<1>9. CASE \/ Throw(h) \/ Crash(h) \/ CheckDuplicate(h) \/ UpsertEvent(h)
           \/ LookupRepository(h) \/ MarkIgnored(h) \/ MarkProcessed(h)
           \/ MarkFailed(h) \/ Reply(h)
    <2>1. \/ \E s \in {"fail", "upsert", "lookup", "extract", "ignore", "reply"} : Goto(h, s)
          \/ attempt[h].step = "notify" /\ Goto(h, "mark")
        BY <1>5, <1>9 DEF Throw, Crash, CheckDuplicate, UpsertEvent, LookupRepository,
                          MarkIgnored, MarkProcessed, MarkFailed, Reply
    <2>2. QED
        BY <1>4, <1>7, <2>1
<1>10. CASE ExtractFeature(h)
    <2>1. attempt'[h].step = "find"
        BY <1>1, <1>10 DEF ExtractFeature, TypeOK, Attempt
    <2>2. QED
        BY <2>1
<1>11. CASE FindPullRequest(h)
    <2>1. CASE Exists(p)
        <3>1. attempt' = [attempt EXCEPT ![h] =
                 [@ EXCEPT !.step = "write", !.feature = pullRequest[p].feature]]
            BY <1>11, <2>1 DEF FindPullRequest
        <3>2. attempt'[h] = [attempt[h] EXCEPT !.step = "write",
                                               !.feature = pullRequest[p].feature]
            BY <3>1 DEF TypeOK
        <3>3. attempt'[h].step = "write" /\ attempt'[h].feature = pullRequest[p].feature
            BY <1>1, <3>2 DEF Attempt
        <3>4. QED
            BY <1>3, <2>1, <3>3
    <2>2. CASE ~Exists(p)
        BY <1>4, <1>11, <2>2 DEF FindPullRequest
    <2>3. QED
        BY <2>1, <2>2
<1>12. CASE RecordClosed(h)
    <2>1. attempt[h].step = "write" /\ Exists(p)
        BY <1>2, <1>12 DEF RecordClosed, At
    <2>2. /\ MoveFeature(p, attempt[h].feature, "IN_REVIEW", "MERGED")
          /\ GotoNotify(h)
        BY <1>12 DEF RecordClosed
    <2>3. attempt'[h].step \in {"notify", "mark"}
        BY <1>4, <2>2 DEF GotoNotify
    <2>4. PICK f \in Features : f = pullRequest[p].feature /\ f = attempt[h].feature
        BY <1>3, <1>6, <2>1, AutoLinkStable
    <2>5. Live(f)
        BY <2>4, WebhookAssumption DEF MergeInv, LiveLinks
    <2>6. activity'[<<p, f, "MERGED">>] = activity[<<p, f, "MERGED">>] + 1
        BY <2>2, <2>4, <2>5, MoveFeatureLog DEF LogKind
    <2>7. MergesLogged(p)' = MergesLogged(p) + 1
        BY <1>3, <2>1, <2>4, <2>6 DEF MergesLogged
    <2>8. QED
        BY <1>3, <2>1, <2>3, <2>7
<1>13. CASE CreatePullRequest(h) \/ RecordReopened(h) \/ RecordSynchronize(h)
    BY <1>13 DEF CreatePullRequest, RecordReopened, RecordSynchronize, TypeOK
<1>14. CASE NotifyAssignee(h)
    <2>1. attempt[h].step = "notify" /\ attempt'[h].step = "mark"
        BY <1>4, <1>14 DEF NotifyAssignee, At
    <2>2. QED
        BY <1>7, <2>1
<1>15. QED
    BY <1>8, <1>9, <1>10, <1>11, <1>12, <1>13, <1>14 DEF RequestStep, HandlerStep

LEMMA MergeInvStep ==
    ASSUME TypeOK, NotAhead, RecordedInv, MergeInv, [Next]_vars
    PROVE  MergeInv'
<1>1. LiveLinks'
    BY LiveLinksStep DEF MergeInv
<1>2. ASSUME NEW h \in Handlers, NEW p \in PRs, p = attempt'[h].pr, AutoLinked(p)',
             Merging(h, {"write", "notify", "mark"})'
      PROVE  /\ attempt'[h].step = "write" => attempt'[h].feature = pullRequest'[p].feature
             /\ attempt'[h].step \in {"notify", "mark"} => MergesLogged(p)' >= 1
    <2>1. CASE attempt'[h] = attempt[h]
        <3>1. ActionOf(h) = "merged" /\ attempt[h] # Idle
            BY <1>2, <2>1, ActionStable DEF Merging
        <3>2. Exists(p)
            BY <1>2, <2>1, <3>1 DEF RecordedInv, Committed, Merging
        <3>3. /\ AutoLinked(p) /\ pullRequest'[p].feature = pullRequest[p].feature
              /\ MergesLogged(p)' >= MergesLogged(p)
              /\ MergesLogged(p) \in Nat /\ MergesLogged(p)' \in Nat
            BY <1>2, <3>2, AutoLinkStable, MergesLoggedType
        <3>4. QED
            BY <1>2, <2>1, <3>1, <3>3 DEF MergeInv, Merging
    <2>2. CASE \E d \in Deliveries : Receive(h, d)
        <3>1. attempt'[h].step = "check"
            BY <2>2 DEF Receive, TypeOK
        <3>2. QED
            BY <3>1
    <2>3. CASE RequestStep(h)
        <3>1. attempt[h] # Idle /\ attempt'[h] # Idle /\ p = attempt[h].pr
            BY <1>2, <2>3, RequestFrame DEF Merging
        <3>2. ActionOf(h) = "merged"
            BY <1>2, <3>1, ActionStable DEF Merging
        <3>3. QED
            BY <1>2, <2>3, <3>1, <3>2, MergeStep
    <2>4. QED
        BY <2>1, <2>2, <2>3, WhoMoves, RequestFrame DEF Receive, TypeOK
<1>3. ASSUME NEW d \in Deliveries, NEW p \in PRs, p = d[1], AutoLinked(p)',
             webhookEvent'[d] = "PROCESSED", payload'[d] = "merged"
      PROVE  MergesLogged(p)' >= 1
    <2>1. CASE webhookEvent[d] = "PROCESSED"
        <3>1. payload[d] = "merged"
            BY <1>3, <2>1, EmittedStable DEF NotAhead
        <3>2. Exists(p)
            BY <1>3, <2>1, <3>1 DEF RecordedInv, ProcessedMeansRecorded
        <3>3. /\ AutoLinked(p)
              /\ MergesLogged(p)' >= MergesLogged(p)
              /\ MergesLogged(p) \in Nat /\ MergesLogged(p)' \in Nat
            BY <1>3, <3>2, AutoLinkStable, MergesLoggedType
        <3>4. MergesLogged(p) >= 1
            BY <1>3, <2>1, <3>1, <3>3 DEF MergeInv, MergeLogged, AutoLinked, MergesLogged
        <3>5. QED
            BY <3>3, <3>4
    <2>2. CASE webhookEvent[d] # "PROCESSED"
        <3>1. PICK h \in Handlers : RequestStep(h) /\ d = DeliveryOf(h)
            BY <1>3, <2>2, WhoMoves, RequestFrame DEF Receive, tables
        <3>2. attempt[h] # Idle /\ p = attempt[h].pr /\ payload'[d] = payload[d]
            BY <1>3, <3>1, RequestFrame DEF DeliveryOf
        <3>3. MarkProcessed(h)
            BY <1>3, <2>2, <3>1 DEF RequestStep, HandlerStep, TimeOut, Throw, Crash,
               CheckDuplicate, UpsertEvent, LookupRepository, MarkIgnored, ExtractFeature,
               FindPullRequest, CreatePullRequest, RecordClosed, RecordReopened,
               RecordSynchronize, NotifyAssignee, MarkFailed, Reply, SetEvent, tables, TypeOK
        <3>4. Merging(h, {"notify", "mark"})
            BY <1>3, <3>1, <3>2, <3>3 DEF MarkProcessed, At, Merging, ActionOf
        <3>5. pullRequest' = pullRequest /\ activity' = activity
            BY <3>3 DEF MarkProcessed
        <3>6. AutoLinked(p) /\ MergesLogged(p)' = MergesLogged(p)
            BY <1>3, <3>5 DEF AutoLinked, MergesLogged
        <3>7. QED
            BY <3>2, <3>4, <3>6 DEF MergeInv
    <2>3. QED
        BY <2>1, <2>2
<1>4. MergeLogged'
    <2>1. \A d \in Deliveries : d[1] \in PRs
        BY DEF Deliveries
    <2>2. QED
        BY <1>3, <2>1 DEF MergeLogged, AutoLinked, MergesLogged
<1>5. \A h \in Handlers : attempt'[h] # Idle => attempt'[h].pr \in PRs
    BY NextTypeOK DEF TypeOK, Attempt
<1>6. QED
    BY <1>1, <1>2, <1>4, <1>5 DEF MergeInv, Merging, AutoLinked, MergesLogged

LEMMA MergeInvInit == Init => MergeInv
BY DEF Init, NoRow, MergeInv, LiveLinks, Merging, MergeLogged

\* A merge that is PROCESSED is in the log of the feature the branch linked: the mark
\* comes after the transaction, on the link read before it, and no edit in between
\* moves that link without a member taking it over.
THEOREM MergeIsLogged == Spec => []MergeLogged
<1> DEFINE Inv == TypeOK /\ NotAhead /\ RecordedInv /\ MergeInv
<1>1. Init => Inv
    BY InitTypeOK, ControlInit, MergeInvInit
<1>2. Inv /\ [Next]_vars => Inv'
    BY NextTypeOK, NotAheadStep, RecordedInvStep, MergeInvStep
<1>3. Inv => MergeLogged
    BY DEF MergeInv
<1> HIDE DEF Inv
<1>4. QED
    BY <1>1, <1>2, <1>3, PTL DEF Spec
=============================================================================
