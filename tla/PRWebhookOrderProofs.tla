------------------------ MODULE PRWebhookOrderProofs ------------------------
(***************************************************************************)
(* What PRWebhook guarantees when the events of a pull request come one     *)
(* after another and GitHub waits for each answer, for every set of pull    *)
(* requests, features, members and request slots, and for every number of   *)
(* events, crashes, failures and edits.                                     *)
(***************************************************************************)
EXTENDS PRWebhookProofs

InOrder == Ordered /\ MaxTimeouts = 0

(***************************************************************************)
(* The queue: one attempt at a time for each pull request.                  *)
(***************************************************************************)

Outstanding(d) == d \in outbox \/ InProgress(d)
Earlier(e, d) == e[1] = d[1] /\ e[2] < d[2]

\* One slot works on a delivery, which is then not to be sent again.
OneAttempt ==
    /\ \A h \in Handlers : attempt[h] # Idle =>
          attempt[h].awaited /\ DeliveryOf(h) \notin outbox
    /\ \A h, k \in Handlers :
          attempt[h] # Idle /\ attempt[k] # Idle /\ DeliveryOf(h) = DeliveryOf(k) => h = k

\* A delivery is not touched before the earlier ones are settled.
OneAfterAnother ==
    \A d, e \in Deliveries : Earlier(e, d) /\ Outstanding(e) =>
        ~InProgress(d) /\ webhookEvent[d] = "NONE"

\* What is no longer outstanding has been answered, and the record says with what.
AnsweredFor ==
    \A d \in Deliveries : Emitted(d) /\ ~Outstanding(d) =>
        webhookEvent[d] \in {"PROCESSED", "IGNORED"}

\* The record of a delivery while a request works on it.
EventFollowsStep ==
    \A h \in Handlers : attempt[h] # Idle =>
        LET event == webhookEvent[DeliveryOf(h)]
            step == attempt[h].step
        IN
        /\ step = "upsert" => event # "PROCESSED"
        /\ step \in {"lookup", "ignore", "fail"} \cup InTry => event = "PROCESSING"
        /\ step = "reply" => event \in {"PROCESSED", "IGNORED"}

QueueInv == OneAttempt /\ OneAfterAnother /\ AnsweredFor /\ EventFollowsStep

(***************************************************************************)
(* The history that the payloads tell.                                      *)
(***************************************************************************)

Neutral == {"synchronize", "edited"}

\* After the first n events the status of p is s.
Stands(p, n, s) ==
    \/ n = 0 /\ s = "ABSENT"
    \/ \E i \in 1..n : /\ payload[<<p, i>>] \notin Neutral
                       /\ s = After(payload[<<p, i>>], s)
                       /\ \A j \in (i + 1)..n : payload[<<p, j>>] \in Neutral

\* A pull request is opened first and once, and once merged it is only edited.
HistoryInv ==
    \A p \in PRs :
        LET n == github[p].sent IN
        /\ Stands(p, n, github[p].status)
        /\ n = 0 <=> github[p].status = "ABSENT"
        /\ \A i \in 1..n : payload[<<p, i>>] \in Actions
        /\ \A i \in 1..MaxEvents : payload[<<p, i>>] # "none" => i <= n
        /\ \A i \in 1..n : payload[<<p, i>>] = "opened" <=> i = 1
        /\ \A i \in 1..n : payload[<<p, i>>] = "merged" =>
              /\ github[p].status = "MERGED"
              /\ \A j \in (i + 1)..n : payload[<<p, j>>] = "edited"

(***************************************************************************)
(* The row of a pull request keeps up with its history.                     *)
(***************************************************************************)

\* The row shows what the first n events made of p.
Fits(p, n) ==
    /\ Stands(p, n, pullRequest[p].status)
    /\ \A i \in 1..n :
          payload[<<p, i>>] \in {"opened", "synchronize"} => pullRequest[p].content >= i

\* The first n deliveries of p are PROCESSED for good, the next one is outstanding.
Frontier(p, n) ==
    /\ n \in 0..github[p].sent
    /\ \A i \in 1..n : ~Outstanding(<<p, i>>) /\ webhookEvent[<<p, i>>] = "PROCESSED"
    /\ n < github[p].sent => Outstanding(<<p, n + 1>>)

\* The write that delivery d calls for has been committed.
Applied(d) ==
    \/ webhookEvent[d] = "PROCESSED"
    \/ \E h \in Handlers : attempt[h] # Idle /\ DeliveryOf(h) = d
                           /\ attempt[h].step \in {"notify", "mark"}

RowInv ==
    \A p \in PRs, n \in 0..MaxEvents : Frontier(p, n) =>
        /\ Fits(p, n) \/ (n < github[p].sent /\ Fits(p, n + 1))
        /\ n < github[p].sent /\ Applied(<<p, n + 1>>) => Fits(p, n + 1)

(***************************************************************************)
(* The feature of a pull request that no other one refers to.               *)
(***************************************************************************)

OwnFeature ==
    \A p, q \in PRs : BranchRef[p].kind # "none" /\ BranchRef[q].kind # "none"
        /\ BranchRef[p].feature = BranchRef[q].feature => p = q

\* A branch leads to its own feature or nowhere.
FromBranch(p, f) == f = None \/ (BranchRef[p].kind # "none" /\ f = BranchRef[p].feature)

Untouched ==
    /\ \A f \in Features : Live(f)
    /\ \A p \in PRs : FromBranch(p, pullRequest[p].feature)
    /\ \A p \in PRs : Exists(p) \/ pullRequest[p].feature = None
    /\ \A h \in Handlers : attempt[h] # Idle =>
          /\ FromBranch(attempt[h].pr, attempt[h].feature)
          /\ attempt[h].step = "write" /\ ActionOf(h) \notin {"opened", "edited"}
                => attempt[h].feature = pullRequest[attempt[h].pr].feature

MergedFeature ==
    \A p \in PRs : LET f == pullRequest[p].feature IN
        f # None => feature[f].status =
            IF pullRequest[p].status = "MERGED" THEN "IN_REVIEW" ELSE "IN_PROGRESS"

\* A row says merged once an attempt at the merge has reached the handlers.
MergedSeen ==
    \A p \in PRs : pullRequest[p].status = "MERGED" =>
        \E i \in 1..MaxEvents : payload[<<p, i>>] = "merged" /\ webhookEvent[<<p, i>>] # "NONE"

FollowInv == MergedSeen /\ (edits = 0 => Untouched /\ MergedFeature)

(***************************************************************************)
(* What a step of a request makes of its delivery.                          *)
(***************************************************************************)

\* Answered with success, sent back to GitHub, or still at work.
Finishes(h) ==
    /\ attempt'[h] = Idle /\ outbox' = outbox /\ webhookEvent' = webhookEvent
    /\ \/ attempt[h].step = "check" /\ webhookEvent[DeliveryOf(h)] = "PROCESSED"
       \/ attempt[h].step = "reply"
Returns(h) == attempt'[h] = Idle /\ outbox' = outbox \cup {DeliveryOf(h)}
GoesOn(h) ==
    LET from == attempt[h].step
        to == attempt'[h].step
        old == webhookEvent[DeliveryOf(h)]
        new == webhookEvent'[DeliveryOf(h)]
    IN
    /\ attempt'[h] # Idle /\ attempt'[h].awaited = attempt[h].awaited /\ outbox' = outbox
    /\ \/ from = "check" /\ to = "upsert" /\ old # "PROCESSED" /\ new = old
       \/ from = "upsert" /\ to = "lookup" /\ new = "PROCESSING"
       \/ from = "lookup" /\ to \in {"extract", "ignore"} /\ new = old
       \/ from = "ignore" /\ to = "reply" /\ new = "IGNORED"
       \/ from \in InTry /\ to \in InTry \cup {"fail"} /\ new = old
       \/ from = "mark" /\ to = "reply" /\ new = "PROCESSED"

LEMMA RequestOutcome ==
    ASSUME TypeOK, InOrder, NEW h \in Handlers, RequestStep(h), attempt[h].awaited
    PROVE  Finishes(h) \/ Returns(h) \/ GoesOn(h)
<1>0. /\ attempt[h] # Idle /\ attempt[h] \in Attempt /\ DeliveryOf(h) \in Deliveries
      /\ attempt \in [Handlers -> Attempt \cup {Idle}]
      /\ webhookEvent \in [Deliveries -> EventStatus]
    BY RequestFrame, AttemptType DEF TypeOK
<1>1. ASSUME NEW s, Goto(h, s)
      PROVE  /\ attempt'[h] # Idle /\ attempt'[h].step = s
             /\ attempt'[h].awaited = attempt[h].awaited
    <2>1. attempt'[h] = [attempt[h] EXCEPT !.step = s]
        BY <1>0, <1>1 DEF Goto
    <2>2. attempt[h] = [step |-> attempt[h].step, pr |-> attempt[h].pr, seq |-> attempt[h].seq,
                        awaited |-> attempt[h].awaited, feature |-> attempt[h].feature]
        BY <1>0 DEF Attempt
    <2>3. "pr" \in DOMAIN attempt'[h] /\ "pr" \notin DOMAIN Idle
        BY <2>1, <2>2 DEF Idle
    <2>4. QED
        BY <2>1, <2>2, <2>3
<1>2. ASSUME NEW s, SetEvent(h, s)
      PROVE  webhookEvent'[DeliveryOf(h)] = s
    BY <1>0, <1>2 DEF SetEvent
<1>3. Succeed(h) => attempt'[h] = Idle /\ outbox' = outbox
    BY <1>0 DEF Succeed
<1>4. Refuse(h) => Returns(h)
    BY <1>0 DEF Refuse, Returns
<1>5. ~TimeOut(h)
    BY DEF TimeOut, TypeOK, InOrder
<1> USE DEF At, tables
<1>6. CASE CheckDuplicate(h)
    BY <1>1, <1>3, <1>6 DEF CheckDuplicate, Finishes, GoesOn
<1>7. CASE UpsertEvent(h)
    BY <1>1, <1>2, <1>7 DEF UpsertEvent, GoesOn
<1>8. CASE LookupRepository(h)
    BY <1>1, <1>8 DEF LookupRepository, GoesOn
<1>9. CASE MarkIgnored(h)
    BY <1>1, <1>2, <1>9 DEF MarkIgnored, GoesOn
<1>10. CASE MarkProcessed(h)
    BY <1>1, <1>2, <1>10 DEF MarkProcessed, GoesOn
<1>11. CASE MarkFailed(h) \/ Crash(h)
    BY <1>4, <1>11 DEF MarkFailed, Crash
<1>12. CASE Reply(h)
    BY <1>3, <1>12 DEF Reply, Finishes
<1>13. ASSUME NEW f, NEW s \in InTry, attempt' = [attempt EXCEPT ![h] =
                                          [@ EXCEPT !.step = s, !.feature = f]]
       PROVE  /\ attempt'[h] # Idle /\ attempt'[h].step = s
              /\ attempt'[h].awaited = attempt[h].awaited
    <2>1. attempt'[h] = [attempt[h] EXCEPT !.step = s, !.feature = f]
        BY <1>0, <1>13
    <2>2. attempt[h] = [step |-> attempt[h].step, pr |-> attempt[h].pr, seq |-> attempt[h].seq,
                        awaited |-> attempt[h].awaited, feature |-> attempt[h].feature]
        BY <1>0 DEF Attempt
    <2>3. "pr" \in DOMAIN attempt'[h] /\ "pr" \notin DOMAIN Idle
        BY <2>1, <2>2 DEF Idle
    <2>4. QED
        BY <2>1, <2>2, <2>3
<1>14. CASE ExtractFeature(h)
    <2>1. /\ attempt[h].step = "extract" /\ outbox' = outbox /\ webhookEvent' = webhookEvent
          /\ attempt' = [attempt EXCEPT ![h] =
                [@ EXCEPT !.step = IF ActionOf(h) = "edited" THEN "mark" ELSE "find",
                          !.feature = ResolvedFeature(attempt[h].pr)]]
        BY <1>14 DEF ExtractFeature
    <2>2. (IF ActionOf(h) = "edited" THEN "mark" ELSE "find") \in InTry
        BY DEF InTry
    <2>3. QED
        BY <1>13, <2>1, <2>2 DEF GoesOn, InTry
<1>15. CASE FindPullRequest(h)
    <2>1. /\ attempt[h].step = "find" /\ outbox' = outbox /\ webhookEvent' = webhookEvent
          /\ \/ \E s \in {"write", "mark", "fail"} : Goto(h, s)
             \/ attempt' = [attempt EXCEPT ![h] =
                   [@ EXCEPT !.step = "write", !.feature = pullRequest[attempt[h].pr].feature]]
        BY <1>15 DEF FindPullRequest
    <2>2. attempt'[h] # Idle /\ attempt'[h].step \in {"write", "mark", "fail"}
          /\ attempt'[h].awaited = attempt[h].awaited
        BY <1>1, <1>13, <2>1 DEF InTry
    <2>3. QED
        BY <2>1, <2>2 DEF GoesOn, InTry
<1>16. CASE \/ CreatePullRequest(h) \/ RecordClosed(h) \/ RecordReopened(h)
            \/ RecordSynchronize(h) \/ NotifyAssignee(h) \/ Throw(h)
    <2>1. /\ attempt[h].step \in InTry /\ outbox' = outbox /\ webhookEvent' = webhookEvent
          /\ \E s \in {"notify", "mark", "fail"} : Goto(h, s)
        BY <1>16 DEF CreatePullRequest, RecordClosed, RecordReopened, RecordSynchronize,
                     NotifyAssignee, Throw, GotoNotify, InTry
    <2>2. QED
        BY <1>1, <2>1 DEF GoesOn, InTry
<1>17. QED
    BY <1>5, <1>6, <1>7, <1>8, <1>9, <1>10, <1>11, <1>12, <1>14, <1>15, <1>16
    DEF RequestStep, HandlerStep

(***************************************************************************)
(* The queue is kept.                                                       *)
(***************************************************************************)

\* What the queue is made of, when nothing happens to it.
queue == <<outbox, attempt, webhookEvent>>

\* A step leaves the queue alone, or is GitHub's, or starts or continues an attempt.
LEMMA QueueCases ==
    ASSUME [Next]_vars
    PROVE  \/ UNCHANGED <<queue, github, payload>> /\ (MemberStep \/ UNCHANGED vars)
           \/ \E p \in PRs, a \in Actions : GitHubEvent(p, a)
           \/ \E h \in Handlers, d \in Deliveries : Receive(h, d)
           \/ \E h \in Handlers : RequestStep(h)
BY DEF Next, RequestStep, MemberStep, LinkPR, UnlinkPR, UpdateFeature, DeleteFeature,
       SetRepositoryLink, queue, externals, tables, vars

\* A step of a request concerns its own delivery only.
LEMMA OtherDeliveries ==
    ASSUME TypeOK, InOrder, NEW h \in Handlers, RequestStep(h), attempt[h].awaited,
           NEW d \in Deliveries, d # DeliveryOf(h)
    PROVE  /\ d \in outbox' <=> d \in outbox
           /\ InProgress(d)' <=> InProgress(d)
           /\ webhookEvent'[d] = webhookEvent[d]
<1>1. outbox' = outbox \/ outbox' = outbox \cup {DeliveryOf(h)}
    BY RequestOutcome DEF Finishes, Returns, GoesOn
<1>2. attempt'[h] # Idle => DeliveryOf(h)' = DeliveryOf(h)
    BY RequestFrame DEF DeliveryOf
<1>3. \A k \in Handlers : k # h => attempt'[k] = attempt[k]
    BY RequestFrame
<1>4. InProgress(d)' <=> InProgress(d)
    BY <1>2, <1>3 DEF InProgress, DeliveryOf
<1>5. QED
    BY <1>1, <1>4, RequestFrame

\* Its own delivery is no longer outstanding only when it has been answered.
LEMMA OwnDelivery ==
    ASSUME TypeOK, InOrder, OneAttempt, NEW h \in Handlers, RequestStep(h),
           NEW d \in Deliveries, d = DeliveryOf(h)
    PROVE  /\ attempt[h].awaited /\ InProgress(d)
           /\ Outstanding(d)' <=> ~Finishes(h)
           /\ InProgress(d)' <=> attempt'[h] # Idle
           /\ d \in outbox' <=> Returns(h)
<1>1. attempt[h] # Idle /\ attempt[h].awaited /\ d \notin outbox
    BY RequestFrame DEF OneAttempt
<1>2. InProgress(d)
    BY <1>1 DEF InProgress
<1>3. \A k \in Handlers : k # h => attempt'[k] = attempt[k]
    BY RequestFrame
<1>4. ASSUME NEW k \in Handlers, attempt'[k] # Idle, DeliveryOf(k)' = d PROVE k = h
    BY <1>1, <1>3, <1>4 DEF OneAttempt, DeliveryOf
<1>5. attempt'[h] # Idle => DeliveryOf(h)' = d
    BY RequestFrame DEF DeliveryOf
<1>6. InProgress(d)' <=> attempt'[h] # Idle
    BY <1>4, <1>5 DEF InProgress
<1>7. QED
    BY <1>1, <1>2, <1>6, RequestOutcome DEF Finishes, Returns, GoesOn, Outstanding

LEMMA GitHubQueue ==
    ASSUME TypeOK, NotAhead, QueueInv, NEW p \in PRs, NEW a \in Actions, GitHubEvent(p, a)
    PROVE  QueueInv'
<1>0. PICK n \in Nat : n = github[p].sent + 1
    BY WebhookAssumption DEF TypeOK
<1> DEFINE new == <<p, n>>
<1>1. /\ outbox' = outbox \cup {new} /\ attempt' = attempt /\ webhookEvent' = webhookEvent
      /\ new \in Deliveries
      /\ github' = [github EXCEPT ![p] = [status |-> After(a, @.status), sent |-> n]]
    BY <1>0, WebhookAssumption DEF GitHubEvent, tables, TypeOK, Deliveries
<1>2. ~Emitted(new)
    <2>1. github[p].sent \in Nat
        BY WebhookAssumption DEF TypeOK
    <2>2. QED
        BY <1>0, <2>1 DEF Emitted
<1>3. ~InProgress(new) /\ webhookEvent[new] = "NONE"
    BY <1>1, <1>2 DEF NotAhead, InProgress
<1>4. \A d \in Deliveries : /\ InProgress(d)' <=> InProgress(d)
                            /\ Outstanding(d)' <=> Outstanding(d) \/ d = new
    BY <1>1 DEF InProgress, Outstanding, DeliveryOf
<1>5. OneAttempt'
    BY <1>1, <1>3 DEF QueueInv, OneAttempt, InProgress, DeliveryOf
<1>6. OneAfterAnother'
    <2>1. ASSUME NEW d \in Deliveries, Earlier(new, d)
          PROVE  ~InProgress(d) /\ webhookEvent[d] = "NONE"
        <3>1. ~Emitted(d)
            BY <1>0, <2>1 DEF Emitted, Earlier, TypeOK, Deliveries
        <3>2. QED
            BY <3>1 DEF NotAhead, InProgress
    <2>2. QED
        BY <1>1, <1>4, <2>1 DEF QueueInv, OneAfterAnother, Earlier
<1>7. AnsweredFor'
    <2>1. ASSUME NEW d \in Deliveries, Emitted(d)', d # new PROVE Emitted(d)
        <3>1. CASE d[1] = p
            BY <1>0, <1>1, <2>1, <3>1 DEF Emitted, TypeOK, Deliveries
        <3>2. CASE d[1] # p
            BY <1>1, <2>1, <3>2 DEF Emitted, TypeOK, Deliveries
        <3>3. QED
            BY <3>1, <3>2
    <2>2. QED
        BY <1>1, <1>4, <2>1 DEF QueueInv, AnsweredFor
<1>8. EventFollowsStep'
    BY <1>1 DEF QueueInv, EventFollowsStep, DeliveryOf
<1>9. QED
    BY <1>5, <1>6, <1>7, <1>8 DEF QueueInv

LEMMA ReceiveQueue ==
    ASSUME TypeOK, NotAhead, InOrder, QueueInv, NEW h \in Handlers, NEW d \in Deliveries,
           Receive(h, d)
    PROVE  QueueInv'
<1>1. /\ attempt[h] = Idle /\ d \in outbox /\ outbox' = outbox \ {d}
      /\ webhookEvent' = webhookEvent /\ github' = github
      /\ \A k \in Handlers : k # h => attempt'[k] = attempt[k]
      /\ attempt'[h] = [step |-> "check", pr |-> d[1], seq |-> d[2],
                        awaited |-> TRUE, feature |-> None]
    BY DEF Receive, externals, tables, TypeOK
<1>2. DeliveryOf(h)' = d /\ attempt'[h] # Idle
    <2>1. "pr" \in DOMAIN attempt'[h] /\ "pr" \notin DOMAIN Idle
        BY <1>1 DEF Idle
    <2>2. QED
        BY <1>1, <2>1 DEF DeliveryOf, Deliveries
<1>3. ~InProgress(d)
    BY <1>1 DEF QueueInv, OneAttempt, InProgress
<1>4. \A e \in Deliveries : /\ InProgress(e)' <=> InProgress(e) \/ e = d
                            /\ Outstanding(e)' <=> Outstanding(e)
    BY <1>1, <1>2 DEF InProgress, Outstanding, DeliveryOf
<1>5. OneAttempt'
    BY <1>1, <1>2, <1>3 DEF QueueInv, OneAttempt, InProgress, DeliveryOf
<1>6. OneAfterAnother'
    <2>1. ASSUME NEW e \in Deliveries, Earlier(e, d) PROVE ~Outstanding(e)
        <3>1. e = <<d[1], e[2]>> /\ e[2] \in 1..(d[2] - 1)
            BY <2>1, WebhookAssumption DEF Earlier, Deliveries
        <3>2. QED
            BY <3>1 DEF Receive, InOrder, Outstanding
    <2>2. QED
        BY <1>1, <1>4, <2>1 DEF QueueInv, OneAfterAnother
<1>7. AnsweredFor'
    BY <1>1, <1>4 DEF QueueInv, AnsweredFor, Emitted
<1>8. EventFollowsStep'
    BY <1>1 DEF QueueInv, EventFollowsStep, DeliveryOf, InTry
<1>9. QED
    BY <1>5, <1>6, <1>7, <1>8 DEF QueueInv

LEMMA RequestQueue ==
    ASSUME TypeOK, NotAhead, InOrder, QueueInv, NEW h \in Handlers, RequestStep(h)
    PROVE  QueueInv'
<1>0. PICK d \in Deliveries : d = DeliveryOf(h)
    BY RequestFrame, AttemptType
<1>1. /\ attempt[h] # Idle /\ attempt[h].awaited /\ d \notin outbox /\ github' = github
      /\ \A k \in Handlers : k # h => attempt'[k] = attempt[k]
      /\ attempt'[h] # Idle => DeliveryOf(h)' = d
    BY <1>0, RequestFrame DEF QueueInv, OneAttempt, DeliveryOf
<1>2. Finishes(h) \/ Returns(h) \/ GoesOn(h)
    BY <1>1, RequestOutcome
<1>3. \A e \in Deliveries : e # d => /\ e \in outbox' <=> e \in outbox
                                     /\ InProgress(e)' <=> InProgress(e)
                                     /\ Outstanding(e)' <=> Outstanding(e)
                                     /\ webhookEvent'[e] = webhookEvent[e]
    BY <1>0, <1>1, OtherDeliveries DEF Outstanding
<1>4. /\ InProgress(d) /\ Outstanding(d)
      /\ Outstanding(d)' <=> ~Finishes(h)
      /\ InProgress(d)' <=> attempt'[h] # Idle
      /\ d \in outbox' <=> Returns(h)
    BY <1>0, OwnDelivery DEF QueueInv, Outstanding
<1>5. OneAttempt'
    <2>1. ASSUME NEW k \in Handlers, attempt'[k] # Idle
          PROVE  attempt[k] # Idle /\ DeliveryOf(k)' = DeliveryOf(k) /\ attempt'[k].awaited
        BY <1>0, <1>1, <1>2, <2>1 DEF Finishes, Returns, GoesOn, QueueInv, OneAttempt, DeliveryOf
    <2>2. ASSUME NEW k \in Handlers, attempt'[k] # Idle
          PROVE  DeliveryOf(k)' \notin outbox'
        <3>1. CASE k = h
            BY <1>1, <1>4, <2>2, <3>1 DEF Returns
        <3>2. CASE k # h
            <4>1. DeliveryOf(k) \in Deliveries /\ DeliveryOf(k) # d
                BY <1>0, <1>1, <2>1, <2>2, <3>2, AttemptType DEF QueueInv, OneAttempt
            <4>2. QED
                BY <1>3, <2>1, <2>2, <4>1 DEF QueueInv, OneAttempt
        <3>3. QED
            BY <3>1, <3>2
    <2>3. QED
        BY <2>1, <2>2 DEF QueueInv, OneAttempt
<1>6. OneAfterAnother'
    <2>1. ASSUME NEW e \in Deliveries, Earlier(e, d) PROVE ~Outstanding(e)
        BY <1>4, <2>1 DEF QueueInv, OneAfterAnother
    <2>2. ASSUME NEW e \in Deliveries, NEW c \in Deliveries, Earlier(e, c), Outstanding(e)'
          PROVE  ~InProgress(c)' /\ webhookEvent'[c] = "NONE"
        <3>1. Outstanding(e) /\ c # d
            BY <1>3, <1>4, <2>1, <2>2 DEF Earlier, Deliveries
        <3>2. QED
            BY <1>3, <2>2, <3>1 DEF QueueInv, OneAfterAnother
    <2>3. QED
        BY <2>2 DEF OneAfterAnother, Earlier
<1>7. AnsweredFor'
    <2>1. Finishes(h) => webhookEvent'[d] \in {"PROCESSED", "IGNORED"}
        BY <1>0, <1>1 DEF Finishes, QueueInv, EventFollowsStep
    <2>2. QED
        BY <1>1, <1>3, <1>4, <2>1 DEF QueueInv, AnsweredFor, Emitted
<1>8. EventFollowsStep'
    <2>1. ASSUME NEW k \in Handlers, attempt'[k] # Idle, k # h
          PROVE  /\ attempt'[k] = attempt[k] /\ DeliveryOf(k)' = DeliveryOf(k)
                 /\ webhookEvent'[DeliveryOf(k)] = webhookEvent[DeliveryOf(k)]
        BY <1>0, <1>1, <2>1, AttemptType, RequestFrame DEF QueueInv, OneAttempt, DeliveryOf
    <2>2. CASE attempt'[h] # Idle
        <3>1. GoesOn(h) /\ DeliveryOf(h)' = DeliveryOf(h)
            BY <1>0, <1>1, <1>2, <2>2 DEF Finishes, Returns
        <3>2. LET event == webhookEvent'[d]
                  step == attempt'[h].step
              IN
              /\ step = "upsert" => event # "PROCESSED"
              /\ step \in {"lookup", "ignore", "fail"} \cup InTry => event = "PROCESSING"
              /\ step = "reply" => event \in {"PROCESSED", "IGNORED"}
            BY <1>0, <1>1, <3>1 DEF GoesOn, QueueInv, EventFollowsStep, InTry
        <3>3. QED
            BY <1>0, <2>1, <3>1, <3>2 DEF QueueInv, EventFollowsStep
    <2>3. CASE attempt'[h] = Idle
        BY <2>1, <2>3 DEF QueueInv, EventFollowsStep
    <2>4. QED
        BY <2>2, <2>3
<1>9. QED
    BY <1>5, <1>6, <1>7, <1>8 DEF QueueInv

LEMMA QueueInvStep ==
    ASSUME TypeOK, NotAhead, InOrder, QueueInv, [Next]_vars
    PROVE  QueueInv'
<1>1. CASE UNCHANGED <<queue, github, payload>>
    BY <1>1 DEF queue, QueueInv, OneAttempt, OneAfterAnother, AnsweredFor, EventFollowsStep,
                Outstanding, InProgress, DeliveryOf, Emitted
<1>2. QED
    BY <1>1, QueueCases, GitHubQueue, ReceiveQueue, RequestQueue

LEMMA QueueInvInit == Init => QueueInv
BY DEF Init, QueueInv, OneAttempt, OneAfterAnother, AnsweredFor, EventFollowsStep,
       Outstanding, InProgress, Emitted, Deliveries

\* "A previously-processed delivery is skipped entirely": as long as GitHub waits for each
\* answer and sends one event after another, PROCESSED is final, whatever is sent again.
THEOREM ProcessedIsFinal == ASSUME InOrder PROVE Spec => ProcessedFinal
<1> DEFINE Inv == TypeOK /\ NotAhead /\ QueueInv
           Final == \A d \in Deliveries :
                       webhookEvent[d] = "PROCESSED" => webhookEvent'[d] = "PROCESSED"
<1>1. Init => Inv
    BY InitTypeOK, ControlInit, QueueInvInit
<1>2. Inv /\ [Next]_vars => Inv'
    BY NextTypeOK, NotAheadStep, QueueInvStep
<1>3. Inv /\ [Next]_vars => [Final]_vars
    <2> SUFFICES ASSUME Inv, [Next]_vars PROVE Final
        OBVIOUS
    <2>1. CASE UNCHANGED webhookEvent
        BY <2>1
    <2>2. ASSUME NEW h \in Handlers, RequestStep(h) PROVE Final
        <3>1. attempt[h] # Idle /\ attempt[h].awaited /\ DeliveryOf(h) \in Deliveries
            BY <2>2, RequestFrame, AttemptType DEF QueueInv, OneAttempt
        <3>2. \A d \in Deliveries : d # DeliveryOf(h) => webhookEvent'[d] = webhookEvent[d]
            BY <2>2, RequestFrame
        <3>3. \/ webhookEvent'[DeliveryOf(h)] = webhookEvent[DeliveryOf(h)]
              \/ webhookEvent'[DeliveryOf(h)] = "PROCESSED"
              \/ UpsertEvent(h) \/ MarkIgnored(h) \/ MarkFailed(h)
            BY <2>2, <3>1 DEF RequestStep, HandlerStep, TimeOut, Throw, Crash, CheckDuplicate,
               LookupRepository, ExtractFeature, FindPullRequest, CreatePullRequest,
               RecordClosed, RecordReopened, RecordSynchronize, NotifyAssignee, MarkProcessed,
               Reply, SetEvent, tables, TypeOK
        <3>4. UpsertEvent(h) \/ MarkIgnored(h) \/ MarkFailed(h)
                  => webhookEvent[DeliveryOf(h)] # "PROCESSED"
            BY <3>1 DEF UpsertEvent, MarkIgnored, MarkFailed, At, QueueInv, EventFollowsStep
        <3>5. QED
            BY <3>2, <3>3, <3>4
    <2>3. QED
        BY <2>1, <2>2, WhoMoves DEF Receive, tables
<1> HIDE DEF Inv
<1>4. QED
    BY <1>1, <1>2, <1>3, PTL DEF Spec, ProcessedFinal

(***************************************************************************)
(* The history is what GitHub made of the pull request.                     *)
(***************************************************************************)

LEMMA AfterFacts ==
    ASSUME NEW a \in Actions
    PROVE  /\ a \notin Neutral => \A s, t : After(a, s) = After(a, t)
           /\ a \in Neutral => \A s : After(a, s) = s
           /\ a = "merged" => \A s : After(a, s) = "MERGED"
           /\ a = "closed" => \A s : After(a, s) = "CLOSED"
           /\ a \in {"opened", "reopened"} => \A s : After(a, s) = "OPEN"
           /\ \A s \in Before(a) : /\ s = "ABSENT" <=> a = "opened"
                                   /\ s = "MERGED" => a = "edited"
                                   /\ After(a, s) # "ABSENT"
BY DEF Actions, Neutral, After, Before

LEMMA StandsUnique ==
    ASSUME NEW p, NEW n \in Nat, NEW s, NEW t, Stands(p, n, s), Stands(p, n, t),
           \A i \in 1..n : payload[<<p, i>>] \in Actions
    PROVE  s = t
<1>1. CASE n = 0
    BY <1>1 DEF Stands
<1>2. CASE n # 0
    <2>1. PICK i \in 1..n : /\ payload[<<p, i>>] \notin Neutral
                            /\ s = After(payload[<<p, i>>], s)
                            /\ \A j \in (i + 1)..n : payload[<<p, j>>] \in Neutral
        BY <1>2 DEF Stands
    <2>2. PICK k \in 1..n : /\ payload[<<p, k>>] \notin Neutral
                            /\ t = After(payload[<<p, k>>], t)
                            /\ \A j \in (k + 1)..n : payload[<<p, j>>] \in Neutral
        BY <1>2 DEF Stands
    <2>3. i = k
        BY <2>1, <2>2
    <2>4. QED
        BY <2>1, <2>2, <2>3, AfterFacts
<1>3. QED
    BY <1>1, <1>2

LEMMA StandsExtends ==
    ASSUME NEW p \in PRs, NEW n \in Nat, NEW s, Stands(p, n, s), NEW a \in Actions,
           a = payload[<<p, n + 1>>], n = 0 => a = "opened"
    PROVE  Stands(p, n + 1, After(a, s))
<1>1. CASE a \notin Neutral
    <2>1. After(a, s) = After(a, After(a, s))
        BY <1>1, AfterFacts
    <2>2. QED
        BY <1>1, <2>1 DEF Stands
<1>2. CASE a \in Neutral
    <2>1. n # 0 /\ After(a, s) = s
        BY <1>2, AfterFacts DEF Neutral
    <2>2. PICK i \in 1..n : /\ payload[<<p, i>>] \notin Neutral
                            /\ s = After(payload[<<p, i>>], s)
                            /\ \A j \in (i + 1)..n : payload[<<p, j>>] \in Neutral
        BY <2>1 DEF Stands
    <2>3. \A j \in (i + 1)..(n + 1) : payload[<<p, j>>] \in Neutral
        BY <1>2, <2>2
    <2>4. QED
        BY <2>1, <2>2, <2>3 DEF Stands
<1>3. QED
    BY <1>1, <1>2

LEMMA StandsSame ==
    ASSUME NEW p, NEW n \in Nat, NEW s,
           \A i \in 1..n : payload'[<<p, i>>] = payload[<<p, i>>]
    PROVE  Stands(p, n, s)' <=> Stands(p, n, s)
<1>1. ASSUME NEW i \in 1..n
      PROVE  (\A j \in (i + 1)..n : payload'[<<p, j>>] \in Neutral)
                <=> (\A j \in (i + 1)..n : payload[<<p, j>>] \in Neutral)
    OBVIOUS
<1>2. QED
    BY <1>1 DEF Stands

LEMMA HistoryInvStep ==
    ASSUME TypeOK, HistoryInv, [Next]_vars
    PROVE  HistoryInv'
<1>1. CASE UNCHANGED <<github, payload>>
    BY <1>1 DEF HistoryInv, Stands
<1>2. ASSUME NEW p \in PRs, NEW a \in Actions, GitHubEvent(p, a) PROVE HistoryInv'
    <2> PICK n \in Nat : n = github[p].sent
        BY WebhookAssumption DEF TypeOK
    <2>0. PICK s \in PRStatus : n = github[p].sent /\ s = github[p].status
        BY DEF TypeOK
    <2>1. /\ github'[p] = [status |-> After(a, s), sent |-> n + 1]
          /\ \A q \in PRs : q # p => github'[q] = github[q]
          /\ s \in Before(a)
        BY <1>2, <2>0 DEF GitHubEvent, TypeOK
    <2>2. /\ payload'[<<p, n + 1>>] = a
          /\ \A i \in 1..n : payload'[<<p, i>>] = payload[<<p, i>>]
          /\ \A q \in PRs, i \in 1..MaxEvents : q # p => payload'[<<q, i>>] = payload[<<q, i>>]
        <3>1. n + 1 \in 1..MaxEvents /\ 1..n \subseteq 1..MaxEvents
            BY <1>2, <2>0, WebhookAssumption DEF GitHubEvent
        <3>2. payload' = [payload EXCEPT ![<<p, n + 1>>] = a]
            BY <1>2, <2>0 DEF GitHubEvent
        <3>3. QED
            BY <2>0, <3>1, <3>2 DEF TypeOK, Deliveries
    <2>3. /\ Stands(p, n, s)
          /\ n = 0 <=> s = "ABSENT"
          /\ \A i \in 1..n : payload[<<p, i>>] \in Actions
          /\ \A i \in 1..n : payload[<<p, i>>] = "opened" <=> i = 1
          /\ \A i \in 1..n : payload[<<p, i>>] = "merged" =>
                s = "MERGED" /\ \A j \in (i + 1)..n : payload[<<p, j>>] = "edited"
        BY <2>0 DEF HistoryInv
    <2>4. Stands(p, n + 1, After(a, s))'
        <3>1. Stands(p, n, s)'
            BY <2>2, <2>3, StandsSame
        <3>2. n = 0 => a = "opened"
            BY <2>1, <2>3, AfterFacts
        <3>3. CASE a \notin Neutral
            <4>1. After(a, s) = After(a, After(a, s))
                BY <3>3, AfterFacts
            <4>2. QED
                BY <2>2, <3>3, <4>1 DEF Stands
        <3>4. CASE a \in Neutral
            <4>1. n # 0 /\ After(a, s) = s
                BY <3>2, <3>4, AfterFacts DEF Neutral
            <4>2. PICK i \in 1..n : /\ payload'[<<p, i>>] \notin Neutral
                                    /\ s = After(payload'[<<p, i>>], s)
                                    /\ \A j \in (i + 1)..n : payload'[<<p, j>>] \in Neutral
                BY <3>1, <4>1 DEF Stands
            <4>3. \A j \in (i + 1)..(n + 1) : payload'[<<p, j>>] \in Neutral
                BY <2>2, <3>4, <4>2
            <4>4. QED
                BY <4>1, <4>2, <4>3 DEF Stands
        <3>5. QED
            BY <3>3, <3>4
    <2>5. /\ s = "ABSENT" <=> a = "opened"
          /\ s = "MERGED" => a = "edited" /\ After(a, s) = "MERGED"
          /\ After(a, s) # "ABSENT"
          /\ a = "merged" => After(a, s) = "MERGED"
        BY <2>1, AfterFacts DEF Neutral
    <2>6. \A i \in 1..(n + 1) : payload'[<<p, i>>] \in Actions
        BY <2>2, <2>3
    <2>7. \A i \in 1..(n + 1) : payload'[<<p, i>>] = "opened" <=> i = 1
        BY <2>2, <2>3, <2>5
    <2>8. ASSUME NEW i \in 1..(n + 1), payload'[<<p, i>>] = "merged"
          PROVE  /\ After(a, s) = "MERGED"
                 /\ \A j \in (i + 1)..(n + 1) : payload'[<<p, j>>] = "edited"
        <3>1. CASE i = n + 1
            BY <2>2, <2>5, <2>8, <3>1
        <3>2. CASE i \in 1..n
            <4>1. s = "MERGED" /\ \A j \in (i + 1)..n : payload[<<p, j>>] = "edited"
                BY <2>2, <2>3, <2>8, <3>2
            <4>2. a = "edited" /\ After(a, s) = "MERGED"
                BY <2>5, <4>1
            <4>3. ASSUME NEW j \in (i + 1)..(n + 1) PROVE payload'[<<p, j>>] = "edited"
                <5>1. j = n + 1 \/ j \in 1..n
                    OBVIOUS
                <5>2. QED
                    BY <2>2, <4>1, <4>2, <5>1
            <4>4. QED
                BY <4>2, <4>3
        <3>3. QED
            BY <3>1, <3>2
    <2>9. ASSUME NEW q \in PRs, q # p
          PROVE  \A i \in 1..github[q].sent : payload'[<<q, i>>] = payload[<<q, i>>]
        BY <2>2, <2>9, WebhookAssumption DEF TypeOK
    <2> DEFINE Told(q) ==
          LET m == github[q].sent IN
          /\ Stands(q, m, github[q].status)
          /\ m = 0 <=> github[q].status = "ABSENT"
          /\ \A i \in 1..m : payload[<<q, i>>] \in Actions
          /\ \A i \in 1..MaxEvents : payload[<<q, i>>] # "none" => i <= m
          /\ \A i \in 1..m : payload[<<q, i>>] = "opened" <=> i = 1
          /\ \A i \in 1..m : payload[<<q, i>>] = "merged" =>
                /\ github[q].status = "MERGED"
                /\ \A j \in (i + 1)..m : payload[<<q, j>>] = "edited"
    <2>10. ASSUME NEW q \in PRs, q # p PROVE Told(q)'
        <3>1. PICK m \in Nat, t \in PRStatus :
                  m = github[q].sent /\ t = github[q].status /\ github'[q] = github[q]
            <4>1. github[q].sent \in Nat /\ github[q].status \in PRStatus
                BY WebhookAssumption DEF TypeOK
            <4>2. QED
                BY <2>1, <2>10, <4>1
        <3>2. Stands(q, m, t)
            BY <3>1 DEF HistoryInv
        <3>3. Stands(q, m, t)'
            BY <2>9, <2>10, <3>1, <3>2, StandsSame
        <3>4. \A i \in 1..m : payload'[<<q, i>>] = payload[<<q, i>>]
            BY <2>9, <2>10, <3>1
        <3>5. /\ m = 0 <=> t = "ABSENT"
              /\ \A i \in 1..m : payload[<<q, i>>] \in Actions
              /\ \A i \in 1..MaxEvents : payload[<<q, i>>] # "none" => i <= m
              /\ \A i \in 1..m : payload[<<q, i>>] = "opened" <=> i = 1
              /\ \A i \in 1..m : payload[<<q, i>>] = "merged" =>
                    /\ t = "MERGED"
                    /\ \A j \in (i + 1)..m : payload[<<q, j>>] = "edited"
            BY <3>1 DEF HistoryInv
        <3>6. QED
            BY <2>2, <2>10, <3>1, <3>3, <3>4, <3>5
    <2>11. Told(p)'
        <3>1. \A i \in 1..MaxEvents : payload'[<<p, i>>] # "none" => i <= n + 1
            BY <1>2, <2>0 DEF GitHubEvent, TypeOK, Deliveries, HistoryInv
        <3>2. QED
            BY <2>0, <2>1, <2>4, <2>5, <2>6, <2>7, <2>8, <3>1
    <2>12. QED
        BY <2>10, <2>11 DEF HistoryInv
<1>3. QED
    BY <1>1, <1>2, QueueCases, RequestFrame DEF Receive, externals

LEMMA HistoryInvInit == Init => HistoryInv
BY DEF Init, HistoryInv, Stands, Deliveries

(***************************************************************************)
(* The row of a pull request keeps up with its history.                     *)
(***************************************************************************)

\* What a step of a request makes of the row of its pull request.
Writes(h) ==
    LET old == pullRequest[attempt[h].pr]
        new == pullRequest'[attempt[h].pr]
    IN
    /\ attempt[h].step = "write"
    /\ \/ /\ ActionOf(h) = "opened" /\ old.status = "ABSENT"
          /\ new.status = "OPEN" /\ new.content = attempt[h].seq
       \/ /\ ActionOf(h) \in {"closed", "merged", "reopened"}
          /\ new.status = After(ActionOf(h), old.status) /\ new.content = old.content
       \/ /\ ActionOf(h) = "synchronize"
          /\ new.status = old.status /\ new.content = attempt[h].seq

LEMMA RowOutcome ==
    ASSUME TypeOK, NEW h \in Handlers, RequestStep(h)
    PROVE  /\ \A p \in PRs : p # attempt[h].pr => pullRequest'[p] = pullRequest[p]
           /\ pullRequest'[attempt[h].pr] = pullRequest[attempt[h].pr] \/ Writes(h)
<1> DEFINE p == attempt[h].pr
           Elsewhere == \A q \in PRs : q # p => pullRequest'[q] = pullRequest[q]
<1>0. p \in PRs /\ pullRequest \in [PRs -> Row]
    BY RequestFrame, AttemptType DEF TypeOK
<1>1. CASE CreatePullRequest(h)
    <2>1. CASE Insertable(p, attempt[h].feature)
        BY <1>0, <1>1, <2>1 DEF CreatePullRequest, At, Writes, Insertable, Exists
    <2>2. CASE ~Insertable(p, attempt[h].feature)
        BY <1>1, <2>2 DEF CreatePullRequest
    <2>3. QED
        BY <2>1, <2>2
<1>2. CASE RecordClosed(h)
    <2>1. /\ attempt[h].step = "write" /\ ActionOf(h) \in {"closed", "merged"}
          /\ pullRequest' = [pullRequest EXCEPT ![p].status = After(ActionOf(h), @)]
        BY <1>2 DEF RecordClosed, At, After
    <2>2. QED
        BY <1>0, <2>1 DEF Writes, Row
<1>3. CASE RecordReopened(h)
    <2>1. /\ attempt[h].step = "write" /\ ActionOf(h) = "reopened"
          /\ pullRequest' = [pullRequest EXCEPT ![p].status = After(ActionOf(h), @)]
        BY <1>3 DEF RecordReopened, At, After
    <2>2. QED
        BY <1>0, <2>1 DEF Writes, Row
<1>4. CASE RecordSynchronize(h)
    BY <1>0, <1>4 DEF RecordSynchronize, At, Writes, Row
<1>5. CASE UNCHANGED pullRequest
    BY <1>5
<1>6. \/ UNCHANGED pullRequest
      \/ CreatePullRequest(h) \/ RecordClosed(h) \/ RecordReopened(h) \/ RecordSynchronize(h)
    BY DEF RequestStep, HandlerStep, TimeOut, Throw, Crash, CheckDuplicate, UpsertEvent,
           LookupRepository, MarkIgnored, ExtractFeature, FindPullRequest, NotifyAssignee,
           MarkProcessed, MarkFailed, Reply, tables
<1>7. QED
    BY <1>1, <1>2, <1>3, <1>4, <1>5, <1>6

\* How the write of a delivery comes to be applied.
LEMMA AppliedOutcome ==
    ASSUME TypeOK, InOrder, QueueInv, NEW h \in Handlers, RequestStep(h),
           NEW d \in Deliveries, d = DeliveryOf(h), Applied(d)', ~Applied(d)
    PROVE  \/ Writes(h)
           \/ ActionOf(h) = "edited"
           \/ ActionOf(h) = "opened" /\ Exists(attempt[h].pr)
<1>0. /\ attempt[h] # Idle /\ attempt[h].awaited /\ attempt[h] \in Attempt
      /\ attempt \in [Handlers -> Attempt \cup {Idle}]
    BY RequestFrame, AttemptType DEF QueueInv, OneAttempt, TypeOK
<1>1. /\ webhookEvent[d] # "PROCESSED"
      /\ attempt[h].step \notin {"notify", "mark"}
    BY <1>0 DEF Applied
<1>2. Finishes(h) \/ Returns(h) \/ GoesOn(h)
    BY <1>0, RequestOutcome
<1>3. webhookEvent'[d] # "PROCESSED"
    <2>1. CASE Returns(h)
        <3>1. MarkFailed(h) \/ Crash(h) \/ webhookEvent' = webhookEvent
            BY <2>1 DEF RequestStep, HandlerStep, TimeOut, Throw, CheckDuplicate, UpsertEvent,
               LookupRepository, MarkIgnored, ExtractFeature, FindPullRequest,
               CreatePullRequest, RecordClosed, RecordReopened, RecordSynchronize,
               NotifyAssignee, MarkProcessed, Reply, tables, Returns, Goto, Idle, TypeOK
        <3>2. QED
            BY <1>1, <3>1 DEF MarkFailed, Crash, SetEvent, tables, TypeOK
    <2>2. CASE Finishes(h) \/ GoesOn(h)
        BY <1>1, <2>2 DEF Finishes, GoesOn
    <2>3. QED
        BY <1>2, <2>1, <2>2
<1>4. PICK k \in Handlers : /\ attempt'[k] # Idle /\ DeliveryOf(k)' = d
                            /\ attempt'[k].step \in {"notify", "mark"}
    BY <1>3 DEF Applied
<1>5. k = h
    BY <1>0, <1>4, RequestFrame DEF QueueInv, OneAttempt, DeliveryOf
<1>6. ASSUME NEW s, Goto(h, s) PROVE attempt'[h].step = s
    BY <1>0, <1>6 DEF Goto, Attempt
<1>7. CASE ExtractFeature(h)
    <2>1. attempt'[h].step = IF ActionOf(h) = "edited" THEN "mark" ELSE "find"
        BY <1>0, <1>7 DEF ExtractFeature, Attempt
    <2>2. QED
        BY <1>4, <1>5, <2>1
<1>8. CASE FindPullRequest(h)
    <2>1. CASE ActionOf(h) # "opened" /\ Exists(attempt[h].pr)
        <3>1. attempt' = [attempt EXCEPT ![h] =
                 [@ EXCEPT !.step = "write", !.feature = pullRequest[attempt[h].pr].feature]]
            BY <1>8, <2>1 DEF FindPullRequest
        <3>2. attempt'[h].step = "write"
            BY <1>0, <3>1 DEF Attempt
        <3>3. QED
            BY <1>4, <1>5, <3>2
    <2>2. CASE ~(ActionOf(h) # "opened" /\ Exists(attempt[h].pr))
        BY <1>4, <1>5, <1>6, <1>8, <2>2 DEF FindPullRequest
    <2>3. QED
        BY <2>1, <2>2
<1>9. CASE CreatePullRequest(h)
    <2>1. CASE Insertable(attempt[h].pr, attempt[h].feature)
        BY <1>0, <1>9, <2>1 DEF CreatePullRequest, At, Writes, Insertable, Exists, TypeOK,
                                Attempt
    <2>2. CASE ~Insertable(attempt[h].pr, attempt[h].feature)
        BY <1>4, <1>5, <1>6, <1>9, <2>2 DEF CreatePullRequest
    <2>3. QED
        BY <2>1, <2>2
<1>10. CASE RecordClosed(h) \/ RecordReopened(h)
    <2>1. /\ attempt[h].step = "write" /\ ActionOf(h) \in {"closed", "merged", "reopened"}
          /\ pullRequest' = [pullRequest EXCEPT ![attempt[h].pr].status = After(ActionOf(h), @)]
        BY <1>10 DEF RecordClosed, RecordReopened, At, After
    <2>2. QED
        BY <1>0, <2>1 DEF Writes, Row, TypeOK, Attempt
<1>11. CASE RecordSynchronize(h)
    BY <1>0, <1>11 DEF RecordSynchronize, At, Writes, Row, TypeOK, Attempt
<1>12. CASE NotifyAssignee(h) \/ MarkProcessed(h)
    BY <1>1, <1>12 DEF NotifyAssignee, MarkProcessed, At
<1>13. CASE Throw(h)
    BY <1>1, <1>4, <1>5, <1>6, <1>13 DEF Throw
<1>14. CASE GoesOn(h) /\ attempt[h].step \notin InTry
    BY <1>4, <1>5, <1>14 DEF GoesOn, InTry
<1>15. \/ ExtractFeature(h) \/ FindPullRequest(h) \/ CreatePullRequest(h) \/ RecordClosed(h)
       \/ RecordReopened(h) \/ RecordSynchronize(h) \/ NotifyAssignee(h) \/ MarkProcessed(h)
       \/ Throw(h) \/ attempt[h].step \notin InTry \/ attempt'[h] = Idle
    BY <1>0 DEF RequestStep, HandlerStep, TimeOut, InOrder, TypeOK, CheckDuplicate,
       UpsertEvent, LookupRepository, MarkIgnored, MarkFailed, Reply, Crash, At, InTry, Refuse
<1>16. QED
    BY <1>2, <1>4, <1>5, <1>7, <1>8, <1>9, <1>10, <1>11, <1>12, <1>13, <1>14, <1>15
    DEF Finishes, Returns

\* A row that is there shows more than the empty history.
LEMMA FitsExists ==
    ASSUME NEW p \in PRs, Fits(p, 0)
    PROVE  ~Exists(p)
BY DEF Fits, Stands, Exists

\* A neutral event changes nothing but the content.
LEMMA FitsNeutral ==
    ASSUME HistoryInv, NEW p \in PRs, NEW n \in Nat, n < github[p].sent, github[p].sent \in Nat,
           payload[<<p, n + 1>>] \in Neutral, Stands(p, n, pullRequest[p].status)
    PROVE  n # 0 /\ Stands(p, n + 1, pullRequest[p].status)
<1> PICK a \in Actions : a = payload[<<p, n + 1>>]
    BY DEF HistoryInv
<1>1. n = 0 => a = "opened"
    BY DEF HistoryInv
<1>2. Stands(p, n + 1, After(a, pullRequest[p].status))
    BY <1>1, StandsExtends
<1>3. a \in Neutral /\ a # "opened" /\ After(a, pullRequest[p].status) = pullRequest[p].status
    BY AfterFacts DEF Neutral
<1>4. QED
    BY <1>1, <1>2, <1>3

\* After a step of the request that works on the first delivery that is not settled, the row
\* shows the history up to that delivery or just before, and up to it once it is applied.
LEMMA FitsStep ==
    ASSUME TypeOK, InOrder, QueueInv, HistoryInv, RowInv,
           NEW h \in Handlers, RequestStep(h), NEW p \in PRs, NEW n \in Nat,
           p = attempt[h].pr, n + 1 = attempt[h].seq, Frontier(p, n), n < github[p].sent
    PROVE  /\ Fits(p, n)' \/ Fits(p, n + 1)'
           /\ Applied(<<p, n + 1>>)' => Fits(p, n + 1)'
<1>0. /\ attempt[h] # Idle /\ attempt[h] \in Attempt /\ payload' = payload
      /\ <<p, n + 1>> = DeliveryOf(h) /\ <<p, n + 1>> \in Deliveries
      /\ github[p].sent \in Nat /\ n \in 0..MaxEvents
    <2>1. github[p].sent \in 0..MaxEvents
        BY DEF TypeOK
    <2>2. QED
        BY SMTT(30), <2>1, RequestFrame, AttemptType, WebhookAssumption DEF DeliveryOf
<1> PICK a \in Actions : a = ActionOf(h)
    BY <1>0 DEF HistoryInv, ActionOf
<1>1. a = payload[<<p, n + 1>>] /\ (a = "opened" <=> n = 0)
    BY <1>0 DEF HistoryInv, ActionOf
<1>2. /\ Fits(p, n) \/ Fits(p, n + 1)
      /\ Applied(<<p, n + 1>>) => Fits(p, n + 1)
    BY <1>0 DEF RowInv
<1>3. PICK s \in PRStatus, t \in PRStatus, c \in Nat, e \in Nat :
         /\ s = pullRequest[p].status /\ t = pullRequest'[p].status
         /\ c = pullRequest[p].content /\ e = pullRequest'[p].content
    <2>1. pullRequest[p] \in Row /\ pullRequest'[p] \in Row
        <3>1. pullRequest'[p] = pullRequest[p] \/ Writes(h)
            BY RowOutcome
        <3>2. TypeOK'
            BY NextTypeOK DEF Next, RequestStep
        <3>3. QED
            BY <3>2 DEF TypeOK
    <2>2. QED
        BY <2>1, WebhookAssumption DEF Row
\* What is to be shown of the row after the step.
<1>4. ASSUME NEW m \in Nat, Stands(p, m, t),
             \A i \in 1..m : payload[<<p, i>>] \in {"opened", "synchronize"} => e >= i
      PROVE  Fits(p, m)'
    <2>1. Stands(p, m, t)'
        BY <1>0, <1>4, StandsSame
    <2>2. QED
        BY <1>0, <1>3, <1>4, <2>1 DEF Fits
<1>5. ASSUME t = s, e = c PROVE \A m \in Nat : Fits(p, m) => Fits(p, m)'
    BY <1>3, <1>4, <1>5 DEF Fits
<1>6. \A i \in 1..n : payload[<<p, i>>] \in {"opened", "synchronize"} => c >= i
    BY <1>2, <1>3 DEF Fits
<1>7. CASE Writes(h) /\ a \notin Neutral
    <2>1. Stands(p, n + 1, t)
        <3>1. t = After(a, t)
            BY <1>3, <1>7, AfterFacts DEF Writes, Neutral
        <3>2. \A j \in (n + 1 + 1)..(n + 1) : payload[<<p, j>>] \in Neutral
            OBVIOUS
        <3>3. n + 1 \in 1..(n + 1)
            OBVIOUS
        <3>4. QED
            BY <1>1, <1>7, <3>1, <3>2, <3>3 DEF Stands
    <2>2. \A i \in 1..(n + 1) : payload[<<p, i>>] \in {"opened", "synchronize"} => e >= i
        BY <1>1, <1>3, <1>6, <1>7 DEF Writes, Neutral
    <2>3. QED
        BY <1>4, <2>1, <2>2
<1>8. CASE Writes(h) /\ a \in Neutral
    <2>1. a = "synchronize" /\ t = s /\ e = n + 1
        BY <1>3, <1>8 DEF Writes, Neutral
    <2>2. Stands(p, n + 1, s)
        BY <1>0, <1>1, <1>2, <1>3, <1>8, FitsNeutral DEF Fits
    <2>3. QED
        BY <1>4, <2>1, <2>2
<1>9. CASE ~Writes(h)
    <2>1. t = s /\ e = c
        BY <1>3, <1>9, RowOutcome
    <2>2. Fits(p, n)' \/ Fits(p, n + 1)'
        BY <1>2, <1>5, <2>1
    <2>3. ASSUME Applied(<<p, n + 1>>)' PROVE Fits(p, n + 1)
        <3>1. CASE Applied(<<p, n + 1>>)
            BY <1>2, <3>1
        <3>2. CASE a = "edited"
            <4>1. Fits(p, n) => Stands(p, n + 1, s)
                BY <1>0, <1>1, <1>3, <3>2, FitsNeutral DEF Fits, Neutral
            <4>2. ASSUME NEW i \in 1..(n + 1), payload[<<p, i>>] \in {"opened", "synchronize"}
                  PROVE  c >= i
                <5>1. i # n + 1
                    BY <1>1, <3>2, <4>2
                <5>2. i \in 1..n
                    BY <5>1
                <5>3. QED
                    BY <1>6, <4>2, <5>2
            <4>3. QED
                BY <1>2, <1>3, <4>1, <4>2 DEF Fits
        <3>3. CASE a = "opened" /\ Exists(p)
            BY <1>1, <1>2, <3>3, FitsExists
        <3>4. QED
            BY <1>0, <1>9, <2>3, <3>1, <3>2, <3>3, AppliedOutcome
    <2>4. QED
        BY <1>5, <2>1, <2>2, <2>3
<1>10. QED
    BY <1>7, <1>8, <1>9

\* What RowInv says of one pull request and one number of events.
RowFits(p, n) ==
    /\ Fits(p, n) \/ (n < github[p].sent /\ Fits(p, n + 1))
    /\ n < github[p].sent /\ Applied(<<p, n + 1>>) => Fits(p, n + 1)

\* Nothing of p happens to the queue, the row or the history up to n + 1.
LEMMA RowFitsSame ==
    ASSUME TypeOK, RowInv, NEW p \in PRs, NEW n \in 0..MaxEvents, github'[p] = github[p],
           \A i \in 1..MaxEvents :
              /\ payload'[<<p, i>>] = payload[<<p, i>>]
              /\ webhookEvent'[<<p, i>>] = webhookEvent[<<p, i>>]
              /\ Outstanding(<<p, i>>)' <=> Outstanding(<<p, i>>)
              /\ Applied(<<p, i>>)' <=> Applied(<<p, i>>),
           pullRequest'[p].status = pullRequest[p].status,
           pullRequest'[p].content = pullRequest[p].content,
           Frontier(p, n)'
    PROVE  RowFits(p, n)'
<1>0. n \in Nat /\ github[p].sent \in 0..MaxEvents
    BY WebhookAssumption DEF TypeOK
<1>1. Frontier(p, n)
    <2>1. n \in 0..github[p].sent
        BY DEF Frontier
    <2>2. \A i \in 1..n : ~Outstanding(<<p, i>>) /\ webhookEvent[<<p, i>>] = "PROCESSED"
        <3>1. \A i \in 1..n : i \in 1..MaxEvents
            BY <1>0, WebhookAssumption
        <3>2. QED
            BY <3>1 DEF Frontier
    <2>3. n < github[p].sent => Outstanding(<<p, n + 1>>)
        <3>1. n < github[p].sent => n + 1 \in 1..MaxEvents
            BY <1>0, WebhookAssumption
        <3>2. QED
            BY <3>1 DEF Frontier
    <2>4. QED
        BY <2>1, <2>2, <2>3 DEF Frontier
<1>2. RowFits(p, n)
    BY <1>1 DEF RowInv, RowFits
<1>3. PICK s : s = pullRequest[p].status /\ s = pullRequest'[p].status
    OBVIOUS
<1>4. ASSUME NEW m \in 0..github[p].sent PROVE Fits(p, m)' <=> Fits(p, m)
    <2>1. m \in Nat /\ \A i \in 1..m : payload'[<<p, i>>] = payload[<<p, i>>]
        BY <1>0, WebhookAssumption
    <2>2. Stands(p, m, s)' <=> Stands(p, m, s)
        BY <2>1, StandsSame
    <2>3. QED
        BY <1>3, <2>1, <2>2 DEF Fits
<1>5. n \in 0..github[p].sent /\ (n < github[p].sent => n + 1 \in 0..github[p].sent)
    BY <1>0, <1>1 DEF Frontier
<1>6. n < github[p].sent => n + 1 \in 1..MaxEvents
    BY <1>0, WebhookAssumption
<1>7. QED
    BY <1>2, <1>4, <1>5, <1>6 DEF RowFits

\* Whether a write is applied depends on the record and the slots at work on the delivery.
LEMMA AppliedSame ==
    ASSUME NEW d, webhookEvent'[d] = webhookEvent[d],
           \A h \in Handlers : attempt'[h] = attempt[h]
              \/ (/\ attempt[h] = Idle \/ DeliveryOf(h) # d
                  /\ attempt'[h] = Idle \/ DeliveryOf(h)' # d)
              \/ (/\ attempt[h] = Idle \/ attempt[h].step = "check"
                  /\ attempt'[h].step = "check")
    PROVE  Applied(d)' <=> Applied(d)
BY DEF Applied, DeliveryOf

LEMMA GitHubRow ==
    ASSUME TypeOK, NotAhead, RowInv, NEW p \in PRs, NEW a \in Actions, GitHubEvent(p, a)
    PROVE  RowInv'
<1>0. PICK m \in Nat : m = github[p].sent /\ m + 1 \in 1..MaxEvents
    BY WebhookAssumption DEF TypeOK, GitHubEvent
<1>a. \A i \in 1..m : i \in 1..MaxEvents /\ <<p, i>> \in Deliveries /\ <<p, i>> # <<p, m + 1>>
    BY <1>0, WebhookAssumption DEF Deliveries
<1>1. /\ outbox' = outbox \cup {<<p, m + 1>>} /\ attempt' = attempt
      /\ webhookEvent' = webhookEvent /\ pullRequest' = pullRequest
      /\ github'[p].sent = m + 1 /\ \A q \in PRs : q # p => github'[q] = github[q]
      /\ \A q \in PRs, i \in 1..MaxEvents :
            <<q, i>> # <<p, m + 1>> => payload'[<<q, i>>] = payload[<<q, i>>]
    BY <1>0 DEF GitHubEvent, tables, TypeOK, Deliveries
<1>2. \A d \in Deliveries : /\ Applied(d)' <=> Applied(d)
                            /\ Outstanding(d)' <=> Outstanding(d) \/ d = <<p, m + 1>>
    BY <1>1 DEF Applied, Outstanding, InProgress, DeliveryOf
<1>3. <<p, m + 1>> \in Deliveries /\ ~Emitted(<<p, m + 1>>)
    BY <1>0 DEF Deliveries, Emitted
<1>4. ~Applied(<<p, m + 1>>)
    BY <1>3 DEF Applied, NotAhead
<1>5. ASSUME NEW q \in PRs, q # p, NEW n \in 0..MaxEvents, Frontier(q, n)' PROVE RowFits(q, n)'
    BY <1>1, <1>2, <1>5, RowFitsSame DEF Deliveries
<1>6. ASSUME NEW n \in 0..MaxEvents, Frontier(p, n)' PROVE RowFits(p, n)'
    <2>1. n \in 0..m
        <3>1. n \in 0..(m + 1) /\ Outstanding(<<p, m + 1>>)'
            BY <1>1, <1>2, <1>3, <1>6 DEF Frontier
        <3>2. n # m + 1
            BY <1>6, <3>1 DEF Frontier
        <3>3. QED
            BY <3>1, <3>2
    <2>2. Frontier(p, n)
        <3>1. \A i \in 1..n : <<p, i>> \in Deliveries /\ <<p, i>> # <<p, m + 1>>
            BY <1>a, <2>1
        <3>2. \A i \in 1..n : ~Outstanding(<<p, i>>) /\ webhookEvent[<<p, i>>] = "PROCESSED"
            BY <1>1, <1>2, <1>6, <3>1 DEF Frontier
        <3>3. ASSUME n < m PROVE Outstanding(<<p, n + 1>>)
            <4>1. n + 1 \in 1..m /\ n < m + 1
                BY <2>1, <3>3
            <4>2. QED
                BY <1>a, <1>1, <1>2, <1>6, <4>1 DEF Frontier
        <3>4. QED
            BY <1>0, <2>1, <3>2, <3>3 DEF Frontier
    <2>3. RowFits(p, n)
        BY <2>2 DEF RowInv, RowFits
    <2>4. ASSUME NEW k \in 0..m PROVE Fits(p, k)' <=> Fits(p, k)
        <3>1. \A i \in 1..k : payload'[<<p, i>>] = payload[<<p, i>>]
            BY <1>a, <1>1
        <3>2. PICK s : s = pullRequest[p].status
            OBVIOUS
        <3>3. Stands(p, k, s)' <=> Stands(p, k, s)
            BY <3>1, StandsSame
        <3>4. QED
            BY <1>1, <3>1, <3>2, <3>3 DEF Fits
    <2>5. CASE n < m
        <3>1. n + 1 \in 0..m /\ <<p, n + 1>> \in Deliveries
            BY <1>a, <2>1, <2>5
        <3>2. QED
            BY <1>0, <1>1, <1>2, <2>1, <2>3, <2>4, <2>5, <3>1 DEF RowFits
    <2>6. CASE n = m
        BY <1>0, <1>1, <1>2, <1>3, <1>4, <2>3, <2>4, <2>6 DEF RowFits
    <2>7. QED
        BY <2>1, <2>5, <2>6
<1>7. QED
    BY <1>5, <1>6 DEF RowInv, RowFits

LEMMA ReceiveRow ==
    ASSUME TypeOK, RowInv, NEW h \in Handlers, NEW d \in Deliveries, Receive(h, d)
    PROVE  RowInv'
<1>1. /\ attempt[h] = Idle /\ d \in outbox /\ outbox' = outbox \ {d}
      /\ webhookEvent' = webhookEvent /\ github' = github /\ payload' = payload
      /\ pullRequest' = pullRequest
      /\ \A k \in Handlers : k # h => attempt'[k] = attempt[k]
      /\ attempt'[h] = [step |-> "check", pr |-> d[1], seq |-> d[2],
                        awaited |-> TRUE, feature |-> None]
    BY DEF Receive, externals, tables, TypeOK
<1>2. DeliveryOf(h)' = d /\ attempt'[h] # Idle
    <2>1. "pr" \in DOMAIN attempt'[h] /\ "pr" \notin DOMAIN Idle
        BY <1>1 DEF Idle
    <2>2. QED
        BY <1>1, <2>1 DEF DeliveryOf, Deliveries
<1>3. \A e \in Deliveries : /\ Outstanding(e)' <=> Outstanding(e)
                            /\ Applied(e)' <=> Applied(e)
    BY <1>1, <1>2, AppliedSame DEF InProgress, Outstanding, DeliveryOf
<1>4. QED
    BY <1>1, <1>3, RowFitsSame DEF RowInv, RowFits, Deliveries

LEMMA RequestRow ==
    ASSUME TypeOK, NotAhead, InOrder, QueueInv, HistoryInv, RowInv,
           NEW h \in Handlers, RequestStep(h)
    PROVE  RowInv'
<1>0. /\ attempt[h] # Idle /\ attempt[h].awaited /\ attempt[h].pr \in PRs
      /\ attempt[h].seq \in 1..MaxEvents
    BY RequestFrame, AttemptType DEF QueueInv, OneAttempt
<1> PICK p \in PRs, m \in Nat : p = attempt[h].pr /\ m + 1 = attempt[h].seq
    <2>1. attempt[h].seq - 1 \in Nat /\ (attempt[h].seq - 1) + 1 = attempt[h].seq
        BY <1>0, WebhookAssumption
    <2>2. QED
        BY <1>0, <2>1
<1> PICK d \in Deliveries : d = DeliveryOf(h) /\ d = <<p, m + 1>>
    BY <1>0, AttemptType DEF DeliveryOf
<1>1. /\ github' = github /\ payload' = payload
      /\ \A k \in Handlers : k # h => attempt'[k] = attempt[k]
      /\ attempt'[h] # Idle => DeliveryOf(h)' = d
    BY RequestFrame DEF DeliveryOf
<1>2. \A e \in Deliveries : e # d => /\ InProgress(e)' <=> InProgress(e)
                                     /\ Outstanding(e)' <=> Outstanding(e)
                                     /\ webhookEvent'[e] = webhookEvent[e]
    BY <1>0, OtherDeliveries DEF Outstanding
<1>3. \A e \in Deliveries : e # d => (Applied(e)' <=> Applied(e))
    BY <1>1, <1>2, AppliedSame
<1>4. ASSUME NEW q \in PRs, q # p, NEW n \in 0..MaxEvents, Frontier(q, n)' PROVE RowFits(q, n)'
    <2>1. \A i \in 1..MaxEvents : <<q, i>> \in Deliveries /\ <<q, i>> # d
        BY <1>4 DEF Deliveries
    <2>2. pullRequest'[q] = pullRequest[q]
        BY <1>4, RowOutcome
    <2>3. QED
        BY <1>1, <1>2, <1>3, <1>4, <2>1, <2>2, RowFitsSame
<1>5. InProgress(d) /\ Outstanding(d)
    BY <1>0 DEF InProgress, Outstanding
<1>6. PICK last \in Nat : /\ last = github[p].sent /\ last <= MaxEvents /\ m < last
    <2>1. github[p].sent \in Nat /\ github[p].sent <= MaxEvents
        BY WebhookAssumption DEF TypeOK
    <2>2. Emitted(d)
        BY <1>0 DEF NotAhead
    <2>3. m + 1 <= github[p].sent
        BY <2>2 DEF Emitted
    <2>4. QED
        BY <2>1, <2>3
<1>7. ASSUME NEW n \in 0..MaxEvents, Frontier(p, n)' PROVE RowFits(p, n)'
    <2>1. ASSUME n < m PROVE FALSE
        <3>1. <<p, n + 1>> \in Deliveries /\ <<p, n + 1>> # d /\ Earlier(<<p, n + 1>>, d)
            BY <1>6, <2>1, WebhookAssumption DEF Deliveries, Earlier
        <3>2. Outstanding(<<p, n + 1>>)
            BY <1>1, <1>2, <1>6, <1>7, <2>1, <3>1, WebhookAssumption DEF Frontier
        <3>3. QED
            BY <1>5, <3>1, <3>2 DEF QueueInv, OneAfterAnother
    <2>2. m + 1 < last => /\ <<p, m + 2>> \in Deliveries /\ <<p, m + 2>> # d
                          /\ ~InProgress(<<p, m + 2>>)
                          /\ webhookEvent[<<p, m + 2>>] = "NONE"
        <3>1. m + 1 < last => /\ <<p, m + 2>> \in Deliveries /\ <<p, m + 2>> # d
                              /\ Earlier(d, <<p, m + 2>>)
            BY <1>6, WebhookAssumption DEF Deliveries, Earlier
        <3>2. QED
            BY <1>5, <3>1 DEF QueueInv, OneAfterAnother
    <2>3. n \in 0..last /\ \A i \in 1..n : ~Outstanding(<<p, i>>)'
                                           /\ webhookEvent'[<<p, i>>] = "PROCESSED"
        BY <1>1, <1>6, <1>7 DEF Frontier
    <2>4. ASSUME n > m + 1 PROVE FALSE
        <3>1. m + 2 \in 1..n /\ m + 1 < last
            BY <1>6, <2>3, <2>4
        <3>2. QED
            BY <1>2, <2>2, <2>3, <3>1
    <2>5. n = m \/ n = m + 1
        BY <2>1, <2>3, <2>4
    <2>6. Frontier(p, m)
        <3>1. \A i \in 1..m : <<p, i>> \in Deliveries /\ <<p, i>> # d /\ i \in 1..n
            BY <1>6, <2>5, WebhookAssumption DEF Deliveries
        <3>2. QED
            BY <1>2, <1>5, <1>6, <2>3, <3>1 DEF Frontier
    <2>7. /\ Fits(p, m)' \/ Fits(p, m + 1)'
          /\ Applied(<<p, m + 1>>)' => Fits(p, m + 1)'
        BY <1>6, <2>6, FitsStep
    <2>8. CASE n = m
        BY <1>1, <1>6, <2>7, <2>8 DEF RowFits
    <2>9. CASE n = m + 1
        <3>1. webhookEvent'[d] = "PROCESSED"
            BY <2>3, <2>9
        <3>2. Fits(p, m + 1)'
            BY <2>7, <3>1 DEF Applied
        <3>3. m + 1 < last => ~Applied(<<p, m + 2>>)'
            BY <1>3, <2>2 DEF Applied, InProgress
        <3>4. QED
            BY <1>1, <1>6, <2>9, <3>2, <3>3 DEF RowFits
    <2>10. QED
        BY <2>5, <2>8, <2>9
<1>8. QED
    BY <1>4, <1>7 DEF RowInv, RowFits

\* Members change a row's link only.
LEMMA MemberRow ==
    ASSUME TypeOK, MemberStep \/ UNCHANGED vars, NEW p \in PRs
    PROVE  /\ pullRequest'[p].status = pullRequest[p].status
           /\ pullRequest'[p].content = pullRequest[p].content
<1>0. \A q \in PRs : pullRequest[q] \in Row
    BY DEF TypeOK
<1>1. ASSUME NEW f \in Features, DeleteFeature(f)
      PROVE  /\ pullRequest'[p].status = pullRequest[p].status
             /\ pullRequest'[p].content = pullRequest[p].content
    BY <1>0, <1>1 DEF DeleteFeature, Row
<1>2. ASSUME NEW q \in PRs, UnlinkPR(q) \/ \E m \in Members, f \in Features : LinkPR(m, q, f)
      PROVE  /\ pullRequest'[p].status = pullRequest[p].status
             /\ pullRequest'[p].content = pullRequest[p].content
    <2>1. CASE UnlinkPR(q)
        BY <1>0, <2>1 DEF UnlinkPR, Row, TypeOK
    <2>2. ASSUME NEW m \in Members, NEW f \in Features, LinkPR(m, q, f)
          PROVE  /\ pullRequest'[p].status = pullRequest[p].status
                 /\ pullRequest'[p].content = pullRequest[p].content
        BY <1>0, <2>2 DEF LinkPR, Row, TypeOK
    <2>3. QED
        BY <1>2, <2>1, <2>2
<1>3. QED
    BY <1>1, <1>2 DEF MemberStep, UpdateFeature, SetRepositoryLink, tables, vars

LEMMA RowInvStep ==
    ASSUME TypeOK, NotAhead, InOrder, QueueInv, HistoryInv, RowInv, [Next]_vars
    PROVE  RowInv'
<1>1. CASE UNCHANGED <<queue, github, payload>> /\ (MemberStep \/ UNCHANGED vars)
    <2>1. \A d \in Deliveries : /\ Outstanding(d)' <=> Outstanding(d)
                                /\ Applied(d)' <=> Applied(d)
        BY <1>1 DEF queue, Outstanding, InProgress, Applied, DeliveryOf
    <2>2. QED
        BY <1>1, <2>1, MemberRow, RowFitsSame DEF RowInv, RowFits, Deliveries, queue
<1>2. QED
    BY <1>1, QueueCases, GitHubRow, ReceiveRow, RequestRow

LEMMA RowInvInit == Init => RowInv
<1> SUFFICES ASSUME Init, NEW p \in PRs, NEW n \in 0..MaxEvents, Frontier(p, n)
             PROVE  Fits(p, n) /\ ~(n < github[p].sent)
    BY DEF RowInv
<1>1. n = 0 /\ github[p].sent = 0
    BY DEF Init, Frontier
<1>2. QED
    BY <1>1 DEF Init, Fits, Stands, NoRow

\* Once nothing of p is outstanding and each of its deliveries has reached the handlers, the
\* whole history has been applied.
LEMMA QuietFits ==
    ASSUME TypeOK, NotAhead, QueueInv, HistoryInv, RowInv, NEW p \in PRs, Quiet(p), Tracked(p)
    PROVE  /\ Fits(p, github[p].sent)
           /\ pullRequest[p].status = github[p].status
<1> PICK n \in 0..MaxEvents : n = github[p].sent
    BY DEF TypeOK
<1>1. n \in Nat /\ \A i \in 1..n : i \in 1..MaxEvents /\ <<p, i>> \in Deliveries
    BY WebhookAssumption DEF Deliveries
<1>2. \A i \in 1..n : ~Outstanding(<<p, i>>) /\ webhookEvent[<<p, i>>] = "PROCESSED"
    BY <1>1 DEF Quiet, Tracked, Outstanding, Emitted, QueueInv, AnsweredFor
<1>3. Frontier(p, n)
    BY <1>1, <1>2 DEF Frontier
<1>4. Fits(p, n)
    <2>1. ~(n < github[p].sent)
        BY <1>1
    <2>2. QED
        BY <1>3, <2>1 DEF RowInv
<1>5. pullRequest[p].status = github[p].status
    BY <1>1, <1>4, StandsUnique DEF Fits, HistoryInv
<1>6. QED
    BY <1>4, <1>5

OrderInv == TypeOK /\ NotAhead /\ QueueInv /\ HistoryInv /\ RowInv

LEMMA OrderInvHolds == ASSUME InOrder PROVE Spec => []OrderInv
<1>1. Init => OrderInv
    BY InitTypeOK, ControlInit, QueueInvInit, HistoryInvInit, RowInvInit DEF OrderInv
<1>2. OrderInv /\ [Next]_vars => OrderInv'
    BY NextTypeOK, NotAheadStep, QueueInvStep, HistoryInvStep, RowInvStep DEF OrderInv
<1>3. QED
    BY <1>1, <1>2, PTL DEF Spec

\* The mirror agrees with GitHub whenever nothing of the pull request is outstanding, through
\* every sequence of events, failures, crashes, redeliveries and members' edits, as long as
\* events come one after another and each of them found the repository linked.
THEOREM RowAgrees == ASSUME InOrder PROVE Spec => []RowAgreesWithGitHub
<1>1. OrderInv => RowAgreesWithGitHub
    <2> SUFFICES ASSUME OrderInv, NEW p \in PRs, Quiet(p), Tracked(p)
                 PROVE  /\ pullRequest[p].status = github[p].status
                        /\ \A i \in 1..MaxEvents :
                              payload[<<p, i>>] \in {"opened", "synchronize"}
                                 => pullRequest[p].content >= i
        BY DEF RowAgreesWithGitHub
    <2>1. Fits(p, github[p].sent) /\ pullRequest[p].status = github[p].status
        BY QuietFits DEF OrderInv
    <2>2. ASSUME NEW i \in 1..MaxEvents, payload[<<p, i>>] \in {"opened", "synchronize"}
          PROVE  i \in 1..github[p].sent
        <3>1. <<p, i>> \in Deliveries /\ payload[<<p, i>>] # "none"
            BY <2>2 DEF Deliveries
        <3>2. QED
            BY <2>2, <3>1, WebhookAssumption DEF OrderInv, HistoryInv, TypeOK
    <2>3. QED
        BY <2>1, <2>2 DEF Fits
<1>2. QED
    BY <1>1, OrderInvHolds, PTL

(***************************************************************************)
(* The feature follows its pull request.                                    *)
(***************************************************************************)

\* The record of a delivery that reached the handlers stays.
LEMMA EventStays ==
    ASSUME TypeOK, [Next]_vars, NEW d \in Deliveries, webhookEvent[d] # "NONE"
    PROVE  webhookEvent'[d] # "NONE"
<1>1. CASE \E h \in Handlers : RequestStep(h)
    <2>1. PICK h \in Handlers : RequestStep(h)
        BY <1>1
    <2>2. \/ webhookEvent' = webhookEvent
          \/ \E s \in EventStatus \ {"NONE"} : SetEvent(h, s)
        BY <2>1 DEF RequestStep, HandlerStep, CheckDuplicate, UpsertEvent, LookupRepository,
           MarkIgnored, ExtractFeature, FindPullRequest, CreatePullRequest, RecordClosed,
           RecordReopened, RecordSynchronize, NotifyAssignee, MarkProcessed, MarkFailed, Reply,
           TimeOut, Throw, Crash, tables, EventStatus
    <2>3. QED
        BY <2>2 DEF SetEvent, TypeOK
<1>2. CASE \E h \in Handlers, e \in Deliveries : Receive(h, e)
    BY <1>2 DEF Receive, tables
<1>3. QED
    BY <1>1, <1>2, WhoMoves

LEMMA MergedSeenStep ==
    ASSUME TypeOK, NotAhead, QueueInv, MergedSeen, [Next]_vars
    PROVE  MergedSeen'
<1> SUFFICES ASSUME NEW p \in PRs, pullRequest'[p].status = "MERGED"
             PROVE  \E i \in 1..MaxEvents :
                       payload'[<<p, i>>] = "merged" /\ webhookEvent'[<<p, i>>] # "NONE"
    BY DEF MergedSeen
<1>1. ASSUME NEW i \in 1..MaxEvents, payload[<<p, i>>] = "merged", webhookEvent[<<p, i>>] # "NONE"
      PROVE  payload'[<<p, i>>] = "merged" /\ webhookEvent'[<<p, i>>] # "NONE"
    <2>1. <<p, i>> \in Deliveries
        BY DEF Deliveries
    <2>2. Emitted(<<p, i>>)
        BY <1>1, <2>1 DEF NotAhead
    <2>3. QED
        BY <1>1, <2>1, <2>2, EmittedStable, EventStays
<1>2. CASE pullRequest[p].status = "MERGED"
    BY <1>1, <1>2 DEF MergedSeen
<1>3. CASE pullRequest[p].status # "MERGED"
    <2>0. /\ pullRequest \in [PRs -> Row] /\ pullRequest[p] \in Row
        BY DEF TypeOK
    <2>1. ASSUME NEW h \in Handlers, RecordClosed(h)
          PROVE  \E i \in 1..MaxEvents :
                    payload[<<p, i>>] = "merged" /\ webhookEvent[<<p, i>>] # "NONE"
        <3>1. /\ attempt[h] # Idle /\ attempt[h].step = "write"
              /\ attempt[h].seq \in 1..MaxEvents
            BY <2>1, AttemptType DEF RecordClosed, At
        <3>2. p = attempt[h].pr /\ ActionOf(h) = "merged"
            <4>1. \A q \in PRs : \A t : pullRequest' = [pullRequest EXCEPT ![q].status = t]
                     => pullRequest'[p].status = IF q = p THEN t ELSE pullRequest[p].status
                BY <2>0 DEF Row
            <4>2. attempt[h].pr \in PRs
                BY <3>1, AttemptType
            <4>3. QED
                BY <1>3, <2>1, <4>1, <4>2 DEF RecordClosed
        <3>3. webhookEvent[DeliveryOf(h)] = "PROCESSING"
            BY <3>1 DEF QueueInv, EventFollowsStep, InTry
        <3>4. QED
            BY <3>1, <3>2, <3>3 DEF ActionOf, DeliveryOf
    <2>2. ASSUME NEW h \in Handlers,
                 CreatePullRequest(h) \/ RecordReopened(h) \/ RecordSynchronize(h)
          PROVE  FALSE
        <3>1. attempt[h] # Idle /\ attempt[h].pr \in PRs
            BY <2>2, AttemptType DEF CreatePullRequest, RecordReopened, RecordSynchronize, At
        <3>2. CASE CreatePullRequest(h)
            BY <1>3, <2>0, <3>1, <3>2 DEF CreatePullRequest
        <3>3. CASE RecordReopened(h)
            BY <1>3, <2>0, <3>1, <3>3 DEF RecordReopened, Row
        <3>4. CASE RecordSynchronize(h)
            BY <1>3, <2>0, <3>1, <3>4 DEF RecordSynchronize, Row
        <3>5. QED
            BY <2>2, <3>2, <3>3, <3>4
    <2>3. ~MemberStep
        BY <1>3, MemberRow
    <2>4. QED
        BY <1>1, <1>3, <2>1, <2>2, <2>3, RowWriters DEF MemberStep
<1>4. QED
    BY <1>2, <1>3

\* A merged pull request is closed no more: the merge reached the handlers after every event
\* that came before it, and only edits come after it.
LEMMA MergedStays ==
    ASSUME TypeOK, NotAhead, QueueInv, HistoryInv, MergedSeen, NEW h \in Handlers,
           attempt[h] # Idle, ActionOf(h) \notin {"merged", "edited"}
    PROVE  pullRequest[attempt[h].pr].status # "MERGED"
<1>1. PICK p \in PRs, m \in 1..MaxEvents : p = attempt[h].pr /\ m = attempt[h].seq
    BY AttemptType
<1>2. <<p, m>> = DeliveryOf(h) /\ <<p, m>> \in Deliveries /\ InProgress(<<p, m>>)
    BY <1>1 DEF DeliveryOf, Deliveries, InProgress
<1> SUFFICES ASSUME pullRequest[p].status = "MERGED" PROVE FALSE
    BY <1>1
<1>3. PICK i \in 1..MaxEvents : payload[<<p, i>>] = "merged" /\ webhookEvent[<<p, i>>] # "NONE"
    BY DEF MergedSeen
<1>4. <<p, i>> \in Deliveries
    BY DEF Deliveries
<1>5. PICK n \in Nat : n = github[p].sent
    BY WebhookAssumption DEF TypeOK
<1>6. i <= n /\ m <= n
    BY <1>2, <1>3, <1>4, <1>5 DEF NotAhead, Emitted
<1>7. i # m
    BY <1>2, <1>3 DEF ActionOf
<1>8. ~(i < m)
    BY <1>2, <1>3, <1>5, <1>6, WebhookAssumption DEF HistoryInv, ActionOf
<1>9. ~(m < i)
    BY <1>2, <1>3, <1>4 DEF QueueInv, OneAfterAnother, Earlier, Outstanding
<1>10. QED
    BY <1>7, <1>8, <1>9, WebhookAssumption

\* No member acts in a step that leaves the count of edits at zero.
LEMMA NoEdits ==
    ASSUME TypeOK, [Next]_vars, edits' = 0
    PROVE  edits = 0 /\ ~MemberStep
<1>1. edits \in Nat
    BY WebhookAssumption DEF TypeOK
<1>2. MemberStep => edits' = edits + 1
    BY DEF MemberStep, LinkPR, UnlinkPR, UpdateFeature, DeleteFeature, SetRepositoryLink, Edit
<1>3. ~MemberStep => edits' = edits
    BY ZenonT(60) DEF Next, HandlerStep, CheckDuplicate, UpsertEvent, LookupRepository,
           MarkIgnored, ExtractFeature, FindPullRequest, CreatePullRequest, RecordClosed,
           RecordReopened, RecordSynchronize, NotifyAssignee, MarkProcessed, MarkFailed, Reply,
           TimeOut, Throw, Crash, GitHubEvent, Receive, counters, vars
<1>4. QED
    BY <1>1, <1>2, <1>3

\* Then a row keeps its link, and a new row takes the one its attempt resolved.
LEMMA LinkFixed ==
    ASSUME TypeOK, [Next]_vars, ~MemberStep, NEW p \in PRs
    PROVE  \/ /\ pullRequest'[p].feature = pullRequest[p].feature
              /\ Exists(p) => Exists(p)'
           \/ /\ ~Exists(p) /\ Exists(p)'
              /\ \E h \in Handlers : /\ attempt[h] # Idle /\ attempt[h].pr = p
                                     /\ pullRequest'[p].feature = attempt[h].feature
<1>1. CASE UNCHANGED pullRequest
    BY <1>1 DEF Exists
<1>2. ASSUME NEW h \in Handlers,
             RecordClosed(h) \/ RecordReopened(h) \/ RecordSynchronize(h)
      PROVE  pullRequest'[p].feature = pullRequest[p].feature /\ (Exists(p) => Exists(p)')
    BY <1>2, RecordKeepsLink
<1>3. ASSUME NEW h \in Handlers, CreatePullRequest(h)
      PROVE  \/ pullRequest' = pullRequest
             \/ p # attempt[h].pr /\ pullRequest'[p] = pullRequest[p]
             \/ /\ p = attempt[h].pr /\ ~Exists(p) /\ attempt[h] # Idle
                /\ pullRequest'[p].feature = attempt[h].feature
                /\ pullRequest'[p].status = "OPEN"
    BY <1>3 DEF CreatePullRequest, Insertable, At, TypeOK
<1>4. QED
    BY <1>1, <1>2, <1>3, RowWriters DEF MemberStep, Exists

\* Where the feature of a request comes from.
LEMMA FeatureOutcome ==
    ASSUME TypeOK, NEW h \in Handlers, RequestStep(h), attempt'[h] # Idle
    PROVE  \/ /\ attempt'[h].feature = attempt[h].feature
              /\ attempt'[h].step = "write" /\ ActionOf(h) # "opened"
                    => attempt[h].step = "write"
           \/ /\ attempt'[h].feature = ResolvedFeature(attempt[h].pr)
              /\ attempt'[h].step # "write"
           \/ /\ attempt'[h].feature = pullRequest[attempt[h].pr].feature
              /\ Exists(attempt[h].pr)
<1>0. /\ attempt[h] # Idle /\ attempt[h] \in Attempt
      /\ attempt \in [Handlers -> Attempt \cup {Idle}]
    BY RequestFrame, AttemptType DEF TypeOK
<1>1. ASSUME NEW s, Goto(h, s)
      PROVE  attempt'[h].feature = attempt[h].feature /\ attempt'[h].step = s
    BY <1>0, <1>1 DEF Goto, Attempt
<1>2. CASE ExtractFeature(h)
    BY <1>0, <1>2 DEF ExtractFeature, Attempt
<1>3. CASE FindPullRequest(h)
    <2>1. CASE \E s \in {"mark", "fail"} : Goto(h, s)
        BY <1>1, <2>1
    <2>2. CASE ActionOf(h) = "opened" /\ Goto(h, "write")
        BY <1>1, <2>2
    <2>3. CASE /\ Exists(attempt[h].pr)
               /\ attempt' = [attempt EXCEPT ![h] =
                     [@ EXCEPT !.step = "write", !.feature = pullRequest[attempt[h].pr].feature]]
        BY <1>0, <2>3 DEF Attempt
    <2>4. QED
        BY <1>3, <2>1, <2>2, <2>3 DEF FindPullRequest
<1>4. CASE TimeOut(h)
    BY <1>0, <1>4 DEF TimeOut, Attempt
<1>5. CASE Throw(h)
    BY <1>1, <1>5 DEF Throw
<1>6. CASE CheckDuplicate(h) \/ Crash(h) \/ Reply(h) \/ MarkFailed(h)
    BY <1>0, <1>1, <1>6 DEF CheckDuplicate, Crash, Reply, MarkFailed, Succeed, Refuse
<1>7. CASE UpsertEvent(h) \/ LookupRepository(h) \/ MarkIgnored(h) \/ MarkProcessed(h)
    BY <1>1, <1>7 DEF UpsertEvent, LookupRepository, MarkIgnored, MarkProcessed
<1>8. CASE \/ CreatePullRequest(h) \/ RecordClosed(h) \/ RecordReopened(h)
           \/ RecordSynchronize(h) \/ NotifyAssignee(h)
    BY <1>1, <1>8 DEF CreatePullRequest, RecordClosed, RecordReopened, RecordSynchronize,
                      NotifyAssignee, GotoNotify
<1>9. QED
    BY <1>2, <1>3, <1>4, <1>5, <1>6, <1>7, <1>8 DEF RequestStep, HandlerStep

LEMMA UntouchedStep ==
    ASSUME TypeOK, NotAhead, RecordedInv, Untouched, [Next]_vars, ~MemberStep
    PROVE  Untouched'
<1>1. \A f \in Features : Live(f)'
    BY LiveStable DEF Untouched, MemberStep
<1>2. ASSUME NEW p \in PRs
      PROVE  /\ FromBranch(p, pullRequest'[p].feature)
             /\ Exists(p)' \/ pullRequest'[p].feature = None
    BY LinkFixed DEF Untouched
<1>3. ASSUME NEW p \in PRs, Exists(p)
      PROVE  pullRequest'[p].feature = pullRequest[p].feature
    BY <1>3, LinkFixed
<1>4. ASSUME NEW h \in Handlers, attempt'[h] # Idle, attempt[h] # Idle,
             attempt'[h].feature = attempt[h].feature,
             attempt'[h].step = "write" /\ ActionOf(h) # "opened" => attempt[h].step = "write"
      PROVE  /\ FromBranch(attempt'[h].pr, attempt'[h].feature)
             /\ attempt'[h].step = "write" /\ ActionOf(h)' \notin {"opened", "edited"}
                   => attempt'[h].feature = pullRequest'[attempt'[h].pr].feature
    <2>1. attempt'[h].pr = attempt[h].pr /\ ActionOf(h)' = ActionOf(h) /\ attempt[h].pr \in PRs
        BY <1>4, ActionStable, AttemptType
    <2>2. ASSUME attempt[h].step = "write", ActionOf(h) \notin {"opened", "edited"}
          PROVE  Exists(attempt[h].pr)
        BY <1>4, <2>2 DEF RecordedInv, Committed
    <2>3. QED
        BY <1>3, <1>4, <2>1, <2>2 DEF Untouched
<1>5. ASSUME NEW h \in Handlers, attempt'[h] # Idle
      PROVE  /\ FromBranch(attempt'[h].pr, attempt'[h].feature)
             /\ attempt'[h].step = "write" /\ ActionOf(h)' \notin {"opened", "edited"}
                   => attempt'[h].feature = pullRequest'[attempt'[h].pr].feature
    <2>1. CASE RequestStep(h)
        <3>1. PICK p \in PRs : /\ p = attempt[h].pr /\ attempt[h] # Idle /\ attempt'[h].pr = p
                               /\ ActionOf(h)' = ActionOf(h)
            BY <1>5, <2>1, AttemptType, RequestFrame, ActionStable
        <3>2. FromBranch(p, ResolvedFeature(p))
            BY WebhookAssumption DEF FromBranch, ResolvedFeature, RefKinds
        <3>3. CASE /\ attempt'[h].feature = ResolvedFeature(p)
                   /\ attempt'[h].step # "write"
            BY <3>1, <3>2, <3>3
        <3>4. CASE attempt'[h].feature = pullRequest[p].feature /\ Exists(p)
            BY <1>3, <3>1, <3>4 DEF Untouched
        <3>5. QED
            BY <1>4, <1>5, <2>1, <3>1, <3>3, <3>4, FeatureOutcome
    <2>2. CASE \E d \in Deliveries : Receive(h, d)
        <3>1. attempt'[h].feature = None /\ attempt'[h].step = "check"
            BY <2>2 DEF Receive, TypeOK
        <3>2. QED
            BY <3>1 DEF FromBranch
    <2>3. CASE attempt'[h] = attempt[h]
        BY <1>4, <1>5, <2>3
    <2>4. ASSUME NEW k \in Handlers, k # h, RequestStep(k) \/ \E d \in Deliveries : Receive(k, d)
          PROVE  attempt'[h] = attempt[h]
        BY <2>4, RequestFrame DEF Receive, TypeOK
    <2>5. QED
        BY <2>1, <2>2, <2>3, <2>4, WhoMoves
<1>6. QED
    BY <1>1, <1>2, <1>5 DEF Untouched

\* Only a write moves a feature, its own; the others keep the row's status and the feature.
LEMMA FeatureWriters ==
    ASSUME TypeOK, [Next]_vars, ~MemberStep
    PROVE  \/ UNCHANGED <<pullRequest, feature>>
           \/ \E h \in Handlers : CreatePullRequest(h) \/ RecordClosed(h)
                                  \/ RecordReopened(h) \/ RecordSynchronize(h)
BY ZenonT(60) DEF Next, HandlerStep, CheckDuplicate, UpsertEvent, LookupRepository,
       MarkIgnored, ExtractFeature, FindPullRequest, NotifyAssignee, MarkProcessed, MarkFailed,
       Reply, TimeOut, Throw, Crash, GitHubEvent, Receive, tables, vars

\* The status a moved feature takes; any other feature keeps its own.
LEMMA MovedFeature ==
    ASSUME TypeOK, NEW p, NEW g, NEW s, NEW k, MoveFeature(p, g, s, k)
    PROVE  \A f \in Features : feature'[f].status =
              IF f = g /\ Live(f) THEN s ELSE feature[f].status
<1>1. \A f \in Features : feature[f] \in [status : FeatureStatus \cup {"DELETED"},
                                         assignee : Members \cup {None}]
    BY DEF TypeOK
<1>2. QED
    BY <1>1 DEF MoveFeature, Live, TypeOK

LEMMA MergedFeatureStep ==
    ASSUME TypeOK, NotAhead, QueueInv, HistoryInv, MergedSeen, OwnFeature, Untouched,
           MergedFeature, [Next]_vars, ~MemberStep
    PROVE  MergedFeature'
<1> DEFINE Due(s) == IF s = "MERGED" THEN "IN_REVIEW" ELSE "IN_PROGRESS"
<1>0. /\ pullRequest \in [PRs -> Row] /\ \A p \in PRs : pullRequest[p].feature \in Features \cup {None}
      /\ None \notin Features
    BY WebhookAssumption DEF TypeOK, Row
<1>1. CASE UNCHANGED <<pullRequest, feature>>
    BY <1>1 DEF MergedFeature
<1>2. ASSUME NEW h \in Handlers, CreatePullRequest(h) \/ RecordClosed(h)
                                  \/ RecordReopened(h) \/ RecordSynchronize(h),
             NEW p \in PRs, NEW f \in Features, f = pullRequest'[p].feature
      PROVE  feature'[f].status = Due(pullRequest'[p].status)
    <2>1. PICK q \in PRs, g \in Features \cup {None} :
             /\ attempt[h] # Idle /\ attempt[h].step = "write"
             /\ q = attempt[h].pr /\ g = attempt[h].feature
             /\ FromBranch(q, g)
             /\ ActionOf(h) \notin {"opened", "edited"} => g = pullRequest[q].feature
        BY <1>2, AttemptType DEF CreatePullRequest, RecordClosed, RecordReopened,
                                 RecordSynchronize, At, Attempt, Untouched
    <2>2. Live(f) /\ f # None
        BY <1>0 DEF Untouched
    <2>3. \/ UNCHANGED feature
          \/ \E s, k : MoveFeature(q, g, s, k)
        BY <1>2, <2>1 DEF CreatePullRequest, RecordClosed, RecordReopened, RecordSynchronize
    <2>4. CASE p # q
        <3>1. pullRequest'[p] = pullRequest[p]
            BY <1>2, <2>1, <2>4 DEF CreatePullRequest, RecordClosed, RecordReopened,
                                    RecordSynchronize, TypeOK
        <3>2. FromBranch(p, f)
            BY <1>2, <3>1 DEF Untouched
        <3>3. f # g
            BY <2>1, <2>2, <2>4, <3>2 DEF FromBranch, OwnFeature
        <3>4. feature'[f].status = feature[f].status
            BY <2>3, <3>3, MovedFeature
        <3>5. QED
            BY <1>2, <2>2, <3>1, <3>4 DEF MergedFeature
    <2>5. CASE p = q /\ CreatePullRequest(h)
        <3>1. CASE UNCHANGED <<pullRequest, feature>>
            BY <1>1, <1>2, <2>2, <3>1 DEF MergedFeature
        <3>2. CASE /\ pullRequest'[p].status = "OPEN" /\ f = g
                   /\ MoveFeature(q, g, "IN_PROGRESS", "OPENED")
            BY <2>2, <3>2, MovedFeature
        <3>3. QED
            BY <1>0, <1>2, <2>1, <2>5, <3>1, <3>2 DEF CreatePullRequest
    <2>6. ASSUME NEW s, pullRequest' = [pullRequest EXCEPT ![p].status = s]
          PROVE  pullRequest'[p].status = s /\ f = pullRequest[p].feature
        BY <1>0, <1>2, <2>6 DEF Row
    <2>7. CASE p = q /\ RecordClosed(h) /\ ActionOf(h) = "closed"
        <3>1. /\ pullRequest' = [pullRequest EXCEPT ![p].status = "CLOSED"]
              /\ feature' = feature
            BY <2>1, <2>7 DEF RecordClosed
        <3>2. pullRequest[p].status # "MERGED"
            BY <2>1, <2>7, MergedStays
        <3>3. QED
            BY <2>2, <2>6, <3>1, <3>2 DEF MergedFeature
    <2>8. CASE p = q /\ RecordClosed(h) /\ ActionOf(h) = "merged"
        <3>1. /\ pullRequest' = [pullRequest EXCEPT ![p].status = "MERGED"]
              /\ MoveFeature(q, g, "IN_REVIEW", "MERGED")
            BY <2>1, <2>8 DEF RecordClosed
        <3>2. f = g /\ pullRequest'[p].status = "MERGED"
            BY <2>1, <2>6, <2>8, <3>1
        <3>3. QED
            BY <2>2, <3>1, <3>2, MovedFeature
    <2>9. CASE p = q /\ RecordReopened(h)
        <3>1. /\ pullRequest' = [pullRequest EXCEPT ![p].status = "OPEN"]
              /\ MoveFeature(q, g, "IN_PROGRESS", "REOPENED")
            BY <2>1, <2>9 DEF RecordReopened
        <3>2. ActionOf(h) = "reopened"
            BY <2>9 DEF RecordReopened
        <3>3. f = g /\ pullRequest'[p].status = "OPEN"
            BY <2>1, <2>6, <2>9, <3>1, <3>2
        <3>4. QED
            BY <2>2, <3>1, <3>3, MovedFeature
    <2>a. CASE p = q /\ RecordSynchronize(h)
        <3>1. /\ feature' = feature /\ pullRequest'[p].status = pullRequest[p].status
              /\ pullRequest'[p].feature = pullRequest[p].feature
            BY <1>0, <2>1, <2>a DEF RecordSynchronize, Row
        <3>2. QED
            BY <1>2, <2>2, <3>1 DEF MergedFeature
    <2>10. QED
        BY <1>2, <2>4, <2>5, <2>7, <2>8, <2>9, <2>a DEF RecordClosed
<1>3. QED
    <2>1. \A p \in PRs : pullRequest'[p].feature \in Features \cup {None}
        BY NextTypeOK DEF TypeOK, Row
    <2>2. QED
        BY <1>1, <1>2, <2>1, FeatureWriters DEF MergedFeature

LEMMA FollowInvStep ==
    ASSUME TypeOK, NotAhead, QueueInv, HistoryInv, RecordedInv, OwnFeature, FollowInv,
           [Next]_vars
    PROVE  FollowInv'
<1>1. MergedSeen'
    BY MergedSeenStep DEF FollowInv
<1>2. ASSUME edits' = 0 PROVE Untouched' /\ MergedFeature'
    <2>1. Untouched /\ MergedFeature /\ MergedSeen /\ ~MemberStep
        BY <1>2, NoEdits DEF FollowInv
    <2>2. QED
        BY <2>1, UntouchedStep, MergedFeatureStep
<1>3. QED
    BY <1>1, <1>2 DEF FollowInv

LEMMA FollowInvInit == Init => FollowInv
<1> SUFFICES ASSUME Init PROVE FollowInv
    OBVIOUS
<1>1. MergedSeen
    BY DEF Init, MergedSeen, NoRow
<1>2. \A f \in Features : Live(f)
    BY DEF Init, Live
<1>3. Untouched /\ MergedFeature
    BY <1>2 DEF Init, Untouched, MergedFeature, FromBranch, NoRow
<1>4. QED
    BY <1>1, <1>3 DEF FollowInv

\* While nobody edits anything and no two branches lead to one feature, the feature of a pull
\* request stands where its last event puts it, once nothing of it is outstanding: a late
\* attempt moves a feature only as far as the row it belongs to.
THEOREM FeatureFollows ==
    ASSUME InOrder, OwnFeature
    PROVE  Spec => []FeatureFollowsPR
<1> DEFINE Inv == OrderInv /\ RecordedInv /\ FollowInv
<1>1. Init => Inv
    BY InitTypeOK, ControlInit, QueueInvInit, HistoryInvInit, RowInvInit, FollowInvInit
    DEF OrderInv
<1>2. Inv /\ [Next]_vars => Inv'
    BY NextTypeOK, NotAheadStep, QueueInvStep, HistoryInvStep, RowInvStep, RecordedInvStep,
       FollowInvStep DEF OrderInv
<1>3. Inv => FeatureFollowsPR
    <2> SUFFICES ASSUME Inv, edits = 0, NEW p \in PRs, Quiet(p), Tracked(p),
                        NEW f, f = pullRequest[p].feature, f # None
                 PROVE  CASE github[p].status = "MERGED" -> feature[f].status = "IN_REVIEW"
                          [] OTHER -> feature[f].status = "IN_PROGRESS"
        BY DEF FeatureFollowsPR
    <2>1. pullRequest[p].status = github[p].status
        BY QuietFits DEF OrderInv
    <2>2. feature[f].status =
             IF pullRequest[p].status = "MERGED" THEN "IN_REVIEW" ELSE "IN_PROGRESS"
        BY DEF FollowInv, MergedFeature
    <2>3. QED
        BY <2>1, <2>2
<1>4. QED
    BY <1>1, <1>2, <1>3, PTL DEF Spec
=============================================================================
