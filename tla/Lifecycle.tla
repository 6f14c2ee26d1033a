----------------------------- MODULE Lifecycle -----------------------------
(***************************************************************************)
(* The life of one feature and one bug report of it: FeaturesService.update *)
(* and BugReportsService.update, which read the row, derive the lifecycle   *)
(* stamps from what they read, and write, log and notify in later steps;    *)
(* and the webhook transactions that set the feature's status.              *)
(* A stamp is kept as whether it is set.                                    *)
(***************************************************************************)
EXTENDS Naturals, Sequences

CONSTANTS
    Members,
    Requests,
    FeatureTargets, \* statuses asked of the feature
    BugTargets,     \* statuses asked of the bug
    Webhooks,       \* statuses that webhook transactions set
    MaxUpdates,     \* bound: updates and webhook writes
    None

FeatureStatus == {"BACKLOG", "PLANNED", "IN_PROGRESS", "IN_REVIEW", "DONE", "CANCELLED"}
BugStatus == {"OPEN", "IN_PROGRESS", "RESOLVED", "CLOSED"}
Notices == {"FEATURE_ASSIGNED", "FEATURE_COMPLETED", "BUG_RESOLVED"}

LifecycleAssumption ==
    /\ None \notin Members \cup FeatureStatus \cup BugStatus
    /\ FeatureTargets \subseteq FeatureStatus /\ BugTargets \subseteq BugStatus
    /\ Webhooks \subseteq {"IN_PROGRESS", "IN_REVIEW"}
    /\ MaxUpdates \in Nat

VARIABLES
    feature, \* status, started, completed, assignee
    bug,     \* status, resolved, closed
    req,     \* where each request stands
    trail,   \* activity log: the statuses of the feature, in the order logged
    told,    \* notifications written, by kind and member
    updates,
    due,     \* for properties: notifications that the changes called for
    mixed    \* for properties: what another writer came between

vars == <<feature, bug, req, trail, told, updates, due, mixed>>

Idle == [at |-> "idle"]
NoCount == [n \in Notices |-> [m \in Members |-> 0]]

TypeOK ==
    /\ feature \in [status : FeatureStatus, started : BOOLEAN, completed : BOOLEAN,
                    assignee : Members \cup {None}]
    /\ bug \in [status : BugStatus, resolved : BOOLEAN, closed : BOOLEAN]
    /\ \A r \in Requests : req[r].at \in {"idle", "write", "log", "assigned", "completed",
                                          "writeBug", "resolved"}
    /\ trail \in Seq(FeatureStatus)
    /\ told \in [Notices -> [Members -> Nat]] /\ due \in [Notices -> [Members -> Nat]]
    /\ updates \in 0..MaxUpdates
    /\ mixed \subseteq {"feature", "bug", "trail"}

Init ==
    /\ feature \in [status : {"PLANNED"}, started : {FALSE}, completed : {FALSE},
                    assignee : Members \cup {None}]
    /\ bug = [status |-> "OPEN", resolved |-> FALSE, closed |-> FALSE]
    /\ req = [r \in Requests |-> Idle]
    /\ trail = <<"PLANNED">> /\ updates = 0
    /\ told = NoCount /\ due = NoCount
    /\ mixed = {}

Started(s) == s \notin {"BACKLOG", "PLANNED"}
Settled(s) == s \in {"RESOLVED", "CLOSED"}

\* Mutant: the stamp is not cleared on the way back.
LifecycleStamps_Kept(old, s, row) ==
    IF s = None \/ s = old.status THEN row
    ELSE [row EXCEPT !.started = Started(s) \/ @, !.completed = (s = "DONE") \/ @]

\* lifecycleStamps: what an update to status s makes of the stamps of row old.
LifecycleStamps(old, s, row) ==
    IF s = None \/ s = old.status THEN row
    ELSE [row EXCEPT
            !.started = IF ~Started(s) THEN FALSE ELSE IF ~old.started THEN TRUE ELSE @,
            !.completed = IF s = "DONE" THEN TRUE ELSE IF old.completed THEN FALSE ELSE @]

BugLifecycleStamps(old, s, row) ==
    IF s = None \/ s = old.status THEN row
    ELSE [row EXCEPT
            !.resolved = IF Settled(s) THEN TRUE ELSE IF old.resolved THEN FALSE ELSE @,
            !.closed = IF s = "CLOSED" THEN TRUE ELSE IF old.closed THEN FALSE ELSE @]

Put(old, new) == IF new = None THEN old ELSE new

Count(c, kind, m) == [c EXCEPT ![kind][m] = @ + 1]
CountIf(c, cond, kind, m) == IF cond THEN Count(c, kind, m) ELSE c

(***************************************************************************)
(* FeaturesService.update by member `by', to status s and assignee a, each  *)
(* None when it is not in the request.                                      *)
(***************************************************************************)

Read(r, by, s, a) ==
    /\ req[r].at = "idle" /\ updates < MaxUpdates
    /\ req' = [req EXCEPT ![r] = [at |-> "write", by |-> by, status |-> s, assignee |-> a,
                                  old |-> feature, new |-> feature]]
    /\ updates' = updates + 1
    /\ UNCHANGED <<feature, bug, trail, told, due, mixed>>

\* The notifications that changing feature to `new' by q.by calls for.
FeatureDue(q, new) ==
    LET assigned == q.assignee # None /\ q.assignee # feature.assignee /\ q.assignee # q.by
        done == new.status = "DONE" /\ feature.status # "DONE"
                    /\ new.assignee \notin {None, q.by}
    IN  CountIf(CountIf(due, assigned, "FEATURE_ASSIGNED", q.assignee),
                done, "FEATURE_COMPLETED", new.assignee)

Write(r) ==
    LET q == req[r]
        row == [feature EXCEPT !.status = Put(@, q.status), !.assignee = Put(@, q.assignee)]
        new == LifecycleStamps(q.old, q.status, row)
    IN
    /\ q.at = "write"
    /\ feature' = new
    /\ due' = FeatureDue(q, new)
    /\ req' = [req EXCEPT ![r].at = "log", ![r].new = new]
    /\ mixed' = mixed \cup (IF q.old # feature THEN {"feature"} ELSE {})
                      \cup (IF \E o \in Requests : req[o].at = "log" THEN {"trail"} ELSE {})
                      \cup (IF \E o \in Requests : req[o].at = "resolved" THEN {"bug"} ELSE {})
    /\ UNCHANGED <<bug, trail, told, updates>>

\* The activity log entry, a write of its own.
Log(r) ==
    /\ req[r].at = "log"
    /\ trail' = IF req[r].status = None THEN trail ELSE Append(trail, req[r].status)
    /\ req' = [req EXCEPT ![r].at = "assigned"]
    /\ UNCHANGED <<feature, bug, told, updates, due, mixed>>

NotifyAssigned(r) ==
    LET q == req[r] IN
    /\ q.at = "assigned"
    /\ told' = CountIf(told, q.assignee # None /\ q.assignee # q.old.assignee
                                 /\ q.assignee # q.by,
                       "FEATURE_ASSIGNED", q.assignee)
    /\ req' = [req EXCEPT ![r].at = "completed"]
    /\ UNCHANGED <<feature, bug, trail, updates, due, mixed>>

\* Mutant: the assignee from before the update is told.
NotifyCompleted_OldAssignee(r) ==
    LET q == req[r] IN
    /\ q.at = "completed"
    /\ told' = CountIf(told, q.status = "DONE" /\ q.old.status # "DONE"
                                 /\ q.old.assignee \notin {None, q.by},
                       "FEATURE_COMPLETED", q.old.assignee)
    /\ req' = [req EXCEPT ![r] = Idle]
    /\ UNCHANGED <<feature, bug, trail, updates, due, mixed>>

\* The row that the update returned tells whom to notify, the one that was read
\* whether it is news.
NotifyCompleted(r) ==
    LET q == req[r] IN
    /\ q.at = "completed"
    /\ told' = CountIf(told, q.status = "DONE" /\ q.old.status # "DONE"
                                 /\ q.new.assignee \notin {None, q.by},
                       "FEATURE_COMPLETED", q.new.assignee)
    /\ req' = [req EXCEPT ![r] = Idle]
    /\ UNCHANGED <<feature, bug, trail, updates, due, mixed>>

\* The opened, closed or reopened transaction of a linked pull request: status and
\* log entry, no stamps.
Webhook(s) ==
    /\ s \in Webhooks /\ updates < MaxUpdates
    /\ feature' = [feature EXCEPT !.status = s]
    /\ trail' = Append(trail, s)
    /\ updates' = updates + 1
    /\ mixed' = mixed \cup {"feature"}
                      \cup (IF \E o \in Requests : req[o].at = "log" THEN {"trail"} ELSE {})
    /\ UNCHANGED <<bug, req, told, due>>

(***************************************************************************)
(* BugReportsService.update to status s; its log entry is of the same       *)
(* transaction.                                                             *)
(***************************************************************************)

ReadBug(r, by, s) ==
    /\ req[r].at = "idle" /\ updates < MaxUpdates
    /\ req' = [req EXCEPT ![r] = [at |-> "writeBug", by |-> by, status |-> s, old |-> bug]]
    /\ updates' = updates + 1
    /\ UNCHANGED <<feature, bug, trail, told, due, mixed>>

WriteBug(r) ==
    LET q == req[r] IN
    /\ q.at = "writeBug"
    /\ bug' = BugLifecycleStamps(q.old, q.status, [bug EXCEPT !.status = q.status])
    /\ due' = CountIf(due, q.status = "RESOLVED" /\ bug.status # "RESOLVED"
                               /\ feature.assignee \notin {None, q.by},
                      "BUG_RESOLVED", feature.assignee)
    /\ mixed' = mixed \cup (IF q.old # bug THEN {"bug"} ELSE {})
    /\ req' = [req EXCEPT ![r].at = "resolved"]
    /\ UNCHANGED <<feature, trail, told, updates>>

\* The assignee is read when the bug has been written.
NotifyResolved(r) ==
    LET q == req[r] IN
    /\ q.at = "resolved"
    /\ told' = CountIf(told, q.status = "RESOLVED" /\ q.old.status # "RESOLVED"
                                 /\ feature.assignee \notin {None, q.by},
                       "BUG_RESOLVED", feature.assignee)
    /\ req' = [req EXCEPT ![r] = Idle]
    /\ UNCHANGED <<feature, bug, trail, updates, due, mixed>>

Next ==
    \/ \E r \in Requests, by \in Members :
          \/ \E s \in FeatureTargets \cup {None}, a \in Members \cup {None} : Read(r, by, s, a)
          \/ \E s \in BugTargets : ReadBug(r, by, s)
    \/ \E r \in Requests : \/ Write(r) \/ Log(r) \/ NotifyAssigned(r) \/ NotifyCompleted(r)
                           \/ WriteBug(r) \/ NotifyResolved(r)
    \/ \E s \in Webhooks : Webhook(s)

Spec == Init /\ [][Next]_vars

(***************************************************************************)
(* Properties.                                                              *)
(***************************************************************************)

Dated == feature.completed = (feature.status = "DONE")
             /\ feature.started = Started(feature.status)
BugIsDated == bug.resolved = Settled(bug.status) /\ bug.closed = (bug.status = "CLOSED")

\* The stamps of a feature fit its status, through every sequence of updates, as long
\* as no other writer came between the read and the write of one.
FeatureDated == "feature" \notin mixed => Dated

\* The same for a bug.
BugDated == "bug" \notin mixed => BugIsDated

\* "... reopening a feature does not leave it looking permanently delivered", and
\* without stamps "anything asking 'how much shipped last week' has no data to read".
Delivered == Dated

\* When nobody's update was mixed with another writer's, the people concerned have
\* been told of each change once: nobody twice, nobody of what he did himself.
ToldAsDue ==
    ("feature" \notin mixed /\ "bug" \notin mixed /\ \A r \in Requests : req[r].at = "idle")
        => told = due

\* The last entry of the activity log is the status the feature has, unless another
\* write came before the entry of an earlier one.
TrailEnds ==
    ("trail" \notin mixed /\ \A r \in Requests : req[r].at # "log")
        => trail[Len(trail)] = feature.status

\* What is kept with a status fits it: the stamps of the feature and of the bug, and the log.
StatusRecorded == FeatureDated /\ BugDated /\ TrailEnds
=============================================================================
