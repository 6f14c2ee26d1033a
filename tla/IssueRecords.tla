---------------------------- MODULE IssueRecords ----------------------------
(***************************************************************************)
(* Bug reports, comments and the activity log around the features of one    *)
(* workspace: BugReportsService, CommentsService and the removal of         *)
(* features.  Requests interleave at the database calls; foreign keys       *)
(* refuse a row whose parent is gone, and deleting a feature deletes its    *)
(* comments and log entries and leaves its bugs without a feature.          *)
(***************************************************************************)
EXTENDS Naturals, FiniteSets

CONSTANTS
    Features,
    Projects,
    ProjectOf,   \* the project of each feature, which never changes
    Assignee,    \* the assignee of each feature, or None
    Bugs,        \* rows the table BugReport may hold
    Members,
    Privileged,  \* members who are ADMIN or MANAGER
    Requests,    \* each makes one call
    Calls,       \* the calls made: subset of AllCalls
    None,        \* null
    Undefined    \* not in the request

AllCalls == {"createBug", "updateBug", "removeBug", "removeFeature", "comment", "uncomment"}

RecordsAssumption ==
    /\ ProjectOf \in [Features -> Projects]
    /\ Assignee \in [Features -> Members \cup {None}]
    /\ Privileged \subseteq Members /\ Calls \subseteq AllCalls
    /\ {None, Undefined} \cap (Features \cup Projects \cup Bugs \cup Members) = {}
    /\ None # Undefined
    /\ {"failed", "refused"} \cap (Projects \cup {None}) = {}

VARIABLES
    features, \* rows of table Feature
    bug,      \* table BugReport
    comments, \* table Comment; a comment goes by the request that made it
    log,      \* table ActivityLog
    told,     \* BUG_REPORTED and COMMENT_ADDED notifications: the request and whom it told
    req,      \* where each request stands
    stale     \* for properties: bugs written by an update that had read another row

vars == <<features, bug, comments, log, told, req, stale>>

NoBug == [project |-> None, feature |-> None, reporter |-> None]
HasBug(b) == bug[b].project # None
KnownBugs == {b \in Bugs : HasBug(b)}
Idle == [at |-> "idle", call |-> None, by |-> None, feature |-> Undefined, project |-> Undefined,
         bug |-> None, old |-> NoBug, comment |-> None, result |-> None]

TypeOK ==
    /\ features \subseteq Features
    /\ bug \in [Bugs -> [project : Projects \cup {None}, feature : Features \cup {None},
                         reporter : Members \cup {None}]]
    /\ \A b \in Bugs : bug[b].feature \in features \cup {None}
    /\ \A c \in comments : /\ c.id \in Requests /\ c.by \in Members
                           /\ c.feature \in features \cup {None}
                           /\ c.bug \in KnownBugs \cup {None}
    /\ \A e \in log : e.feature \in features
    /\ told \subseteq Requests \X Members
    /\ \A r \in Requests : req[r].at \in {"idle", "resolve", "insert", "write", "log", "delete",
                                          "notifyFeature", "notifyBug", "done", "failed", "refused"}
    /\ stale \subseteq Bugs

Init ==
    /\ features = Features
    /\ bug = [b \in Bugs |-> NoBug]
    /\ comments = {} /\ log = {} /\ told = {}
    /\ req = [r \in Requests |-> Idle]
    /\ stale = {}

At(r, call, step) == req[r].call = call /\ req[r].at = step
Go(r, step) == req' = [req EXCEPT ![r].at = step]
Call(r, call) == call \in Calls /\ req[r].at = "idle"

\* resolveProjectId: the project of the feature, which must not be another than the
\* one given; without a feature the one given; or why not.
ResolveProjectId(f, p) ==
    IF f \notin {None, Undefined}
    THEN IF f \notin features THEN "failed"
         ELSE IF p # Undefined /\ p # ProjectOf[f] THEN "refused"
         ELSE ProjectOf[f]
    ELSE IF p = Undefined THEN "refused" ELSE p

(***************************************************************************)
(* Bug reports.                                                             *)
(***************************************************************************)

CreateBug(r, m, f, p) ==
    /\ Call(r, "createBug")
    /\ LET result == ResolveProjectId(f, p) IN
       req' = [req EXCEPT ![r].call = "createBug", ![r].by = m, ![r].feature = f,
                          ![r].project = p, ![r].result = result,
                          ![r].at = IF result \in Projects THEN "insert" ELSE result]
    /\ UNCHANGED <<features, bug, comments, log, told, stale>>

\* The transaction: the bug and, under a feature, its log entry.
InsertBug(r) ==
    LET q == req[r]
        f == IF q.feature = Undefined THEN None ELSE q.feature
    IN
    /\ At(r, "createBug", "insert")
    /\ \/ /\ f \in features \cup {None}
          /\ \E b \in Bugs :
                /\ ~HasBug(b)
                /\ bug' = [bug EXCEPT ![b] = [project |-> q.result, feature |-> f,
                                              reporter |-> q.by]]
                /\ log' = log \cup (IF f = None THEN {}
                                    ELSE {[action |-> "BUG_REPORTED", feature |-> f, bug |-> b]})
          /\ Go(r, IF f = None THEN "done" ELSE "notifyFeature")
       \/ f \notin features \cup {None} /\ Go(r, "failed") /\ UNCHANGED <<bug, log>>
    /\ UNCHANGED <<features, comments, told, stale>>

ReadBug(r, b, f, p) ==
    /\ Call(r, "updateBug") /\ HasBug(b)
    /\ req' = [req EXCEPT ![r].call = "updateBug", ![r].bug = b, ![r].feature = f,
                          ![r].project = p, ![r].old = bug[b], ![r].at = "resolve"]
    /\ UNCHANGED <<features, bug, comments, log, told, stale>>

\* Mutant: what is not in the request is not taken from the bug.
ResolveBug_RequestOnly(r) ==
    LET q == req[r]
        result == ResolveProjectId(q.feature, q.project)
    IN
    /\ At(r, "updateBug", "resolve")
    /\ req' = [req EXCEPT ![r].result = result,
                          ![r].at = IF result \in Projects THEN "write" ELSE result]
    /\ UNCHANGED <<features, bug, comments, log, told, stale>>

\* Only when feature or project is in the request; the other is taken from the bug.
ResolveBug(r) ==
    LET q == req[r]
        f == IF q.feature # Undefined THEN q.feature ELSE q.old.feature
        p == IF q.project # Undefined THEN q.project ELSE q.old.project
        result == IF q.feature = Undefined /\ q.project = Undefined THEN None
                  ELSE ResolveProjectId(f, p)
    IN
    /\ At(r, "updateBug", "resolve")
    /\ req' = [req EXCEPT ![r].result = result,
                          ![r].at = IF result \in Projects \cup {None} THEN "write" ELSE result]
    /\ UNCHANGED <<features, bug, comments, log, told, stale>>

\* The transaction: the fields of the request, the project, and a log entry under the
\* feature that was read (here always, as if every request had a status).
WriteBug(r) ==
    LET q == req[r]
        b == q.bug
        f == IF q.feature # Undefined THEN q.feature ELSE bug[b].feature
        ok == HasBug(b) /\ f \in features \cup {None} /\ q.old.feature \in features \cup {None}
    IN
    /\ At(r, "updateBug", "write")
    /\ \/ /\ ok
          /\ bug' = [bug EXCEPT ![b].feature = f,
                                ![b].project = IF q.result = None THEN @ ELSE q.result]
          /\ log' = log \cup (IF q.old.feature = None THEN {}
                      ELSE {[action |-> "BUG_STATUS_UPDATED", feature |-> q.old.feature, bug |-> b]})
          /\ stale' = IF bug[b] # q.old THEN stale \cup {b} ELSE stale
          /\ Go(r, "done")
       \/ ~ok /\ Go(r, "failed") /\ UNCHANGED <<bug, log, stale>>
    /\ UNCHANGED <<features, comments, told>>

RemoveBug(r, m, b) ==
    /\ Call(r, "removeBug") /\ m \in Privileged /\ HasBug(b)
    /\ req' = [req EXCEPT ![r].call = "removeBug", ![r].bug = b, ![r].at = "delete"]
    /\ UNCHANGED <<features, bug, comments, log, told, stale>>

DeleteBug(r) ==
    LET b == req[r].bug IN
    /\ At(r, "removeBug", "delete")
    /\ bug' = [bug EXCEPT ![b] = NoBug]
    /\ comments' = {c \in comments : c.bug # b}
    /\ stale' = stale \ {b}
    /\ Go(r, IF HasBug(b) THEN "done" ELSE "failed")
    /\ UNCHANGED <<features, log, told>>

(***************************************************************************)
(* FeaturesService.remove: found, logged, deleted.                          *)
(***************************************************************************)

RemoveFeature(r, f) ==
    /\ Call(r, "removeFeature") /\ f \in features
    /\ req' = [req EXCEPT ![r].call = "removeFeature", ![r].feature = f, ![r].at = "log"]
    /\ UNCHANGED <<features, bug, comments, log, told, stale>>

LogRemoval(r) ==
    LET f == req[r].feature IN
    /\ At(r, "removeFeature", "log")
    /\ IF f \in features
       THEN /\ log' = log \cup {[action |-> "FEATURE_DELETED", feature |-> f, bug |-> None]}
            /\ Go(r, "delete")
       ELSE Go(r, "failed") /\ UNCHANGED log
    /\ UNCHANGED <<features, bug, comments, told, stale>>

\* Mutant: the bugs keep the feature.
DeleteFeature_KeepsBugs(r) ==
    LET f == req[r].feature IN
    /\ At(r, "removeFeature", "delete") /\ f \in features
    /\ features' = features \ {f}
    /\ comments' = {c \in comments : c.feature # f}
    /\ log' = {e \in log : e.feature # f}
    /\ Go(r, "done")
    /\ UNCHANGED <<bug, told, stale>>

DeleteFeature(r) ==
    LET f == req[r].feature IN
    /\ At(r, "removeFeature", "delete")
    /\ features' = features \ {f}
    /\ bug' = [b \in Bugs |-> IF bug[b].feature = f THEN [bug[b] EXCEPT !.feature = None]
                              ELSE bug[b]]
    /\ comments' = {c \in comments : c.feature # f}
    /\ log' = {e \in log : e.feature # f}
    /\ Go(r, IF f \in features THEN "done" ELSE "failed")
    /\ UNCHANGED <<told, stale>>

(***************************************************************************)
(* Comments.                                                                *)
(***************************************************************************)

\* create: a feature or a bug, and both have to exist if they are given.
Comment(r, m, f, b) ==
    /\ Call(r, "comment") /\ (f # None \/ b # None)
    /\ f \in features \cup {None} /\ b \in KnownBugs \cup {None}
    /\ req' = [req EXCEPT ![r].call = "comment", ![r].by = m, ![r].feature = f, ![r].bug = b,
                          ![r].at = "insert"]
    /\ UNCHANGED <<features, bug, comments, log, told, stale>>

InsertComment(r) ==
    LET q == req[r]
        ok == q.feature \in features \cup {None} /\ q.bug \in KnownBugs \cup {None}
    IN
    /\ At(r, "comment", "insert")
    /\ comments' = IF ok THEN comments \cup {[id |-> r, by |-> q.by, feature |-> q.feature,
                                              bug |-> q.bug]}
                   ELSE comments
    /\ Go(r, IF ok THEN "notifyFeature" ELSE "failed")
    /\ UNCHANGED <<features, bug, log, told, stale>>

\* Of a bug reported the assignee of its feature is told, of a comment that assignee and the
\* reporter of the bug, as they are now; the key of a notification is the bug's or the
\* comment's, so that who is both is told once.
NotifyFeature(r) ==
    LET q == req[r] IN
    /\ At(r, "createBug", "notifyFeature") \/ At(r, "comment", "notifyFeature")
    /\ told' = IF q.feature \in features /\ Assignee[q.feature] \notin {None, q.by}
               THEN told \cup {<<r, Assignee[q.feature]>>} ELSE told
    /\ Go(r, IF q.call = "comment" THEN "notifyBug" ELSE "done")
    /\ UNCHANGED <<features, bug, comments, log, stale>>

NotifyBug(r) ==
    LET q == req[r] IN
    /\ At(r, "comment", "notifyBug")
    /\ told' = IF q.bug \in KnownBugs /\ bug[q.bug].reporter # q.by
               THEN told \cup {<<r, bug[q.bug].reporter>>} ELSE told
    /\ Go(r, "done")
    /\ UNCHANGED <<features, bug, comments, log, stale>>

\* remove, by the author, an ADMIN or a MANAGER.
Uncomment(r, m) ==
    /\ Call(r, "uncomment")
    /\ \E c \in comments :
          /\ m = c.by \/ m \in Privileged
          /\ req' = [req EXCEPT ![r].call = "uncomment", ![r].comment = c.id, ![r].at = "delete"]
    /\ UNCHANGED <<features, bug, comments, log, told, stale>>

DeleteComment(r) ==
    LET hit == {c \in comments : c.id = req[r].comment} IN
    /\ At(r, "uncomment", "delete")
    /\ comments' = comments \ hit
    /\ Go(r, IF hit # {} THEN "done" ELSE "failed")
    /\ UNCHANGED <<features, bug, log, told, stale>>

Step(r) ==
    \/ InsertBug(r) \/ ResolveBug(r) \/ WriteBug(r) \/ DeleteBug(r)
    \/ LogRemoval(r) \/ DeleteFeature(r)
    \/ InsertComment(r) \/ NotifyFeature(r) \/ NotifyBug(r) \/ DeleteComment(r)

Next ==
    \E r \in Requests :
        \/ Step(r)
        \/ \E m \in Members, f \in Features \cup {Undefined}, p \in Projects \cup {Undefined} :
              CreateBug(r, m, f, p)
        \/ \E b \in Bugs, f \in Features \cup {None, Undefined}, p \in Projects \cup {Undefined} :
              ReadBug(r, b, f, p)
        \/ \E m \in Members, b \in Bugs : RemoveBug(r, m, b)
        \/ \E f \in Features : RemoveFeature(r, f)
        \/ \E m \in Members, f \in Features \cup {None}, b \in Bugs \cup {None} : Comment(r, m, f, b)
        \/ \E m \in Members : Uncomment(r, m)

Spec == Init /\ [][Next]_vars

(***************************************************************************)
(* Properties.                                                              *)
(***************************************************************************)

InProject(b) == HasBug(b) /\ bug[b].feature # None => bug[b].project = ProjectOf[bug[b].feature]

\* A bug is in the project of its feature, unless an update was derived from a row
\* that another one has changed since.
BugInProject == \A b \in Bugs : b \notin stale => InProject(b)

=============================================================================
