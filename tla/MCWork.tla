------------------------------- MODULE MCWork -------------------------------
(* The records of the work: releases, projects with their issues and        *)
(* members, the lives of a feature and of a bug, bugs with comments and the  *)
(* activity log.  The components share no variable: one of them steps, the   *)
(* others stay in an initial state.                                          *)
EXTENDS Releases, TLC

CONSTANTS x1, x2, v1, v2, r1, r2, r3, F1, F2, p1, p2, p3, p4, p5, WEB, API,
          q1, q2, b1, ann, bob, eve, dan, pr1

\* Of the lifecycle: who is told, requests, what is asked for, what the webhooks set.
CONSTANTS People, Updaters, FeatureTargets, BugTargets, Webhooks, MaxUpdates

\* Of the records.
CONSTANTS RecordFeatures, RecordProjects, ProjectOf, Assignee, Bugs, Authors, Privileged,
          RecordCalls, Undefined

VARIABLES
    part,
    project, issues, joined, projectReq, nextRow, taken, balance,
    feature, bug, updateReq, trail, notified, updates, due, mixed,
    featureRows, bugRow, comments, log, recordTold, recordReq, stale

InProjects == INSTANCE Projects WITH
    Projects <- {p1, p2, p3, p4, p5}, Legacy <- {p1, p2}, Bases <- {WEB, API}, Members <- {ann},
    Calls <- {"create", "feature", "update", "remove", "addMember", "removeMember"},
    Attempts <- 2, req <- projectReq

InLifecycle == INSTANCE Lifecycle WITH
    Members <- People, Requests <- Updaters, req <- updateReq, told <- notified

InRecords == INSTANCE IssueRecords WITH
    Features <- RecordFeatures, Projects <- RecordProjects, Members <- Authors,
    Calls <- RecordCalls,
    features <- featureRows, bug <- bugRow, told <- recordTold, req <- recordReq

\* Two projects with a feature each, one of them assigned.
TheProjects == F1 :> p1 @@ F2 :> p2
TheAssignees == F1 :> bob @@ F2 :> None

projectVars == <<project, issues, joined, projectReq, nextRow, taken, balance>>
lifecycle == <<feature, bug, updateReq, trail, notified, updates, due, mixed>>
records == <<featureRows, bugRow, comments, log, recordTold, recordReq, stale>>

ASSUME WorkAssumption ==
    InProjects!ProjectsAssumption /\ InLifecycle!LifecycleAssumption /\ InRecords!RecordsAssumption

PartInit ==
    /\ part \in {"releases", "projects", "lifecycle", "records"}
    /\ Init
    /\ InProjects!Init /\ (part # "projects" => project[p1].base = WEB /\ project[p2].base = WEB)
    /\ InLifecycle!Init /\ (part # "lifecycle" => feature.assignee = None)
    /\ InRecords!Init

PartNext ==
    \/ part = "releases" /\ Next /\ UNCHANGED <<part, projectVars, lifecycle, records>>
    \/ part = "projects" /\ InProjects!Next /\ UNCHANGED <<part, vars, lifecycle, records>>
    \/ part = "lifecycle" /\ InLifecycle!Next /\ UNCHANGED <<part, vars, projectVars, records>>
    \/ part = "records" /\ InRecords!Next /\ UNCHANGED <<part, vars, projectVars, lifecycle>>

PartSpec == PartInit /\ [][PartNext]_<<part, vars, projectVars, lifecycle, records>>

Symmetry == Permutations(Requests) \cup Permutations(Versions) \cup Permutations(Releases)

\* The four type invariants.
AllTypeOK ==
    TypeOK /\ InProjects!TypeOK /\ InLifecycle!TypeOK /\ InRecords!TypeOK

\* What is kept with a status fits it, through every sequence of updates, as long as no other
\* writer came between the steps of one: the stamps of the feature and of the bug, and the
\* last entry of the log.
StatusRecorded == InLifecycle!StatusRecorded

\* When nobody's update was mixed with another writer's, the people concerned have been told
\* of each change once: nobody twice, nobody of what he did himself.
ToldAsDue == InLifecycle!ToldAsDue

\* A bug is in the project of its feature, unless an update was derived from a row that
\* another one has changed since.
BugInProject == InRecords!BugInProject
=============================================================================
