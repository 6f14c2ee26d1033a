------------------------------ MODULE MCClient ------------------------------
(* What brings the server's data to the pages: the stream of notifications,  *)
(* the notifications that a tab keeps, the other queries that it keeps, the  *)
(* panel of the first steps, the weekly chart.  The components share no      *)
(* variable: one of them steps, the others stay in an initial state.         *)
EXTENDS NotificationStream, TLC

CONSTANTS k1, k2, c1, s1, w1, w2, WARNING, ALERT, NotAsked, Asked

\* Of the two caches.
CONSTANTS SEVERITIES, PAGE_SIZE, MaxMarks, CachedQueries, MaxChanges, MaxFailures

\* Of the panel.
CONSTANTS Roles, MaxUndone, MaxPanelFailures, MaxClicks

\* Of the chart.
CONSTANTS Zones, Nows, Timestamps, Weeks, MaxEvents

VARIABLES
    part,
    table, pushed, events, cache, fetch, mutations, marks, failed, excused,
    query, changes, applied, ended, told, queryCache, queryFetch, invalid, mounted, missed, failures,
    role, server, invited, page, panelCache, panelInvalid, panelFetch, acks, undone,
    panelFailures, clicks,
    zone, now, completed, buckets

\* Two severities, asked for one after the other.
TheSeverities == <<WARNING, ALERT>>

InCache == INSTANCE NotificationCache WITH told <- pushed, faults <- failed

InQueries == INSTANCE QueryCaches WITH
    Queries <- CachedQueries, Idle <- NotAsked, cache <- queryCache, fetch <- queryFetch

InPanel == INSTANCE Onboarding WITH
    MaxFailures <- MaxPanelFailures, Idle <- NotAsked,
    cache <- panelCache, invalid <- panelInvalid, fetch <- panelFetch, failures <- panelFailures

\* The clocks are put forward or back by an hour, at every hour of three days about the start
\* of a week; not from midnight to one o'clock.
Changes == {z \in [at : 480..551, before : {0, 1}, after : {0, 1}] :
                /\ z.before # z.after
                /\ ~(z.after > z.before /\ (z.at + z.before) % 24 = 0)}

TheTimestamps == 336..680

InChart == INSTANCE WeeklyBuckets WITH events <- completed

notifications == <<table, pushed, events, cache, fetch, mutations, marks, failed, excused>>
queries == <<query, changes, applied, ended, told, queryCache, queryFetch, invalid, mounted,
             missed, failures>>
panel == <<role, server, invited, page, panelCache, panelInvalid, panelFetch, acks, undone,
           panelFailures, clicks>>
chart == <<zone, now, completed, buckets>>

ASSUME ClientAssumption ==
       InCache!CacheAssumption /\ InQueries!CachesAssumption /\ InPanel!OnboardingAssumption
       /\ InChart!BucketsAssumption

PartInit ==
    /\ part \in {"stream", "notifications", "queries", "panel", "chart"}
    /\ Init /\ InCache!Init
    /\ InQueries!Init /\ (part # "queries" => query = "features")
    /\ InPanel!Init /\ server = {"project", "feature"}
    /\ InChart!Init /\ (part # "chart" => zone.at = 480 /\ zone.before = 1 /\ now = 671)

PartNext ==
    \/ part = "stream" /\ Next /\ UNCHANGED <<part, notifications, queries, panel, chart>>
    \/ part = "notifications" /\ InCache!Next /\ UNCHANGED <<part, vars, queries, panel, chart>>
    \/ part = "queries" /\ InQueries!Next /\ UNCHANGED <<part, vars, notifications, panel, chart>>
    \/ part = "panel" /\ InPanel!Next /\ UNCHANGED <<part, vars, notifications, queries, chart>>
    \/ part = "chart" /\ InChart!Next /\ UNCHANGED <<part, vars, notifications, queries, panel>>

PartSpec == PartInit /\ [][PartNext]_<<part, vars, notifications, queries, panel, chart>>

\* The type invariants.
AllTypeOK == TypeOK /\ InCache!TypeOK /\ InQueries!TypeOK /\ InPanel!TypeOK

\* What is shown in the end is what is stored: page, read marks and unread count, after any
\* overlap of fetches, in-place changes, events and failed calls; except for a query that was
\* invalidated during its first fetch or that the poll, which sends no summary, brought a row.
Agrees == InCache!Agrees

\* But for the pairs that are overlooked, the hooks name every query that a change matters to:
\* an answer that is shown as good has each change that the member was told of, except one
\* whose invalidation met an older answer under way and could not call it off.
OwnChangesShown == InQueries!OwnChangesShown

\* "Count timestamps into `weeks` consecutive weekly buckets ending with the current week":
\* each bucket has the timestamps of its local week, whenever the clocks are changed.
Placed == InChart!Placed
=============================================================================
