------------------------- MODULE NotificationCache -------------------------
(***************************************************************************)
(* The notifications as one client shows them: a cached first page and      *)
(* unread count for each severity, changed in place by streamed events and  *)
(* by marking as read, and fetched again when they are invalidated.         *)
(*                                                                         *)
(* The query library is external: it runs one fetch of a query at a time, a *)
(* later one replaces the one under way unless the query has no data yet,   *)
(* and an answer overwrites what was set in place meanwhile.  The client    *)
(* stays connected, loads no further page and is the member's only one.     *)
(***************************************************************************)
EXTENDS Naturals, FiniteSets, Sequences, SequencesExt

CONSTANTS
    SEVERITIES, \* sequence: the queries, each enabled by the one before
    MaxRows,    \* bound: notifications of the member
    PAGE_SIZE,  \* rows of a page (16)
    MaxMarks,   \* bound: markAsRead and markAllAsRead calls
    MaxFaults,  \* bound: requests that fail
    None

Rows == 1..MaxRows
Severity == {SEVERITIES[i] : i \in DOMAIN SEVERITIES}

CacheAssumption ==
    /\ SEVERITIES # <<>> /\ None \notin Severity
    /\ PAGE_SIZE \in Nat \ {0} /\ {MaxRows, MaxMarks, MaxFaults} \subseteq Nat

VARIABLES
    table,     \* table Notification, oldest first
    told,      \* rows given to the stream
    events,    \* events on their way to the client
    cache,     \* the query data, by severity
    fetch,     \* the fetch under way, by severity
    mutations, \* markRead calls under way
    marks, faults,
    excused    \* for properties: severities invalidated during their first fetch, or with a
               \* row that the poll brought

vars == <<table, told, events, cache, fetch, mutations, marks, faults, excused>>

NoFetch == [phase |-> "none", rows |-> {}, read |-> {}, unread |-> 0]
Empty == [loaded |-> FALSE, rows |-> {}, read |-> {}, unread |-> 0]

Of(s) == {n \in DOMAIN table : table[n].severity = s}
ReadRows == {n \in DOMAIN table : table[n].read}
Newest(S) == {n \in S : Cardinality({m \in S : m > n}) < PAGE_SIZE}

TypeOK ==
    /\ table \in Seq([severity : Severity, read : BOOLEAN]) /\ Len(table) <= MaxRows
    /\ told \subseteq DOMAIN table
    /\ \A i \in DOMAIN events : events[i].type \in {"NOTIFICATION", "SUMMARY"}
    /\ cache \in [Severity -> [loaded : BOOLEAN, rows : SUBSET Rows, read : SUBSET Rows,
                               unread : 0..2 * MaxRows]]
    /\ \A s \in Severity : cache[s].read \subseteq cache[s].rows
    /\ fetch \in [Severity -> [phase : {"none", "list", "count", "answer"},
                     rows : SUBSET Rows, read : SUBSET Rows, unread : 0..MaxRows]]
    /\ \A s \in Severity : ~cache[s].loaded => cache[s] = Empty
    /\ \A m \in mutations : m.rows \subseteq Rows /\ m.done \in BOOLEAN
    /\ marks \in 0..MaxMarks /\ faults \in 0..MaxFaults
    /\ excused \subseteq Severity

Init ==
    /\ table = <<>> /\ told = {} /\ events = <<>>
    /\ cache = [s \in Severity |-> Empty]
    /\ fetch = [s \in Severity |-> NoFetch]
    /\ mutations = {} /\ marks = 0 /\ faults = 0 /\ excused = {}

(***************************************************************************)
(* The server.                                                              *)
(***************************************************************************)

Create(s) ==
    /\ Len(table) < MaxRows
    /\ table' = Append(table, [severity |-> s, read |-> FALSE])
    /\ UNCHANGED <<told, events, cache, fetch, mutations, marks, faults, excused>>

Notification(n, read) ==
    [type |-> "NOTIFICATION", row |-> n, severity |-> table[n].severity, read |-> read]

\* create's push: the row as it was inserted, and a summary after it.
Push(n) ==
    /\ n \in DOMAIN table \ told
    /\ events' = events \o <<Notification(n, FALSE),
                             [type |-> "SUMMARY", severity |-> table[n].severity]>>
    /\ told' = told \cup {n}
    /\ UNCHANGED <<table, cache, fetch, mutations, marks, faults, excused>>

\* The poll finds a row of another process: as it is now, and without a summary.
Poll(n) ==
    /\ n \in DOMAIN table \ told
    /\ \A m \in DOMAIN table \ told : n <= m
    /\ events' = Append(events, Notification(n, table[n].read))
    /\ told' = told \cup {n} /\ excused' = excused \cup {table[n].severity}
    /\ UNCHANGED <<table, cache, fetch, mutations, marks, faults>>

\* list: the page and the unread count are separate reads.
ListRows(s) ==
    /\ fetch[s].phase = "list"
    /\ fetch' = [fetch EXCEPT ![s] = [fetch[s] EXCEPT !.phase = "count", !.rows = Newest(Of(s)),
                                                      !.read = Newest(Of(s)) \cap ReadRows]]
    /\ UNCHANGED <<table, told, events, cache, mutations, marks, faults, excused>>

ListCount(s) ==
    /\ fetch[s].phase = "count"
    /\ fetch' = [fetch EXCEPT ![s] = [fetch[s] EXCEPT !.phase = "answer",
                                                      !.unread = Cardinality(Of(s) \ ReadRows)]]
    /\ UNCHANGED <<table, told, events, cache, mutations, marks, faults, excused>>

\* markRead: the rows named, or all that are there.
MarkRead(m) ==
    /\ m \in mutations /\ ~m.done
    /\ LET hit == IF m.all THEN DOMAIN table ELSE m.rows
       IN  table' = [n \in DOMAIN table |->
                        IF n \in hit THEN [table[n] EXCEPT !.read = TRUE] ELSE table[n]]
    /\ mutations' = (mutations \ {m}) \cup {[m EXCEPT !.done = TRUE]}
    /\ UNCHANGED <<told, events, cache, fetch, marks, faults, excused>>

(***************************************************************************)
(* The client.                                                              *)
(***************************************************************************)

Enabled(s) ==
    \A i \in 2..Len(SEVERITIES) : SEVERITIES[i] = s => cache[SEVERITIES[i - 1]].loaded

\* The first fetch of a query, when the one before has been fetched.
FirstFetch(s) ==
    /\ ~cache[s].loaded /\ fetch[s].phase = "none" /\ Enabled(s)
    /\ fetch' = [fetch EXCEPT ![s].phase = "list"]
    /\ UNCHANGED <<table, told, events, cache, mutations, marks, faults, excused>>

\* invalidateQueries of S: a query with data is fetched anew, whatever was under
\* way; the first fetch of one without data goes on.
Invalidate(S) ==
    /\ fetch' = [s \in Severity |->
          IF s \in S /\ cache[s].loaded THEN [NoFetch EXCEPT !.phase = "list"] ELSE fetch[s]]
    /\ excused' = excused \cup {s \in S : ~cache[s].loaded /\ fetch[s].phase # "none"}

Answer(s) ==
    /\ fetch[s].phase = "answer"
    /\ cache' = [cache EXCEPT ![s] = [loaded |-> TRUE, rows |-> fetch[s].rows,
                                      read |-> fetch[s].read, unread |-> fetch[s].unread]]
    /\ fetch' = [fetch EXCEPT ![s] = NoFetch]
    /\ UNCHANGED <<table, told, events, mutations, marks, faults, excused>>

\* An attempt fails and the query library makes it again.
Retry(s) ==
    /\ fetch[s].phase # "none" /\ faults < MaxFaults
    /\ fetch' = [fetch EXCEPT ![s] = [NoFetch EXCEPT !.phase = "list"]]
    /\ faults' = faults + 1
    /\ UNCHANGED <<table, told, events, cache, mutations, marks, excused>>

\* A streamed row is put first, unless the page has it or there is no page yet.
Prepend(c, e) ==
    IF ~c.loaded \/ e.row \in c.rows THEN c
    ELSE [c EXCEPT !.rows = c.rows \cup {e.row},
                   !.read = IF e.read THEN c.read \cup {e.row} ELSE c.read,
                   !.unread = IF e.read THEN c.unread ELSE c.unread + 1]

OnNotification ==
    /\ events # <<>> /\ Head(events).type = "NOTIFICATION"
    /\ cache' = [cache EXCEPT ![Head(events).severity] = Prepend(@, Head(events))]
    /\ events' = Tail(events)
    /\ UNCHANGED <<table, told, fetch, mutations, marks, faults, excused>>

\* Mutant: the summary is not listened to.
OnSummary_Ignored ==
    /\ events # <<>> /\ Head(events).type = "SUMMARY"
    /\ events' = Tail(events)
    /\ UNCHANGED <<table, told, cache, fetch, mutations, marks, faults, excused>>

OnSummary ==
    /\ events # <<>> /\ Head(events).type = "SUMMARY"
    /\ Invalidate({Head(events).severity})
    /\ events' = Tail(events)
    /\ UNCHANGED <<table, told, cache, mutations, marks, faults>>

Less(n) == IF n = 0 THEN 0 ELSE n - 1

\* markAsRead of a row that is shown as unread: shown as read at once, then told.
MarkAsRead(n) ==
    /\ marks < MaxMarks
    /\ \E s \in Severity :
          /\ n \in cache[s].rows \ cache[s].read
          /\ cache' = [cache EXCEPT ![s] = [cache[s] EXCEPT !.read = cache[s].read \cup {n},
                                                            !.unread = Less(cache[s].unread)]]
          /\ mutations' = mutations \cup {[id |-> marks + 1, rows |-> {n}, all |-> FALSE,
                                           done |-> FALSE, of |-> {s}]}
    /\ marks' = marks + 1
    /\ UNCHANGED <<table, told, events, fetch, faults, excused>>

\* markAllAsRead, offered while the badge is not zero.
MarkAllAsRead ==
    /\ marks < MaxMarks
    /\ \E s \in Severity : cache[s].unread > 0
    /\ cache' = [s \in Severity |-> [cache[s] EXCEPT !.read = cache[s].rows, !.unread = 0]]
    /\ mutations' = mutations \cup {[id |-> marks + 1, rows |-> {}, all |-> TRUE,
                                     done |-> FALSE, of |-> Severity]}
    /\ marks' = marks + 1
    /\ UNCHANGED <<table, told, events, fetch, faults, excused>>

\* The call fails: before it reached the server, or on its way back.
MutationFails(m) == m \in mutations /\ faults < MaxFaults

\* onSettled: however the call ends, the queries it was about are invalidated.
Settle(m) ==
    /\ m \in mutations
    /\ \/ m.done /\ UNCHANGED faults
       \/ MutationFails(m) /\ faults' = faults + 1
    /\ Invalidate(m.of)
    /\ mutations' = mutations \ {m}
    /\ UNCHANGED <<table, told, events, cache, marks>>

Next ==
    \/ \E s \in Severity : \/ Create(s) \/ FirstFetch(s) \/ ListRows(s) \/ ListCount(s)
                           \/ Answer(s) \/ Retry(s)
    \/ \E n \in Rows : Push(n) \/ Poll(n) \/ MarkAsRead(n)
    \/ OnNotification \/ OnSummary \/ MarkAllAsRead
    \/ \E m \in mutations : MarkRead(m) \/ Settle(m)

Spec == Init /\ [][Next]_vars

(***************************************************************************)
(* Properties.                                                              *)
(***************************************************************************)

\* Nothing that could change a query is under way.
Quiet ==
    /\ told = DOMAIN table /\ events = <<>> /\ mutations = {}
    /\ \A s \in Severity : fetch[s].phase = "none"

\* What is shown in the end is what is stored: page, read marks and unread count, after any
\* overlap of fetches, in-place changes, events and failed calls; except for a query that was
\* invalidated during its first fetch or that the poll, which sends no summary, brought a row.
Agrees ==
    Quiet => \A s \in Severity : cache[s].loaded /\ s \notin excused =>
        /\ cache[s].rows = Newest(Of(s))
        /\ cache[s].read = cache[s].rows \cap ReadRows
        /\ cache[s].unread = Cardinality(Of(s) \ ReadRows)

=============================================================================
